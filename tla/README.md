# A formal model of Linux DECnet (RaspbianDECnet)

This directory holds TLA+ modules that model the DECnet kernel module of this
repository (`kernel/net/decnet`) and the programs of `dnprogs` with a protocol
of their own, the TLC configurations that check them on small instances, and
theorems that TLAPS proves for every instance.

## 1. The system

| Component | Source | State it keeps | Operations |
|---|---|---|---|
| NSP data transfer | `dn_nsp_in.c`, `dn_nsp_out.c`, `dn_nsp.h` | per socket (`struct dn_scp`): two transmit queues, next number to send and to expect on each of two subchannels (data; "other": interrupt and link service messages), last acknowledgement received, on/off flow control of each end, interrupt credit, window, pending link service messages | queue, send, retransmit, acknowledge, receive, flow control |
| NSP connection life cycle | the same, and `af_decnet.c` | `scp->state` (16 states, `dn.h:14`), remote port, timers, `sk_state`, `sk_err`, socket state, `SOCK_DEAD` | connect initiate, acknowledgement, confirm, disconnect initiate and confirm, "no link", returned connect initiate, retransmissions of each |
| Session control sockets | `af_decnet.c` | hash tables of ports and listeners, accept queue, receive queues, options | bind, listen, connect, accept, confirm or reject, sendmsg, recvmsg, shutdown, close |
| Socket timer | `dn_timer.c` | persist timer and its function pointer, outgoing timer, keepalive, delayed acknowledgement | one slow timer per socket |
| Router selection, neighbours, devices | `dn_neigh.c`, `dn_dev.c` | neighbour table, designated router of each device, hello and listen timers, addresses | hellos in and out, router lost, addresses, device up and down |
| Route cache and forwarding | `dn_route.c` | hash of routes, flush timer, time of the last router change | look up, insert, expire, flush, forward, return to sender |
| Forwarding tables and rules | `dn_fib.c`, `dn_table.c`, `dn_rules.c` | longest-prefix tables (only with `CONFIG_DECNET_ROUTER`) | add, delete, look up, flush, dump |
| Router daemon | `dnroute` | copy of the neighbour table, lists of routes to nodes and areas | scan neighbours, read hellos and routing messages, set routes, send routing messages |
| File access protocol | `libdap`, `librms`, `dncopy`, `dndir`, `dndel`, `dnsubmit`, `dapfs` | input and output buffer of a connection, what a command has still to do, open files of a mounted file system | the commands and file system calls |
| File access listener | `fal` | one process per link: the file open, the wildcard expanded, the access under way | open, create, erase, rename, directory, submit |
| Phone | `phone` | callers and links of each user's phone, links waiting in `phoned` | ring, answer, reject, talk, hang up |
| Super server | `dnetd`, `libdaemon` | entries of `dnetd.conf` once loaded, the entry of the last connection (`thisobj`), `do_shutdown`, a child for each connection | accept, check node and user, fork, run a program, SIGTERM |
| Remote terminals | `dnlogin`, `apps/ctermd.c` | the read under way with its line and cursor, the read ahead, characters out of band | keys, reads, unread, cancel, bind and unbind |
| Tasks | `dnetd/task_server.c`, `dntask` | the pseudo terminal of a program, the buffer of the copy loop | run, copy both ways, end |
| Mail | `mail` | addressees, the answer buffer, the message on its way to `sendmail` or an SMTP server | send, receive, forward, acknowledge |
| Management, link tests, libraries, the rest of `apps` | the rest of `dnprogs` | | see section 5 |

How they interact.  A user call takes the socket lock, changes the socket and
may sleep, letting the lock go.  A packet comes up through `dn_route_rcv` to
`dn_nsp_rx_packet`, which finds the socket by its port and either runs
`dn_nsp_backlog_rcv` at once or leaves the packet in the backlog of the user
who holds the lock.  The slow timer runs twice a second and puts itself off
while a user holds the lock.  So a handler, a timer and a user call between
two sleeps are each one atomic step of a socket, and everything hard happens
between the steps: sleeps of users, timers, and the network, which may lose,
repeat, delay and reorder packets.  Two exceptions: `dn_returned_conn_init`
runs without the lock, and `dn_accept` lets the listener's lock go before the
new socket is hashed.  Changes of devices, addresses and forwarding tables are
made under the RTNL lock; `dnroute` asks for them by netlink messages, one at a
time, and learns of the kernel's neighbours by a dump.

The programs of user land talk over links, which they see as streams of
records that arrive once and in order, or end.  What is hard there is that both
ends may be killed, fail or give up between any two messages, that output is
kept back and sent later, and that several links, processes and users take part
in one operation.

What makes each part correct:

* data transfer: what is sent on a subchannel is taken once, in order; nothing
  is freed before the peer has it; acknowledgements are for what was sent;
  credits and flow control are neither lost nor doubled; nothing is stuck;
* life cycle: an end enters RUN only with a peer that did; a link that ended
  does not come back; attempts and waits end;
* sockets: ports in use differ, a packet finds the socket of its link and no
  other, a connect initiate finds the listener;
* routing: the designated router is one that was heard lately; a router that
  is gone is given up; cached routes follow the router they were made for; a
  node on the same Ethernet is reached directly; the best router is used;
* file access: what a command reports done is done, nothing is removed that
  was not copied, no answer is taken for that to another question, a command
  ends; the bytes of a message mean to the reader what the writer meant;
* phone: each question gets one answer, and no link is left with one side;
* terminals: a program gets the keys in the order they were typed, each once,
  and a line as its typist left it;
* tasks and mail: no line of output is repeated or out of order; a mail is
  forwarded whole or not at all, and its writer hears of it if not;
* super server: a connection is served by the program and as the user its own
  entry names, and every caller hears how it stands.

## 2. The modules

| Module | What it is |
|---|---|
| `NspSeq` | the arithmetic of sequence numbers, with half the number space as the parameter `SeqHalf` (2048 in the code) |
| `NspScp` | one socket of an established link: the fields of `dn_scp` for data transfer, each handler an operator from a socket to a socket |
| `NspChannel` | abstract: what a link promises its users, ordered channels without loss or repetition |
| `NspData` | two sockets over a network that keeps every packet ever sent and delivers any of them at any time, any number of times or never |
| `NspWrap` | two sockets over a path that keeps order and loses packets, with no bound on the numbers and with fairness |
| `NspLink` | the life of a link: calls, timers, packets, restarts of a caller and a listening node |
| `DnSock` | the sockets of a node: port numbers, the hash lists and the lookups in them |
| `DnRouter` | the designated router of an end node: hellos and the listen timer |
| `DnRoute` | the route cache and the sockets that use it, on top of `DnRouter` |
| `DnFib` | the forwarding table of a router, its devices, addresses and neighbour entries |
| `Dnroute` | the router daemon on top of `DnFib` |
| `DapWire` | the DAP messages as bytes: items, widths, bit masks, headers, and what reader and writer compute from them |
| `DapStream` | a connection of `libdap`: blocked output, records, segments, input buffer |
| `Routing` | an end node or a router: `DnRoute` and `Dnroute` |
| `Dap` | DAP messages between two ends as the programs exchange them, with output kept back and links that break |
| `DapUser`, `DapTools`, `Librms`, `Dapfs` | the end of the commands (`DapTools`: dncopy, dndel, dndir, dnsubmit), the record library and the mounted file system |
| `Fal` | the listener's end, one process per link |
| `FileAccess` | all of these composed, with faults |
| `Phone` | phones, `phoned` on both nodes and the links between them |
| `LogicalLink` | a link as two programs see it |
| `Dnlogin` | the terminal of `dnlogin`: keyboard, read ahead, line and messages |
| `Terminal` | a session of it with `ctermd`, or with a VMS host |
| `Tasks` | a program on a pseudo terminal, the copy loop and `dntask` |
| `Mail` | `sendvmsmail`, `vmsmaild` and what takes the mail from it |
| `Dnetd` | the super server, its children and its callers |
| `Programs` | one of the four before |
| `MC...` | the instances TLC checks |
| `..._proofs` | lemmas and theorems |

`NspData` and `NspWrap` compose two sockets of `NspScp`, which uses `NspSeq`;
`NspData` is shown to implement `NspChannel`.  `DnRoute` extends `DnRouter`: a
step of the router (`RouterStep`) also ages the cache.  The network of the
`Nsp` modules stands for what `DnRoute` models, and more: whatever route a
socket has, its packets may be lost.  `Dnroute` extends `DnFib`: the steps of
the kernel come between those of the daemon.  `FileAccess` composes the program
a user runs with `Fal` over the links of `Dap`; `DapStream` is the layer below,
from messages to records, and uses `DapWire`.  The links of `Dap`, `DapStream`,
`Phone` and `LogicalLink` promise what `NspChannel` says, or break.

`Routing` and `Programs` put side by side what does not interact: a behaviour
chooses its `scene` at the start, a kind of node or a program, and only that
takes steps.

### Correspondence with the code

In `NspScp` and `NspLink` a handler is an operator with the name of the C
function, as near as TLA+ allows, from a socket to a socket.  It includes what
the function calls: `dn_ack` includes `dn_nsp_check_xmit_queue`, which includes
`dn_nsp_schedule_pending` and, when the newest segment acknowledged had been
repeated, `dn_nsp_output`.  What is handed to `dst_output` goes into the field
`out` and from there into the network when the step ends.

* A transmit queue is a set of segments in the order of `id`, a count that does
  not wrap, with the number (`seg`) and the acknowledgements (`ack`) that
  `dn_nsp_queue_xmit` put into the header.  A retransmission is the same
  packet, as `dn_nsp_clone_and_send` sends it: old acknowledgements included.
* Data is not modelled; `got` and `nsent` are history, not code.
* Round trip times decide only when a timer runs, and timers may always run.
  Whether the link was idle for a round trip, which resets the window, is
  therefore a choice.
* The delayed acknowledgement timer has no action, because `dn_nsp_in.c:703`
  sets it only if it is already running.
* The code never asks its peer for segment or message flow control, so a peer
  that runs the same code never counts data credits; those branches of
  `dn_queue_too_long` and `dn_nsp_linkservice` are left out.
* A packet is accepted into a receive buffer with any room, as the comparison
  of `sk_rmem_alloc` with `sk_rcvbuf` does; sizes are counted in segments.

In `NspLink`:

* `sock[p]` is the socket of port `p`; callers have their port from the start
  (`dn_bind`), an accepted socket gets one in `dn_accept`.  A port is used for
  one connect.
* `call` is where a process sleeps: `connect` in `dn_wait_run`, `accept` in
  `dn_confirm_accept`, `take` between the two halves of `dn_accept`; `failed`
  is an accept that returned an error, after which the kernel only releases
  the socket.
* Link service messages are numbered, and acknowledged one at a time, because
  they decide when an accepted socket enters RUN and which timer function is
  installed.
* `nsp_rxtshift` saturates at `DiCount`, above which no branch tells values
  apart.  `quiet`, whether two seconds passed since the socket last saw a
  packet, is a choice.
* When a packet's socket does not exist, only a connect confirm is answered
  ("no link", as `dn_nsp_no_socket` does), so other packets for sockets that
  are gone are taken out of the network (`Carried`).

In `DnRouter` and `DnRoute` (an end node, built without
`CONFIG_DECNET_ROUTER` as `BuildAndInstall.sh` does):

* The hello handler holds the lock of a neighbour entry and the timer none, so
  both may be in the middle at once.  Each is two steps, around the exchange of
  `dn_db->router` (`HelloStart`, `HelloEnd`; `TimerStart`, `TimerEnd`).  Two
  hellos are not handled at once.  `silent` is history: the seconds begun since
  a hello of the router was heard.
* A cache entry is named by its key (`fld` of `struct dn_route`): one of the
  packets sent to a node and one of those received from it.  `sk_dst_cache` is
  a key.  `fresh` says that `rt_created` is after `dn_rtrchange`; a jiffy must
  pass after a change for that (`Jiffy`).
* `dn_route_output_slow` is two steps after the lookup: the choice of the next
  hop (`Resolve`) and the making and insertion of the route (`InsertOut`); the
  call holds the socket, but not the router, the table or other sockets.  A
  packet that arrives is one step.  `seen` is history: the values of
  `dn_db->router` during a connect.
* Nodes of `Near` are on the same Ethernet and their packets have the
  intra-Ethernet bit, which `dn_output` sets in every packet and routers
  clear on the way from elsewhere.

In `DnSock`, on one node:

* A socket is in one list at most; the lists are a field (`hashed`, `wild`,
  `port`, `obj`).  The port counter runs over `1 .. Ports` (`port_alloc` takes
  0x2000 and up) and the hash of an object number is that number modulo
  `HashSize`.
* A packet of any link may come at any time.  What follows is `NspLink`'s; here
  a state is one of those that lookups and calls tell apart (`CI` stands for
  `CD` too, `END` for every closing one).  A socket closed in `CI` stays there
  until a packet or its timer ends it, as `dn_destroy_sock` leaves it.
* The check of the node address in `bind`, privileges and autobind's choice of a
  device are left out.

In `DnFib` and `Dnroute` (a router, built with `CONFIG_DECNET_ROUTER`):

* A route has one next hop and priority 0, as those that `dnroute` and the
  kernel itself make.  A zombie entry is no entry, and what
  `dn_fib_sync_down` marks dead is flushed in the same step.
* `RT_TABLE_LOCAL` is the set of devices with a route to each address; keys of
  `RT_TABLE_MAIN` are nodes (16 bits) and areas (6 bits).
* A scan is the dump (`StartScan`), one step for each entry (`GotNeigh`) and one
  for each node that was not among them (`Sweep`); one entry of a routing
  message is one step.  The kernel may take steps between any two.
* `flushed` is history.  Hops, checksums, the daemon's own messages and the
  entry of its own area are left out.

In `Dap` and the modules above it:

* A message is a record of its type and what a program looks at; the bytes are
  in `DapWire`.  Links start with both configuration messages sent.  The queue
  of output and the records it goes out in are kept, because a program that
  waits with output held back waits for ever.
* `user` is the program that runs, with `pc` for where it waits; `srv[l]` is the
  `fal` process of link `l`.  A record of a file is its text and whether its
  line ends; files are sequences of records.
* Not modelled: PROTECT, DATE and ALLOC messages as such, block mode, VMS file
  names and versions, virtual roots, metafiles and file types, locked files,
  lines longer than a buffer, STATUS sent to `fal`, END_OF_STREAM (never sent),
  CONTROL messages other than connect, get and put, names with a dot on a
  mounted file system, the effect of printing and submitting.

In `DapWire` and `DapStream`:

* A message is the sequence of items its writer puts, each with its width, and
  a reader is the same for its items; the same byte may be read by one and not
  written by the other.  KEYDEF and SUMMARY, stream numbers, bit counts, system
  specific fields and dates are left out.
* One direction of one connection.  Links that break are `Dap`'s.

In `Phone`:

* A link is two queues and who holds it: `phoned`, the pipe to a phone, a phone
  or nobody.  A phone is started once and a user has one.  Text, HOLD,
  DIRECTORY and the windows are left out, and links break only at an end.
* Each user is alone on his node, so a `phoned` deals with one phone, and with
  any number of links to its user.  When it passes on a link for the link's own
  message, it closes any of the others whose CONNECT it has not read
  (`Nameless`, `Closes`; see section 6): those in later places of `fdarray`,
  which are not kept, so any set of them.  They stay in the model as `dropped`.

In `LogicalLink`: a write on a link that is gone fails, a read on it returns 0
however often it is called, and the disconnect of the far end may arrive before
what was sent earlier has been read, which is then lost.

In `Dnlogin` and `Terminal`:

* A handler is an operator from a terminal to a terminal, as in `NspScp`; what it
  writes goes into `out` and from there on the link.  Keys are characters and
  names of control characters; the arrow keys send three.  The screen, prompts
  and echo are left out.
* `ctermd` asks for single characters or whole escape sequences, and `given` is
  what it wrote to the pseudo terminal.  A VMS host is not part of this code; it
  asks for lines in each way that `cterm_process_start_read` tells apart.
* `since` (what the line of a read began with, and the keys, cursor keys and
  discarding since) and `typed` are history.  Keys for which the read ahead has no room
  are dropped by the code and do not count as typed.

In `Tasks`:

* The pseudo terminal is canonical with echo, as `openpty` leaves it: a newline
  is shown as CR LF, and a program gets whole lines.  `CopyOut` reads what is
  there, at most `ChunkSize` characters (1024 in the code), splits it as
  `strsep` does and sends each piece.
* `split` is history: a read ended inside a line.

In `Mail`: the text of a line is a name; a line of 255 characters and more is
several, because `fgets` returns it in pieces and each is sent as a line; headers, character sets and binary
mail are left out.  `sendmail` and an SMTP server are external: they take a
message or refuse it.  Each `read` and `write` of the two programs is a step.

In `Dnetd`:

* `file` (what `dnetd.conf` held when a connection was taken) and `db` (the
  entries that its server had then) are history.
* `main` is the process that was started, `stray` a child that went on in the
  loop after it could not change its user; each has its own copy of
  `do_shutdown`, the entries and `thisobj`.
* SIGTERM may come at any time, and interrupts nothing but `accept`.  The file is
  edited at any time and loaded when a connection finds no entries.  fork,
  setuid and exec may fail.
* `holders` are the processes with a copy of a socket: a caller is closed when
  there are none.

Definitions that start with `Bad` are mistakes that a programmer could make in
the definition they precede.  No specification uses them; substituted for the
right definition each makes the property it is meant for fail, which shows
that the property depends on that piece of code.

## 3. The runs

| Run | Module, cfg | Checks | Shows |
|---|---|---|---|
| data | `MCNspData`, `_Data` | `InOrder`, `NoSegmentLost`, `OrderedLink`, `OtherData`, `SwitchAgreement` | data into a full buffer, interrupt messages, credits and flow control, over a network that does everything to packets |
| resume | `MCNspWrap`, `_Resume` | `SendersResume`, `QueuesDrain` | over a lossy path a stopped sender is started again, the credit returns and all is acknowledged |
| twice | `MCNspLink`, `_Twice` | `TypeOK`, `OneLinkPerConnect` | one link for one connect, however often its packets arrive |
| users | `MCNspLink`, `_Users` | `EndIsFinal` | every order of the user calls of both ends |
| end | `MCNspLink`, `_End` | `ConnectSettles`, `DestroyTimerFrees` | attempts end, closed sockets go |
| sockets | `MCDnSock`, `_Sockets` | `PortsApart`, `LinkFound`, `NoListenerLost` | three sockets in every order of calls, over a turn of the ports |
| routes | `MCRouting`, `_Routes` | `RouterHeard`, `IntraEthernet`, `AddressLocal`, `DirectRoute`, `BestChosen`, `FailedRouterDropped` | an end node with two routers that fail and return and a link to a near node; a router and its daemon while nodes, addresses and devices come and go |
| files | `MCFileAccess`, `_Files` | `CopiedWhole`, `NothingMissed`, `OnlyFetchedRemoved`, `CallsApart`, `CommandEnds` | every command against `fal`, with faults |
| wire | `MCDapStream`, `_Wire` | `Decoded`, `WholeMessages`, `MeaningKept` | messages as bytes, through blocks, records and segments |
| phone | `MCPhone`, `_Calls` | `OneReply`, `DialSettles`, `ClosedTogether` | two users who call, answer, reject and hang up, or dial each other |
| programs | `MCPrograms`, `_Programs` | `KeysInOrder`, `LineAsEdited`, `TaskOutput`, `MailSettled`, `EntryHonoured`, `KeysArrive`, `EveryAnswered` | terminal sessions, tasks, mails, and a super server with its callers while its configuration is edited |
| stale | `MCNspWrap`, `_Stale` | `AckOnlySent`, violated | an old acknowledgement comes with a repeated segment after half the number space |

Run stale shows that the code does not do what a comment in it says; the finding
in `PROJECT.json` quotes the comment.  What else differs is in section 6.  Where
the code does not keep what would be expected of it, a property states the
condition under which it holds: `CopiedWhole` (files whose lines are ended, and an
empty record that `rms_read` adds), `CallsApart` (until a missing file is asked
for), `DialSettles` (no circle of users who dial each other), `EntryHonoured` (the
entries as the server loaded them), `MailSettled` (as its comment says).

Type invariants: that of `NspLink` is checked in run twice and proved; those of
`NspData`, `DnRoute`, `Dnroute` and `DnSock` are proved for every instance
(section 4) and not checked again.

Deadlock is checked in run sockets.  The other systems really stop: users have
nothing more to do, a command or a session is over, a bound is reached, or
everything around a node has gone away.

### Bounds

* `SeqHalf` is 4 in run data, where fewer than `SeqHalf` segments of each
  subchannel are numbered (`MaxSeg`): a network that keeps packets for ever
  breaks any protocol with numbers that wrap, so the property is stated as far
  as it can hold.  The proofs have no such small value.  In `NspWrap`, whose path
  keeps order, there is no such bound: with `SeqHalf` 3 the four segments of run
  stale are more than half the numbers.  Run resume stays below half of them, since
  beyond it an old acknowledgement frees what has not arrived.
* `RcvBuf` 1 makes one segment fill the receive buffer and congest the
  receiver, so that drops, DONTSEND and SEND all occur with few segments.
* `TimerRoom` lets a retransmission timer run only when few packets are in
  flight, which keeps the network finite; `MaxLoss` counts losses.
* `Retrans` (4 in the code) is 0 or 1: a socket that gives up and one that
  repeats first.  `DiCount` (3) is 1.  `Backlog` 0 admits one waiting connect
  initiate, as `sk_acceptq_is_full` does.
* `Use` names the less common calls that users make in a run (`wait`: calls
  that sleep; `again`: connect called again; `reject`; `read`; `shutdown`;
  `unlisten`: the listener is closed), `MaxLink`, `MaxLoss`, `MaxDup` and
  `MaxCrash` bound link service messages, losses, repetitions and restarts.
  Between them the passing runs use every one of them.
* Two routers that announce listening times of 3 and 1 seconds, and an own one
  of 2, make each of the three the longest left over from another; one socket
  and one near node suffice for `IntraEthernet`, because sockets meet only in
  the cache, whose entries arriving packets and earlier links of the same
  socket make as well.
* Three sockets, three ports and two hash lists (`DnSock`) make ports turn, two
  sockets meet in a list, the one object share a list with a port, and a
  listener, its accepted socket and a third meet in every order.  Several objects
  in a list are left to the proof.
* `Lans` in run routes: two routers that say they reach the same node, two
  area routers of different areas, one area router heard on two Ethernets that
  go down and up, and an end node on both with an address that comes and goes.
* The calls on a mounted file system in run files end with one about a file that
  is gone; nothing is claimed of the calls after that (`CallsApart`).
* In run files, `BlockSize` 3 and `Room` 2 make a block fill and a receiver
  full with a file of two or three records; `MaxFaults` 3 admits a fault during
  the handling of another.  Faults: a file cannot be made, a write fails, a
  process is killed, a link ends, a file cannot be opened, somebody else
  removes a file.
* In run wire, four messages (`MaxMsgs`) of every type the programs send, one
  change between blocked and not (`MaxToggles`), a block of 100 and segments of
  70 bytes, so that messages fill blocks and segments cut messages.
* In run programs, `AheadSize` 3 (128 in the code) lets the read ahead fill;
  `MaxAsk` 2 reads of a VMS host, and one thing it says besides (`MaxTalk` 1),
  put every kind of read before and after keys typed ahead, each session being a
  sequence of keys that mixes text, editing, escape sequences and interrupts.
  `ChunkSize` 4 cuts the output of a task inside lines, between CR and LF and at
  the end of a line.  The mails are empty, with a lone dot, and with a last line
  that has no end.  Two connections, one after another or together, suffice for
  `thisobj` and the entries to be kept from one to the next.
* In run phone one user's phone may be killed and only he answers; four links
  are enough for a call, a second call and the calls back.  Either one user
  dials the other twice, so that `phoned` may have two links of his, or each dials
  the other once.  Several callers of one user are left to the proof.

### Fairness

* The network delivers what it does not lose: weak fairness of delivery, in
  `NspLink` for each kind of packet, so that repetitions of one do not starve
  another.
* The slow timer of a socket rearms itself unconditionally (`dn_timer.c`), so a
  persist timer that is set is served: weak fairness of `PersistTimer` and
  `ConnTimer`.  In `NspLink` this includes that a socket which should be
  removed hears nothing for two seconds some day.  In `NspWrap`, where the
  timer waits for room in the bounded network, it is strong fairness.
* A process that sleeps in a call whose condition holds returns from it.
* Readers read (`NspWrap`): `SendersResume` says nothing of a user who
  never reads.  Nobody has to send, call, close or answer.
* The listen timer starts itself again each second, and neither the hello
  handler nor the timer stops half way (`Routing`): weak fairness of their
  steps.  No router has to send hellos, and no router has to come back.
* In `FileAccess` processes run on while they can, and a link that one end has
  closed is closed for the other some day.  Nobody waits for a user, except for
  the answer to a question that was asked.
* In `Phone` `phoned` and the programs read what is there.  A phone that rings
  does so every ten seconds and reads in between, hence strong fairness of what
  it reads from the far ends.  Nobody has to press a key.

* In `Terminal` and `Dnetd` (`TermFair`, `DnetdFair`) every process runs on while
  it can, a link closed at one end is closed at the other some day, and the
  programs that serve a connection end.  Nobody has to type, log out, call or
  stop the server.

Where evaluating ENABLED of an action would dominate a run, the fairness
formula spells out the condition that enables it.

## 4. What is proved

Every theorem holds for all values of the constants that the named assumptions
admit; what the runs bound (ports, sockets, losses, segments, retransmissions)
is arbitrary here.

| Proofs | Theorem | Property |
|---|---|---|
| `NspData_proofs` | `TypeCorrect`, `OrderedDelivery`, `Retained` | `TypeOK`, `InOrder`, `NoSegmentLost` |
| | `ImplementsChannels` | `OrderedLink`, the refinement of `NspChannel` |
| | `CreditKept`, `SwitchAgreed` | `OtherData`, `SwitchAgreement` |
| | `AfterAsymmetric`, `NoWrapOrder`, `TurnKeepsOrder` | the arithmetic of numbers |
| `NspLink_proofs` | `LinkTyped`, `OneLink`, `StaysEnded` | `TypeOK`, `OneLinkPerConnect`, `EndIsFinal` |
| `Sockets_proofs` | `SocketsTyped`, `PortsDiffer`, `OwnSocket`, `ListenerKept`, `NeverTwice` | `TypeOK`, `PortsApart`, `LinkFound`, `NoListenerLost`, `HashedOnce` |
| | `RepliesMatched` | `OneReply` |
| `DnRoute_proofs` | `RouterIsRecent`, `RoutesAreTyped`, `NearIsDirect` | `RouterHeard`, `TypeOK`, `IntraEthernet` |
| | `RouterIsTyped`, `AddressesAreLocal`, `NeighbourIsDirect`, `BestIsChosen` | `DnrouteTypeOK`, `AddressLocal`, `DirectRoute`, `BestChosen` |
| `DapStream_proofs` | `RecordsAreWhole`, `LengthKept` | `WholeMessages`; the length of a data message |
| `Programs_proofs` | `MailForwarded`, `OutputKept`, `EntriesHonoured` | `MailSettled`, `TaskOutput`, `EntryHonoured` |
| `Terminal_proofs` | `LinesKept`, `KeysKept` | `LineAsEdited`, `KeysInOrder` |
| `FileAccess_proofs` | `FetchedOnly` | `OnlyFetchedRemoved` |

All proofs have the same shape: a lemma for each operator of the model that
says what it changes, a lemma for each action, one for the whole next-state
relation, and a temporal step.

### Numbers and data (`NspData_proofs`)

The assumptions are those of the code: a number space of at least four, a
window below half of it, at least one segment of buffer.  `NspData` adds that a
subchannel numbers fewer than `SeqHalf` segments.

`InOrder` is not inductive: that a segment with the expected number is the
expected segment depends on every packet in the network, and that a segment may
be freed depends on every acknowledgement in it.  The inductive invariant `Inv`
says, of each socket and of each packet ever sent:

* a number is the count of segments it stands for, and an acknowledgement
  received is no later than the peer's count of segments taken (`Sound`);
* a packet's number is that of its `id`, which its sender has numbered, and its
  acknowledgements are no later than what its sender had taken then, so no
  later than what it has taken now (`Stamped`);
* the transmit queue is exactly the segments after the acknowledgement
  (`Core`).

Numbers less than half the space apart are ordered as the counts they stand for
(`NoWrapOrder`), which turns comparisons of
numbers into comparisons of counts.  `dn_before` and `dn_after` are asymmetric
for numbers that do wrap (`AfterAsymmetric`), and two numbers that both go on by
one compare as before, at the turn of the space too (`TurnKeepsOrder`).  With
`NoWrapOrder` this gives that numbers less than half the space apart compare as their counts,
however often they have turned.  That they stay so near over a turn is not proved,
and of an acknowledgement in a repeated segment it is not so (run stale).
Then come the types of what each handler returns, and that each keeps the rest of
the invariant and only adds to the history.  Every action is a handler followed by `Step`, so one lemma on
`Step` serves them all.

### Interrupts, credits and the switch (`NspData_proofs`)

`OtherData` counts the interrupt credit over both ends and everything between
them; `SwitchAgreement` says that an end with nothing due and nothing
unacknowledged has told its peer how its switch stands.  `OInv` adds to `Inv`:

* other data is stop and wait: one segment is queued, it is the last one
  numbered, and packets with its number are copies of it (`Waiting`, `Copies`).
  So a message that is accepted is the one the peer has queued, whatever the
  network repeated or delayed;
* the credit is 1 over what the sender has, what is queued and not accepted,
  what the reader has, and what is due or queued on the way back (`ToSend`,
  `ToReturn`).  `Accepted`, the count of messages that the peer took, decides
  what is still open; without it an acknowledgement that is late would make a
  credit count twice;
* the switch is told: with nothing due, it is what the segment still open says,
  or else what the peer believes (`Told`).

### The life of a link (`NspLink_proofs`)

`PortAssumption` keeps the ports of both ends apart; the retransmission
count and the bounds are any numbers.  `LinkInv` adds to `TypeOK` and
`OneLinkPerConnect`:

* in CI and CC the connects sent and those left make `Retrans + 1`
  (`Good`): each failure of the persist timer moves one from the second to the
  first, which bounds `tries`;
* a link service message is due only while one is unacknowledged, so a number
  is never given out beyond `MaxLink`; before RUN none has been numbered;
* link service messages and acknowledgements come only from a socket that has
  been in RUN, and go to its peer (`Mine`, `Routed`).  An accepted socket enters
  RUN because of such a packet, so its caller has been there; two accepted
  sockets cannot both, because the caller that was in RUN keeps its peer
  (`Follows`).  The invariant speaks of packets by what their sender is now,
  not was: `ran` and the remote port never change back;
* a socket that `dn_accept` has taken from the queue but not yet hashed is in CR,
  unconnected and without timers (`Good`, the line of `take`).

A handler `Works` when it keeps `Good` and `Follows` and sends only what is
`Mine`; this composes as handlers call each other, and one lemma (`StepKeeps`)
turns it into the invariant for packets, timers and calls.  `StaysEnded` is the
second half of `Follows`.

### Sockets and the phone (`Sockets_proofs`)

For all sets of sockets, ports, peers and objects and every hash size, the
inductive invariant adds where a socket must be by its state: one with a
link has a port (`OwnPort`), one with a number is in the list of that number
(`Placed`), one bound is in a list (`BoundFiled`), a listener in the list of its
object (`ListenPlaced`), and a port that a failed bind has left behind is marked
(`KeptPort`), because it is the one way for two sockets to get the same port
(section 6).

The same module holds the proof about a program that lives on these sockets, the
phone, for all sets of users, what they dial, how they are disposed and who may
end, and any number of links.  The one assumption, `PhoneAssumption`, is that
`None` is not the number of a link.  `OneReply` is not inductive: that what is
read is an answer to what was asked depends on who may write on the link and who
reads it.  The inductive invariant (`PInv`) adds:

* a link that `phoned` closes unread leaves its opener with nothing to wait for:
  its far end is shut, which `OneReply` excepts because the read then fails;
* a phone waits for and rings on links that it opened itself; it waits for a
  call in "connect" and only then, and rings on no link meanwhile (`PhoneOK`),
  so that what one phone asks is no other phone's question;
* what is in an entry or in a pipe is a link that has left `phoned`, and a pipe
  has links to its own user only (`PipeOK`);
* CONNECT is the first message of a link, and none is left when a name has been
  read or the link has left `phoned` (`LinkOK`), where nobody would answer it;
* on each link that its opener waits for or rings on, as many answers are due as
  he waits for (`ReplyOK`, which is `OneReply` of one link).

Most of what happens neither asks nor answers: closing, deleting an entry,
calling back.  `After(ks, ls)` says so of a whole list of links and is closed
under these operations; `Since` carries it through the loops of `do_answer` and
`do_hangup`, which are functions of the number of entries they have come to.
Their induction (`Recursion`, `Kept`) is made from the theorem that the natural
numbers are well founded, since those with an operator as a parameter cannot be
used.

### Routing (`DnRoute_proofs`)

The end node, for all sets of routers, nodes and sockets and all listening times
that are not zero; routers, near and far nodes are distinct.  For
`RouterHeard`, the silence of the router and what is left of its
time must stay within the longest time together (`Left`), and the value that a
handler between its two steps is about to write counts as well as `t4`
(`Bounded`); a hello under way has seen at most one second begin (`Brief`),
without which its late write could renew a router that is long gone.  For the
other two, the entry of a near node's packets has that node as its next hop
whenever it exists (`NearOK`), and the entry a socket holds is in the cache
(`Holds`), because expiry leaves what is held.

The router and its daemon, for all sets of nodes, areas, devices and addresses
and all contents of routing messages (`AreaAssumption`: each node has an area
and is not one; `NilAssumption`: nothing is called `Nil`; `DnrouteAssumption`:
levels, priorities and costs are numbers).  The daemon acts on what the kernel
said some steps ago, so `RouterInv` has to say how old news stands:

* a device with an address is among the devices of that address's local route
  (`AddressKnown`), which is what makes the route survive the removal of the
  same address elsewhere;
* a neighbour entry is on a device that is up and has its addresses, and so is
  each entry of a dump, unless the device has been flushed since
  (`DumpFresh`); this is why a route that the daemon sets from a dump is not
  refused;
* `ToNeighbour`, which is `DirectRoute` before the lookup: the route of the
  node's own key, with any device of its `hash` entry;
* `Chosen`, which is `BestChosen` of one list of routes, and is proved of each
  operator that changes a list: update, invalidate and choose.

`RoutingInv` joins both kinds of node; the theorems about the end node hold of
`RoutingSpec` too (`EndNodeToo`).

### Streams, mail, tasks and the super server (`DapStream_proofs`, `Programs_proofs`)

`RecordsAreWhole` needs `StreamAssumption` (block and segment sizes are not
zero) and that the output buffer starts at the end of a message (`OutOK`), that
ends of messages are in order (`EndsOK`) and that every cut is one (`CutsOK`).

`MailForwarded` needs `MailsAssumption`: only the last piece of a mail may be
ended by the end of the file.  What `sendvmsmail` writes depends on the mail alone, so `MailInv`
states it as a script and counts: what `vmsmaild` has read and what is under way
are the script as far as the sender has come (`Streamed`), for as long as
`vmsmaild` has the link; until it has forwarded the mail there are as many
acknowledgements under way as it has addressees (`AcksCounted`); what was taken
from it is the whole mail (`TakenWhole`).  The counting is what excludes that
the first acknowledgement passes for the second, except for mails without a
body, which `MailSettled` excepts (section 6).

`OutputKept` needs `JobsAssumption`, which leaves out programs that write CR by
themselves, because `copy` skips the character after it, and `ChunkAssumption`,
that the buffer is not empty.  The lines of the terminal are a walk over the
characters it showed (`Walks`); what more is shown only prolongs the walk
(`WalkOn`, `WalkUp`).  The invariant `Spot` says where on it `copy` is: what the
terminal still has begins behind the first n characters, and the messages that
`dntask` has printed or that are on their way to it
are ends of lines that have ended before n, one line for each, in order
(`Fits`).  A line counts as ended from its CR on, not from its LF, since a read
may end between the two and the piece before the CR is sent.  While every read has
ended behind a newline the messages are exactly the ended lines (`Lined`), as
long as both ends of the link are there, and the first of them afterwards
(`Begun`).  A chunk is followed round by round of `strsep` (`RoundAt`): each round
finds the next delimiter, and a piece that a CR or LF ends is an end of the line
it is in (`PieceFits`), or all of it (`PieceLined`).

`EntriesHonoured`, for every `dnetd.conf` at every time, proxy file and number
of connections: a child carries the entry for its own connection, and the
entries it was found in (`ServedRight`), so that it does not matter that the
server that forked it goes on to another connection.  That these entries are
what the file held when this connection or one before it was taken is a second
invariant (`FilesInv`), about every process that has entries, each connection and
each child; it needs that no connection is taken twice, or what it remembers of
the file would change (`Untaken`, `Queue`).  Connections taken later are served by
the same entries, whatever the file holds by then.

### Terminals (`Terminal_proofs`)

Both hold for all sessions, reads and room to type ahead.  `KeysAssumption` and
`AheadAssumption` are about the alphabet and say that there is some room;
`SessionsAssumption` and `ReadsAssumption` say that keys are keys and a host
sends reads.

What an editor makes of a line, and the presses that login sees, are recursive
functions over a sequence of keys.  Of any such function one lemma
(`Recursion`) says that it exists, and others that one more key is one more
step; everything else about them follows without recursion.  Induction over
numbers is done by the least counterexample (`NatUp`).

`LinesKept`: `since` is what the line began with and the keys since.  The
invariant `Kept` says more than `LineAsEdited`: the insert mode of the terminal is
the editor's too (`InStep`), because the next key depends on it, and everything
has its type.  A read that begins has the typeahead typed into it one key at a
time, so the same lemma serves a key that is typed and a key from ahead.

`KeysKept`, for sessions with `ctermd`: what login was given, what is in flight
to it (`InFlight`) and what the terminal holds (`HeldBy`), one after the other,
are the keys typed (`Streams`).  For that to be inductive:

* the terminal holds keys in an escape sequence while a read is pending, and in
  the typeahead while none is; the line is empty, since with the reads of `ctermd`
  each key ends the read or is part of an escape sequence (`CtOK`);
* until `ctermd` has asked for the first read, only messages of the greeting are
  under way, in both directions (`ToClient`, `ToServer`), so nothing typed can
  be swallowed as an answer to BIND or INITIATE;
* `ctermd` writes an interrupt twice, which counts as one press; between two
  messages none is half counted (`half`);
* once an end is gone, what the terminal holds may be lost, and `Streams` asks for
  some end of the keys typed instead: what remains is that login has a prefix.

### File access (`FileAccess_proofs`)

`FetchedOnly` holds for all commands and files, every block and segment size and
queue length, and all faults at any time, except that somebody else removes the
file (`Undisturbed`, which the property asks for).  `SizeAssumption` says that
the sizes are not zero, `LinkAssumption` that the link of the command is a link.

The property is about the files on both nodes, and depends on everything under
way between them.  The proof is in three layers:

* links: what matters of the held output, the block at hand and the queue of
  blocks of an end is the sequence of messages they make.  `Carries` relates a
  link to these two sequences; each operation of `Dap` only takes from the front
  of one (`Took`), adds to the end of one (`Says`), or cuts the end of one off
  when an end closes or the link is lost (`Shrinks`).  However much is held
  back, whatever the blocks are, the rest of the proof does not see it;
* `fal`: what it says to each message that `dncopy` sends, and with which files
  it goes on (`Handles`).  An ACK to an ACCESS is the last message of its answer
  and comes after a NAME, so the file it is about exists;
* `dncopy`: for each place where it waits, what may be under way to it and to
  `fal` (`InPhase`).  At most one ACCESS or ACCOMP is under way, and never while
  records are.  The CLOSE that has the file deleted is therefore
  read by `fal` when no file is begun and not stored, also when `dncopy` was
  killed after it was sent or the link was lost before the answer.

### Only checked by TLC

* Liveness, in `NspWrap` and everywhere else: TLAPS 1.4.5 does not prove
  properties that need ENABLED.  `FailedRouterDropped` is one of them.
* `Decoded` and `MeaningKept` (`DapWire`): what a reader computes is a fold over
  the items of a message, and a fold takes an operator, which none of the
  installed provers can expand.
* `CopiedWhole` and `NothingMissed` (`FileAccess`): they count records, not only
  kinds of messages, in what is under way.
* `CallsApart` (`FileAccess`), which is about what is under way as well; after a
  call for the attributes of a missing file it claims nothing, since it would
  then fail (section 6).

## 5. Not modelled, and why

Buffer allocation failures, optional data and reason codes of connects and
disconnects, access control, socket options that only store a value, poll,
`/proc` and netlink views, point-to-point links, byte counts and segment sizes.
Of routing: hellos sent, end node hellos (an end node drops them,
`dn_dev_valid_mcast`), the collection of neighbour entries (their number stays
below `gc_thresh1`; a choice in `DnFib`), forwarding of packets, loopback, the
flush of the cache (at unload only, on an end node) and reference counts; rules
other than the two default ones, and routes with several next hops.

Of user land: the screen of a terminal, passwords, the parsing of configuration
files, secure names of tasks, binary and encoded mail (`uulib` is third-party
code), the older terminal programs `sethost` and `rmtermd`, the Multinet tunnel,
management (`nml`, `nml2`: one request, one answer), `fal2` (not built), link
tests, name lookup and the conversion of floating point (`libvaxdata`,
third-party).  `PROJECT.json` has the reason for each.

## 6. Where the code and its comments differ, and what else was seen

Each of these was met while modelling or in a run of the module.  Run stale shows
the one it is named at; no property of the other runs claims what is contradicted
here.

The kernel:

* `dn_destroy_timer` stops repeating a disconnect initiate when `nsp_rxtshift`
  reaches `decnet_di_count` (`af_decnet.c:654`, `dn.h:102`), but `dn_nsp_persist`
  counts it only in RUN.  An unanswered disconnect is repeated for ever.
* `dn_accept` looks for duplicates only of retransmitted connect initiates
  (`af_decnet.c:1218`); a connect initiate that arrives after its own
  retransmission makes a second socket.  `OneLinkPerConnect` shows that this
  second socket never carries a link.
* Retransmitted segments keep their first acknowledgements
  (`dn_nsp_out.c:229`).  After half the number space of traffic the other way,
  an old one is taken for a new one, `ackrcv_dat` is ahead of what was sent, and
  what was not acknowledged is freed (run stale; the comment at line 451 says
  that such acknowledgements are not expected).
* A connect rejects a cached route that is older than the last change of router
  and makes a new one, but `dn_insert_route` (`dn_route.c:337`) finds the old
  entry under the same key, returns that, and forgets the new route with the
  neighbour reference it holds.  As long as a link uses the old entry, and two
  minutes more, all connects to that node go by the router before.
* `dn_nsp_conn_conf` (`dn_nsp_in.c:371`) does not look at
  `SOCK_DEAD`.  A socket closed while it connects is brought to RUN by the
  connect confirm and gets the retransmission timer instead of
  `dn_destroy_timer`, whose comment says that it is the timer for destroyed
  sockets.  The link stays up with no user.
* A disconnect in CC (`dn_nsp_in.c:515`) takes the socket to CN
  without an error, and `dn_confirm_accept` waits for RUN or an error.
  A process in accept does not return.
* A connect acknowledgement stops the persist timer also of a socket already
  closed in CI (`dn_nsp_in.c:412`); when its outgoing timer then expires, no
  timer is left to free it.  `DestroyTimerFrees` is therefore stated from the
  point where the destroy timer runs in an ended state.
* `dn_slow_timer` ends an attempt in CD with no `sk_err` (`dn_timer.c:92`), so
  a process in `dn_wait_run` is not told; it does not even sleep, because
  `dn_wait_run` sleeps only in CI and CC.
* `dn_nsp_xmit_timeout` has no limit and data for an unknown port is not
  answered (`dn_nsp_out.c:294`), so an end whose peer has restarted stays in
  RUN.
* `dn_sendmsg` does not look at the state again after it waits for room
  (`af_decnet.c:2166`).
* A connect initiate is queued to an accepted socket in CR or CC, or a rejected
  one in DR, when the low byte of its port equals the hash of the object, since
  its `sk_state` stays LISTEN (comment at `dn_nsp_in.c:222`).  A connect
  initiate is dropped as the duplicate of an older link when the peer uses its
  ports again, which start at 0x2000 after each boot (comment at
  `af_decnet.c:1176`), while accepted sockets in CR and CC are not compared.
* A bind to the wild object that fails keeps the port it was given, and the next
  bind does not check it (`af_decnet.c:171`); `PortsApart` excepts such ports.
  A connect on a socket that listens, or is bound to the wild object, is let
  through, with source port 0 or one that is never found.  Two sockets may
  listen on one object.  `dn_auto_bind` leaves `SOCK_ZAPPED` cleared when
  `dn_dev_bind_default` fails.
* The loss of a router (`dn_dev.c:1158`) does not set `dn_rtrchange`, so routes
  by it are found in the cache until another router comes; routes made for
  received packets are never compared with `dn_rtrchange`.
* A route gets its time after its next hop (`dn_route.c:1254`), so one made by
  the old router may look newer than the change.
* A connect to a node behind a router before the first hello makes a neighbour
  entry for that node, and later connects send to it directly
  (`dn_route.c:1119`).
* The time of a router is taken from its hello only when it is new
  (`dn_neigh.c:450`), and the timer may write what was left of the time of the
  router before over it: `RouterHeard` says the longest time of all, not the
  router's own.
* `dn_fib_nh_match` (`dn_table.c:252`) has the test of the gateway inverted: a
  deletion that names the right gateway does not match, one that names another
  does.
* An address removed from one device while another has it leaves its local route
  by the first device if that keeps another address, and is local for ever
  (`dn_fib_del_ifaddr`).  `dn_rehash_zone` never runs, because the condition
  before it asks for a divisor above the largest.

The router daemon:

* `invalidate_route` passes the address of the router that has gone, not of the
  area, so the kernel's route to the area stays with it though `dnroute(8)` says
  that "the lowest cost route that is up will always be used"; `BestChosen` is
  about the daemon's own table.
* The daemon does not see that the kernel flushes routes when a device goes down
  and up between two scans (`DirectRoute` excepts such devices).  A route by a
  router that has no direct route yet is refused, and not tried again.  Level 1
  routes by a router that has failed, or that no longer lists the node, stay.  A
  node of the area that has gone stays valid in `node_table` and is announced.
* Costs are written with 10 bits and read with 9; the loop over nodes stops
  before 1023; `do_show_network` passes an uninitialised length to `accept`.

File access:

* `dapfs_getattr_dap` answers the STATUS of a missing file with a CONTRAN
  message "Clean connection status." (`dapfs_dap.cc:259`), which `fal` does not
  know; it answers with an error and ends.  The next call takes that for its own
  answer, so an existing file is reported missing, and after it every call fails
  because `restart_dap` has no socket.
* `get_size` is 512 short for a file whose last sector is full
  (`protocol.cc:758`, comment at 757); `MeaningKept` is about other sizes.
* `dndel -v` prints "Deleted" at the ACCOMP of an earlier file, and the last may
  not be deleted.  `dndel` returns a field of a message it has freed at one it
  does not expect.
* A lost link ends `dncopy` with exit status 0 and no word.  `-i` answered "no"
  ends a wildcard copy, and with `-D` removes the file that was not copied.  A
  directory that matches a wildcard `get` is read without end.
* A line without an end at the end of a file is dropped (`open.cc:431`); the
  comment at line 420 says "Read up to the next LF or EOF".
  `CopiedWhole` speaks of files whose lines are ended.  `fal` ignores the
  result of `fclose`.  The next file of a wildcard opened with write access is
  truncated.  METAFILE_DIR continues with the same path for ever.
* `librms` reads a reply of the call before, and so an empty record at the end,
  without an error (`readwrite.cc:139`): the comment at
  `dapfs.c:460` takes that for a record of the file, and `CopiedWhole` allows it.
  `rms_find`, `rms_rewind` and truncate wait for ever; `getattr` returns an empty
  `stat` and 0 on a lost link; `readdir` returns 0 with part of a listing.
* On the wire: dates come out a month late; `set_fop` uses `&&` and sets no
  continuation bits; lengths of names over 255 wrap; `set_ref` and `set_check`
  write four bytes that are read as one; a rop of 0x80 and more lacks its
  continuation; `allow_blocking(false)` while output is held does not send it;
  `dnet_recv` keeps `iov_len`, so that a record in several segments may be read
  past the length given.

Phone:

* Two users who dial each other wait for each other for ever (`backend.c:754`),
  though the message at line 711 says "Press any key to cancel call and continue."
  `DialSettles` excepts such circles.
* `send_to_client` goes on after `remove_entry` has emptied the name it compares
  with (`phone_server.c:355`), so it closes links whose CONNECT is not read, and
  writes three bytes to a phone that has not said whose it is, though the comment
  at 328 says "Look for a matching local user".  A user who waits on such a link is
  told of an error; one opened to call back is left half open, which
  `ClosedTogether` excepts.  `OneReply` holds all the same.
* Handing a link to a phone that has ended kills `phoned` by SIGPIPE.
  `do_answer` returns at the first caller it cannot call back, and those after
  him stay unanswered.
  `delete_caller` copies the last entry over all that follow; ANSWER and REJECT
  are applied to the dialled link whoever sent them; answering a call back
  overwrites `out_fd`; a link that is dead rings for ever.

The super server:

* `dnetd.conf` is loaded once, by the first connection that finds it not empty,
  though `dnetd.conf.5` says that changes take effect immediately;
  `EntryHonoured` speaks of the entries that were loaded.  `load_dnetd_conf` does
  not initialise `next` of the last entry.  `thisobj`
  keeps its value when no entry serves a connection, which is then served under
  the entry of the one before; `EntryHonoured` speaks of connections with one.
* `fork_fail` is a local variable that starts at zero each time, so `MAX_FORKS`
  is never reached.  A child whose `setuid` fails goes on as a second server.
  A SIGTERM between the test and `accept` lets one more connection through.

Terminals and tasks:

* The comment on the default terminators leaves out ^X, whose bit is set.
* A key typed before the answer to BIND makes `dnlogin` send INPUT_STATE first,
  which `ctermd` takes for the answer, and it ends.  `ctermd` writes an interrupt
  twice, in `cterm_purge` and with the rest.
* An escape sequence that is sent leaves `input_buf` as it is, so that an UNREAD
  sends the same text again.  `parse_escape` keeps its state at a control
  character, and begins the next sequence in it.
* `copy` skips the character after a delimiter, which is the first of a line when
  a read ended between CR and LF, and drops what has no end at the end of a
  read.  `TaskOutput` says every line only of output that is read in whole lines,
  and `Jobs` has no program that writes CR without LF.
* An interactive `dntask` takes the newline off, so a program that reads a line
  waits for one.

Mail:

* A line that is a single dot ends a message on its way to `sendmail` or SMTP.
* `vmsmaild` reads for ever when the link ends in the body (`read` returns 0), so
  `dnetd` keeps a child for it.  A signal ends the loop instead (`continue` in
  `do`-`while`), and what has come is forwarded and acknowledged.
* `sendvmsmail` drops a last line that does not end, and sends one of 255
  characters and more as several.  When the link ends it looks
  at what the buffer held: with an empty body the first acknowledgement, which
  passes for the second; at the first, whatever was on the stack.
* A QUIT that is answered with anything but 221 makes a delivered mail an error,
  and the last acknowledgement may be overtaken by the disconnect after it.

## 7. What is left

1. Routing: reference counts of routes and neighbours, forwarding, sending by a
   route while the receive path replaces it.
2. A link with data and disconnection together: senders that wait when the link
   ends, data after a disconnect.
3. Proofs: `CopiedWhole` of `FileAccess` on the layers that
   `FetchedOnly` rests on; that `NspLink` implements an abstract connection.
4. User land: management and the older terminal programs.
