------------------------------- MODULE Dnetd -------------------------------
(***************************************************************************)
(* The super server: it takes the connections of a set of objects, decides *)
(* for each whether, as which user and by which program it is served, and  *)
(* forks a child for it.                                                   *)
(*                                                                         *)
(* The processes that wait for connections are "main" and "stray": a child *)
(* that could not change its user goes on in the loop of its parent.       *)
(***************************************************************************)
EXTENDS Integers, Sequences

CONSTANTS Callers,      \* bound on the connections asked for
          Requests,     \* what may be asked
          Confs,        \* what dnetd.conf may hold, as sequences of entries
          Proxies,      \* decnet.proxy
          AllowRules, DenyRules,   \* nodes.allow, nodes.deny, or NoFile
          NoFile, NoName, NoEntry,
          Accounts,     \* users of this node
          TaskFiles     \* tasks that task_server finds

VARIABLES conf,     \* dnetd.conf
          server,   \* the processes that wait for connections
          backlog,  \* connections that were not taken yet
          caller,   \* each connection: how it stands and who holds its socket
          child     \* the process forked for it

dnetdVars == <<conf, server, backlog, caller, child>>

Waiter == {"main", "stray"}
Caller == 1..Callers    \* in the order in which they ask

\* db: object_db, empty if it is not loaded; entry: thisobj
Started == [pc |-> "test", stop |-> FALSE, db |-> <<>>, entry |-> NoEntry]
NotStarted == [Started EXCEPT !.pc = "gone"]
\* history: file is what dnetd.conf held when the connection was taken, db the entries its taker knew
NewCaller == [st |-> "idle", asks |-> NoName, holders |-> {}, program |-> NoName, as |-> NoName,
              file |-> <<>>, db |-> <<>>]
\* stop, db: do_shutdown and object_db, as its parent had them
NoChild == [pc |-> "none", entry |-> NoEntry, as |-> NoName, stop |-> FALSE, db |-> <<>>]

DnetdInit ==
  /\ conf \in Confs
  /\ server = [p \in Waiter |-> IF p = "main" THEN Started ELSE NotStarted]
  /\ backlog = <<>>
  /\ caller = [c \in Caller |-> NewCaller]
  /\ child = [c \in Caller |-> NoChild]

DnetdIdle ==
  /\ conf = <<>> /\ server = [p \in Waiter |-> NotStarted] /\ backlog = <<>>
  /\ caller = [c \in Caller |-> NewCaller] /\ child = [c \in Caller |-> NoChild]

-----------------------------------------------------------------------------
(* Decisions *)

\* dnet_priv_check
PrivCheck(rules, r) ==
  IF rules = NoFile THEN -1
  ELSE IF \E rule \in rules : /\ {r.object, "ALL"} \cap rule.objects # {}
                              /\ {r.node, "ALL"} \cap rule.nodes # {} THEN 1 ELSE 0

Allowed(r) ==
  \/ PrivCheck(AllowRules, r) = 1
  \/ DenyRules = NoFile
  \/ PrivCheck(DenyRules, r) = 0

\* A named object has number 0, and so has an entry for named objects.
Serves(e, r) ==
  IF r.number = 0 THEN e.number = 0 /\ e.name \in {r.object, "*"} ELSE e.number = r.number

\* mutant: the loop goes on after a match
BadFind(db, r, old) ==
  LET hits == {i \in DOMAIN db : Serves(db[i], r)}
  IN  IF hits = {} THEN old ELSE db[CHOOSE i \in hits : \A j \in hits : j <= i]

\* The first entry for r.  If there is none, thisobj stays what it was.
Find(db, r, old) ==
  LET hits == {i \in DOMAIN db : Serves(db[i], r)}
  IN  IF hits = {} THEN old ELSE db[CHOOSE i \in hits : \A j \in hits : i <= j]

\* check_proxy_database.  A local user "*" is the remote user's name.
ProxyUser(r) ==
  LET hits == {i \in DOMAIN Proxies : r.remote \in Proxies[i].remotes}
      first == CHOOSE i \in hits : \A j \in hits : i <= j
  IN  CASE hits = {} -> NoName
        [] hits # {} /\ Proxies[first].local = "*" -> r.remote
        [] OTHER -> Proxies[first].local

\* The user r is served as under entry e, or NoName if r has no right to it
UserFor(e, r) ==
  LET own == e # NoEntry /\ ~e.proxy
      name == IF own THEN e.user ELSE IF r.user = NoName THEN ProxyUser(r) ELSE r.user
  IN  IF name \in Accounts /\ (own \/ r.user = NoName \/ r.right) THEN name ELSE NoName

-----------------------------------------------------------------------------
(* The callers *)

Ask(c) ==
  /\ caller[c].st = "idle" /\ \A d \in 1..c - 1 : caller[d].st # "idle"
  /\ \E p \in Waiter : server[p].pc # "gone"
  /\ \E r \in Requests : caller' = [caller EXCEPT ![c].st = "asked", ![c].asks = r]
  /\ backlog' = Append(backlog, c)
  /\ UNCHANGED <<conf, server, child>>

-----------------------------------------------------------------------------
(* The loop of dnet_daemon *)

Test(p) ==
  /\ server[p].pc = "test"
  /\ server' = [server EXCEPT ![p].pc = IF server[p].stop THEN "gone" ELSE "call"]
  /\ UNCHANGED <<conf, backlog, caller, child>>

\* accept is called: from here on SIGTERM interrupts it
AcceptWaits(p) ==
  /\ server[p].pc = "call"
  /\ server' = [server EXCEPT ![p].pc = "accept"]
  /\ UNCHANGED <<conf, backlog, caller, child>>

Rejected(k) == [k EXCEPT !.st = "rejected", !.holders = {}]

\* mutant: the parent keeps its copy of the socket open
BadForked(k) == [k EXCEPT !.holders = {"server", "child"}]
\* fork: the parent closes the socket, the child keeps it.
Forked(k) == [k EXCEPT !.holders = {"child"}]

(***************************************************************************)
(* A connection is taken: the node is checked, the entries are loaded if   *)
(* there are none, the user is found and a child is forked.                *)
(***************************************************************************)
TakeCaller(p) ==
  /\ server[p].pc = "accept" /\ backlog # <<>>
  /\ LET c == Head(backlog)
         r == caller[c].asks
         db == IF server[p].db = <<>> THEN conf ELSE server[p].db
         entry == Find(db, r, server[p].entry)
         user == UserFor(entry, r)
         taken == [server[p] EXCEPT !.pc = "test"]
         found == [taken EXCEPT !.db = db, !.entry = entry]
         k == [caller[c] EXCEPT !.st = "taken", !.file = conf]
     IN  \/ /\ ~Allowed(r)
            /\ server' = [server EXCEPT ![p] = taken]
            /\ caller' = [caller EXCEPT ![c] = Rejected(@)]
            /\ UNCHANGED child
         \/ /\ Allowed(r) /\ user = NoName
            /\ server' = [server EXCEPT ![p] = found]
            /\ caller' = [caller EXCEPT ![c] = Rejected(k)]
            /\ UNCHANGED child
         \/ \* fork fails
            /\ Allowed(r) /\ user # NoName
            /\ server' = [server EXCEPT ![p] = found]
            /\ caller' = [caller EXCEPT ![c] = k]
            /\ UNCHANGED child
         \/ /\ Allowed(r) /\ user # NoName
            /\ server' = [server EXCEPT ![p] = found]
            /\ caller' = [caller EXCEPT ![c] = Forked(k)]
            /\ child' = [child EXCEPT ![c] = [pc |-> "user", entry |-> entry, as |-> user,
                                               stop |-> server[p].stop, db |-> db]]
  /\ backlog' = Tail(backlog)
  /\ UNCHANGED conf

\* SIGTERM interrupts accept, and nothing else.
Sigterm(p) ==
  /\ server[p].pc # "gone" /\ ~server[p].stop
  /\ server' = [server EXCEPT ![p].stop = TRUE,
                              ![p].pc = IF @ = "accept" THEN "test" ELSE @]
  /\ UNCHANGED <<conf, backlog, caller, child>>

ConfEdited ==
  /\ \E new \in Confs : new # conf /\ conf' = new
  /\ UNCHANGED <<server, backlog, caller, child>>

-----------------------------------------------------------------------------
(* The child *)

ChildGone(c) == child' = [child EXCEPT ![c].pc = "none"]
Closed(k) == [k EXCEPT !.holders = @ \ {"child"}]

\* initgroups, setgid or setuid fails: the child closes the connection and
\* goes on as a server.
ChildStrays(c) ==
  /\ child[c].pc = "user" /\ server["stray"].pc = "gone"
  /\ server' = [server EXCEPT !["stray"] =
                  [Started EXCEPT !.db = child[c].db, !.entry = child[c].entry,
                                  !.stop = child[c].stop]]
  /\ caller' = [caller EXCEPT ![c] = Closed(@)]
  /\ ChildGone(c)
  /\ UNCHANGED <<conf, backlog>>

\* It has its user; the entry may say to accept or to reject at once.
ChildUser(c) ==
  /\ child[c].pc = "user"
  /\ LET e == child[c].entry IN
       IF e # NoEntry /\ e.auto = -1
         THEN caller' = [caller EXCEPT ![c] = Rejected(@)] /\ ChildGone(c)
         ELSE /\ caller' = [caller EXCEPT ![c].st = IF e # NoEntry /\ e.auto = 1
                                                      THEN "accepted" ELSE @]
              /\ child' = [child EXCEPT ![c].pc = "run"]
  /\ UNCHANGED <<conf, server, backlog>>

\* The program that main of dnetd.c chooses, or NoName
Program(e, r) ==
  IF e # NoEntry /\ e.daemon # "internal" THEN e.daemon
  ELSE IF r.number = 0 THEN IF r.object \in TaskFiles THEN "task" ELSE NoName
  ELSE IF r.object = "MIRROR" THEN "mirror" ELSE NoName

\* The program accepts the connection; or there is none; or it cannot be run.
ChildRuns(c) ==
  /\ child[c].pc = "run"
  /\ LET program == Program(child[c].entry, caller[c].asks) IN
       \/ /\ program # NoName
          /\ caller' = [caller EXCEPT ![c] = [@ EXCEPT !.st = "accepted", !.program = program,
                                                       !.as = child[c].as, !.db = child[c].db]]
          /\ child' = [child EXCEPT ![c].pc = "serve"]
       \/ /\ program = NoName
          /\ caller' = [caller EXCEPT ![c] =
                          IF @.st = "accepted" THEN Closed(@) ELSE Rejected(@)]
          /\ ChildGone(c)
       \/ /\ program \notin {NoName, "mirror", "task"}
          /\ caller' = [caller EXCEPT ![c] = Closed(@)] /\ ChildGone(c)
  /\ UNCHANGED <<conf, server, backlog>>

\* The program ends.
ChildEnds(c) ==
  /\ child[c].pc = "serve"
  /\ caller' = [caller EXCEPT ![c] = Closed(@)]
  /\ ChildGone(c)
  /\ UNCHANGED <<conf, server, backlog>>

-----------------------------------------------------------------------------
WaiterStep(p) == Test(p) \/ AcceptWaits(p) \/ TakeCaller(p)
ChildStep(c) == ChildUser(c) \/ ChildRuns(c) \/ ChildEnds(c)

DnetdNext ==
  \/ \E p \in Waiter : WaiterStep(p) \/ Sigterm(p)
  \/ \E c \in Caller : Ask(c) \/ ChildStrays(c) \/ ChildStep(c)
  \/ ConfEdited

\* What is open to each process, written out
WaiterReady(p) ==
  server[p].pc \in {"test", "call"} \/ (server[p].pc = "accept" /\ backlog # <<>>)
ChildReady(c) == child[c].pc # "none"

\* Weak fairness: every process runs on, and the programs that serve end.
DnetdFair ==
  /\ \A p \in Waiter : []<>~WaiterReady(p) \/ []<><<WaiterStep(p)>>_dnetdVars
  /\ \A c \in Caller : []<>~ChildReady(c) \/ []<><<ChildStep(c)>>_dnetdVars

-----------------------------------------------------------------------------
\* The connection is served by the first of these entries that is for it, if there is one, and as the
\* user of that entry or one that its request or the proxy file gives it a right to.
ServedBy(k, entries) ==
  LET hits == {i \in DOMAIN entries : Serves(entries[i], k.asks)}
      e == entries[CHOOSE i \in hits : \A j \in hits : i <= j]
  IN  (k.program # NoName /\ hits # {}) =>
        k.program = Program(e, k.asks) /\ k.as = UserFor(e, k.asks)

(***************************************************************************)
(* A connection is served as the entries say that the server has loaded,   *)
(* whatever connections were taken before and whichever process took it;   *)
(* and those entries are what dnetd.conf held when this connection, or one *)
(* before it, was taken: the whole file at one moment, however it is       *)
(* edited (fork_and_setuid, where thisobj is kept from one connection to   *)
(* the next, and load_dnetd_conf).                                         *)
(***************************************************************************)
EntryHonoured ==
  \A c \in Caller :
    /\ ServedBy(caller[c], caller[c].db)
    /\ caller[c].db = <<>> \/ \E d \in Caller : caller[d].file = caller[c].db

(***************************************************************************)
(* A caller hears how it stands: every connection that was asked for is    *)
(* rejected, or accepted and closed when its program ends, or closed by    *)
(* every process that had a copy of its socket; unless no process takes    *)
(* connections any more.                                                   *)
(***************************************************************************)
EveryAnswered ==
  \A c \in Caller :
    (caller[c].st = "asked") ~>
      \/ caller[c].st # "asked" /\ caller[c].holders = {}
      \/ \A p \in Waiter : server[p].pc = "gone"
=============================================================================
