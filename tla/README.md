# TLA+ models of relay (omnidns)

relay is a DNS proxy written in Rust on tokio: rule-based routing over UDP,
TCP, DoT, DoH and DoQ upstreams, a DHCPv4/DHCPv6/RA server that feeds a table
of local names, a firewall redirect, a web API that updates the running
daemon with a React panel in front of it, and statistics in SQLite.  This
directory models the parts of it in which several tasks, windows or requests
share state, and proves or model-checks what must hold there.  Paths below are
relative to the crate's `src/`, those of the panel to `web/ui/src/`.

## Checking

    tlc -workers 2 -config UdpPool_safety.cfg MCUdpPool
    tlapm UdpPoolProofs.tla

`PROJECT.json` lists every run with its module and configuration.

## The system

State, operations and what is hard, by component.  "Model" names the module,
or the plan's step below.

| Component | State | Operations | Hard because | Correct when | Model |
|---|---|---|---|---|---|
| UDP pool, `dns/upstream/udp.rs` | shared socket, id counter, table of waiting callers | `query`, `get_or_create`, `invalidate`, receive loop | callers interleave, are dropped at any await, answers come late or twice, the loop dies | answers go to their askers, entries do not leak or get stolen, retries use a new socket | UdpPool |
| DoT pool, `dns/upstream/dot.rs` | idle connections behind a mutex, permits | `query`, `connect_and_exchange`, `put_back` | guard lifetimes, timeouts with an answer still to come | one call per connection, bounds, every answered call returns | DotPool |
| DoQ, DoH, TCP upstreams | one QUIC connection; an HTTP client with a reset cooldown; none | `query`, `recycle` | as DotPool; concurrent resets | at most one reset per cooldown | plan 4 |
| Upstream groups, `dns/upstream/mod.rs` | round-robin counter | `query_round_robin`, `query_fastest` | 5 s timeout per server, losers are dropped | a healthy server's answer is found | Resolve |
| Host resolver, `dns/upstream/resolver.rs` | cache with a time to live | `resolve` | lookups run without the lock | answers are not older than the TTL | plan 1 |
| Router, `dns/router.rs` | rules, groups, strategy | `from_config`, `resolve_with_meta` | order of strategy, hosts, cache, rules | the first matching source answers | Resolve |
| Cache, `dns/cache.rs` | LRU of answers | `get`, `insert` | TTL clamp, expiry, filled by requests an update overtook | never served past its clamped TTL, nor under other rules | Resolve |
| Names, `dns/hosts.rs` | table written by DHCP, read by the router | `insert`, `remove`, `lookup` | replaced by a hot update while DHCP runs | active leases resolve | DhcpV4, Runtime, Resolve |
| Listener, `dns/listener.rs` | sockets, the router it was given | `serve_abortable`, `abort` | rebinding without a gap | something always answers | Runtime, Resolve |
| DHCPv4, `dhcp/v4/*.rs` | offers, lease store, lease file | DISCOVER, REQUEST, RELEASE, restart | a task per datagram, two locks, file writes, expiry | two clients never hold one address, an ACK is durable | DhcpV4 |
| DHCPv6, `dhcp/v6/*.rs` | store, host counter | SOLICIT, REQUEST, RENEW, RELEASE | the counter starts over at a restart | two clients never hold one address | plan 2 |
| RA, `dhcp/ra/*.rs` | learned prefixes | send, listen | sub-tasks outlive an abort | prefixes that went away are not announced | plan 2 |
| Runtime, `runtime/mod.rs` | snapshot, router, listener, firewall guard, DHCP services | `start`, `apply` | overlapping updates, failures half-way, dropped handlers | components agree with the snapshot and the file | Runtime |
| Daemon, `cmd/run.rs` | guards, `resolv.conf` | `run` | exit and crash between any two steps | the machine is left as it was found | Runtime |
| Firewall, `firewall/*.rs` | rules in the kernel | `setup`, `cleanup` | old and new rules overlap | no rule without a guard | Runtime |
| Web API, `web/api.rs` | password hash | GET and PUT config, change password | read-modify-write of the snapshot | as Runtime | Runtime, ConfigEditor |
| Sessions, `web/auth.rs` | token table in memory, cookie in the browser | login, logout, `touch` | slide with use, end by logout, expiry and restart, late requests | an ended session stays ended | Panel |
| Login and navigation, `context/AuthContext.jsx`, `App.jsx`, `components/Layout.jsx`, `pages/Login.jsx` | status and page of a window | probe, login, logout, `RequireAuth`, navigation | 401 answers may come late; windows share a cookie | a live session is lost for a reason only; the end of one is noticed | Panel |
| Overview and query log, `pages/{Dashboard,QueryLog}.jsx` | rows, filters, switches, a timer | load, poll, filter | answers come in any order | what is shown catches up with what is asked | Panel |
| Configuration page, `pages/config/{ConfigContext,index}.jsx` | draft, `loading`, `saving`, `dirty`, `error` | load, edit, save, take back | loads and saves overlap, also with those of other windows | a clean page shows what was in force, edits are kept, the page settles | ConfigEditor |
| Rulesets and rules tab, `pages/config/UpstreamsTab.jsx` | catalog and rules of the tab, over the draft's groups and entries | `fromBackend`, `commitToConfig`, every edit | two representations, made-up names, all groups rebuilt on each key | the tab shows what the draft routes | RulesTab, ConfigTabs |
| Names tab, `pages/config/{HostsTab,ListEditor}.jsx` | rows | edit key, edit value, add, remove | rows are an object's entries | typing stays in its row | HostsTab, ConfigTabs |
| Section tabs, `pages/config/{Basic,Cache,Firewall,Dhcp,Web}Tab.jsx` | none of their own | switch and fields of a section | sections may be null, two tabs write groups | nothing another tab wrote is lost | ConfigEditor, ConfigTabs |
| Rulesets, `ruleset/*.rs` | FST, suffix and wildcard tables | `build`, `matches` | three match kinds in one key space | agrees with matching rule by rule | plan 5 |
| Statistics, `stats/*.rs` | atomic counters, log, SQLite totals | `record_query`, snapshot, flush, restore | no lock over the counters | totals grow and survive an exit | plan 3 |
| Toasts, widgets, charts, the built bundle | messages with a timer | | | | not planned |
| CLI tools, `cmd/{build,info,lookup,hash_password}.rs` | none | | sequential | | not planned |

How they interact: the listener gives each request to the router it was bound
with; the router asks names, cache, rules and then a group; a group calls
upstream pools under its own timeout and drops those calls; DHCP writes the
table of names; the web API calls `RuntimeHandle::apply`, which replaces or
restarts router, listener, firewall rules and DHCP one after the other; `run`
starts all of it and its guards undo it.  The panel is a single page in any
number of browser windows: its tabs edit one draft, which the configuration page
loads and saves whole with GET and PUT `/api/config`; its other pages poll; all
requests carry the cookie of a session, and any 401 leads to the login page.

## Modules

**UdpPool** (`dns/upstream/udp.rs`).  One action per stretch of `query`
between two await points or locks.  A oneshot pair is represented by its
owner: the sender of call `q` is registered iff `pending[s][i] = q`, and the
receiver is closed iff its slot has left the caller without a reply.  `issued`
is the 16-bit counter without the wrap, so `Candidate` takes it modulo
`NumIds` and properties can say "until the counter has gone round".  `wire` is
the upstream: any request that reached it may be answered at any time, any
number of times, in any order.  `Cancel` is the group's timeout or `select_ok`.

**DotPool** (`dns/upstream/dot.rs`).  `lock` and `permits` are the wait queues
of the tokio mutex and semaphore, which are fair.  The action `Pop` keeps the
mutex when it finds a connection, because the guard is a temporary of the
`if let` condition; `PutBack` then needs a second turn.  `frames` holds what a
connection may still deliver, so that a connection reused too early would hand
over the wrong answer.  `Freed` is the drop of a permit, which the first call that
waits then has; a call gives back its one permit and may never have two.

**DhcpV4** (`dhcp/v4/*.rs`, `dns/hosts.rs`).  A task is a `handle_packet`; its
`at` is the next lock region it enters.  Times are kept as time left.
`get_by_ip` returns any one record on the address (a hash map's order), hence
`MayLookFree` and `MayLookUsed`.  `Flush` rewrites the lease file, which
`std::fs::write` truncates first: one that fails (`FlushFails`) leaves the file as it was
or cut off, and `torn` says that it is.  A cut-off file does not parse and is
an empty one to `load` (`Nothing`), until the next write brings the store back.
A crash cuts the file off wherever somebody is `Writing`: insert, remove, and the
static leases of a start.  Two ways in which a start ends the server are left out: its own
flush fails, or the cut was in the middle of a character, which `read_to_string` refuses.
Clients are modelled by what they were last
offered and what they were last ACKed.  The server does not promise
that two clients never share an address; `blame` records the seven ways in
which it can happen, so that `AddressesApart` says there is no eighth, under a
configuration that is `Sensible`: no two clients have one address bound to them, and a
lease lasts as long as an offer.

| blame | what happened |
|---|---|
| crossed | datagrams of one client overtook one another |
| torn | a restart read a lease file that a crash or a failed write had cut off |
| overlay | a restart laid a static binding over a lease granted meanwhile |
| unreserved | a REQUEST for an address not offered to or leased by this client |
| forgotten | a restart lost the offers |
| window | an address was picked while another task had it in hand between two locks |
| shadowed | an expired record hid another client's lease |

**Runtime** (`runtime/mod.rs`, `cmd/run.rs`, `web/api.rs`, `firewall/*.rs`).
A configuration is a record of what `apply` compares: routing, address,
firewall, DHCP, password hash and whether `resolv.conf` is managed.  The address is
written as a port; two addresses on one port are two ports here.  A handler
goes through the steps `Route`, `Listen`, `Wall`, `Dhcp`, `Save`, `Store` (or
the three of a password change) with the snapshot it loaded first; each step
may fail where the code has a `?`, and `Abandon` drops a handler that waits
for a lock.  `blame` notes overlaps, failures and crashes; a start clears the
first two.

The tools that change the kernel fail in three ways.  A cleanup swallows
errors (`Cleanups`: the rules go or stay).  `iptables` commands that run and fail
count as done, so that any part of the rules may be laid (`Setups`).  A tool that cannot be
started, or a script that `nft` refuses, ends setup through its `?` with no guard and
the rules of iptables laid so far (`Stops`).  A rule in the chain of iptables counts as a
local one whether the chain is hooked into OUTPUT or not.  `resolv.conf` and its backup are
each the user's, the daemon's own or cut off: install may fail in the copy or, with the backup
made, in the write, and leaves no guard then (`FailedInstalls`); the drop may fail in the copy or
leave the backup behind (`Restores`).  What such a failure leaves outlives the
process, and `blame` keeps it (`Lasting`): "spilled" when more rules are left than a
setup that works would leave, "hurt" when `resolv.conf` or its backup is not what it should be,
"buried" when an install takes for the user's what is not.  A crash in the middle of a start leaves what a
failed start or a crash behind a whole one does.

There is a `resolv.conf` before the first start, localhost
redirection is always part of an enabled firewall, and writes of the configuration file are
atomic.

**Resolve** (`dns/router.rs`, `dns/cache.rs`, `dns/hosts.rs`,
`dns/upstream/mod.rs`).  A request goes through `Accept` (strategy, cache,
static names: one step, because only the cache's lock is shared), `LookUp` (DHCP
names, rules, the counter of the group), the answers and failures of its leg or
legs, and `Finish` (cache and reply).  A leg is one `UpstreamGroup::query`; the
prefer strategies have two, which are joined.  An answer is abstracted to the
servers it comes from, the question, the least TTL and its age; `reply` is the
answer with its `ResolveMeta`.  An answer without
records has no TTL (`NoRecords`), lives as long as the clamp makes of `min_ttl`, and is sent
from the cache as it came, since `get` rewrites answers and additionals only (`Told`).  The `blocked` flag of an entry is the prefix
`rcode:` of the stored origin; no group is given such a name.  A task keeps the
router it was spawned with, so `Accept` may use any router up to the live one:
TCP connections keep an old one for all their later requests.  Routers replace
one another by `Rebind`; that an update of the routing fields alone does not get
that far is finding 2.  Time is in ticks, and in a tick every task that can
run does; `as_secs` rounds down, so an entry may really live up to a second longer
than it says.  A and AAAA queries are modelled; other types take the path of a
strategy that concerns neither.  A name has one address, static or from DHCP, and
updates here leave the DHCP search domain, hence the table, alone.

**Exchange** is the abstract specification of an upstream, for whatever
transport: a call of `query` ends once, in an answer, an error or its caller's
leaving, and the answer is the one to its question unless the transport's ids
have come round (`worn`).  UdpPool implements it with `fate <- Ended`,
`got <- Got`, `worn <- Worn`, where `Worn` says that some socket has issued more
than `NumIds` ids; DotPool implements it with `worn <- FALSE`: it never
confuses answers.  Each states this as `ImplementsExchange`.

**RulesTab** (`UpstreamsTab.jsx`), **HostsTab** (`HostsTab.jsx`,
`KeyValueEditor` of `ListEditor.jsx`) and **ConfigTabs** (the draft, `BasicTab.jsx`,
the tabs' coming and going, save and load).  The draft is `groups`, `rulesets`
and `hosts`, as in the JSON; `catalog` and `rules` are the rules tab's `useState`
and exist while it is mounted.  Every edit of the rules tab is an action that
changes these two and then writes all of groups and rulesets with
`CommitToConfig`, as `commit` does; `FromBackend` runs at every mount, hence after
every load too.  A name is a sequence, so that the numbered names the two
functions make up (`cn_2`, `cn-2`, `rule-1`) are apart from typed ones without
characters: a user who types `cn-2` letter by letter is not modelled, one who types
`default` is.  Servers, strategy and insecure flag go through all functions
together and are one value.  The client subnet stands apart, because the panel
writes `client-subnet` and the server reads and writes `client_subnet`: `Parsed`
drops the former.  HostsTab keeps JavaScript's object semantics in `FromEntries`:
of equal keys the last value counts at the place of the first, and whole
numbers come first.  **Lists** has what the three make lists of: the part of a list
at some of its places, of which `filter`, `includes` and `Set` are cases.  So `FromBackend`
is the catalog, made entry by entry, and one rule for each run of entries with one
group, rather than a loop that appends to the last rule.  A save, with the load behind it, is one step here.

**ConfigEditor** (`ConfigContext.jsx`, `config/index.jsx`, the section tabs, and
`get_config`, `put_config`).  The opposite abstraction: a draft is one section or
none, a switch and a mark for the rest, but requests are apart from
answers.  A call is sent, served (`ServeGet`, `ServePut`, in any order) and
answered (`Loaded`, `Saved`, and their failures, which may come before or after it was
served), each in a step; a page that goes leaves its save behind, which may still be
served (`Orphaned`).  The `if (dirty)` and `disabled` of the buttons are the guards
of `Reload` and `Save`.  `past` keeps every configuration the server has had.
Four variables say what the properties need to know of the past; no guard reads them.

**Panel** (`auth.rs`, `AuthContext.jsx`, `App.jsx`, `Login.jsx`, `Layout.jsx`,
`Dashboard.jsx`, `QueryLog.jsx`, `api.js`).  A request carries the cookie of the
moment it was sent and brings back, if anything, a status and a cookie.  A view is a page
with what it asks for and whether it polls (the overview does, the log does while it
shows what is live).  `Touch` is `SessionStore::touch`; `Kicked` is `setStatus('anon')`
and the redirect of `RequireAuth` together.  What other windows of the browser do to
the session is `LoginElsewhere` and `LogoutElsewhere`.  Requests of a page that
went keep their place (`ask` is None), for a 401 logs the window off all the same.

The `MC*` modules give constants, symmetry, constraints and views.

## Runs

| Run | Bounds | Shows |
|---|---|---|
| udp_safety | 3 calls, 2 sockets, 2 ids | OwnAnswer, SenderKept, OnlyCancelledLeaves, OverwritesOnlyWhenFull, ImplementsExchange, with ids reused, leaked and exhausted |
| udp_retry | 2 calls, 4 sockets, 3 ids, fairness | RetryOnFreshSocket, QueryReturns |
| dot_pool | 4 calls, capacity 2, 4 connections | OwnAnswer, PoolInOrder, ImplementsExchange |
| dot_reuse | 2 calls, fairness | finding: a call that reuses a connection blocks itself |
| dhcp_apart | 1 dynamic and 1 static client, 2 addresses, 2 tasks | AddressesApart |
| dhcp_acked | 2 named clients, 2 addresses, 2 tasks | AckedIsRecorded, NamesResolve |
| resolve | 2 requests at a time, 2 names, 2 types, 3 servers, 4 routers | StaticNamesWin, AnsweredByTheRules, BlockedIsRestored, FailsOnlyIfAllFail, KeptNoLonger |
| runtime | 4 configurations, 2 hashes, 2 calls, 3 name tables | NeverDeaf, SettledAgrees, NoStrayRules, ResolvRestored |
| runtime_routing | same | finding: the listener keeps the old router |
| config_tabs | 3 edits, 2 files, 3 names, 3 paths, 4 keys, lists of 3 | TypeOK, RulesAreRouted, RemountKeepsRules, RenameKeepsRouting, DefaultKept, TypingStaysInRow |
| config_editor | 2 pages, 1 section, 2 edits, 4 requests, fairness | TypeOK, CleanIsServed, OwnSaveShown, EditsKept, Settles |
| panel | 1 window and those it shares its cookie with, 3 views, 2 sessions, 2 requests at a time, fairness | TypeOK, DeadStaysDead, KickedForAReason, EndIsNoticed, RowsCatchUp |

Why the bounds are enough.  UdpPool: with fewer ids than calls, exhaustion and
wrap-around happen; four sockets are as many as two calls with two attempts
can bind, so no step of the liveness run is held up by the bound.  Two sockets
in the safety run give one stale and one current.  DotPool: four calls on a
capacity of two leave two waiting.  Two calls suffice for the deadlock.
DhcpV4: a lease and an offer each last one tick, so every one of them expires
within the run, before and after every step of a task; two tasks are the
least that interleave, and each invariant speaks of two clients.  The run stops
behind the first blamed step (`Blameless`, `Uncrossed`), where the
antecedents of the properties no longer hold.  `AckedView` leaves out offers
and the tasks that make them, which no property of that run reads.  Runtime:
the configurations differ in each field and share others, so that an update
may change one or several; two calls overlap in every way.  `Orderly` cuts
behind a crash followed by overlap or failure, and lets a daemon that runs with rules spilled or
`resolv.conf` hurt only stop and start again: the handlers do not read either.  `View` takes a
daemon that is down for its file and its traces, since a start makes all else anew, and leaves out what
the antecedents make irrelevant once something overlapped or failed, and takes
handlers as a bag.

Resolve: two requests at a time are the least that race for counter and cache,
and each task handles any number in turn.  The four routers differ in strategy,
cache size (none, 1, 2), clamp, rules and groups, and static names, so that names
change their source with the updates; one group each is round robin and
fastest over two servers, and one is all `rcode://`.  TTLs are 3 or absent, clamped to
at most 2, so that entries expire, are raised, are lowered and are evicted.
`Closed` lets connections outlive one of the three updates, `OneHost` gives DHCP
one name to set and take back; `View` leaves out what nothing reads any more.

TypeOK is an invariant of a run where it says more than the form of the state: in
ConfigTabs that every entry, the server's too, names a group that there is; in
ConfigEditor that sections are whole; in Panel that pages without a session show
nothing.  In UdpPool it is what the proofs rest on; in Resolve it is
checked on one state for each view; in DhcpV4, DotPool and Runtime it documents the state.

ConfigTabs: the two files have what the panel's own saves do not have: a group
used by entries that are not neighbours, an entry of the default group, two files
of one base name, a path routed twice, a subnet in the server's spelling.  Three edits
are enough to add, rename and move or untick, with any saves, reloads and changes of
tab between them; `Small` bounds the lists and keeps edits of names, which
share nothing with groups and rules, out of runs that edit those.
ConfigEditor: four requests are a load, a save with the load behind it, and a
reload across them, or a load and a save in each of two pages.  The
pages share nothing but the server, so that two show every overlap, and
sections share nothing but the draft they are in.  Panel: with two requests under way a late answer may meet a new
one; two sessions are the least of which one can follow the other; TTL 1 lets a session be
used, grow old and be too old.

`MaxSock`, `MaxConn`, `MaxHosts`, `MaxEdits`, `MaxCalls` and `MaxTokens` bound counters
that the code does not bound; they only disable the action that would create one more.
In ConfigEditor `MaxCalls` bounds the requests a user makes in all, in Panel those of a
window that are under way at once.  `CHECK_DEADLOCK FALSE` stands where every call may
have returned (UdpPool, DotPool) and where the users may be done (ConfigEditor).

Fairness.  Weak fairness of each call's own steps (`Step(q)`): tokio polls a
woken task, and every wait has a timer (`UDP_TIMEOUT`, `DOT_REUSE_TIMEOUT`,
`DOT_CONNECT_TIMEOUT`).  Nothing is assumed of the network, the receive loop,
or the callers, who are never made to give up.  DhcpV4, Runtime, Resolve and
ConfigTabs state no liveness.

ConfigEditor: every request of an open page is served and answered or fails, in the end; the
panel has no time limit, the browser and the kernel have.  Users do nothing they need not.
Panel: `setInterval` keeps firing (weak fairness of `Timer`), and as long as a window has
requests under way some end (weak fairness of `Arrive` or `Fail`, of whichever).  Of the
requests a page makes again and again some are served, and some answers that the
page still waits for arrive (strong fairness): with a network that loses everything no
page can notice anything.  Which request ends, and when, is left open.
Nothing is assumed of the user, of logins or of time.

Each property of a passing run has a mutant, an operator `...` next to the one
it changes, which models a plausible slip (a check dropped, a clean-up
forgotten, an order swapped) and violates the property in that run.

## Findings

With a run that shows them:

1. `dns/upstream/dot.rs:95`: the guard of the idle queue lives through the
   body of `if let`, where `put_back` locks it again (AnsweredReturns).
   `doq.rs:40` has the same pattern.
2. `runtime/mod.rs:157`: a new router is stored in the handle, and the
   listener keeps the one it captured (ServesNewRouting).

Met while modelling; properties exclude them in their antecedents, or models have
them as they are.  In the server:

- `dhcp/v4/pool.rs:78`: whether an address is free is asked of one record found by
  `get_by_ip`; an expired one may hide an active lease (blame "shadowed").
- `dhcp/v4/lease.rs:48`: `parse_lease_time` takes any lease time.  One below the 30 s of an
  offer ends while the offer it came from still stands, and a REQUEST for that offer takes the
  address back from whoever has it meanwhile; `dhcp/v4/server.rs:30` takes two static
  leases of one address (both in `Sensible`).
- `runtime/mod.rs:224`: `_old_guard` is dropped after the new rules were installed, and
  with the same backend removes them; `:169`: a change of `listen` leaves the redirect
  rules on the old port; `firewall/iptables.rs:95`: LAN rules are never deleted.
- `runtime/mod.rs:112` and `web/api.rs:186`: concurrent updates lose one another's
  changes, a new password among them.
- `dns/router.rs:184`: the cache is asked before the tables of names, so a name that
  DHCP has just given an address is still answered with what an upstream said.
- `dns/cache.rs:57`: a cached answer without records is sent with the TTL its SOA record came with on
  every hit, so that every client counts it from the start again (as it is in KeptNoLonger).
- `dns/hosts.rs:19`: a configured name with a dot at its end is never found, since only the name
  asked for is trimmed.
- `dns/hosts.rs:64`: only RELEASE removes a name; one outlives its lease.
- `cmd/run.rs:256`: the start after a crash backs up the daemon's own
  `resolv.conf`; `config.rs:480`: the configuration is written in place.  A start after a failed write or a failed
  restore (`:278`) copies the damaged or own file over the good backup, too.
- `firewall/iptables.rs:16`: the exit status of a command is dropped, so that a setup whose
  commands all fail succeeds; `:30-87`: a command that cannot be started leaves the rules before it with no
  guard; `:95` and `firewall/nftables.rs:123`: a cleanup that failed looks like one that worked.
- `dhcp/v4/lease.rs:116`: a write that fails, for want of space say, has truncated the lease file by then.
- `dns/listener.rs:75` and `:104`: an error of recv or accept ends the loop, and nothing starts another
  (not modelled: NeverDeaf is about what updates do to the listener).
- `dhcp/mod.rs:22`: an abort stops `serve`, not the tasks it spawned;
  `dhcp/v6/lease.rs:99`: the host counter starts over; `dns/upstream/resolver.rs:65`:
  concurrent lookups, of which the one that starts last need not store last;
  `stats/mod.rs:160`: a snapshot between two counters.
- `web/auth.rs:32`: the cookie ends 24 hours after the login, the session it is for
  24 hours after its last use; `cleanup_expired` is never called, and other sessions
  outlive a change of the password.

In the panel:

- `client-subnet` (`BasicTab.jsx`, `UpstreamsTab.jsx`, and `config.example.yaml:68`) and `client_subnet`
  (`UpstreamGroup`): a subnet set in the panel, or in the file as the example spells it, is not read; one in
  the file that is read is not shown.
- `UpstreamsTab.jsx` offers the strategy `random`, which the server refuses.
- `WebTab.jsx` posts to `/api/auth/password`; the server has the route `/api/password`.
- Rules without files and names without rules are lost when the tab is left; a name
  cleared or given twice sends rules elsewhere (hence `NamesDiffer` in RenameKeepsRouting).
- `KeyValueEditor`: equal keys melt, whole numbers jump (the antecedent of TypingStaysInRow).
- `ConfigContext.jsx`: a reload may be asked for during a save (`crossed`); edits made during
  a save are lost with its reload; a save whose reload fails is clean and shows edits; the
  save of a second window overwrites the first's.
- `AuthContext.jsx`: a late 401 of before the login logs a new session off; a logout whose request fails leaves
  the session and the cookie; a wrong password is a 401 too, whose message the page
  does not get to show.
- `QueryLog.jsx`: answers to an earlier filter replace later ones; where nothing polls (history) they stay.

## Proofs

`UdpPoolProofs` proves, for any set of calls, any number of ids and any number
of sockets (assumptions: `NoQuery` is not a call, `NumIds` is a positive
natural number and `MaxSock` a natural number), as invariants of `Spec`: TypeOK, OwnAnswer, SenderKept,
OnlyCancelledLeaves and RetryOnFreshSocket, and of its steps OverwritesOnlyWhenFull.

OwnAnswer alone is not inductive: a state in which another call's request
is on the wire under my id satisfies it, and the next answer breaks it.  The
inductive invariant `IInv` says why that cannot be: until a socket's counter
has gone round, every id that is held, registered or on the wire is below it
(IdsBelow), the next id is the counter itself (CandidateFresh), so that two
calls never hold one id (HoldersApart), a held slot has its holder or nobody
(SlotApart), a request under a held id is the holder's (WireOwned), and a
delivered reply has emptied the slot (ReplyTookEntry).  RetryOnFreshSocket
follows from sockets being numbered as they are made: the pool holds the newest one or
none, and while a call looks for its second socket the lost one is out of the pool
(SocketOrder).  Each conjunct has a lemma with one step per action.
OverwritesOnlyWhenFull is arithmetic: `NumIds` candidates in a row, modulo `NumIds`,
are all ids (CandidatesCoverIds), so a search that ends at a taken one has seen them all.

`ResolveProofs` proves, for any requests, names, servers, TTLs and any list of
valid configurations (the assumptions `RcodeAssumption`, `TtlsAssumption`,
`TimeoutAssumption`, `ConfigAssumption`, `NoneAssumption` of Resolve),
all its properties: StaticNamesWin, AnsweredByTheRules, BlockedIsRestored,
FailsOnlyIfAllFail, KeptNoLonger and TypeOK.  The first three speak of the step
that replies, whereas what makes a reply from the cache right happened in another
request.  The invariant `Inv` carries it over: every entry of router `r`
answers the question it is filed under, by servers of the group that the rules of
`r` choose, with that group as origin and its mark, and is not a static name
of `r` (EntryOK); and a request under way is about no static name of its own
router and asks servers of the chosen group only (RecOK, LegOK).  Since `Put`
fills the cache of the request's own router, EntryOK survives any overlap with
updates.  GroupForRules shows that the operator the model computes the group
with is the declarative `Rules` of the property.  For the other three the
invariant is extended twice.  `WaitInv` says of a leg without an answer that the servers
that failed, are asked and are still to be asked are all of its group, wherever the
shared counter made it start (`Remainder`: a rotation leaves nobody out); and of an
answer that it has waited no longer than the other leg may have used up of its
timeouts, from which age and time left of an entry add up (KeptOK).  `TypeInv` says that
a cache and its list of keys agree (Listed), through hits, expiry and eviction, and that counters
are places in their lists (Counted).

`UdpPoolProofs` and `DotPoolProofs` also prove that their pools implement
Exchange.  For the UDP pool `IInv` gives it: a step in which no call returns
is a stutter or wears the ids out (QuietStep), and one in which a call
returns with an answer is licensed by OwnAnswer (EndStep).

`DotPoolProofs` proves OwnAnswer, PoolInOrder and the refinement, for any
calls and capacity and any number of connections.  A connection carries no ids: what
a call reads is its own answer because an idle connection has nothing to come
(IdleClean), is in the queue once and in no call's hands (IdleApart), and a used one
is in the hands of one call (ConnApart), which has sent its own request on
it (InUse).  So a connection whose answer was not read, because its call timed out or was
dropped, is never put back.  Who holds the mutex or a permit does not matter to that.  The
bounds of PoolInOrder have an invariant of their own (Permitted): a call at work has one of the first
`Capacity` places among the permits, and a permit that is freed moves nobody back
(FreedParts), so that the calls at work are no more than these places.

`ConfigEditorProofs` proves TypeOK, CleanIsServed, OwnSaveShown and EditsKept, for
any windows, sections, edits and requests (assumptions: `Optional` is part of
`Section`, `Nobody` is not a page).  What an answer holds was in force when it
was given (AnswersHold).  At most one request of a page is part of a save
(OneSave), and a load that was asked for while nothing else was under way has the
page to itself until it ends, because the spinner hides every button (LoadAlone).
Hence no uncrossed load can be under way when a save is answered, and the next one
is newer (LoadsAreNew); and an edit outside of a save meets crossed loads only.

`PanelProofs` proves DeadStaysDead, KickedForAReason and TypeOK, for any windows, views,
sessions and requests (assumptions: `None` is no number, the bounds are natural
numbers, a window may have a request under way).  Every request carries a token that the server made or none, and one that
is answered 401 has a token whose session has ended (CallOK).  The second
theorem rests on the first: the 401 may be on its way for as long as it likes, and what
it says stays true, because tokens are not repeated and `touch` revives nothing.
TypeOK, that a window without a session shows no data and one that is logged off
shows the login page, needs to know that whoever waits for the answer to a request of a page
is a window that is logged in, since a page that goes is told nothing any more (Attended),
and that requests of one window do not share a place.

`RuntimeProofs` proves NeverDeaf, SettledAgrees, NoStrayRules and ResolvRestored, for any
configurations and any number of handlers (assumptions: `BodyAssumption`,
`MaxHostsAssumption`).  The three that hold through overlaps and failures need
little more than types and that a daemon that is down has no handler and no guard.
The failures of tools and writes enter as lemmas on what they may leave: setups and cleanups, whole, partial
or without effect, add only rules of their backend (LaidParts), and a failed install or restore leaves the user's
file in one of its two places if it found it there (FailedInstallsParts, RestoresParts).
SettledAgrees is about the end of an update, between whose steps components
disagree: `Coherent` says that without overlap and failure there is one
handler at most, and `Phase` which components are at the old configuration after each
of its steps and which at the new.

`DhcpV4Proofs` proves TypeOK, AckedIsRecorded, NamesResolve and AddressesApart, for any
clients, pool, static bindings, names, times and any number of tasks (assumptions:
`MacAssumption`, `PoolAssumption`, `TimeAssumption`, `NameAssumption`,
`StaticAssumption`).  The invariant has three layers.  `TypeInv` says what a task has in
hand at each of its steps (Working) and that a static record stands for a static
binding (StaticOnly).  `CalmInv` holds as long as no client crosses itself and no restart has read a file that was cut off: a
client's tasks serve one REQUEST or a RELEASE (Alone), a client that asks for an
address or gives its own up has no other (GaveUp), before an ACK is sent its lease is in the
store and on disk (Flushed), a lease that a client believes in is in the store as long as it
lasts, and on disk unless the file is cut off (Recorded), with the client's name in the table (Named).  `BlamelessInv` holds as long as nothing is blamed: whatever
gives a client a right to an address - an offer in its hands, a task between two locks, a record in the
store - gives it to one client (ClaimsApart), the same is true of the file, which is the store after
the next restart (FileApart), and an address that a client holds or is offered stays
reserved in the server's tables for as long (Reserved).  The last is where a lease must not be shorter than
an offer.

`ConfigTabsProofs` proves all six properties of ConfigTabs, for any configurations that a
validated file may hold, any words, names, paths and keys and lists of any
length (assumptions: the `ASSUME`s of RulesTab, HostsTab and ConfigTabs).  Its algorithms are
recursive functions over lists, so it begins with what the library does not have: that a
recursive function exists (Recursion), by induction over a set of numbers (NatInduct), that a
part of a list enumerates its places in order (Enumerates, AtIs), and where the elements of a
flattened list come from (Offsets, Flattened).  Then:

- names: the catalog has each path once, under a name of its own (CatalogOfEntries), and
  the groups of all rules have names that differ from one another and from `default`
  (GroupNamesOK), because of n + 1 numbered names one is free (OneIsFree).  With `TypeInv`,
  the form of draft, lists and server, TypeOK follows.
- routing: what a list of rules shows is, after `CommitToConfig`, what the draft
  routes (CommitRoutes), and what a draft routes is shown by what `FromBackend` makes of it
  (MountRoutes): a list of blocks has the first hits of its blocks (Blocks).  Every step
  of the tab does one or the other (RulesTabStep), which is RulesAreRouted; RenameKeepsRouting
  follows, since rules that follow to a name nobody had keep their paths (RenamedPaths).
- opening again: the entries that `CommitToConfig` wrote for a rule are a run of their own
  (RunsOfGroups), and the rule made of that run has the paths, in order, and the
  settings of the rule it came from (RuleAgain), which is RemountKeepsRules.
- the server's client subnet stays in the default group (`SnakeInv`), which is DefaultKept.
- an object has its whole numbers first and in order and every key once (`MadeInv`, MadeInOrder),
  so that making an object of its rows again changes nothing (MadeAgain), which is TypingStaysInRow.

So every safety property that a passing run checks is proved.  Model-checked only is liveness,
since fairness and ENABLED are outside what the prover handles: QueryReturns of UdpPool, Settles
of ConfigEditor, EndIsNoticed and RowsCatchUp of Panel.

## Plan

What is left, in order:

1. **Host resolver**, a cache with a time to live whose lookups run without its
   lock; liveness of Resolve (every request returns, under fair tasks and time).
2. **DhcpV6** with RA prefixes; `AddressesApart` for restarts of the counter.
3. **Stats**: counters, flush, exit and crash.
4. **DoH/DoQ**: the cooldown; DoQ as DotPool with one connection.
5. **Ruleset**: matching as functions, against rule-by-rule matching over all
   small rule lists and names.
6. Composition of Runtime with a DHCP server whose tasks survive an abort.

Proofs: those of the modules above, as they come; of what there is, liveness alone is
left to model checking.

Not planned: message and frame encoding, TLS and TCP framing, YAML shapes, the
ruleset file format and parsers, the read-only handlers of the API, pf, and the
command line tools: sequential conversions or I/O without state that two
tasks share.  Of the panel: charts, toasts, widgets, styles and the drawer of narrow
screens; the password form, whose route the server does not have; the built bundle,
which is the same code again.
