# LibOnionRoute: specifications, model checking and proofs

LibOnionRoute is Tor 0.2.3 turned into a library: the onion router's event loop
runs in one thread of an application, and other threads open, write, read and
close anonymised streams through `onionroute.h`. All paths below are relative to
`src/tor-maint-0.2.3-ebb95d0/src/`; `PROJECT.json` gives the lines that every
definition stands for.

The project models the program's own protocol and state machines: cells,
circuits and streams from the application's call to the exit's socket, the links
under them, name lookups, hidden services, the directory from the authorities'
vote to the descriptors a client keeps, and the pure algorithms in between. Seven
modules (`*_proofs`) hold machine-checked proofs about these, and `SequenceLemmas` what
they share.

1. [Inventory](#1-inventory)
2. [Plan](#2-plan)
3. [The modules and the code](#3-the-modules-and-the-code)
4. [The runs](#4-the-runs)
5. [Fairness](#5-fairness)
6. [Where the code and its description differ](#6-where-the-code-and-its-description-differ)
7. [The proofs](#7-the-proofs)
8. [What is not modelled](#8-what-is-not-modelled)

## 1. Inventory

Everything but CPU workers, DNS threads and the application's own threads runs in
one thread, driven by libevent. A handler (a cell, a socket event, a timer) runs
to its end before the next one starts; concurrency is the interleaving of whole
handlers with the network, with workers and with application threads. What is
hard is therefore ordering: objects that are marked now and freed later, answers
that come after the question has gone, pointers kept in two tables, and budgets
that two ends of a circuit keep without seeing one another.

| Component | State | Operations | Interacts with | Hard behaviour | Correct when |
|---|---|---|---|---|---|
| Relay flow control (`or/relay.c`, `or/connection_edge.c`) | package and deliver windows of circuits, hops and streams; `streams_blocked_on_*`; inbufs, outbufs | package data, SENDME, DATA, END, block and unblock, resume | cell queues below, edge connections above, the other end by cells | several handlers move one budget; a full queue stops streams that a SENDME or a flush must restart | no unit is lost or doubled; nobody is blocked for ever; END follows data |
| Circuits and links (`or/circuitlist.c`, `or/command.c`, `or/circuitbuild.c`, `or/relay.c`, `or/connection_or.c`) | (connection, circID) map, both sides of every circuit, cell queues, ring and heap of active circuits per connection, pending circuits | CREATE, CREATED, EXTEND, TRUNCATE, DESTROY, RELAY, mark, free, connection opens, fails, closes | neighbours, onion queue, flow control | the same fact in four structures, changed by several functions in a fixed order | the structures agree; no cell goes out on another link; neighbours are told; everyone gets a turn |
| Onion queue and CPU workers (`or/onion.c`, `or/cpuworker.c`) | `ol_list`, pool of worker connections, two counters | CREATE, answer, rotate keys, cull, worker dies | circuits, worker threads | answers for circuits that are gone, deaths, rotation while busy | counters agree with the pool; a circuit gets its own answer; nobody waits beside an idle worker |
| Library command queue (`or/main.c`, `or/control.c`, `or/connection.c`, `or/connection_edge.c`) | `cqueue` and its lock, stream handles | open, write, close, new identity; the 200 ms timer | application threads, connection life cycle | threads, reentrant callbacks, handles to freed connections | commands run once, in order, on live connections |
| Library receive queue (`or/main.c`) | `readqueue`, `closequeue`, an event | add, blocking read | main thread, application threads | list pointers replaced while the other thread adds | nothing is lost, repeated or reordered |
| Stream attachment (`or/circuituse.c`, `or/connection_edge.c`) | AP states, pending streams, circuit purposes | attach, detach, retry, expire | circuits, controller, DNS | retries race with late answers | a stream is attached once, and ends with one reply |
| OR link handshake (`or/connection_or.c`, `or/command.c`) | link and handshake state, digests | VERSIONS, CERTS, AUTHENTICATE, NETINFO | circuits, TLS | cells in any order; v2 against v3 | no circuit on an unauthenticated link |
| Event loop, connection life cycle (`or/main.c`, `or/connection.c`) | connection array, closeable and linked lists | add, mark, flush, close, once-a-second events | everything | mark now, free later; linked pairs | no use after free; what must be flushed is |
| Token buckets (`or/connection.c`) | global and per-connection buckets | refill, spend, stop and resume reading | event loop | overflow, changed rates | bounds kept; blocked connections resume |
| Exit DNS (`or/dns.c`) | resolve cache, pending lists, expiry queue | launch, answer, cancel, expire | eventdns, edge connections | late and repeated answers | each waiting stream is answered once |
| Hibernation (`or/hibernate.c`) | state, interval, limits, state file | wake, soft and hard limit, shutdown | event loop, signals, options | thresholds and signals race with the interval's end | the quota is kept, outside of a shutdown; sleeps and wakes when it should |
| Rendezvous (`or/rend*.c`) | introduction and rendezvous circuits, descriptors | establish, introduce, splice | circuits, directory | three circuits of two parties | a splice joins the right two |
| Voting (`or/dirvote.c`) | votes, signatures, schedule | vote, fetch, compute, publish | other authorities | clocks, missing messages | one consensus per interval |
| Directory, consensus, nodes (`or/directory.c`, `or/networkstatus.c`, `or/nodelist.c`, `or/microdesc.c`, `or/dirserv.c`) | download status, waiting consensuses, node table | fetch, fail, accept | routers, circuits | retry schedules, certificates that come later | a failure is retried, the table follows the consensus |
| Descriptor store (`or/routerlist.c`) | store, journal, maps | append, rebuild, expire | disk, consensus | crash between steps; a consensus that expires | nothing that must be retained is lost |
| Entry guards, build timeouts (`or/circuitbuild.c`) | guard list, time-out state | use, fail, retry | circuits | everything down and up again | a usable guard is found again |
| Control port (`or/control.c`) | queued events, authentication | command, event, flush | everything | events that cause events | order kept, nothing re-entered |
| Pluggable transports (`or/transports.c`) | managed proxies | launch, configure, reload, kill | configuration | reload while configuring | no orphan, no double launch |
| Configuration (`or/config.c`) | options, two-phase transition | set, roll back | everything | partial failure | all or nothing |
| Scheduler (EWMA, in `or/relay.c`) | priority heap | tick, pick | cell queues | rescaling | heap order |
| Containers, buffers, pools (`common/container.c`, `or/buffers.c`, `common/mempool.c`) | lists, heaps, chunks | usual | everything | boundaries | as documented |

Own descriptor (`router.c`), policies, statistics, parsing, process start,
cryptography, TLS, platform code, the vendored eventdns and allocator, tests and
tools complete the list in `PROJECT.json`, each with its status.

`PROJECT.json` "hazards" lists what can go wrong at which line and which
properties watch it. Where no property does, or the code does go wrong and the
property has an exception for it, a note says so; section 6 describes these cases.

## 2. Plan

The order is by what users of the library feel first: data that stalls or is
lost, circuits that break, then links, streams and the outer protocols. What is
done, and what is left:

| Step | Modules | Abstract specification or reference | Theorems |
|---|---|---|---|
| done | `WindowProtocol`, `FlowControl` | `WindowProtocol` is the abstraction of every window of `FlowControl` | all invariants of `WindowProtocol`; `FlowControl`: types, `BlocksEnd`, `ImplementsWindows` |
| done | `CircuitTable`, `OnionQueue` | | `OnionQueue`: types, `PoolSound`, `NobodyWaitsForIdle` |
| done | `LibraryCommands`, `ReceiveQueue` | `Fifo` | FIFO refinement; nothing is returned twice, others' data is kept |
| done | `OrHandshake`, `ClientStreams`, `Rendezvous`, `ResolveCache`, `EventDns` | | `ResolveCache`: types, `CacheSound`; `OrHandshake`: types, `LinkSound`; `Rendezvous`: types, `Introduced` |
| done | `Pipe` over `ChunkBuffer`, `SocksHandshake`, `ConnectionIO`, `Hibernation` | the bytes written are the bytes read | `Hibernation`: `HibernatesRight` |
| done | `EntryGuards`, `CircuitBuildTimes` | the state file and a restart lose nothing that was saved | `CircuitBuildTimes`: `TimesSound` |
| done | `RouterStore`, `DirVote` | | `RouterStore`: `StoreSound`, `NothingLost`; `DirVote`: `OneConsensus` |
| done | `Policies`, `BandwidthWeights`, `ConsensusDoc`, `DocumentParse`, `PathChoice` | reference definitions over bounded inputs | |
| left | proofs | | `ClientStreams`, `EntryGuards`, `CircuitTable` |

Modules that proofs are about declare no RECURSIVE operator: loops of the code
are recursive functions or folds, invariants are conjunctions of named parts and
constants carry named assumptions. Machines that share a run are joined by a
union: the first state chooses one, and the others stay as they are.

## 3. The modules and the code

A handler of the main thread is one action; the functions it calls are operators
that take the changed part of the state as a record and return it, so that the
order of calls in an operator is the order in the code. Where a call may end in
several ways an operator returns a set. Names are the code's where TLA+ allows
it; a comment above each definition names the function otherwise, and `PROJECT.json`
"map" has the lines. `MC*` modules only give names to small sets.

### WindowProtocol

One package/deliver window pair of `relay.c`, without streams, queues or order.
`package` and `deliver` are the two fields of `circuit_t`, `crypt_path_t` and
`edge_connection_t`; `data` and `sendmes` count what is in flight. `Eager` says
whether the top-up is part of the receipt (`circuit_consider_sending_sendme`) or
may be put off while the edge's outbuf is full
(`connection_edge_consider_sending_sendme`); `Checked` whether a SENDME that would
overfill is refused (circuit level only). `ReceiveSendme(k)` includes the cells
that the handler packages before it returns.

### FlowControl

One direction of one circuit: `inbuf`, `reading`, `spw`, `pw`, `blocked`, `queue` at
the packager; `wire` and `back` in flight; `sdw`, `dw`, `outbuf` at the deliverer.
Data is counted in cells of full payload.

| Action | Code |
|---|---|
| `Read` | `connection_handle_read_impl`, `connection_edge_process_inbuf`, `connection_edge_package_raw_inbuf`, `connection_edge_reached_eof` |
| `Write` | `onionroute_stream_write_i`: data from the application's queue, not held back by `reading` |
| `Flush` | `connection_or_flush_from_first_active_circuit`, `set_streams_blocked_on_circ(0)` at the low-water mark |
| `CircuitSendme` | circuit SENDME, then `circuit_resume_edge_reading` with its rounds (`PackagingFrom`) |
| `StreamSendme` | stream SENDME, and packaging unless the queue is blocked |
| `Data`, `End` | DATA and END at the other end, with both `consider_sending_sendme` |
| `Drain`, `Connected`, `Hangup`, `Open`, `StreamEnd` | edge connections at both ends |

`AppendCells` is `append_cell_to_circuit_queue`: it primes an idle connection, blocks
every stream at the high mark, and blocks a stream that nobody blocked yet.
`Counted` keeps an oddity of `connection_edge_package_raw_inbuf`: it returns before
the last cell of a stream's window is subtracted from `max_cells`. The helper's
random starting point is fixed at the head of the list. The circuit's and each
stream's window refine `WindowProtocol` (`CircuitWindow`, `StreamWindow`); a stream
stops being an instance when one end closes it, since from then on its cells are on
no account.

### CircuitTable

One node with its circuits and connections. `link` holds conn and circID of both
sides, `map` is `orconn_circid_map`, `next`, `prev` and `head` are the ring's
pointers (to circuits, as in the code; `SideOn` finds the side as
`next_circ_on_conn_p` does), `heap` the members of `active_circuit_pqueue`. `SetLink`
is `circuit_set_circid_orconn_helper` with its early return and the assertion of its
two callers; `sound` turns false where a `tor_assert` fails, and then nothing more
happens. `RelayCell` takes a cell by what it is once the relay has decrypted it.
A cell in a queue is the link it was packed for.

`settled` is a history variable: the links, of those in the map, for which a DESTROY was
sent or received.
The scheduling is the round robin that is used when EWMA is off.

### OnionQueue

`queue` is `ol_list`; `mode`, `old`, `task` and `asked` describe a worker connection;
`num` and `busy` are the two counters. A tag is the (connection, circID) pair of
`tag_pack`. Timers (the minute between culls, the five seconds of the list, the
hours of a wedged worker) are choices. `quiet` is chosen by `Init`: in a quiet history
keys are not rotated and no worker fails.

### LibraryCommands and Fifo

`cqueue` with the timer's three stages. The list's lock is recursive: other threads
wait while the timer drains, a callback in the main thread does not, which the
constant `Reenters` allows or forbids. `life` follows a connection from the open
command to `connection_unlink`. `Fifo` is what the queue promises.

### ReceiveQueue

`smartlist_add`, `_pop_last` and the replacement of a list are steps of their own, as
each takes the list's lock for itself; an add takes the global pointer in one step
(`Begin`) and adds in another. `serial` is chosen by `Init`: it says whether the
application keeps its reading call apart from the adds. A chunk is a range of unit
numbers, so that loss, repetition and order can be told.

### ClientStreams

The streams of a client and the circuits they use: `connection_ap_handshake_attach_circuit`
and what it calls (choice of a circuit, isolation, launching, cannibalising), BEGIN and
RESOLVE, their answers and END, `connection_ap_expire_beginning`,
`circuit_expire_building` and the housekeeping of idle circuits. Cells to an exit arrive at
once and those from it wait in `back`, which leaves every order of answers and decisions.

### Rendezvous

The three parties: the client's introduction and rendezvous circuits with the descriptor it
fetches (`rendclient.c`), the relays that keep an introduction or rendezvous point
(`rendmid.c`), and the service (`rendservice.c`). A rendezvous circuit stands for its cookie
and its `g^x`, so that an acknowledgement or a RENDEZVOUS2 that reaches another circuit can
be told.

### OrHandshake

Both ends of a link run this code, or one of them is a stranger that sends any cell at any
time. Identities, certificates and transcripts are what the cells carry; a certificate that
does not verify has the key `Bad`.

### ResolveCache and EventDns

`ResolveCache` is `dns.c`: the cache with pending and answered lookups, the connections that
wait on each, cancelling, expiry, hangups. `EventDns` is the resolver below it: requests in
flight and waiting, nameservers up and down, probes, retransmission, reissue, and a
`resolv.conf` that is read again.

### Pipe, ChunkBuffer and SocksHandshake

`ChunkBuffer` has the operators of `buffers.c` on chunks (how much memory, where the bytes
are), `Pipe` writes numbered bytes through two buffers and TLS. `SocksHandshake` is
`parse_socks` as a server and the proxy client, fed with requests that are cut anywhere.

### ConnectionIO and Hibernation

`ConnectionIO` is what decides whether a connection waits for events: token buckets and
their refill, linked connections, marking, flushing and closing. `Hibernation` is
`hibernate.c`, with one step for a second of `run_scheduled_events`, what is on disk, and
between any two seconds a crash, a SIGTERM or a SIGINT. `h` is its static variables, `state`
the accounting fields of `or_state_t` and `disk` those of the file. `Begin` is
`hibernate_begin` at the soft limit and at a SIGINT; in the state EXITING
`consider_hibernation` looks at no limit (`or/hibernate.c:912`) and ends the program when
`ShutdownWaitLength` has passed (`Done`, `LastSecond`). `Stop` is every clean end through
`tor_cleanup`. Three history variables say what happened to the bytes of the interval:
`total` was carried, `lost` of them forgotten, and no limit was asked for `exempt` of them.

### EntryGuards and CircuitBuildTimes

The guard list with its connections, options, consensus, state file and restarts; and the
build times: the ring, the histogram's estimate as any number the formulas can give, the
network's liveness, and the state file.

### RouterStore and DirVote

`RouterStore` is the part of `routerlist.c` that keeps descriptors in a store file and a
journal: adding, replacing, expiring, rebuilding, and loading after a crash at any file
operation. `listed` is the consensus. It may expire and still be the one that
`networkstatus_get_latest_consensus` returns; `cutoff` is then the age of the descriptors it
lists that `routerlist_remove_old_routers` no longer puts into `retain`
(`or/routerlist.c:3709`), so that what is `Retained` is what is listed and past it. `Ages`
moves `cutoff`, `Discarded` is a consensus that is too old for the next start. `DirVote` is the schedule of `dirvote.c`: votes and signatures that are lost,
late or fetched again, and an authority that restarts within an interval. `MCDirectory`
extends `RouterStore` and takes `DirVote` as `Voting`.

### The pure algorithms

`BandwidthWeights` (`networkstatus_compute_bw_weights_v10` against what
`networkstatus_verify_bw_weights` checks), `ConsensusDoc` (what becomes of a router in a
consensus), `DocumentParse` (the tables of keywords against what the parsers assert),
`Policies` (exit policies against their decisions address by address) and `PathChoice` (the
relays of a new circuit, families, and the choice by bandwidth). `MCAlgorithms` chooses the
algorithm and its input step by step.

## 4. The runs

Deadlock is not checked anywhere: each system may really come to rest (all streams
closed, no cells, no commands left). Machines that do not interact share runs by a union:
`side` chooses the machine.

| Run | Machines and instance | What it shows |
|---|---|---|
| `transfer` | `WindowProtocol` (start 24, increment 6, initial 15); `Pipe` (6 bytes, up to 4 at once, small chunks); `SocksHandshake`; `ConnectionIO` (3 bytes each way, buckets of 1 and 2); `Hibernation` (up to 7 seconds, intervals of 4, a quota of 2, a shutdown of 2, one crash or change of the options) | conservation, no kill, no overfill, no wedge; bytes arrive once and in order and buffers keep their shape; requests cut anywhere are understood alike; nobody sleeps on data that may move, everything written drains; the quota is kept but for what no limit applies to, and sleep is as long as it should be |
| `relay` | `CircuitTable`: 2 circuits, 2 connections, 1 circID in each half, queues of 2 | rings, map, assertions, cells on their link, no silent end |
| `table_live` | `CircuitTable`: 3 circuits (2 of them origins), 1 connection | waiting circuits are answered, every turn comes |
| `table_reextend` | as `relay`, clients extend again after a DESTROY from ahead | violated: an assertion fails |
| `onion` | 3 CREATEs, 2 workers, 2 places for those who wait | counters, list, keys, own answers, nobody waits for ever |
| `flow` | `FlowControl`, an exit and an origin: 2 streams share a circuit | both window refinements, blocking, END after data, delivery |
| `library` | `LibraryCommands`, 5 commands; `ReceiveQueue`, 2 streams | FIFO order, every command runs; nothing twice, everything delivered |
| `streams` | `ClientStreams`: 2 streams, 2 circuits; `Rendezvous`: 1 stream, 3 circuits, 2 introduction points; `CircuitBuildTimes` | no LD_BUG branch, cells reach their own stream, isolation, nobody waits beside a usable circuit; introductions and answers belong together; histories and timeouts are sound |
| `directory` | `RouterStore`: 3 descriptors of one router, one of which may come with `cache=no`, an extra-info, 2 consensuses that may expire, a failing file operation; `DirVote`: 3 authorities, one restart | maps agree, nothing that is retained is lost; one consensus |
| `algorithms` | `BandwidthWeights`, `ConsensusDoc`, `DocumentParse`, `Policies`, `PathChoice`; `EventDns`: 2 servers, 2 lookups | the reference definitions hold over all bounded inputs; each lookup asked once and never forgotten |
| `handshake` | `OrHandshake` with every pair of ends, three kinds of TLS handshake; `EntryGuards` | nobody is taken for a relay without proof, suited ends open; guards survive outages and restarts and come back |
| `dns` | `ResolveCache`: 3 connections, 2 names | each waiting connection is answered once |

`flow` and `dns` are two specifications of one module, `MCEdge`, which `Edge_proofs` extends:
in each one machine moves and the other stays in an initial state.

Why the bounds are enough to be interesting:

- `WindowProtocol`: an initial window of 15 is two and a half increments of 6, so rounding
  matters; `Eager = FALSE` allows both to top up at once and to put it off, and
  `Checked = TRUE` arms the kill branches, so this instance has every behaviour of
  circuit and stream windows. The theorems cover all values.
- `flow`: five cells against a circuit window of four at the exit, six against five at the
  origin, and four against a stream window of three use up both kinds of window; a queue of
  four with marks at four and one is blocked and unblocked; the proportions are the real
  ones. Optimistic data, hang-ups and a full outbuf all occur.
- `relay`: with one circID in each half, `get_unique_circ_id_by_conn` runs out; two circuits
  pass through both connections in opposite directions; a queue of two cells is neither
  empty nor full after one. Circuits and connections are interchangeable, so symmetry is
  used. It gives both connections the same half of the circIDs for this node, so that
  the two circIDs of a circuit never coincide (see below), and extends no circuit whose next
  hop was destroyed; `table_reextend` has such clients.
- `table_live`: three sides on one ring are the fewest for which insertion before the head
  and after it differ; two origins wait for one connection together.
- `onion`: with both workers alive the third circuit waits; with one dead the second does,
  and the third too, or culls it; with none two wait and the third is refused or culls.
- `library`: five commands cover open, write and close of one stream around a timer, beside
  another stream; a chunk of two with a buffer of one is cut, and the remainder meets a
  newer chunk of the same stream and one of another.
- `streams`: two streams compete for a circuit, one of which may be lost, expire or be
  relabelled while its answer is under way; for a hidden service two points, one of which
  may be gone, a service that posts once, and circuits for a rendezvous and two
  introductions in parallel: the second circuit (`Slow`), normally the first to an introduction
  point, may be in the making for longer than the timeout.
- `directory`: a journal of one document is full after one append, so that rebuilds and
  journals alternate; a crash may come between any two file operations. A listed descriptor
  may be the oldest or not, and age before, after or while an update of it comes. Three authorities
  with a majority of two are the fewest that can disagree.
- `algorithms`: eight units of bandwidth in four classes reach every case of the weights; an
  address space of three bits has every relation of two prefixes; documents are those a
  table allows with one change and one line less.
- The resolver runs beside the algorithms, with which it shares nothing: their state is a
  single variable, so it costs them nothing. With room for one request a second lookup
  waits; without a search list (`ServerDNSSearchDomains` is off by default) a name is
  looked up once.
- `dns`: three connections on two circuits are the fewest for which a list loses one in its
  middle while a circuit closes.
## 5. Fairness

- `FlowControl`: weak fairness of `Progress`, everything libevent or the network does
  sooner or later, as one action. It is the weakest assumption that uses the
  scheduling: it does not favour any stream. Writing through the library and
  hanging up are the application's choice and have no fairness.
- `CircuitTable`: weak fairness of writing to a connection with a non-empty outbuf
  (libevent reports it) and of the end of a connection attempt or of a marked
  connection (`close_closeable_connections` runs after each event). It is written
  with the guards instead of ENABLED, because TLC evaluates ENABLED slowly on
  these actions. `EveryTurnComes` has a further premise in its statement: the
  outbuf falls below the low-water mark again and again. DESTROY cells do not queue,
  so that neighbours could keep it above for ever.
- `OnionQueue`: a worker that does not fail finishes; marked circuits are freed.
  Rotation, deaths and CREATE have no fairness, so nothing depends on a next CREATE.
- `LibraryCommands`: the timer begins (libevent fires it every 200 ms) and its
  callback runs to its end.
- `ReceiveQueue`: both threads run, and the application reads every stream again
  and again (strong fairness of `Recv`, since a call for another stream may be in
  progress at any one moment). Without such an application nothing can drain.
- `EntryGuards`: the network comes back and a connection is tried again and again (circuits
  are built every second); `OrHandshake`: both ends read what has arrived. `ConnectionIO`:
  the refill timer and libevent. `ResolveCache`: eventdns answers or times out (shown of
  `EventDns` as `SomethingWakes`: every request has a timer or a server to be written to); it
  is weak fairness, written with its guard in place of ENABLED, which is slow to evaluate.
- `ClientStreams`, `Rendezvous`, `RouterStore`, `DirVote`, `EventDns`, `Hibernation`,
  `CircuitBuildTimes` and the algorithms are checked for safety only.

## 6. Where the code and its description differ

One is a run that ends in a counterexample of a few steps: `table_reextend`
(`or/command.c:636`). DESTROY from the next hop detaches it without emptying its queue,
which TRUNCATE does. The side keeps cells while on no ring. When the client extends the
circuit to another neighbour, `circ->n_conn` is set before `circuit_set_n_circid_orconn`, the
helper sees the same connection and does not make the circuit active, and `tor_assert` of "on
the ring exactly if it has cells" fails.

Others were met while modelling. The modules have the behaviour, and the properties
are stated so as not to depend on it:

- A circuit whose two circIDs are equal takes a DESTROY from ahead for one from
  behind (`or/command.c:629`), and its client is not told.
- A stream SENDME that comes while the queue is blocked does not package the inbuf,
  nor does the unblocking (`or/relay.c:1393`, `or/relay.c:2468`): data of an application
  that stays connected and silent waits until something else happens.
- SENDMEs for a stream of the library are dropped (`or/relay.c:1386`) while its cells
  are charged to its window.
- After a key rotation the worker that replaces an old one does not look at the
  list (`or/cpuworker.c:197`), and `onion_pending_add` alone culls it.
- A circuit whose onionskin was lost with a worker is not closed from this side; the
  comment at `or/cpuworker.c:113` counts on `run_connection_housekeeping`, which looks
  at connections only.
- A callback of a running command that queues another one has it run before older
  ones (`or/main.c:1851`): the assumption of theorem `RunsInOrder`.
- A chunk or closing that is added between the last pop of a reading call and the
  replacement of the list is lost (`or/main.c:3027`).
- The event of the receive queue is manual-reset and never reset, so that calls after
  the first chunk do not wait.
- The comment of `connection_edge_package_raw_inbuf` says `*max_cells` is decremented by
  the number of cells packaged; the last cell of a window is not counted.


Library queues and workers:

- An answer is matched by connection and circID (`or/cpuworker.c:159`): a neighbour that
  destroys a circuit and uses its circID again before the worker is done has the new circuit
  given the old answer; the comment of `command_process_destroy_cell` says that the answer
  will be dropped. `TagsReused` allows it.
- A queued command holds a connection's address, which may be freed before the command is
  run (`or/connection.c:2743`, `or/control.c:2980`): `HandlesAlive` says when it is not.
- Chunks are taken from the end of the list and each is copied to the start of the buffer
  (`or/main.c:2994`), so of two chunks between two calls the older overwrites the newer:
  `ReadsLikeSocket`.

Links and streams:

- A public relay that connects to a non-public one with version 3 is sent no AUTH_CHALLENGE
  (`or/command.c:768`), never sends NETINFO and opens the link alone; the other end closes it
  at the first circuit cell. `Suited` names the pairs of ends that do open.
- `circuit_is_better` compares a connection's purpose with a circuit's, so that the choice
  by dirtiness never applies; isolation looks at the joining stream's flags only
  (`tor.1.txt:885` says either stream's); the cases TIMEOUT and CONNECTREFUSED in
  `connection_ap_process_end_not_open` are never reached; `circuit_mark_for_close` takes
  `circ->lock` (`or/circuitlist.c:1462`) and does not release it.
- Closing an attached stream of the library sends no END.
- `END_CIRC_REASON_NONE` is replaced before the test for a timeout, so that
  INTRO_POINT_FAILURE_TIMEOUT is never reported; the comparison of the grace period of old
  introduction points is inverted (`or/rendservice.c:2201`); refetching puts streams into
  RENDDESC_WAIT after the fetch has begun.
- `choose_random_entry` decides by the last entry that it looked at whether to try again
  without uptime and capacity; `entry_is_live` does not look at ExcludeNodes; a failed
  retry's time is not marked to be saved.
- `get_xm` asserts that some bin is not empty (`or/circuitbuild.c:790`), which fails when all
  recorded times are abandoned: `AllMayFail` allows it. After learning was disabled and
  enabled with a shorter `cbtrecentcount`, the next mark is written beyond the array
  (`or/circuitbuild.c:505`): `RingInside` names the exception.
- With duplicate nicknames `nodelist_add_node_and_family` adds one of the relays that a
  family names, and `nodes_in_same_family` accepts both. The second warning of
  `node_get_by_nickname` has the first one's condition. A relay that is neither fast nor exit nor
  guard and whose bandwidth is unknown counts for nothing, though the mean of the others is
  computed for it (`or/routerlist.c:2030`).
- An exit for general use may be of this relay's own family; other hops may not.

Bytes and events:

- A connection that a timer's write closes at once meets an assertion when it is refilled
  (`TimerErrors`); `connection_remove` returns without releasing the array's lock when the
  connection is the last one; `consider_empty_*_buckets` pause connections that are not rate
  limited; `conn_close_if_marked` flushes without charging buckets.
- Early returns of `read_to_chunk`, `flush_chunk`, `flush_buf`, `flush_buf_tls`,
  `fetch_var_cell_from_buf` and `fetch_from_buf_socks` leave a buffer's lock taken.
  `buf_find_string_offset` may look into an empty tail chunk (`FindsRight` has the exception).
- Pipelined SOCKS5 method and authentication get one reply; a complete request of exactly the
  wanted length stays in the buffer; the authentication reply's version is 5, RFC 1929 has 1.
- Hibernation's month edge test is `tm_mday < start || (tm_mday < start && before)`
  (`or/hibernate.c:297`); the expected bandwidth is computed per hour though used per minute; a
  relay that is started or reconfigured is live for a second before it reads what it has used.
  No limit is looked at in a shutdown (the comment at `or/hibernate.c:912` says so), and a
  dormant relay still makes directory connections; `QuotaKept` counts these bytes apart.

Names:

- `evdns`: a request that a server refused is given to another one and sent only when the old
  timer fires or something else is written; requests that were suspended are put back
  reversed; after a failed and a good configuration nothing resumes them until another one
  ends (`RoomIsUsed` has the exception).
- A lookup that expires between a hangup and the end of the turn meets an assertion
  (`Overlap`); "pending but has no pending connections" can be reached.

Directory:

- The comment at `or/routerlist.c:3707` says "Retain anything listed in the consensus"; the code
  retains what was published less than OLD_ROUTER_DESC_MAX_AGE ago. The two differ when the
  consensus has expired and no other came: a listed descriptor is then dropped from memory
  and, with the next rebuild, from disk. `NothingLost` is about `Retained` descriptors.
- A rename that fails leaves the store unmapped, and the next read of a body exits
  (`or/routerlist.c:2640`); what `sdmap_set` displaces is ignored; a torn append followed by a
  failed rebuild at startup loses the next document.
- An authority that restarts within an interval votes and signs again, so two consensuses
  can each get a majority; `OneConsensus` allows that only with a restarted authority that signed
  both. The method needs strictly more than two thirds though the comment says two thirds.
  Method 10's weights are absent for many distributions.
- The table of votes lists `known-flags` twice; the second row is hidden.

## 7. The proofs

All proofs are checked by TLAPS to the last leaf; the only assumptions are the named
ones on constants, which TLC evaluates in the runs.

**`Transfer_proofs`.** Two of the parts of `MCTransfer`. The first is the flow-control window
(`WindowProtocol`). For every start, limit, increment and initial window
with increment <= initial <= start and initial <= limit (what
`circuit_initial_package_window` ensures by clipping the consensus value): `TypeOK`,
`Conservation`, `NeverKilled`, `NeverOverfilled` and `NeverWedged` are invariants.
`Conservation` alone is not inductive: to see that a receipt does not kill, one needs
that the deliverer's window is at least what is in flight, which follows from
conservation, and for the wedge one needs that an eager deliverer never leaves a
top-up undone. Hence

    IInv == TypeOK /\ Conservation /\ NeverKilled /\ WindowBounds

where `WindowBounds` bounds `deliver` by `Start`, and from below for eager deliverers.
There is one lemma per action. Products of a constant and a variable are out of the
SMT solver's reach in large goals, so `ProductFacts` states the few that occur, and
`TopUpBounds` and `TopUpFromBalance` say what the top-up loop does for every number
of rounds. By `WindowsImplemented` (below) the invariants carry over to the windows of whole
circuits with streams, queues and blocks.

The second is the quota: `AlwaysHibernatesRight`, for any calendar of months of at least three
days, interval, quota of at least two bytes, rate of use and estimate of the bandwidth. (With a
quota of one byte the soft limit is zero, and zero is how the code says that there is none.) In an interval the relay carries at most the quota less one byte, the bytes
of one second, what was forgotten (`lost`) and what no limit is asked for (`exempt`: in a
shutdown, in the second after a start, through a dormant relay's directory connections).
That needs to know what is *remembered* of the interval at any time, in memory and in the file,
beside what was really carried: a crash loses what was used since the file was last written, a
start takes what the file says only when it is of this interval (`Remembered`), and everything
carried is remembered or lost (`Counted`). What is remembered stays below the quota while the relay is
awake and neither shutting down nor about to be asked (`Counted` again), so that only the one
second in which it reaches the quota exceeds it. That the relay sleeps and wakes when it should is what
`consider_hibernation` leaves until the options change (`Settled`); it needs the calendar: every
time is in the period that starts at `PeriodStart` of it, and the next one starts where it ends
(`DaysFollow`, `PeriodsContainTimes`).

**`Library_proofs`.** Both queues of the library, through `MCLibrary`, which has the
constants of both. `ReturnedOnce` (`NeverTwice`: no unit of data is returned twice),
`OthersKept` (a call that no add races with keeps the data of the other streams) and
`TypeCorrect`, for any streams, amounts of data, chunk sizes and buffer. `NeverTwice` is
about what was returned only: the invariant adds that no two chunks anywhere (on the list, in
the hands of the reading thread, set aside by a reader) overlap, that none overlaps what was
returned, and that the buffer is either the rest of one chunk or empty.
`CommandsTypeCorrect`, and `RunsInOrder`: without reentrant callbacks `LibraryCommands`
implements `Fifo`, for any number of streams and commands. The refinement maps the list to
itself while the timer is off and to its reverse while it drains. `PopIsHead` (popping the
end of a list takes the head of its reverse) makes `Run` a `Fifo!Run`; `ReverseTwice` makes
`TimerBegins` a stutter; an `Enqueue` is a `Fifo!Put` because, without reentrancy, the timer
is off.

**`Directory_proofs`.** `AlwaysStoreSound` and `NeverLost`, the two properties of
`RouterStore`, for any documents, routers, owners, consensuses, journal limits and numbers of
failures. The assumption is that of the model: documents are positive numbers and finitely
many, no descriptor is an extra-info, and a consensus lists descriptors. The invariant
(`StoreInv`) is `Sound` of the whole state: each store file has its own kind of documents
(`Filed`), the lists and maps are one set (`Whole`), what is recorded of a document is so and
what was saved is held (`Placed`). An operation is a set of outcomes, some of them dead, and
its code calls others, so `Sound` is a predicate of one such outcome with four more arguments:
descriptors `K` that are held and on disk, descriptors `T` of which none is an old one, stores
`E` that are as they were, and one document `x` that is being added, of which the rest need
not hold yet. Each operation has one lemma that it takes `Sound` outcomes to `Sound` ones:
first the changes of the lists (`Moves`: only those named come, none that is retained goes,
what goes is forgotten), then the append to a journal, the rebuild with every point at which it may
fail or die, the expiry, and the arrival of a document. `NeverLost` needs nothing else: with
the saved and retained descriptors as `K` the same lemmas say that they stay on disk. For a
restart the loop over a file has its own invariant, the set of retained descriptors read so far
(`Known`), by induction over its length; the loop over an arbitrary set of descriptors that
are removed goes by induction over its subsets. That all of `T` are routers afterwards is what
makes "found again" mean "usable".

`ConsensusUnique`: `OneConsensus` is an invariant for every finite
set of authorities, which is the only hypothesis. What is published has a majority of
signatures (`MajoritySigned`, for which held signatures must have been posted,
`HeldPosted`), two majorities have an authority in common (`FS_MajoritiesIntersect`), and an
authority that was never restarted signs one consensus of an interval (`SignsOnce`). That is
inductive only with `SignedIsPast`: whoever has signed is past the step in which it signs.

**`SequenceLemmas`.** The code's lists are pointers, each at most once on a list: what
adding, popping, searching and removing do to the members of such a sequence, for all
lengths. And induction: the library's induction theorems take an operator as a parameter,
which the provers cannot instantiate, but the sets of numbers or of subsets for which a fact
holds need none. `SetInduction` and `SubsetInduction` follow from well-foundedness, and
`RecursionExists` and `FoldExists` say that a recursion along a well-founded relation, and a
loop over a finite set, define a function: that is what lets `FoldSet` and `FoldSeq` in the
models be reasoned about. `SumOfSet` says that a sum does not depend on the order in which it is
taken, for what is summed over days or connections.

**`OnionQueue_proofs`.** `TypeCorrect`, `PoolAlwaysSound` and `IdleNotWaited`, for any finite
set of workers and any circuits, tags and length of the list. `PoolSound` follows from an
invariant of the whole state taken as a record (`Relay`), which says of each worker and each
circuit where it is: on the list and pending, with one worker that is busy with it, or
neither; and that a tag is the tag of at most one pending circuit. `IdleNotWaited` needs two
more facts in a quiet history: no worker is old (`Steady`), and a non-empty list means that
everybody is busy (`Loaded`), which is not kept step by step inside `process_pending_task`
but is at its end. The hypothesis `~TagsReused` is what the code takes for granted
(`or/cpuworker.c:159`): when a neighbour uses a circID again at once, an old answer may be
taken for the new circuit's, which may still be on the list. The model has that case too, and
says nothing sound of it.

**`Edge_proofs`.** The first part is about `FlowControl`, for any list of streams, any starts,
increments and water marks that `FlowAssumption` allows, and any ends of the circuit:
`TypeCorrect`, `NeverKilled` (no handler takes the branch of an unexpected SENDME or of a cell
beyond a window), `AlwaysBlocksEnd`, and the refinement: `CircuitWindowImplemented`,
`StreamWindowsImplemented` and, of both, `WindowsImplemented`. The inductive invariant is

    IInv == TypeOK /\ Live /\ CircuitAccount
            /\ \A s \in Streams : StreamAccount(s) /\ DataAccount(s) /\ EndsLast(s)
            /\ QueueMarks

`CircuitAccount` is an equation between the two windows and the cells on the `Line` (the wire
and the queue behind it) and the way back. `StreamAccount` is only an inequality, because a
stream that one end has forgotten still has cells in flight. `DataAccount` follows every cell
from the application to the other side, `EndsLast` says that no data of a stream is behind its
END, and `QueueMarks` that a queue between the marks is blocked or not as it last crossed one.
What is hard is that one handler packages many cells: a SENDME resumes every stream, in rounds of a
share of what the windows and the queue allow. The loop is a recursive function of the turn it
is in; `TurnOrder` (the budget shrinks, or the list does) is well founded, so that `RecursionExists`
gives its equation (`PackagingGoesOn`), and `PackagingPackages` is an induction along the same
order: whatever the rounds, cells of open streams are appended to the line and every one is
charged to its windows (`Packaged`). The handlers then fall into two classes, those that package
something (`PackIInv`, from `Charged` and `Balanced`) and those that move cells or give credit
(`SettlesIInv`, from `Settles`). The steps of the refinement are read off the same facts:
packaging k cells is `Package(k)` of the window, a SENDME `ReceiveSendme`, a DATA cell `Deliver` and the
top-up of a stream that drained `TopUp`. That each stream's window is the abstract one until an
end closes it, and that closing it is a step of the abstract one too, is by cases on which of
the two ends has the stream before and after.

The second part of `Edge_proofs` is about `ResolveCache`, instanced as `R`: `CacheTypeCorrect`
and `CacheAlwaysSound`, for any number of connections, circuits, names and eventdns requests
(`CacheAssumption`, like every assumption, is what TLC evaluates in the runs). Each connection is `Done`, or it is on
the list of some name and a `Waiter` for that name: resolving, not yet told, and, when it is
marked, already ended. `CacheSound` is what these say together; that it is inductive needs
that a list has nobody twice (a removal takes off one), that only a pending entry has one,
and that a marked connection has ended, for `connection_exit_about_to_close` asserts it.
`dns_resolve`, `dns_found_answer` and `dns_cancel_pending_resolve` are steps from a list to
none: `ClearedGood` is the lemma for all of them. The hypothesis `~Overlap` is that a marked
connection is freed, at the end of its turn of the loop, before a lookup it waits for
expires; without it `purge_expired_resolves` leaves marked connections in a state that says
they are on a list, and freeing them fails an assertion (section 6).

**`OrHandshake_proofs`.** `TypeCorrect` and `LinkAlwaysSound`, for any identity keys, the
three kinds of handshake and a peer that runs this code or a stranger. The invariant has a
part for one end, whoever the other is (`EndOK`: what the state says of the version, the
handshake state and the identity), and one for two ends of this code (`Pair`). An end shows
one key for the whole handshake, or none (`Shown`), and every certificate and signature on
its way to the peer has that key (`CellsOf`), so that the peer takes it for nobody else
(`TakesFor`). The exception is a responder that opens on a NETINFO without an AUTHENTICATE
and forgets the key it saw in TLS: between two public relays it would then know nobody while
the initiator believes to be known. That does not happen because the initiator writes no
NETINFO before its AUTHENTICATE (`Ordered`, of the cells in flight), and because the
AUTHENTICATE either proves the key or closes. There is one lemma for what each operator
leaves as it was (`...Fields`), one for each handler of a cell (`...Serves`) and one for
each action; `MovedIInv` joins the end that moves with the one that does not.

**`Streams_proofs`.** `TypeCorrect` and `AlwaysIntroduced`, for any streams, circuits,
introduction points, directories and bounds on tries. The invariant takes the client as a
record (`Client`) which is in a set of worlds (`Worlds`) that depends on what the service was
told and on its circuits: a circuit that counts as acknowledged has a cookie that the service
was told, an acknowledgement in flight is about a circuit of which that is so, and one that
joined met the service's circuit that answered its cookie (`Right`). That each of the
client's operations leads from world to world is one lemma each; the loops over streams and
circuits (`CloseAll`, `AttachPending`, `TryNow`) are by the inductions of `SequenceLemmas`.
The service's half is `AnswersRight`: a cookie that was answered was seen, and the cpath that
answered it is gone. Steps of the service only add to the worlds (`WorldsGrow`).

`AlwaysTimesSound` is about a client's circuit build times, for any number of circuits, size
of the history, width of a bin, clips and consensus parameters (`LearningAssumption`: bins
are at least 2 wide, so that no midpoint is 0, and every midpoint is below `IntMax`). The
invariant `TimesInv` says of the history (`GoodHistory`) that its times are observed ones,
midpoints of bins or `Abandoned`, that they fill the array from its start, and that as soon
as it is long enough to estimate from, it has a time that is not `Abandoned` (`SomeBuilt`).
That last part is what `get_xm` and `update_alpha` assert, and it is not inductive for free:
a restart turns the times beyond the close timeout into abandoned ones. It survives because
the file keeps midpoints only, so that Xm lies between two times of the history, and the
close timeout estimated from it is at least the least of them (`EstimatesGood`,
`FilteredGood`). The hypothesis `~AllMayFail` excludes N abandoned circuits in a row, after
which the assertion would fail (section 6). The marks of recent timeouts are at most the
`strikes` (`Struck`), so that nothing is forgotten early, and a circuit that made a hop is
not `quiet` (`Hears`), so that the "somehow" branch is not reached. What was saved can be
read back because the history with its times moved to the midpoints is one of the orders
(`FileRead`).

Only model-checked: the invariants of the other modules. `EntryGuards` and `EventDns` still
recurse with RECURSIVE operators, which no module with a theorem may reach. `CircuitTable`'s
rings are recursive functions, which would each need a measure and an instance of
`RecursionExists` first. The pure algorithms are compared with their references by running
through the inputs. All liveness stays with TLC.
## 8. What is not modelled

Statistics, logging, cryptography, TLS, platform code and vendored code stay out for good;
`PROJECT.json` "components" gives the reason for each. Inside the modelled components these are
left out:

- `FlowControl`: the random starting point of the resume helper, failures of
  `relay_send_command_from_edge`, directory streams, partial cells and the waiting for
  a full cell.
- `CircuitTable`: EWMA, what a neighbour believes of the circuit; `ORCIRC_MAX_MIDDLE_CELLS` is
  compiled out. Locks that library builds add to circuits are taken by the main thread only.
- `OnionQueue`: the handshake's cryptography, the clock's granularity (a worker spawned
  in the second of a rotation counts as new).
- `LibraryCommands`: what commands do beyond the life of the connection.
- `ClientStreams`: named exits, the automap and address rewriting; the eight kinds of isolation
  are one. `Rendezvous`: client authorization; circuits' isolation and dirtiness.
- `DocumentParse`: whether words make sense (dates, digests, signatures) is left open.
- `PathChoice`: country codes of router sets; the random number itself.
- `Hibernation`: the clock's jumps, and a SIGINT to a program that is no relay (it exits at
  once, as at a SIGTERM).
- `RouterStore`: version 2 networkstatuses, which also retain descriptors; the
  `last_listed_as_valid_until` that an earlier consensus left; renames that fail.
- `EntryGuards`: bridges and the firewall.
