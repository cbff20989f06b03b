# A TLA+ model of the Qeo core

Qeo is a publish/subscribe framework. Its C core is an implementation of OMG
DDS (`src/dds`), and everything that Qeo exchanges, the discovery data and the
application data with it, goes through the RTPS protocol engine in
`src/dds/src/rtps`. This project models

* the reliable protocol: the stateful reliable writer and reader proxies, the
  exchange of DATA, GAP, HEARTBEAT and ACKNACK submessages between them, and
  fragmented samples, reliable and best-effort;
* the threads around it: writes that block on a full history cache, wait sets,
  and the core thread that calls listeners;
* the state machines of Qeo itself with which clients find a forwarder and
  forwarders agree on who forwards.

The models are checked by TLC on small instances. The safety of the two proxies,
the refinement by which the pair of them delivers reliably, the reassembly of
fragments, and the safety of the write path, of wait sets and listeners and of the
forwarder state machines are also proved with TLAPS, for any number of samples,
fragments, faults, threads, readers or forwarders.

## 1. Inventory of the system

| Part | Source (`src/dds/src/` unless noted) | State | Operations | Hard behaviour |
|---|---|---|---|---|
| Reliable reader proxy | `rtps/rtps_sfrr.c`, `rtps/rtps_clist.c` | list of changes above `rw_seqnr_next`, peer/blocked flags, one timer | DATA, GAP, HEARTBEAT, two timers, unblock, start, restart, finish | any order of arrival; cache full in the middle of a walk; delayed answers |
| Reliable writer proxy | `rtps/rtps_sfrw.c`, `rtps/rtps_clist.c` | list of changes and gaps, pointer to the first unsent one, transmit and acknowledge state, timers | new change, removed change, send, two timers, ACKNACK, start, restart, finish | history drops samples that are queued; repair during a push; restarts |
| Proxy scheduling, matching | `rtps/rtps_main.c` | queue of active proxies, matched endpoints | `rtps_send_changes`, `rtps_matched_*` | proxies are served by another thread than the one that writes |
| Submessages | `rtps/rtps_msg.c` | counts | add/receive of each kind | loss, duplication, reordering |
| History caches | `cache/cache.c` | samples, instances, who still has to acknowledge | add, remove, acknowledge, replay, lifespan, take | KEEP_ALL at its limit blocks writer or reader |
| Fragmentation | `rtps/rtps_frag.c` and parts of the proxies | bitmap of fragments per change, shared by the readers of a participant | DATA_FRAG, NACK_FRAG, HEARTBEAT_FRAG, reassembly timer | partial samples in the list; readers that finish at different times |
| Best-effort and stateless endpoints | `rtps/rtps_sfb*.c`, `rtps/rtps_sl*.c` | little | data | resend timers |
| RTPS forwarder | `rtps/rtps_fwd.c`, `rtps/rtps_ft.c` | forwarding table | learn, age, forward | ageing against traffic |
| Discovery | `disc/disc_spdp.c`, `disc_sedp.c`, `disc_match.c`, `disc_psmp.c` | participants, endpoints, leases | announce, match, unmatch, lease expiry | timeouts against late announcements |
| Core thread | `dds/dds.c` | set of events, notification queue, deferred checks, wake-up pipe | signal, sleep, notify, defer, purge | sleeping against signalling; calling what is being removed |
| DCPS API | `dcps/*.c` | entities, conditions, listeners | create, delete, read, write, wait | callbacks, notification flags, locks taken in both orders |
| Security | `security/`, `nsec/` | handshakes, keys | authentication, access control | out of the scope of these models |
| Transports, types, filters, utilities | `trans/`, `xtypes/`, `typecode/`, `sql/`, `co/` | sockets, type trees, pools | I/O, marshalling, evaluation | mostly data conversion |
| Qeo forwarder discovery | `src/qeo-c/qeo-c-core/src/forwarder.c` | client state, timer, pending request, locator | topic and location service events, timeouts, destroy | three threads, retries with back-off |
| Qeo forwarder election | the same file and `src/qeo-c/qeo-forwarder/src/forwarder.c` | server state, timer, number of forwarders seen; the application's UPnP state | count, ask for an address, publish, register | crashes, crossing announcements, steps that fail |
| Rest of the Qeo core | `src/qeo-c/qeo-c-core/src` | registration and policy state machines | see `security/*.c` | asynchronous callbacks, retries |
| Bindings, generator, imports | `src/qeo-java`, `src/qeo-js`, ... | | | not part of the core |

The parts meet as follows. A write (`DDS_DataWriter_write`) adds a sample to
the writer's cache; the cache calls its monitor (`rtps_writer_new_change`),
which queues the sample in every matched reader's proxy and activates it. The
core thread calls `rtps_send_changes`, which lets each active proxy build
submessages. The receive path finds the proxy by GUID and calls its handler.
An ACKNACK releases samples (`hc_acknowledged`), which may wake up a blocked
writer. A reader proxy hands samples to the reader's cache in order; a cache
that refuses one retries after the application took samples
(`rtps_reader_unblock`). Handlers of one endpoint run under its lock, so that
a handler is one atomic step of the models; the interleavings that matter are
those of handlers, timers, the sending thread, the application and the network.

Correctness, per part:

* Reader proxy: samples reach the cache in order and once; no number is passed
  without a reason the writer gave; an ACKNACK acknowledges only what was
  received; a hole is asked for.
* Writer proxy: the list stays well formed and its pointers valid whatever is
  removed; what the cache waits for can be acknowledged; something is always
  scheduled that will continue; GAPs and HEARTBEATs never give up a sample that
  is needed.
* The pair: the reader gets every sample unless the history of the writer
  dropped it; the writer frees nothing the reader lacks; everything is
  eventually delivered.
* Write path: a KEEP_ALL writer evicts nothing that is not acknowledged; no
  wake-up of a blocked write or of `wait_for_acknowledgments` is lost; every such
  wait ends.
* Wait sets: a thread does not sleep while a condition it waits for is ready and
  nobody will wake it; nothing that was freed stays in a list.
* Core thread: it does not sleep over work, calls no listener that was removed
  and nothing of a reader that was deleted, and announces data.
* Fragments: a sample is delivered whole; contexts are counted; everything is
  reassembled in the end.
* Forwarders: a client without one keeps searching and finds one that stays; a
  forwarder rests only on another one, and one of them forwards in the end.

The hazards of the code, each with the properties that cover it or the reason
why none does yet, are listed in `PROJECT.json`.

## 2. Modules

| Module | Models |
|---|---|
| `RtpsNumbers` | sequence numbers and their bound, shared by the next three |
| `SfReader` | one `RemWriter_t`, against any environment |
| `SfWriter` | a writer's cache and one `RemReader_t`, against any environment |
| `RtpsReliable` | `SfWriter` and `SfReader` joined by two channels |
| `ReliableDelivery` | the abstract promise that `RtpsReliable` implements |
| `FragInfo` | the context in which a sample is reassembled, as an algorithm |
| `FragReliable` | one fragmented sample between a reliable writer and the readers of one participant |
| `BeFragments` | fragmented samples at best-effort readers |
| `WriteCache` | the threads in the write path of a KEEP_ALL writer |
| `WaitSet` | a wait set, its conditions and the core thread's deferred checks |
| `Listeners` | the core thread's event loop and the listeners it calls |
| `FwdClient` | how a Qeo client finds a forwarder |
| `FwdServer` | how Qeo forwarders agree on who forwards, with the forwarder application |
| `MC...` | the modules TLC runs on; parameters are set in the `.cfg` files |
| `RtpsProxyProofs` | the theorems on `SfReader` and `SfWriter` |
| `RtpsReliableProofs`, `FragReliableProofs`, `WriteCacheProofs`, `WaitSetProofs`, `ListenersProofs`, `FwdClientProofs`, `FwdServerProofs` | the theorems on the module each is named after |

`RtpsReliable` extends the two proxies rather than instantiating them, so that its
proofs can cite the lemmas about them; the names of the two modules are therefore
distinct (`ReaderInit`, `WriterInit`, `ReaderSpec`, ...).

Definitions have the name of the C function they translate where there is one.
Definitions with a comment "Mutant of ..." are deliberately wrong variants that
no specification uses; each is a plausible slip in the code, and replacing the
original by it makes TLC report a violation of the property it is listed with.
Every module with a specification of its own, except `BeFragments` and
`RtpsReliable`, has a type invariant (`TypeOK`, or `ReaderTypeOK` and
`WriterTypeOK`). Those of the proxies are part of their runs; the others follow
from the inductive invariants of section 4.

### SfReader

`rw_changes` of the code is a list of nodes, each a sample or a range of
numbers with a common state. The model is a function from sequence numbers to
states (`None` where no node covers the number). How numbers are grouped into
range nodes is not visible to any handler except in two places, which are
modelled: a sample below the list extends the head range if the head is a range
and the *tail* is MISSING (`FillBefore`), and `sfr_rel_gap_range` counts from a
wrong number when a range of a GAP starts below a sample at the head of the list
and reaches it. The second leaves an inverted range node, for which the model has
no counterpart; it is excluded as an environment assumption (`GapOk`), also where
`RtpsReliable` joins the two. That a writer never sends such a GAP is `GapsAligned`.
It is proved for KEEP_ALL writers (`KeepAllGapsAligned`), for which the assumption
therefore excludes nothing. For KEEP_LAST writers the run `ReliableKeepLast` checks
it with three samples and without network faults, restarts and expiring samples; it
is not expected to hold in general there, and what such a GAP does to the list is
not modelled. No proof of section 4 uses the assumption.

Actions: `sfr_rel_data`, `sfr_rel_gap`, `sfr_rel_heartbeat`, the timers
`sfr_rel_alive_to` and `sfr_rel_do_ack`, `Take` (the application takes a sample
and a blocked cache retries, `hc_get_list`/`hc_unblock`/`rtps_reader_unblock`),
`sfr_rel_start`, `sfr_rel_reset`, `sfr_rel_finish`. `sfr_process_samples` is an
operator used by four of them, because it is called at the end of them. The
`ignore` parameter of DATA stands for a sample that a filter, or a missing type,
removed before it reached the proxy. `delivered` and `told` are history
variables: what the reader cache got, and what the writer declared unavailable by
a GAP, a HEARTBEAT's first number, or by a sample that is filtered.

### SfWriter

The list of the writer proxy has one node per sample and one per range of
irrelevant numbers. Here node boundaries matter, because a node is one entry of
a GAP and because `rr_unsent_changes` points to a node; hence a record with the
state of every number, the relevant numbers, the node starts, the samples to be
put on the wire and the pointer. `Freed` is the value of a pointer to a node
that was deleted; `UnsentReachable` speaks of a pointer that is not, as what
follows from the use of freed memory is not modelled (disagreement 3).

Actions: `hc_add` (a write: room is made first, the removed sample reaches the
proxy through `sfw_rel_rem_change`), `hc_check_lifespan`, `rtps_send_changes`
(with the whole of `sfw_rel_send_data`), `sfw_heartbeat_to`, `sfw_rel_alive_to`,
`sfw_rel_start`, `rtps_matched_reader_restart`, `sfw_rel_finish`,
`sfw_rel_acknack`. A blocked KEEP_ALL write is a write that is not enabled; what
happens inside of it is the subject of `WriteCache`.
The KEEP_LAST victim is any cached sample, since the oldest sample of the
written *instance* goes. The configuration of the build is that of `rtps_cfg.h`:
`RTPS_W_WAIT_ALIVE`, `RTPS_INIT_ACKNACK`, `RTPS_EMPTY_ACKNACK` are on, the
instance fields (`RTPS_PROXY_INST_TX`) are not sent, so that a restart of a proxy
comes from the debug command of `rtps_dbg.c` or from an ACKNACK below the list of
a durable reader. The NACK response delay has its default 0, so repairs are
immediate; `OPT_RR_LIST` is defined, so gaps are merged.

### RtpsReliable and ReliableDelivery

Two sequences of submessages, `toReader` and `toWriter`. The network keeps the
order but may lose, duplicate and, with `Overtaking`, reorder at most
`MaxFaults` times. One datagram holds what one step sends, DATA first, then the
GAP collected meanwhile. The receive path rejects the HEARTBEAT 0..0 that
`sfw_send_heartbeat` produces for an empty list. History variables: samples
queued for the reader (`owed`), removed from the history before they were
acknowledged (`dropped`), taken for acknowledged (`confirmed`).

`ReliableDelivery` has no lists, timers or messages. Its step `Arrive` says that
a sample is delivered only when everything owed before it was delivered or
dropped, and in order; `Confirm` says that only received samples are
acknowledged. `Reliable` is the refinement: `received` is mapped to what the
reader delivered or holds in its list, the rest to the history variables.

### FragInfo, FragReliable and BeFragments

A context (`FragInfo_t`) is a record of its reference count, the set of
fragments marked, the count of missing ones and the first of them; `buf` is the
part of the data buffer that was really filled. `mark_fragment` is a recursive
function over the fragments of one DATA_FRAG, as are the loops over readers
(`submsg_rx_data_frag`) and over bits (`NackSets`) below.

`FragReliable` follows one sample. At the writer it keeps the state of the
change per proxy, the number of fragments its context has, and whether the
change is queued for several proxies (then the fragments go to all of them). A
message is a record in a set; a lossy send keeps any subset. Each submessage is
handled by the readers of the participant in the order of their proxies
(`submsg_rx_data_frag`), and the context the first of them makes is handed on to
the others (`finfo`). `NackSets` is the loop of `sfr_rel_hbfrag`, `NackTurn` its body. A HEARTBEAT
with its ACKNACK answer is one step, `sfr_rel_do_ack`. Left out: the samples
before and after this one, which `SfReader` has; the key that is read from the
first fragment, and its clean-up; the counts of HEARTBEAT_FRAG and NACK_FRAG.

`BeFragments` has the list nodes of best-effort readers, which keep one sample
in reassembly, and the reassembly timer. Undefined behaviour (the use of a freed
node, a copy to no buffer) is recorded in `fault` and ends the behaviour.

### WriteCache

Every action is a stretch of code under the writer's lock. `cond_wait` gives the
lock up, so a blocked write takes one step that ends in the wait (`hc_add` up to
`hc_wait_add`) and others after each signal (`hc_wait_acked`). A sample is a cell
of the change pool and is named by its address, since a blocked write keeps an
address over the wait. `hc.changes` is the set of cells in the list `hc_changes`;
as samples are appended in the order of their numbers, the numbers give the order
(`Older`, `Oldest`). `hc.waiters` are the wait contexts that threads waiting
for the same change share. Reader proxies are the sets of numbers they have yet
to acknowledge. `TimeOut` ends either kind of wait. An ACKNACK acknowledges the
oldest samples of one proxy; the end of a match acknowledges all of them; a new
match replays a durable cache. A bound on writes (`MaxSnr`) keeps new writes from
starting and does not stop those that are blocked. `Reuse` lets the pool hand
out a cell that a blocked write still refers to: without it the model shows
the design, with it disagreement 4. Instances are not modelled.

### WaitSet

The lock of the wait set and that of the reader are state; `DDS_WaitSet_wait`
takes a step for the start, for each condition it checks, for the decision and
for going to sleep, so that the core thread can find the lock taken at each of
them. The core thread never blocks on the wait set's lock: it defers
(`dcps_waitset_wakeup`, `dds_defer_waitset_check`) and retries
(`dds_waitset_checks`, `dcps_deferred_waitset_check`). `stale` says that
`defer_tail` points to an element that was freed. Conditions are attached and
detached only while nobody waits, except by the deletion of a read condition.
`DetachLast` and `UndoTail` allow the two situations of disagreements 8 and 9;
without them the runs show the rest. Status conditions are not modelled.

### Listeners

`dds_work` is split where it takes `ev_lock`: `Collect` fetches the pending
events and decides to sleep, `poll` ends by a byte in the pipe, a time-out or a
sample received, `dds_client_notify` takes one notification and marks its entity,
`dcps_notify_data_available` picks the listener under the reader's lock, the
callback and `NotifyDone` follow. Application threads write, signal, set, remove
and delete. `dds_wakeup` is a step of its own because it writes to the pipe after
the lock was given up. The only status is DATA_AVAILABLE.

### FwdClient and FwdServer

In both, an action is what one thread does between taking and releasing
`factory->mutex`; reading a sample or counting instances happens before that, so
the core thread holds what it read in `core` until it has the lock. `FwdClient`
has the timer callback and the topic callback of the core thread, the thread of a
location service request (fetching the list, offering each entry without the
lock, the result callback with the back-off) and `fwd_destroy` in three steps.
The topic and the location service are the environment: forwarders publish,
register after that, leave or crash. `FwdServer` has any number of servers: the
discovery timer, the count of other forwarders, publication and registration
with their failures, and the application's `state_machine_run` with the poll
timer. A crash leaves the instance on the topic until the lease ends (`Expire`);
each reader learns of each change by itself and in any order (`Deliver`). How DDS
is configured with the address is not modelled.

## 3. Runs

Times are for two workers.

| Run | Instance | Shows | States |
|---|---|---|---|
| `Reader` | 3 numbers, KEEP_ALL cache of 2 | list shape, order, no silent loss, no spreading of LOST/GAP, sound ACKNACKs | 10 thousand, 20 s |
| `Writer` | 3 samples, cache of 2, durable KEEP_LAST, lifespan, restarts | list shape, the unsent pointer covers what is unsent, what is waited for is queued, repairs are scheduled, HEARTBEATs spare samples | 7 thousand, 30 s |
| `ReliableKeepLast` | 3 samples, cache of 2, durable | refinement of `ReliableDelivery` while the history drops samples; only dropped samples are given up; the assumption of `SfReader` | 433 thousand, 85 s |
| `ReliableRestart` | 2 samples, durable KEEP_ALL, lifespan, one restart or fault, overtaking | the refinement with restarts and faults | 260 thousand, 40 s |
| `ReliableLive` | 2 samples, caches of 2, 1 fault | every owed sample is delivered | 92 thousand, 75 s |
| `Write` | 2 threads, 2 readers, cache of 2, 3 writes and those that wait, volatile and durable | no unacknowledged sample is evicted, `hc_unacked` is exact, no lost wake-up, every wait ends | 3 thousand, 30 s |
| `WaitSet` | 2 threads, 2 read conditions and a guard condition, all deletions | no lost wake-up for data, nothing freed is listed, a sleeper wakes up | 175 thousand, 40 s |
| `Listener` | 2 threads, 2 readers | no sleep over work, no dead or removed callback, data is announced | 165 thousand, 45 s |
| `FragShared` | 2 readers, 3 fragments, 2 messages under way, loss and repetition, a cache that fills up once | samples are whole, contexts exact and counted | 473 thousand, 35 s |
| `Client` | 2 forwarders, 4 changes, 1 failure, destroy | keeps searching, knows removals, finds the forwarder that stays | 476 thousand, 45 s |
| `Server` | 2 servers, one configured, 2 failures, 1 crash or close | starts and rests for a reason, one comes to forward | 170 thousand, 20 s |
| `BeFragNext` | 1 reader, 3 fragments | violated, see disagreement 14 | |

Why these bounds are enough for the cases of interest: three numbers give a
list with head, middle and tail; a cache of two is full with one sample waiting;
one fault of each kind at every place is what a retry has to repair, and a
HEARTBEAT and an ACKNACK in transit at once give every crossing of the two.
`CountMod` 2 or 3 makes the counts wrap within a run; with 2, an ignored
HEARTBEAT by an equal count happens too. `MaxHb` and `MaxAck` bound what *timers*
put on the wire and not what handlers answer. Two threads that block at once
share a context or hold one each; two conditions make a list with a head and a
tail; three fragments with two to a message make a message that is full, one that
is not, and a repair of a single one. Two forwarders and four changes let the one
in use leave, another come, and the first come back. Two servers can start
together, see each other late, and take over from each other.

Deadlock is checked in the runs of the two proxies. In the others the system may
stop: everything is written, acknowledged and taken, or everybody sleeps, or the
factory is closed.

### Fairness

* `ReliableLive`: weak fairness of `rtps_send_changes` (the core thread serves
  active proxies), of the two matchings, of `Take` (an application that reads)
  and of the arrival of the oldest submessage of a channel. Strong fairness of
  the timers: in the code a started timer fires; in the model the bounds `Calm`
  and `AckRoom` disable it from time to time. Faults are bounded, as a network
  that loses everything delivers nothing. Writing is not fair. Without overtaking
  and without restarts: with either, `EventuallyDelivered` is false for the
  reason of disagreement 2.
* `WaitsEnd`: a thread that was signalled gets the lock, and readers acknowledge.
  The property assumes that readers do not join and leave for ever, because each
  durable match makes every sample unacknowledged again.
* `SleeperWakes`: the core thread works, and a thread that holds a lock goes on.
  It assumes that the wait set's lock is free in the end: the core thread only
  ever tries it, and other threads that wait on the same set over and over can
  take it at each try.
* `DataDelivered`: the core thread works but may stay in `poll` for as long as
  the pipe is empty, so that no lost wake-up is repaired by the poll time-out; a
  thread finishes the call it is in.
* `Reassembled` (instance `FragLive.cfg`, one reader, two fragments): weak
  fairness of receipt and of `take`; strong fairness of sending without loss, as a
  message that is sent again and again is not lost every time.
* `FindsForwarder`: the threads run, and a forwarder that publishes itself also
  registers. It assumes that one forwarder is left in the end, and that the
  factory stays open.
* `Elected`: threads run, the reliable topic delivers, leases end, and a server
  with a configured address stays up.

### Disagreements between the code and what it says

Each was found as a violation of a property by an instance of the models.
Disagreement 14 is the run `BeFragNext`. For the others the brackets give a
configuration file, or a run, the constants to change in its file and the property
to put in the place of those of the run. TLC reports the steps that lead there.

Reliable protocol:

1. `sfr_rel_do_ack_nl` counts the bits from the head of the list but sends
   `rw_seqnr_next` as the base. The list may start higher. A KEEP_LAST reader
   then sends a zero bit, that is, an acknowledgement, for a sample that never
   arrived. A KEEP_ALL reader stops at the first received sample and sends no
   such bit, which `AckSound` confirms. [`AckBitmap.cfg`, `ConfirmedIsReceived`]
2. DATA 2 and then DATA 1 before the first HEARTBEAT are queued and complete; the
   HEARTBEAT sets `rw_heartbeats` but does not process the list.
   [`ReliableRestart`, `NothingReadyWaits`]
3. A KEEP_LAST writer drops gap nodes at the head of the list that
   `rr_unsent_changes` points to (`sfw_rel_rem_change`, `rtps_sfrw.c:1790`), with a
   sample behind them that is yet to be sent [`Writer` with `MaxSnr = 4`,
   `UnsentValid`; three samples are too few, and the attempt to prove it showed
   the fourth]; and `sfw_rel_reset` of a volatile proxy forgets where the unsent
   samples start, although `rtps_sfrw.c:1129` says "Mark all unacked cache entries
   as unsent." [`Writer` with `Durable = FALSE`, `UnsentReachable`].

Write path:

4. A blocked write removes its change by address after the wait (`cache.c:2404`).
   The cell may hold a new sample by then, which is evicted unacknowledged.
   [`Write` with `Reuse = TRUE`, `KeepsUnacked`]
5. `hc_acknowledged` clears the change of a wait context; `hc_wait_free` takes
   the NULL for a wait on all acknowledgements and clears `hc_blocked` under a
   thread in `hc_wait_acks`. [`Write` with `Waiting = {TRUE, FALSE}`, `NoLostWakeup`; the run
   therefore lets applications wait for acknowledgements of durable writers only]
6. `hc_wait_acked` does not wait in a listener, but nothing sets
   `dds_listener_state`: such a write blocks the thread that processes
   acknowledgements. [`Write` with `ListenerWrites = TRUE`, `ListenerNeverBlocks`]

Wait sets and listeners:

7. `DDS_GuardCondition_set_trigger_value` signals without the wait set's lock: the
   signal is lost between the check and the sleep. [`WaitSet`,
   `NoLostTrigger`]
8. `DDS_WaitSet_detach_condition` sets `last` to the condition it removes; the
   next attached condition is not in the list. [`WaitSetDetach.cfg`,
   `NoLostWakeup`]
9. `dds_defer_waitset_undo` leaves `defer_tail` at a freed element; the next
   deferred check is lost. [`WaitSetUndo.cfg`, `DeferredIsQueued`]
10. `dds_waitset_checks` gives `ev_lock` up before the reader is locked; the
    reader can be deleted in between, against the comment at
    `dcps_waitset.c:290`. [`WaitSet`, `EntityAlive`]
11. `DDS_Subscriber_set_listener` does not wait for a callback that runs for a
    reader with the subscriber's listener. [`Listener` with `Inherit = TRUE`,
    `NoCallbackAfterRemove`]
12. A notification that is purged leaves the status bit set; later data is not
    announced to a listener that is set meanwhile. [`Listener`,
    `DataIsNotified`]

Fragments:

13. Reliable: the last fragment of a sample that the cache refuses is unmarked,
    and marked again by the second reader of the same message; the first reader
    keeps a complete context that nothing will complete again
    [`FragStuck.cfg`, `RefusedIsIncomplete`]. A sample of more fragments than
    `rtps_frag_burst` is never sent whole [`FragBurst.cfg`, `Reassembled`]. A
    NACK_FRAG that is sent because its set is full names the fragments one too
    low and leaves out the last [`FragNack.cfg`, `NackNamesFragments`].
14. Best-effort: `sfr_be_data` advances `first_na` after `mark_fragment` did; the
    next fragment is rejected [`BeFragNext.cfg`, `FirstMissingExact`]. Also: a
    second reader does not store the shared context [`BeFragShared.cfg`,
    `FirstFragmentHasContext`]; `rfraginfo_update` clears the data pointer of the
    buffer it keeps [`BeFragNext` instance, `ResetHasBuffer`]; the
    reassembly timer frees a node that stays in the list [`BeFragTimeout.cfg`,
    `ListedIsAllocated`].

Forwarders:

15. A ready client ignores a new address of the forwarder it uses
    [`Client`, `UsesAnnounced`], and does not read again what it
    ignored when that forwarder leaves [`Client`, `WaitsForNone`].
16. `fwd_destroy` looks at `rqst_pending` before it stops the sources of
    requests [`Client`, `DestroyedIsQuiet`].
17. The back-off doubles past the range of an int when FWD_LOC_SRV_MAX_TIMEOUT is
    near the largest one; the timer is then not started [`Client` with
    `MinTimeout = 2`, `MaxTimeout = 15`, `IntMax = 15`, `StillSearching`].
18. A server whose registration fails is disabled and stays on the topic
    [`Server`, `DisabledIsSilent`]; one that cannot publish rests with
    no other forwarder around [`Server` with `MayFail = {"publish"}`, `DisabledHasReason`].
19. The application does not answer a second request for an address that did not
    change [`Server` with `Preconfigured = {}`, `MaxFaults = 0`, `ElectedAny`], and
    waits without looking when the request came first [one server,
    `Preconfigured = {}`, `Prompt = FALSE`, `RequestIsSeen`].

The passing runs leave out what would only show one of these again, by the
constants named above (`Reuse`, `Waiting`, `DetachLast`, `UndoTail`, `Inherit`,
`MayFail`, `Preconfigured`), or state the property so that it excludes it.

## 4. Proofs

Every theorem holds for all values of the constants that the named ASSUME of its
module allows, apart from the conditions given in the table.

| Module | Theorems | Conditions |
|---|---|---|
| `RtpsProxyProofs`, reader | `TypeCorrect`, `ListContiguous`, `NoSecondDelivery`, `NothingLostSilently`, `OnlyToldGivenUp`, `TailAnchored`, `InOrder` (the action property `DeliveryInOrder`) | none |
| | `AcksAreSound` (`AckSound`) | `CacheAcks`: a KEEP_ALL reader; false otherwise, disagreement 1 |
| `RtpsProxyProofs`, writer | `SfWriterTypeOK`, `WriterListWellFormed`, `WriterWaitedForIsQueued`, `WriterRepairScheduled`, `WriterHeartbeatSparesSamples` | none |
| | `WriterUnsentReachable` | `Durable \/ ~Restarts`: false for a volatile proxy that is restarted, disagreement 3 |
| `RtpsReliableProofs` | `PairInvariant`, `PairIsReliable` (the refinement `Reliable`), `AcknowledgedSamplesAreHeld` (`ConfirmedIsReceived`), `GivenUpOnlyIfDropped` (`OnlyDroppedGivenUp`) | `CacheAcks`: a KEEP_ALL reader; false otherwise, disagreement 1 |
| | `KeepAllGapsAligned` (`GapsAligned`) | and `MustAck`: a KEEP_ALL writer |
| `FragReliableProofs` | `FragInvariant`, `FragTypeOK`, `SamplesAreWhole` (`DeliveredWhole`), `ContextsExact`, `ContextsCounted`, `NacksNameFragments` | `Total < NackBits`: samples of fewer than 256 fragments; false otherwise, disagreement 13 |
| `WriteCacheProofs` | `WriteCacheTypeOK`, `WriterKeepsUnacked`, `WriterUnackedExact` | `~Reuse`: disagreement 4 |
| | `WriterNoLostWakeup` | and `Waiting \subseteq {TRUE}`, that is, `wait_for_acknowledgments` on durable writers: disagreement 5 |
| `WaitSetProofs` | `WaitSetTypeOK`, `WaitSetNoLostWakeup`, `WaitSetFreedUnreachable` | `~DetachLast`, `~UndoTail`: disagreements 8 and 9 |
| `ListenersProofs` | `ListenersTypeOK`, `CoreNoWorkAsleep`, `ReaderNoDeadCallback` | none |
| | `ListenerNoCallbackAfterRemove` | `~Inherit`: disagreement 11 |
| `FwdClientProofs` | `FwdClientTypeOK`, `ClientReadyIsAnnounced` | none |
| | `ClientStillSearching` | `2 * MaxTimeout` and `2 * MinTimeout` fit an int and `MaxTimeout` is positive: disagreement 17; the default FWD_LOC_SRV_MAX_TIMEOUT is not of this kind |
| `FwdServerProofs` | `FwdServerTypeOK`, `ServerStartsAlone` | none |
| | `ServerDisabledHasReason` | `"publish" \notin MayFail`: disagreement 18 |

Each condition but `MustAck` excludes a situation that the code admits and that the
disagreement it is given with describes. Only `Total < NackBits` bounds a size, and
it is the size at which the first bitmap can become full.

### The arguments

`RtpsProxyProofs`, reader. All follow from `Invariance`, `ReaderSpec => []IInv` with
`IInv` the conjunction of `ReaderTypeOK`, `ListInv` and `Fresh`. `ListInv` is stated for a list, an
expected number and the two history sets, so that it can be applied to the
intermediate lists within a handler. Why its parts need each other: nothing is
lost silently because what `sfr_process_samples` skips (LOST and GAP) was told;
extending the head range in `sfr_rel_data` could spread such a state to a number
that was not told, unless a list with a MISSING tail reaches down to
`rw_seqnr_next`, so that nothing can be added below it; and that uses that the list
has no holes. `Fresh` says that a proxy that is not in use has an empty list and
history. There is one lemma per operation on the list (`ProcessKeeps`, `AddKeeps`,
`GapKeeps`, `MarkLostKeeps`, `JumpKeeps`, `AdvanceKeeps`, `ExtendKeeps`); the step
lemmas (`DataStep`, `GapStep`, `HeartbeatStep`, `TakeStep`, ...) combine them. The
environment assumption `GapOk` is not used.

`AckSound` is less obvious: `sfr_rel_do_ack_nl` counts bits along the list, skips
gaps, and sends `rw_seqnr_next` as the base although the list may start above or
below it, so that a bit need not belong to the number it was computed for. It
holds since a zero bit comes only from a LOST number `c`; all numbers up to `c` were
declared unavailable (`LostTold`); the list of a reader that counts anything does
not start below the base, because a list that does starts with a sample, and a
KEEP_ALL reader stops counting there (`HeadWaits`); hence the i-th counted number is
at least base + i, and the number that the bit stands for is at most `c`.
`PositionTaken` and `PositionBound` are the facts about positions.

`RtpsProxyProofs`, writer. `WriterInv` says what the cache and the proxy's list know of each
other: the relevant numbers of the list are those the cache waits for, none of them is
above the last number written, and it is a list (`ListInv`: no holes, nodes of one
sample or one range with a single state, the pointer at a node, Null or Freed).
`RepairDue` strengthens `RepairScheduled`: between a request and its repair, the
proxy is active or its heartbeat timer runs *and* the transmit state is
"announcing", which is what makes the timer go on. The HEARTBEAT property is
about the message the step itself sent, and is part of the invariant because its
proof needs the list of the same step. Lemmas on nodes come first, then one section
per change of a list (adding, removing, sending, acknowledging, replaying), then the
steps. `Reachable` is proved beside `WriterInv`, because it has a condition.

`RtpsReliableProofs`. `PairInv` joins the invariants of the two proxies and says what
they and the channels know of each other. At the centre are the numbers that the
reader need not wait for (`Unavailable`: written, and no longer in the cache or
confirmed), a set that only grows. A GAP under way covers only such numbers, and so
does what lies below the first number of a HEARTBEAT, because the gap nodes of the
writer's list do (`GapsUnavailable`) and because the list reaches as far as the cache
(`ListCovers`); hence the reader gives up only such numbers (`told` in
`ReaderKnows`). That they were so when the message was sent is enough, however late
or often it arrives, since the set grows: this is what makes loss, duplication and
overtaking harmless. In the other direction an ACKNACK under way acknowledges only
numbers that were told or that `rw_seqnr_next` passed (`AckUnderway`), which is
`AckSound` of the reader at the time of sending and stays true because neither
is taken back; so what the writer marks as acknowledged was passed
(`AckedPassed`, `confirmed`). An ACKNACK never acknowledges a number that is not
written (`hc_last`), which needs that the reader knows of no such number. `Books`
relates the history variables to the cache: what is owed is dropped, confirmed, or
still waited for. `PairStep` shows for every action that it preserves `PairInv` and is
a step or a stutter of `ReliableDelivery`; each writer step is first reduced to a
few facts about the list, the cache and what was sent.

`KeepAllGapsAligned`. A KEEP_ALL writer drops nothing (`NothingDropped`), so that a
number that is not in its cache was confirmed, that is, passed by `rw_seqnr_next`,
or was never owed; a GAP can then not reach a sample in the reader's list.

`FragReliableProofs`. `FragInv` strengthens the three properties by what links a context
to its users: a reader has a context exactly while it reassembles, the marked
fragments are in the buffer (`Sound`), and the reader a context is named after still
uses it or is done with the sample (`Contexts`). Without the last a reader could make a
new context in the place of one that others use. While one DATA_FRAG goes from reader to
reader, `Serving` adds that the context handed on (`finfo`) is in use: the code forgets
it when it frees the last reference, and this is why that is enough. The loops are
followed with the least turn at which the claim would fail (`LeastNumber`), first
for the existence of the recursive function (`MarkingExists`, `HandingExists`,
`TurningExists`) and then for what it computes (`MarkSound`, `ReceiveKeeps`,
`NackSetsAreFragments`).

`WriteCacheProofs`. `WriteInv` holds for the cache and the queues of the proxies
(`CacheInv`: `c_wack` of every sample counts the proxies that have it queued, and
`hc_unacked` all of them) and for the threads (`ThreadInv`). The latter says that a
blocked write's own cell is known to nobody else (`OwnCells`), which threads share a
wait context and how many (`Waits`), and that a thread that was not signalled waits
for a sample that is there and unacknowledged (`Marked`). That is the part a test
would hardly reach: that the sample is marked so that `hc_acknowledged` looks for its
context, that there is only one context for it, and that it can be reached until
it is signalled. Counting lemmas replace reasoning about `Cardinality` elsewhere.

`WaitSetProofs`. `NoLostWakeup` holds from the moment at which a thread looks at a
condition, not only when it sleeps (`NothingMissed`): it holds the lock of the wait set
from there to the sleep, so that the core thread can only defer, and a deferred
check is in the queue or at hand. `ShapeInv` says who holds which lock, that
`nwaiting` counts, and that the lists are intact and hold what is alive.

`ListenersProofs`. `EventInv` says that what there is to do has its event pending or
taken (`Signalled`) and that who finds the core thread asleep has the wake-up still
to write (`PollIsWoken`); `RemoveInv`, that the entity whose listener runs is marked
for as long as it runs.

`FwdClientProofs` and `FwdServerProofs`. What the core thread read before it took the
lock may be stale when it is used; in both, the invariant says that it is right or
another notification follows (`SampleIsFresh`, `CountIsFresh`). A server's time-out
makes a waiting server a starting one without looking again, so `StartsAlone` has to
hold while it waits (`WaitsAlone`). `SearchInv` adds that the time-out stays positive
and can be doubled.

### Only model-checked

* Liveness (`EventuallyDelivered`, `WaitsEnd`, `SleeperWakes`, `DataDelivered`,
  `Reassembled`, `FindsForwarder`, `Elected`): the prover supports neither fairness nor
  `ENABLED`.
* `GapsAligned` for KEEP_LAST writers, see `SfReader` in section 2; the run
  `ReliableKeepLast` has it for three samples.
* That a stranded reader is the only one that does not finish a fragmented sample
  (`Reassembled`), and all of `BeFragments`, whose properties the code does not meet.

## 5. Not modelled

* Several readers of one writer in one participant, but for fragments; multicast
  HEARTBEATs that cover several proxies; the reuse of a received submessage for
  several readers.
* Instances: keys, ownership, dispose and unregister; `DESTINATION_ORDER` by
  source time, with which a cache is not ordered by number.
* Out-of-memory paths of the handlers (a node that cannot be allocated).
* The non-default NACK response and suppression delays.
* Directed writes. One fact about them is visible without a model: when a
  directed DATA or DATA_FRAG names no reader of the participant, the loops at
  `rtps_msg.c:1835` and `rtps_msg.c:2862` `continue` with the same best-effort
  reader.
* Status conditions and all statuses but DATA_AVAILABLE; attaching to a wait set
  while threads wait on it.
* Discovery, the RTPS forwarding table, security, registration and policy, with
  the reason for each in `PROJECT.json`.
* Transports, type handling, marshalling, SQL filters: data conversion and I/O
  that make up most of the repository's lines, together with the bindings, tests
  and imported libraries. The models cover the concurrent and protocol core.

## 6. Plan

1. Done: `SfReader`, `SfWriter`, `RtpsReliable`, `ReliableDelivery`, proofs of
   the reader's safety; fragments; the write path, wait sets and listeners; the
   forwarder state machines of `qeo-c-core`.
2. Done: the proofs of section 4: the components, the refinement of
   `ReliableDelivery` and the reassembly of fragments.
3. Several proxies per writer: `sfw_send_heartbeat` over all proxies, a shared
   HEARTBEAT at several readers.
4. SPDP leases and SEDP matching, whose steps are the `start` and `finish`
   actions of the proxies; stateless endpoints with them.
5. The forwarding table (`rtps_ft.c`) and the registration state machine of
   `qeo-c-core`.
