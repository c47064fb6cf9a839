# A verification project for RTL00_WEB

RTL00_WEB is the firmware of a small WEB server with websockets for the
RTL8710/RTL8195A WiFi modules: FreeRTOS 9, lwIP 1.4.1, Realtek's SDK, and on top
of them the project's own code in `src/project` (10 000 lines) with two own parts
inside the SDK tree, the flash store (`flash_eep.c`) and the WiFi settings
(`wifi_api.c`). This directory holds TLA+ modules for that own code, the TLC
configurations that check them on small instances, and proofs for TLAPS.

Paths below are relative to the repository. There are seven families of modules:
the TCP server layer, the sample buffers between interrupts and websocket
commands, the flash store, the web disk with the sessions that read and
replace it, the websocket, the functions that requests set in motion (restart of
the server, WiFi mode, saving of settings), and the sending of a page. Section 10
has what is left.

## 1. The system

The build that is modelled: `USE_MBED`, `USE_WIFI_API`, `WEB_INA219_DRV`,
`WEB_ADC_DRV`, websockets on, `CONFIG_DEBUG_LOG=2` (`project/inc/platform_autoconf.h:200`),
`MEMP_MEM_MALLOC=1`, chip version B.

| Component | Source | State | Operations | Status |
|---|---|---|---|---|
| TCP server layer | `project/src/tcpsrv/tcp_srv_conn.c` | list of servers `phcfg`, per server the list `conn_links` with `conn_count`; per connection state, flags, timeout counter, pcb | accept, recv, sent, error, poll callbacks; disconnect; `tcpsrv_start`, `tcpsrv_close` | TcpSrv |
| lwIP TCP | `.../lwip_v1.4.1/src/core/tcp*.c` | pcbs, their state and callbacks | what the layer above sees of it | in TcpSrv |
| INA219 and ADC buffers | `project/src/ina219/ina219drv.c`, `project/src/adc_ws/adc_ws.c` | ring with two indices, overrun counter, `init`, buffer pointer | timer/ADC interrupt; websocket start, count, read, stop; console ATINA | SampleRing |
| Flash store | `.../rtl8195a/flash_eep.c` | banks of flash: a counter word and records | read, write, pack; reset at any word | FlashEep |
| Web session | `project/src/web/web_srv.c` | `webflag` bits, stack of file handles, message buffer, `content_len` | receive, sent and close callbacks | files in WebDisk, the answer in WebPage |
| Delayed functions | `web_srv.c:1933-2063` | queue of five, one pending function, tick | `webserver_qfn`, its task, `webserver_reinit` | Control |
| Upload | `web_srv.c:1239-1600` | boundary parser, disk lock, flash address | the pieces of a POST | WebDisk (without the parser) |
| WebFS | `project/src/webfs/webfs.c` | handles, lock, directory cache | open, read, close, init | WebDisk (without positions and cache) |
| WebSocket | `project/src/web/websock.c`, `web_websocket.c` | frame status, lengths, flags | head parser, receive loop, frame writer | WebSock |
| Variables, callbacks | `web_int_vars.c`, `web_int_callbacks.c` | settings | tables of names | their effects: requests of Control, callbacks in WebPage |
| WiFi API | `USDK/component/common/api/wifi_api.c`, `wifi_api_scan.c` | configuration, mode, reconnect counters | run, connect, save | Control (without reconnects) |
| Start and settings | `project/src/user/*.c` | `syscfg` | read from the flash store, written at once or when a connection ends | Control |
| Console | `project/src/console/*.c` | - | one command at a time | ATINA in SampleRing |
| I2C, ADC drivers; utilities; authentication | `driver`, `web_utils.c`, `web_auth.c` | registers or none | - | not modelled |
| MLX90614, ina219buf | `MLX90614`, `ina219buf.c` | - | - | not in the build |
| Device locks | `os_dep/device_lock.c` | a mutex per device | lock, unlock | assumption of FlashEep |

How they meet: lwIP's tcpip thread (priority 9) calls the TCP layer's callbacks,
which call the session's `func_recv`, `func_sent_cb` and `func_discon_cb`; the
session calls back into the layer (`tcpsrv_int_sent_data`, `tcpsrv_disconnect`)
while the layer is still in the callback. A page or a websocket message reads
variables and runs callbacks, among them the ones that start, read and stop
sampling and the ones that save settings in the flash store. Restarts are queued
for a task of low priority, which closes the server while the tcpip thread serves
it. Interrupts fill the sample rings. The console task runs its commands below
the tcpip thread's priority, which can come in the middle of one.

What makes it hard: connections freed inside the callbacks that use them,
`tcpsrv_close` in one task against callbacks in another, closes that fail and are
retried, timeouts against late answers, interrupts against the readers of a
buffer, and resets between two words of flash. `PROJECT.json` lists each place
under "hazards" with the properties that speak of it.

Properties that make each part correct:

- TCP layer: list, count and heap agree; a pcb's callbacks lead to the connection
  that owns it or to nothing; freed memory is touched on known paths only; silent
  peers are closed; a close comes to its end.
- Sample buffers: indices stay inside; what a client reads is a run of samples in
  order and gaps are shown by the index; the buffer is not used after its free.
- Flash store: what was saved last is read; other objects survive; a reset loses
  at most the object that is being saved.
- Session: files opened are closed on every path; a lock that is taken is
  released; the client gets the whole answer and can tell where it ends; a page
  does not stall.
- WebSocket: the reader does not lose the frame boundaries however the bytes
  arrive; a callback that is called again answers its own message; nothing follows
  a close frame, and the connection ends.
- Delayed functions: the server follows the port that is set; what the module
  starts with has worked; a save that was promised is made.

## 2. TcpSrv

`TcpSrv.tla` models `tcp_srv_conn.c` for one server of `phcfg`. Its state:

| Variable | Code |
|---|---|
| `srv` | the server is `"down"`, `"up"`, or `"closing"`: another task is inside `tcpsrv_close` |
| `links`, `count` | `conn_links` and `conn_count` |
| `live`, `state`, `check` | the `TCP_SERV_CONN`s that are allocated, their `state`, and the 16-bit counter `recv_check` |
| `cpcb`, `rxnull`, `txnull` | `ts_conn->pcb` and the flags of a connection that is closing |
| `tcp`, `arg`, `cb` | of each pcb: its state in lwIP, its callback argument, the callbacks that are set |
| `at` | where the task is in `tcpsrv_close` and in what that calls; `"idle"` when it is not in it |
| `ts`, `tp`, `next`, `num` | what the task holds there: `ts_conn`, `pcb`, and `ts_conn->next` and `conn_count` between load and store |
| `alone` | `phcfg` is NULL: the server that is closed was the only one (chosen when the close begins) |
| `wild` | history: which code touched freed memory. Nothing is defined from there on and the model stops |
| `overtaken` | history: the tcpip thread has freed what the task had in its hands |

lwIP's thread has priority 9 and is not interrupted by the task `web_qfn`, priority
5, so each callback is one action: `Recv`, `Sent`, `Fin`, `Poll`, `PcbLost`
(`tcpsrv_error`), `PcbDone` (lwIP forgets a pcb without a callback), `Accept` with
eviction and the TIME_WAIT sweep, `AcceptNoMem`. `tcpsrv_close` runs in the task,
without a lock, and the thread can come in anywhere. Its statements are therefore
actions of their own, those of `tspsrv_delete_pcb` and `tcpsrv_list_delete` included:
`CloseBegin` (the server leaves `phcfg`), `CloseHead`, `CloseFind` (`find_tcp_pcb`), `ClearArg`,
`ClearCallback` (four, one by one), `ClosePcb`, `ForgetPcb`, `MarkClosed`, `Disconnected`
(`func_discon_cb` and the early return), `LoadNext` and `StoreNext`, `LoadCount` and
`StoreCount`, `FreeIt`, `CloseEnd`. Every callback may come between any two of them. A call of
lwIP (`tcp_close`, the search of `find_tcp_pcb`) is one step: what preemption inside the stack
itself does is not modelled. Failures are members of the constant
`Faults`: `tcp_close` or `tcp_write` without memory, a disconnect inside a receive
callback, an allocation that fails.

What the preemption does in this code, as the model shows it:

- A reset, an idle timeout or a disconnect frees the connection between `find_tcp_pcb`
  and `tcp_arg` (`:711`-`:713`), or any time before when it has no pcb to clear: the task goes on with a freed `ts_conn`.
- Between `tcp_arg` and `tcp_close` a reset frees the pcb, or a poll finds no argument and
  abandons it: the task clears callbacks of, and closes, a freed pcb.
- The successor in the list is freed between the load of `ts_conn->next` and its store
  (`:686`): the list begins with a freed node.
- A decrement by the thread between load and store of `conn_count` (`:688`) is lost.
  That is harmless: the counter is then too large, no connection is accepted any more, and the
  `TCP_SERV_CFG` is freed with it.
- Once the argument is cleared no callback leads to the connection, so a second
  deletion of it within `:684`-`:701` needs a pcb with a stale callback, which
  a failing `tcp_close` can leave (`TcpSrv_v_poll`).
- A connection accepted after `:947` finds no server for its port (`:771`) and is refused, so
  the list does not grow behind the last test of `:948`.

| Run | Shows |
|---|---|
| `TcpSrv_nofault` | While `tcp_close` succeeds, connections and pcbs agree but for the one that is being cleared (`OpenOwnsPcb`, `NoStaleCallback`), every established pcb has an owner, and freed memory is touched for two reasons only (`WildOnlyFor`); silent connections are closed and `tcpsrv_close` ends, if nothing freed is touched. `tcp_write` and allocations may fail and the receive callback may disconnect. |
| `TcpSrv_faults` | With every failure the list still matches the heap (`ListMatchesHeap`), the connections implement `ConnTable` (`ImplementsTable`), and the forced close that `tcp_srv_conn.h:59` promises after three tries is never reached (`NeverForced`). |
| `TcpSrv_v_poll` | Violation: the poll callback switched on again after a failed close (`:604`) stays when the retry succeeds and leads to the freed connection. |

The two reasons of `WildOnlyFor`: the layer above closes the connection inside a callback
whose caller goes on with it (`web_int_disconnect` in `web_srv.c:1866`-`:1867` and the receive
path of `tcp_srv_conn.c:487`, or a `tcp_write` that fails), and the task in `tcpsrv_close` uses what
the thread has freed while the task had it in its hands (`overtaken`). It says that nothing
else leads there: not the timeouts, evictions, errors and FINs, nor the deletion of connections
the task does not hold.

`ConnTable.tla` is what the layer promises: at most `MaxConn` connections, each open,
closing, or without its pcb on the way to being freed, with the pcb it was accepted with; accepted only while the server is up, never
open again once closing, and all gone when the server is down. A full table may give
one up for a new one. The refinement maps `phase` and `owner` to `state` and `cpcb`
of the connections that are allocated, and `server` to `srv`; that a closing
connection is not reopened by a late acknowledgement follows from it.

Bounds: two connections and two pcbs with `MaxConn` 2; 209 142 states in `TcpSrv_nofault`
and, up to symmetry, 376 816 in `TcpSrv_faults`. That gives a successor in the list while the head
is being deleted, so that each of the points above is reached, and
memory that is used again at once. In `TcpSrv_faults` a full list and an eviction come
from a pcb that lwIP has freed under a connection that waits to be closed; in
`TcpSrv_nofault` two pcbs are too few for an eviction, which the proofs cover. The timeouts are one
poll, so that a counter can run out and can be reset just before, and no TIME_WAIT is
kept. The close begins with and without another server in `phcfg` (`alone`).
The firmware's own limit is 99 connections and in practice the heap. The runs
stop at `wild` and do not check deadlock.

Fairness in `TcpSrv_nofault`: weak fairness on each `Poll(p)` (lwIP's slow timer,
`tcp_slowtmr`, polls every active pcb that has a callback), on each `PcbDone(p)`
(lwIP ends every closing handshake it has begun, by an answer or by its own
timeouts) and on the statements of `tcpsrv_close`: its task is always ready, and the
threads above it block once they have nothing to do. None on the peer.

`TcpSrv_proofs` proves, for any sets of connections and pcbs, any limits and all
failures, with the thread coming in at every statement, the type invariant and the three properties of `TcpSrv_faults`. The induction is over
`ListInv`: types, `ListMatchesHeap` (`links` has no node twice; a node is linked exactly
when it is allocated, but for the one the task is taking out; the counter is the length, or at
least that during a close) and what is known of the task at each statement. The lemmas on
`Unlink` and `Evicted` carry the order of deletion and insertion. `WaitInv` adds that a connection
that waits to be closed has a pcb and has counted no try; `ClosingStaysFinal` and
`NeverAbandoned` follow, and with them the refinement, one lemma for each way
in which the connections change.

Two theorems are the safety halves of the liveness properties. `CloseAlwaysWorks` (`CloseWorks`): while
`tcpsrv_close` runs, no connection comes and none loses its mark CLOSED,
whatever the thread does (`OnlyFewer`), and each pass of the task marks a connection or frees one, never
marking one again (`TurnCounts`), so two passes per connection are enough. `IdleAlwaysCounts`: the
counter of a silent connection is within its limit, and each poll of it counts or ends its being open. The
other half, that the steps and polls come, is the fairness below which TLC checks `CloseEnds`
and `IdleIsClosed`.

`TcpSrvOwn_proofs` assumes that `"close"` is not in `Faults` and proves
`OpenOwnsPcb`, `NoStaleCallback`, `EstablishedIsListed` and `WildOnlyFor`. The invariant is `OwnInv`:
open connections and pcbs belong to each other, both ways, nothing waits to be closed, and a pcb has
all its callbacks, or none, or is the one being cleared. `WildInv` adds that
what the task holds is allocated until it is overtaken (`HeldInv`). Without the assumption on `tcp_close` these are
false, as `TcpSrv_v_poll` shows. Three theorems say how far that goes, with all failures:
`OnlyPollIsStale`, that of the callbacks only poll can find a connection that is not its
own; `OnlyStaleDisowns`, that until it does every open connection owns its pcb; and
`OnlyWaitingIsStale`, that until then only a connection whose close has failed, or the one
being cleared, can point to a pcb
that lwIP has freed. The last two are proved from `Spec /\ []NoStaleCallback`, which behaviours
with failing closes satisfy too; `GuardInv` is their invariant.

Not modelled: the receive buffer (`recv_trim_bufi`, `unrecved_bytes`; it is in WebSock) and window
updates, a `tcpsrv_start` that fails, preemption inside lwIP's own functions, and the functions nothing calls
(`tcpsrv_close_all`, `close_all_tcp_pcb`, `delete_all_tm_tcp_pcb`). `NeverForced` says of
the forced close that the counter of tries is not incremented where it is needed
(`tcp_srv_conn.c:645`), so that a close that keeps failing is tried for ever. Read, not
checked: `srv_reopen` is documented (`tcp_srv_conn.h:87`) to close the oldest
connection, but new ones enter at the head of the list (`tcp_srv_conn.c:814`) and the
head is what `:784` deletes; the model follows the code, and the firmware does not
set the option. When `tcp_listen` fails, `tcpsrv_start` calls
`tcp_abandon(NULL)`; `webserver_init` then calls `tcpsrv_close` for a
configuration that is in no list and is not freed.

## 3. SampleRing

`SampleRing.tla` models `ina219drv.c` and, where they differ, `adc_ws.c`: both
have the same ring. `Tick` is the interrupt; `WsStart`, `WsCheck`, `WsGet` or
`WsEnter`/`WsLeave`, `WsStop` are the websocket commands; `ConInit` to `ConOff` are the
steps of the console's start and stop in their order in the code. The constant
`Masked` says whether the critical section keeps the interrupt out.
The ADC's interrupt has priority 5 (`adc_drv.c:20`), which
`taskDISABLE_INTERRUPTS` masks (BASEPRI 5, `FreeRTOSConfig.h:197`): `Masked` is TRUE and the read is one
step. `gtimer_init` gives the INA219's timer priority 0 (`timer_api.c:67`), which is
not masked: `Masked` is FALSE and ticks come inside the section. That the ROM's
`VectorIrqEnRtl8195A` programs the priority it is given is assumed.

A websocket command runs in the tcpip thread and may interrupt a console command,
never the other way round. `wild` records the use of the buffer after its free;
nothing is defined from there on and the model stops, which is why its runs do
not check deadlock. `LossyFifo.tla` is the abstract specification: a queue that gives
up its oldest sample when full and counts what it gave up.

| Run | Shows |
|---|---|
| `SampleRing` | Masked: the ring implements `LossyFifo`, blocks are runs of consecutive samples, and the index of a block tells exactly how many were missed. |
| `SampleRing_open` | Not masked: the indices stay inside the buffer, and the buffer is used after its free only when a websocket command comes inside a console command. |

Not checked for the INA219: a tick inside the section of `ina219_getdata` that
finds the ring full counts an overrun and moves `buf_rx`, and the write back undoes
the move; the next index then shows a gap that is none, against the comment at
`ina219drv.c:173`. With `Masked` FALSE the model has that trace, and `GapIsShown`
is a property of `SampleRing` only.

Bounds: `BufIdx = 2`, a ring of three places that holds two samples; an overrun
counter modulo 4; up to five samples (`MaxTaken`; four
without masking) and two clients.
Both indices wrap, overruns come before, between and after reads, a block spans the
wrap, and the counter wraps.

Proved in `SampleRing_proofs`, with and without masking and for any ring size: the
types, which say that every index stays inside the buffer, and that the buffer is touched after its free only on an
overlap of the two tasks. When masked: `BlockIsRun` and the refinement of
`LossyFifo`. The invariants are `RingInv` (until an overlap: the console's steps and the client's
are in step with `init` and the buffer, and a read under way was asked for) and
`RunInv` (until an overlap: the queue in the ring is the run of samples
that ends with the newest). The modular steps are in lemmas on `Step` and `At`.
When masked also `GapIsShown`, from `GapInv`: in a session, `count + overrun` has moved on from the
index of each client's last block by as much, modulo `CountMod`, as the oldest waiting sample
has from the first of that block. A sample that is taken or dropped and a read each keep the two in step; what starts `count` anew
does so outside a session, or forgets the blocks.

These properties hold until `overlap`, a history variable: a websocket
command came inside a console command that had begun to start or stop the same
device. What happens afterwards is a hazard in `PROJECT.json`.

Not modelled: the I2C registers read on each tick (the machine of `ina219drv.c` is its
`status` only), the ADC handler's two samples per interrupt, and `init = 2` when
the ADC's overrun counter wraps.

## 4. FlashEep

`FlashEep.tla` models `flash_eep.c`. A bank is a counter word `cnt[b]` and a
sequence of records `recs[b]`, each with its address, id, size and data. `op` is the
write at work and where it stands: `WriteCfg` (to the decision whether the object
is there already, fits, or needs a pack), `Erase`, `CopyOld`, `Commit` (the new
bank's counter word), `WriteHead`, `WriteData`, `Done`, and `NoMem` for the malloc
in the pack. `Crash` may come between any two of them. The data words of one
object are one step, so a record is complete or `Torn`; an erase is one step. The
device mutex keeps calls apart, and flash words are programmed atomically; both are
assumptions. What the pack's copy loop leaves is modelled by what it does: every word
goes to one address, where flash keeps the AND of all of them.

`KvStore.tla` is the promise: each id keeps the object saved last; a write that
fails or is cut off by a reset may cost its own id's object and never another's.
The refinement maps `store` to what `flash_read_cfg` finds in the current bank.
The promise holds until `broken`: a pack with other objects to copy was committed,
or malloc failed in a pack.

| Run | Shows |
|---|---|
| `FlashEep` | `BankInv`: the order of banks is always clear, whatever resets came. `EraseSparesCurrent`: no step of a pack changes the current bank. `RecordsInside`: no record runs into the next bank. `ImplementsKv`: the refinement above. |
| `FlashEep_v_pack` | Violation: a write with its pack changes other objects. The copy loop never moves `wraddr` on (`flash_eep.c:358-360`), against its comment at `:357`; after the counter is written the other objects cannot be read. |

Also seen with the model: when malloc fails, `pack_cfg_fmem` returns 5
(`-(FMEM_MEM_ERR)`), which `_flash_write_cfg` takes for an address (`:414`): it
writes there and reports success. `ImplementsKv` needs `outside` in `broken` because of it.

Bounds: two ids, four objects (one empty, two of one word, one of two), banks of six
words and two banks. Two to four records fill a bank, so packs happen with no, one
and several other objects, with an object that does and does not fit afterwards,
and with records that end exactly at the end. `Top = 3` allows two packs, so the
first bank is erased and used again. The real banks have 1024 words and objects
at most 129; the proofs do not depend on it.

`FlashEep_proofs` proves all four properties of the run for any number
and size of banks, ids and objects, under `FlashAssumption` (an object and its
head are shorter than a bank, as `MAX_FOBJ_SIZE` ensures; at least two banks). The
invariants behind them: `BankIInv`, that counters of used banks differ and that a pack's
target is not the current bank; `RoomInv`, that records stay inside and that an
object whose head is about to be written fits; and `Written`, that the new bank is
empty until the pack copies, and at its commit if there were no others, and that while a write is past its
head, the last record of the target bank is the one it writes. The last record of
an id is the one that `Find` returns, so an append changes it for its own id only. The refinement is then one case per action: `WriteCfg` is
`Begin`, `Done` is `Finish`, `Crash` and a failed pack are `GiveUp`, `Commit`,
`WriteHead` and `WriteData` are `Disturb`, and the others stutter.

Not modelled: the return for objects over `MAX_FOBJ_SIZE`, the byte copies, the SPI
driver. Read, not checked: the copy buffer has a quarter of the bytes it needs
(`:322`, a shift by two too many), and the error returns at `:343` and `:348` do not free it.

## 5. WebDisk

`WebDisk.tla` models `webfs.c` and the file side of `web_srv.c`: what opens, nests,
closes and replaces files.

| Variable | Code |
|---|---|
| `stub`, `locked` | `WEBFSStubs[]` (which disk's file a handle reads, or that it is free) and `isWEBFSLocked` |
| `disk` | the blocks in flash, the first with the header that `WEBFS_Update` looks at |
| `st` | where the session is, from its `webflag` bits |
| `files`, `parse` | `bffiles[]` and `SCB_FCALBACK` of each session |
| `next`, `im` | progress of an upload (`faddr`, `fsize`) and the disk it carries |
| `wiped`, `spoilt` | history: `WEBFSInit` ran while a session held a handle; the disk was written in a way the lock cannot cover |

All of it runs in callbacks of lwIP's thread. A callback that sends a file takes
several steps, one per file that is included or ends, and no other callback comes
between (`Quiet`). `Post`, `BodyComplete`, `PostEnds` and `PostFails` are the paths of
`webserver_received_data`, `web_rx_buf` and `web_print_headers` for a form and for a
multipart POST; `UploadDisk`, `UploadBlock`, `UploadEnd` and `UploadSector` are
`upload_boundary`; between any two pieces of an upload the other sessions go on, the
connection may end (`Disconnect`) or power be lost (`Reset`), also between the erasure of
a block and its writing.

| Run | Shows |
|---|---|
| `WebDisk` | `NoHandleLost`: a handle that is taken is held by a session. `OneOwner`: by one place of one session, until `WEBFSInit` clears the table under it, and the last handle is never taken. `ImplementsDiskUse`: the readers and the upload implement `DiskUse`. |
| `WebDisk_v_lock` | Violation: `webfs.c:61` calls the lock "Lock WEBFS access during the upgrade". With two uploads at a time, the end of the first (`web_srv.c:1471`) unlocks the disk the second is still writing. |

`DiskUse.tla` is what the lock and `WEBFSInit` promise the readers: a file is opened of a
disk that is served, a disk that is served is whole, it is withdrawn before it is replaced, and its
readers are gone before the next one is served. The refinement maps `served` to the whole
disk in flash while it is not locked and `reading` to `stub`. That a disk which is
not whole is locked (`HalfDiskIsLocked`) and that no handle reads a disk that was replaced
(`NoFormerFile`) are two steps of its proof and theorems of their own.

All three hold until `spoilt`, which is set by each case in
which the code gives no such protection: a second upload while one goes on, a
part that ends short of the size it announced, a sector written by `fsec_...`,
and a reset that finds the header written and so forgets the lock. `webfs.c:91`
has the missing checksum as a to-do. The ordinary accidents are not among
them: failure, disconnection, no memory, a reset before the header is written.

Bounds: two sessions, two disks of two blocks, four handles of which three can be taken, so
the table is full when one session nests to its limit of three while the other holds a file. The
firmware has `MAX_WEBFS_OPENFILES` handles and four levels; the proofs hold for
any of these. The run has 408 072 states and is complete.

`WebDisk_proofs` proves the four properties of the run and those two for any sets of sessions and disks and
any sizes. `TableInv` says that the last handle is free, that each taken handle is in
`files` of some session, and, until `wiped`, that each held handle is taken and
held once; a lemma per change of the table (`OpenKeeps`, `OpenOwned`, `CloseAll`,
`CloseTop`) carries it, and the least free handle exists by the well-founded
induction of the naturals. `DiskInv` says that, until `spoilt`, at most one session
writes, the disk is locked while it does, its blocks below `next` are those of its
image, and an unlocked disk is whole and the one that open files belong to. `ReadersUseDisk`, the
refinement, is one case per action: opening and closing is `Read`, `WEBFSInit` is `Publish` or
`Restart`, the lock is `Withdraw`.

Not modelled: the boundary parser, overlays and settings sectors, positions in a file,
the directory cache and the search by name hash. Read, not checked: data
of a file that was open before an upload can still be read during it, since
`WEBFSGetArray` does not look at the lock; after `WEBFSInit` a session that
kept a handle closes whatever file has it by then.

## 6. WebSock

`WebSock.tla` models the receiving side of a websocket: the TCP layer's receive
buffer (`recv_trim_bufi`, `web_trim_bufi`), the loop of `websock_rx_data` with the
head parser under it, the frames it answers with, and the end of the connection. The
client sends frames, a bounded number of bytes of them, and the stream is cut into
segments anywhere. A frame is its opcode, FIN, the length of its head and of its
data; `ReadsBack` models what the reader makes of a length that was written in one byte
or in the two after it.

| Variable | Code |
|---|---|
| `ws` | `WS_FRSTAT`: status, `frame_len`, `cur_len`, FIN, and whether a close was sent |
| `ahead`, `sizei`, `cntri`, `gone` | the receive buffer: where in it the next frame begins, its bytes, and those handled; `pbufi` is NULL although `sizei` still counts bytes |
| `scb` | the `webflag` bits of a websocket |
| `out`, `room` | what was sent in this step, and `tcp_sndbuf` |
| `off`, `cause` | history: the reader took data for a head, and what first made that possible |

| Run | Shows |
|---|---|
| `WebSock` | `LosesStepOnlyFor`: a head is read where a frame begins, until one of five causes. `RetryBelongs`: a callback that asked to be called again is called for the message that started it. `LengthReadsBack`: a length that is written is read back, except 126. `NothingAfterClose`: a close frame is the last one. `CloseCompletes`: once it was sent, the connection ends. |

The five causes are ways in which the code does lose its place, found with the model:
a fragmented message that is continued (`frame_len` is added to, `cur_len` starts
anew); a sent callback, which reads the buffer from its start although only a receive takes
handled bytes out of it; a frame without data or a send buffer of exactly the room a frame needs, after
which `web_trim_bufi` frees what is left; a send buffer smaller than the margin, whose subtraction wraps;
and a `realloc` of `recv_trim_bufi` that fails (`tcp_srv_conn.c:366`, `:423`), which takes the
bytes that were not handled with it while `sizei` still counts them. A segment for which there is no memory
before anything was moved is refused (`RecvRefused`): lwIP keeps it and brings it again.
When the trim behind `func_recv` fails (`:478`-`:488`), the segment that lwIP brings again has been taken and freed already.
Also seen: an empty BINARY frame is answered by an empty fragment; a text
in several pieces is handled with its last piece only; a turn of a callback without output
sends a CONTINUE frame with no TEXT before it; a PING is skipped, and a PONG is answered by
a PONG; frames in the buffer behind a text without an answer wait for the next callback.

Bounds: frames with a head of 2 bytes and 0 or 4 of data, segments of 1 and 4, a receive
buffer of 8, a send buffer of 9 with room 5 or 9: a head cut in the middle, data in several
segments, two frames in one, a full send buffer. `SndMax`, `MaxRx` and the margins are the code's constants scaled down. 385 993 states.
The run may stop when the connection has ended, so deadlock is not checked. Fairness: weak on
the handler and what lwIP owes it (`Handler`, an acknowledgement, the end of the
connection): lwIP calls back for whatever it has sent or given up. None on the client's frames.

`WebSock_proofs` proves the five safety properties for all lengths and faults. `TInv` has the types and
that a piece never exceeds its frame; `CloseInv` that after a close frame no
path leads back to the loop; `RetryInv` that with `SCB_RETRYCB` set the frame at hand is the one of
the callback; `StepInv` that, with no cause noted, the place in the buffer and in the
stream agree in every state of the parser. `CloseAlwaysWorks` is the safety half of
`CloseCompletes`: `EndInv` says that after a close frame there is always something (bytes in the
buffer, or a flag) that will make a callback give the connection up, and `GivesUp` that the
loop is not entered again and the end of that callback closes the connection. That the callbacks come is the fairness.

Not modelled: the handshake and its key (done by the page's request), masks, lengths of 64
bits (`websock.c:114` leaves out one byte of the test for them), the content of a text.

## 7. Control

`Control.tla` models what a request sets in motion. Its threads are lwIP's, in which requests run,
the tasks `web_qfn`, of which every restart of the server makes one more, and
`user_init_thrd` (actor 0), which starts the radio and then the server.

| Variable | Code |
|---|---|
| `queue`, `tasks` | `xQueueWebSrv` and the tasks that receive from it |
| `pend`, `due` | `qfnt` of each task and whether its pause has passed |
| `job` | what each thread is doing: a delayed function between two of its calls; in `wifi_run`, `tried` is what it has tried so far |
| `port`, `servers` | `syscfg.web_port` and the ports in `phcfg` |
| `promised` | servers with a connection that has `SCB_SYSSAVE` |
| `mode`, `runMode`, `wifiMode` | `wifi_cfg.mode`, `wifi_run_mode`, and the global `wifi_mode` that `_wifi_on` sets |
| `savedPort`, `savedMode` | the same in flash |
| `worked`, `saved` | which settings have worked since they were changed, in RAM and in flash |
| `missed`, `cause` | history: why a restart was given up; why something that has not worked may be saved |

| Run | Shows |
|---|---|
| `Control` | `ServerFollowsPort`: with no restart on its way the server listens on the port that is set, and on no other, unless a restart was given up. `SavedHasWorked`: what the module starts with has worked, but for four reasons. `PromiseKept`: a connection with `SCB_SYSSAVE` does not end without a save. `RestartEnds`: a restart ends. |

`wifi_user_set.h:25` says of the settings that they are saved on success, `web_srv.h:209`
has `SCB_SYSSAVE`. The five reasons for which a restart is given up, all found in the code: the queue is
full, and nobody looks at the result; another function with a pause takes its place in
`qfnt` (`web_srv.c:1958`); it is in the old queue when `webserver_init` makes a new one
(`:1984`); it comes to close a server which another task is just about to open; the task or the
server could not be made, for want of memory or because lwIP does not give the port free while
closed connections of it are in TIME_WAIT (ERR_USE, lwIP's `tcp.c:459`-`:478`). The name of the access point is queued with `pause_ms` not initialised
(`web_int_vars.c:255`): it is either run at once or replaces what waits, so `Hostname` has both.

`wifi_run` is split where other threads can come in: `RadioOff`; `RadioOn`, in which `_wifi_on` sets the
global `wifi_mode`; then `RadioFails`, or `RadioStarts`, which applies the settings of the radio and the access
point's address; then each part. `wifi_run_ap` and `wifi_run_st` test the global, not the mode their caller
set (`wifi_api.c:337`, `:507`): when another task has set another one meanwhile, they do nothing, and
`wifi_run_st` returns success (`SkipPart`). The four reasons for which settings that have not worked are
saved: the user asked for it (`"asked"`); a setting was changed while it was tried (`"edited"`); the driver's
error was only printed (`:343`, `:665`-`:675`: `"ignored"`); and two threads were in
`wifi_run` at a time (`"crossed"`). Outside these a saved setting has worked.

Bounds: three ports, two modes, a queue of two (five in the code, `webserver_init`),
two tasks, three requests or power failures. That reaches a full queue, a replaced
function, a second queue while a task has one pending, a part that is skipped because of another thread, and a power failure in each step of `wifi_run`: 468 127 states.
Each of the first three reasons makes `saved` incomplete in the run by itself; that a crossed mode is saved needs
four requests, was seen in a larger instance, and the theorem covers it.
The reasons "lost" and "overtaken" on their own need more requests and tasks
(four and three; four and four); the traces were seen in larger instances, and
the proof covers them. Fairness: every task that can go on does, and a pause passes; the requests are
bounded, for every function with a pause that is queued later starts the pause anew.

`Control_proofs` proves the four safety properties for any ports, modes and number of tasks.
`FollowInv` says that, as long as nothing was given up, a server on another
port than the one set (or one that a task is about to open) has a restart on its way that will close it, and that
the port set has a server or a restart; `BootInv`, that until the start is over there is no server, hence no
request. `SavedInv` says that, with no cause noted, everything saved has worked, and follows what each thread in `wifi_run` has tried. `RestartAlwaysAdvances` is the safety half of `RestartEnds`: while a restart is
on its way some thread has a step to take (`AttendedInv`: the tasks are there before the server, and an item
that waits has its task); each step of a thread at work lowers `Rank` of its job and changes no other
thread's, nor adds to the queue; and each look of a task at its queue lowers three times
the length of the queue plus what its pending item is `Owing`, and leaves the other tasks alone. Items
first, jobs second, that order has no infinite descent, so restarts end when requests cease.

Not modelled: reconnects, which save the station's settings as `wifi_run` does;
DHCP; the console's commands, which call `wifi_run` too; changes of `save_flg` and `load_flg`; flash writes that fail; a queue that cannot be
created. Read, not checked: `tcpsrv_start` returns success when `tcp_listen` gives NULL.

## 8. WebPage

`WebPage.tla` models how one request is answered: `web_print_headers`, then
`webserver_send_fdata` from the receive callback and from each sent callback, to
`web_int_disconnect`. A page is a plain file, a file with `~callback~` marks, a text of
the program or a dump of memory. What is in a marked file is chosen as it is read; of the
bytes only their number is kept, and `client` has what matters of the answer:
how the end of the body is to be found, how much was announced and came,
whether the empty chunk came and whether something came among the chunks that is none.
One turn of the reading loop is one step; nothing comes between the steps of a callback.

| Variable | Code |
|---|---|
| `at` | where the callback is, or `"wait"` for the next one |
| `page`, `nest`, `left` | the file that is sent, `bffiles[]` in use, bytes not yet read |
| `scb` | `webflag` |
| `size`, `len` | `msgbufsize`, `msgbuflen` |
| `room`, `tfree`, `cut` | `tcp_sndbuf`, `pcb_time_wait_free`, a connection whose close failed |
| `client` | the answer as the client has it |
| `cause` | history: why the answer may not be whole |

| Run | Shows |
|---|---|
| `WebPage` | `NeverRefused`: what is made fits into what lwIP takes, marks of a chunk included, so the result that nobody looks at is never a refusal. `WholeUnlessFor`: an answer that was sent to its end is whole to the client, but for named exceptions. `NothingAfterEnd`: nothing follows the empty chunk. `PageEnds`: a page does not stall. |

The exceptions are what the code does, each found with the model: a page whose last turn has
nothing to send gets no empty chunk, though `web_srv.c:1009` says it is added when the file is
closed; a dump after whose last piece less than 128 bytes are left is followed by a
text of the program, outside the chunks (`:912`); `content_len` holds the length of the request's body, and goes out as the length of a plain
page that is asked for by POST, or is added to that of an error page (`:514`); a status that has neither a page
on the disk nor a text of the program (400 without `/400.htm`, `:175` and `:1125`) has a head that breaks off
before its length and its blank line; the disk is replaced while a file of it is sent: `WEBFSInit` clears the
handle (`webfs.c:85`), the next read is short and the page ends early (`DiskReplaced`, which another session's upload
causes); no memory, or a failed write. A redirect is not among them: the end of its connection ends it.

A callback that goes on with its connection after it was freed (`web_srv.c:1867`, or a failing `tcp_write`) is
in TcpSrv, as a cause of `WildOnlyFor`. `web_get_flash` and `web_get_ram` write to the buffer
without a look at its length (read, not checked).

Bounds: pieces of 3 bytes (128 in the code), marks of 1 and 1, a send buffer of 10, which
an acknowledgement leaves at 4, 8 or 10; files of 0, 3, 9 and 11 bytes, so that one is shorter
than the buffer, one fills it with and one without chunks; a record of a callback of up to 7; two nested files (four in the
code; the stack itself is in WebDisk); six turns that find more to read. 108 325 states. The run ends with the connection, so deadlock is not checked. Fairness: a callback runs
to its end, and the client acknowledges what it was sent, until the whole window is free again: a record can be
longer (298 bytes) than the room that makes the code begin (280), so progress needs the full window.

`WebPage_proofs` proves the four safety properties for any sizes. `TInv` has the types, the shape of the
buffer in each state and that nothing was refused; `EndInv` that a page which has sent its empty
chunk is closing; `WholeInv` that, with no cause noted, bytes got and bytes in buffer and file make up
those announced, that a chunked body holds only chunks, and that a closed connection had its last one. `PageAlwaysAdvances` is the safety half of `PageEnds`: `Work`, the bytes of a plain file, the turns
that find more to read, the files to close and the callback to call again, never grows once the page is
chosen; each turn of the loop lowers it; and a callback that finds the room it waits for gets
into the loop, lowers it, or ends the page. Only the replacement of the disk, which comes once, is outside that order.

Not modelled: how the request is parsed, a body that is received (its files: WebDisk), authentication.

## 9. What is proved and what is not

| Module | Theorems | Assumes |
|---|---|---|
| `TcpSrv_proofs` | `TypeCorrect`, `ListAlwaysMatchesHeap`, `ClosingStaysFinal`, `NeverAbandoned`, `ServerImplementsTable`, `CloseAlwaysWorks`, `IdleAlwaysCounts` | the constants' types |
| `TcpSrvOwn_proofs` | `OpenAlwaysOwnsPcb`, `CallbackNeverStale`, `EstablishedAlwaysListed`, `FreedTouchedOnlyFor` | no failure of `tcp_close` |
| | `OnlyPollIsStale`; `OnlyStaleDisowns`, `OnlyWaitingIsStale` | the constants' types; that no callback has been stale |
| `SampleRing_proofs` | `TypeCorrect`, `FreedNeverTouched`; `BlocksAreRuns`, `GapIsAlwaysShown`, `RingImplementsFifo` | nothing on masking; `Masked` |
| `FlashEep_proofs` | `OneBankIsCurrent`, `PackLeavesCurrent`, `NoRecordRunsOver`, `FlashImplementsKv` | `FlashAssumption` |
| `WebDisk_proofs` | `TypeCorrect`, `HandlesNotLost`, `HandlesOwned`, `HalfDiskLocked`, `FormerFilesClosed`, `ReadersUseDisk` | `DiskAssumption` |
| `WebSock_proofs` | `TypeCorrect`, `LengthsReadBack`, `CloseIsLast`, `RetryIsForItsMessage`, `StaysInStep`, `CloseAlwaysWorks` | the constants' types |
| `Control_proofs` | `TypeCorrect`, `FollowsPort`, `SavedOnlyWhatWorked`, `SaveIsKept`, `RestartAlwaysAdvances` | `ControlAssumption` |
| `WebPage_proofs` | `TypeCorrect`, `NothingRefused`, `AnswerIsWhole`, `EndIsEnd`, `PageAlwaysAdvances` | `PageAssumption`: a head, a piece with its marks, and a record fit into the window |

Every safety invariant, action property and refinement of a passing run is proved: the four
abstract specifications are `ConnTable`, `LossyFifo`, `KvStore` and `DiskUse`. Liveness
(`IdleIsClosed`, `CloseEnds`, `CloseCompletes`, `RestartEnds`, `PageEnds`) is out of the prover's
reach and is model-checked; what is proved of it is that each step the fairness provides for
gets nearer to the end and that none leads away. The violations are model-checked only.

Each property of a passing run has a mutant: an operator next to the one it
replaces, marked "mutant" in the module, with a plausible bug in it, which the run
must notice.

## 10. Plan

Done: TcpSrv, SampleRing, FlashEep, WebDisk, WebSock, Control, WebPage. Left, in this order:

1. WebPage on top of TcpSrv: at present WebPage has its own small picture of
   `tcpsrv_int_sent_data` and `tcpsrv_disconnect`, and TcpSrv lets `func_recv` and
   `func_sent_cb` do anything they may. A composition would show that the two pictures agree.
2. Control on top of KvStore: a save of several objects with a reset between two of them.
3. The parser of a request and the boundary parser of an upload.
4. WebFS: positions in a file and the cached directory record.

Not modelled, and not planned: the registers of I2C and ADC, the vendor's WiFi driver,
string conversion and authentication (no state), the console (one command at a time), and
what the makefile does not build.
