# TLA+ models of `tunnel`

`tunnel` is a TLS terminator written in C on libevent and CyaSSL. It
accepts TLS connections, opens a plaintext TCP connection to a fixed
destination, and copies bytes both ways through two ring buffers per
connection. This directory holds TLA+ models of its parts and the TLC
configurations that check them.

## 1. The system

| Part | Source | State it keeps | Operations |
|---|---|---|---|
| RingFIFO | `fifo.c` | `buffer_size`, `read_count`, `write_count` (size_t). The byte array belongs to the caller. | `fifo_new`, `fifo_read`, `fifo_write`, `fifo_bytes_used/free`, `fifo_read/write_index`, `fifo_read/write_size` |
| TunnelClient (session) | `tunnel_client.c` | two sockets; the handshake state; four socket events (read/write × ssl/dest; the reads are `EV_PERSIST`, the writes are not); four 1 ms timeout events; two buffers with their FIFOs (`from_ssl`, `from_dest`); its link in the worker's `client_list` | `tunnel_client_new`, `tunnel_client_connect`, the callbacks `on_read_ssl`, `on_write_ssl`, `on_read_dest`, `on_write_dest` and the four `*_timeout` callbacks, `handle_ssl_accept`, `disconnect_dest/ssl`, `disconnect_and_free`, `free` |
| Worker thread | `tunnel_thread.c` | its own `event_base`; `on_accept_dispatch_event` and `on_shutdown_event`; `client_list`; `ref_count` | `tunnel_thread_new/launch/ref/unref/free`; the callbacks `on_accept_dispatch` and `on_shutdown` |
| Listener / server | `tunnel_server.c` | the config; the CyaSSL context; the mutex-protected `pending_socket_list`; `thread_list`; `last_thread_link` (the round-robin cursor); `ref_count` | `tunnel_server_new`, `serve_forever`, the callbacks `on_accept` and `on_shutdown`, `tunnel_server_shutdown`, `ref/unref/free` |
| Linked list | `list.c`, `list.h` | doubly linked `List` nodes (`next`, `prev`, `user_data`) from `calloc` | `list_prepend`, `list_delete_link` (= `list_remove_link` + `list_free_link`), the `list_next`/`list_user_data` macros; `list_append` and `list_last` are never called |
| Configuration | `tunnel_config.c` | the settings read from `./tunnel.ini` | `tunnel_config_new` (through inih's `ini_parse` and `ini_parse_handler`), `tunnel_config_free` |
| Entry point | `main.c` | the global `server` the signal handler uses | installs `SIGINT`/`SIGTERM` handlers, `tunnel_server_new`, `serve_forever`, the final `tunnel_server_unref`, return |

**How the parts interact.**

1. The main thread's `on_accept` calls `accept()`.
2. It pushes the fd onto `pending_socket_list` under the mutex.
3. It wakes one worker with `event_active`.
4. That worker's `on_accept_dispatch` pops the list head.
5. The worker creates a `TunnelClient`, prepends it to `client_list` and connects it to the destination.

From then on, the eight client callbacks run in that worker's event loop and move bytes through the two FIFOs:

- TLS client → `from_ssl_fifo` → destination
- destination → `from_dest_fifo` → TLS client

The callbacks hand work to each other by `event_add`ing the other side's write event, or a 1 ms timer when a FIFO is full or empty.

**Hard behaviours.**

- **Callback order.** Within one worker, the eight callbacks can run in any order, and the order decides the outcome. Either side may fail or close while the other still holds buffered bytes.
- **Values left over from earlier calls.** `errno` and `CyaSSL_get_error()` are read after loops that can end on a *successful* call, so they hold whatever an earlier call left.
- **Handshake failure.** A failed handshake frees the client inside `handle_ssl_accept`.
- **Concurrency across threads.**
  - The main thread and the workers share the pending list.
  - The reference counts are also shared, and they are not atomic.
  - libevent merges an `event_active` on an event that is already active.
- **Counter wrap.** The FIFO counters wrap at 2^64.

**Properties each part should have.**

- **FIFO:** it behaves as a bounded byte queue.
- **Session:**
  - Buffered bytes always have an event or a timer armed to move them on.
  - A side is closed only when its peer ended or failed.
  - Every byte read is eventually delivered.
  - End of file is eventually acted on.
  - Freed memory and freed (NULL) events are never used.
- **Linked list:** each list stays well linked, and the lists hold exactly the nodes allocated.
- **Dispatch:**
  - Every accepted socket is eventually served.
  - Connections are spread round-robin.
  - Shutdown frees every client and ends every loop.
  - Reference counts reach zero only at the end.
- **Lifecycle:**
  - Nothing is freed while a thread, a client or the signal handler still uses it.
  - A shutdown signal makes `main` return, and shuts the process down gracefully.
  - `serve_forever` serves only with the configured pool of workers.

## 2. Modules

| Module | Models | Notes |
|---|---|---|
| `Fifo` | `fifo.c` | Operators on a FIFO record `[buffer_size, read_count, write_count]`. Arithmetic is taken modulo `SizeModulus` (2^64 for size_t). |
| `ByteQueue` | the promise of a FIFO | Abstract bounded queue: `Put` appends a chunk of at most the room left; `Get` takes a chunk from the head into `taken`. |
| `FifoBuffer` | a FIFO plus its byte array, used as the loops of `tunnel_client.c` use them | `Produce` is one positive `read()`/`CyaSSL_read()` into `&buffer[fifo_write_index()]` followed by `fifo_write()`. `Consume` is one positive `write()` from `&buffer[fifo_read_index()]` followed by `fifo_read()`. `Contents` maps the state onto `ByteQueue`, and `RefinesByteQueue == Queue!Spec` is checked as a PROPERTY. |
| `Session` | `tunnel_client.c`: one client after a successful connect, with its TLS peer and destination peer | See below. |
| `LinkedList` | `list.c`, `list.h` | Every list function as an operator over a heap of `List` nodes (`next`, `prev`, `user_data`) and the set of allocated addresses. `AgreesWithSeq` runs a sequence of calls on the heap and on the sequence reference and compares them. See below. |
| `Dispatch` | `tunnel_server.c` `on_accept` and `on_shutdown`; `tunnel_thread.c` `on_accept_dispatch` and `on_shutdown`; the list calls they make, through `LinkedList` | See below. |
| `Config` | `tunnel_config.c` | Operators: `TunnelConfigNew(file)` is the set holding the loaded config, or empty for NULL. See below. |
| `Lifecycle` | `main.c`; `tunnel_server.c` `tunnel_server_new`, `serve_forever`, `on_accept`, `on_shutdown`, `ref/unref/free`; `tunnel_thread.c` `tunnel_thread_new/launch/task/unref/free`, `on_accept_dispatch` and `on_shutdown` as far as they touch references; the references `tunnel_client_new/free` take; it loads the configuration through `Config` | See below. |
| `MCSession`, `MCFifoBuffer`, `MCDispatch`, `MCLifecycle` | model-checking instances | They fix `SizeModulus`, `RefModulus`, the failure points, the contents of `./tunnel.ini`, the data values and the connection names. |

### Session

- **Variables.**
  - `client` mirrors the `TunnelClient` struct:
    - each socket is `open` or `closed`;
    - each socket event is `added`, `idle` or `freed` (event_free and set to NULL);
    - each timeout is pending or not;
    - the two FIFO records;
    - `link`;
    - `freed`;
    - `fault`, for a NULL `event_add` or a use after free, after which the process is undefined.
  - `tlsPeer` and `destPeer` record what each peer has done: bytes sent, end of file, and reset/error.
- **Callbacks.** Each callback is a set-valued operator from the client record to the records it can leave behind. For example, `ReadSsl` covers `on_read_ssl` from its room check to its end. It includes every disconnect and `event_add` the callback makes, in the code's order. The handshake prelude shared by `on_read_ssl` and `on_write_ssl` is `AcceptGate`.
- **I/O loops.** The `do … while` loops are the RECURSIVE operators `ReadLoop`, `DestWriteLoop` and `SslWriteLoop`:
  - They return every possible end state: the FIFO after the loop and how the last call ended.
  - A read returns any number of bytes from 1 up to what the peer has sent and the window allows, or it fails.
  - The window is the FIFO's contiguous window, so the loops exercise `fifo_write_size`'s clipping.
- **Library results.** What the libraries answer is a set:
  - `SslReadErrors`, `SslWriteErrors`, `DestReadErrno`, `DestWriteErrno` and `AcceptResults` give the answers each call can return in the peer's state.
  - When the code reads `errno` or `CyaSSL_get_error()` after a call that did not set it, the answer is a constant set. `StaleErrno ⊆ {EAGAIN, OTHER}` and `StaleSslError ⊆ {WANT_READ, NONE}`, because the value is whatever the previous call left.
  - `Renegotiation` allows CyaSSL's cross-wants: `WANT_WRITE` from a read, `WANT_READ` from a write.
- **Events.**
  - `Fire` runs a callback when its socket event is added and its socket is ready.
  - It consumes a non-persistent write event (libevent semantics) and leaves a persistent read event added.
  - The timeout actions run a pending timer.
- **Peers and termination.**
  - The peers send up to `MaxBytes`, close, or (with `PeerFailures`) reset.
  - `Terminated` stutters once the client is freed or faulted.

### LinkedList

- **Heap.** `heap.node[a]` is the `List` node at address `a`, and `heap.live` is the set of addresses allocated. A freed node keeps its fields: reading it is a read of freed memory, which the caller must model.
- **Operations.** Each function returns the new heap and the head it returns:
  - `ListNew` calls `calloc` at an unallocated address.
  - `ListPrepend` inserts before `list`, after `list->prev` when there is one.
  - `ListRemoveLink` splices the link out and clears its pointers. `ListDeleteLink` also frees it.
  - `ListLast` and `ListAppend` are the functions the program never calls.
- **Meaning.** `Chain` walks `next` from a head, with one step more than there are addresses, so a cycle shows as a repeated address. `Payloads` is what the program reads with `list_user_data`. `WellLinked` says the walk is duplicate-free, stays on allocated nodes, and every `prev` is the node before.
- **Reference check.** `AgreesWithSeq(calls, …)` runs the calls on the heap and on a plain sequence. After every call the list must be well linked, its payloads must equal the sequence, and no allocated node may be off the list. `MCDispatch` checks this in an `ASSUME` for every sequence of up to three calls of `list_prepend`, `list_append` and `list_delete_link` at any position (400 sequences). TLC evaluates it before each Dispatch run, and a false assumption stops the run. Dropping `link->prev = tail` from `ListAppend` makes it fail.

### Dispatch

**Lists.** `pending_socket_list` and each worker's `client_list` are head addresses into one `LinkedList` heap. `pending` and `clients` are their payload sequences, as the rest of the module reads them. The listener's `list_prepend` and the workers' `list_prepend` and `list_delete_link` calls are the pointer operations of `list.c`. The address pool is twice the number of connections, so `list_new` never fails (see the hazard at list.c:107).

**Workers.** Workers are named by their position in `thread_list`. `LastThreadLink` is the head, and the code never changes it. `NextThread` is on_accept's choice of worker.

**Activations.** A software event that is active is represented by the set of result flags libevent will hand its callback:

- `event_active` ORs in `EV_WRITE`.
- The 72000 s timeout ORs in `EV_TIMEOUT`.
- Two activations before the callback runs are one call.

**on_accept_dispatch.** It is three steps, because its mutex is shared with the listener thread:

1. `DispatchBegin`: the flags are cleared, and the callback returns if `EV_TIMEOUT` is among them.
2. `DispatchLock`: lock, then read the head link.
3. `DispatchTake`: delete the link and unlock. The rest of the handler then runs: `tunnel_client_new`, then prepend to `client_list`, then `tunnel_client_connect`, whose failure frees the client but leaves its link.

**Clients.** A client is its socket plus `live` or `freed`. `SessionEnd` is a session's own `disconnect_and_free`, which unlinks it.

**Shutdown.** `WorkerOnShutdown` frees the head client. It then reads `list_next` of the freed link, and the constant `FreedLinkNext` picks what that read yields:

- `"null"`: the `next = NULL` that `list_remove_link` stored (it is also what the heap holds). The loop then ends.
- `"garbage"`: the allocator has reused the word. The process is treated as crashed.

### Config

- **Files.** A file is `[opened, lines]`. A line is `[section, name, value]`, or `Malformed` (no `=`). The text of a value is abstracted to the number `atoi()`/`atol()` reads from it. A string setting is represented only by being set.
- **`ini_parse`.** inih's parser is not in the repository, so `ParseLines`/`IniParse` follow its documented behaviour. Every line goes to the handler, and parsing goes on after an error. The result is the number of the first malformed or refused line, 0 if there is none, and -1 if the file cannot be opened.
- **`Handle`** is `ini_parse_handler`, with the conversions as the code does them:
  - `(uint16_t)atoi()` for the port, which wraps modulo 2^16;
  - `MAX(atoi(), 1)` for `thread_count`;
  - `MAX((size_t)atol(), 1)` for `buffer_size`, where a negative value wraps modulo `SizeModulus`.
- **`TunnelConfigNew`** rejects only a negative result. A setting the file lacks keeps calloc's 0 or NULL, because the clamps run only when the key is present.
- **`MeetsSpec`** states spec 6.1: unknown keys reject the file, and `thread_count` and `buffer_size` are at least 1.

### Lifecycle

Lifecycle follows the reference counts of the server and the worker threads from `main` to exit, with every call whose failure the code handles able to fail.

- **Variables.**
  - `mpc` is the main thread's place: in `main`, in `serve_forever`'s spawn loop (`index`), its unwinding loop, the event loop (`serving`), the final unref, or `exited`.
  - `server` is `[ref_count, frees, uaf]`: the unsigned count, how often `tunnel_server_free` ran, and whether freed memory was touched.
  - `thread[t]` and `tref[t]` are each thread's state (`created`, `running`, `freed`) and count; `threadList` is `thread_list`.
  - `pending`, `accepts`, `dispatchActive`: what `on_accept` queued and which dispatch events are active.
  - `clients[t]` is each worker's `client_list`, head first. An entry is `live`, or `stale`: a client that `tunnel_client_connect` failed on, which `tunnel_client_free` has already freed, but whose link is still on the list.
  - `nullServer` says whether `main`'s global `server` is still NULL.
  - `faults` and `failed` record undefined behaviour met and the failure points taken.
  - `iniFile` is what `./tunnel.ini` holds. It is chosen in `Init` from `IniFiles` and never changes. `tunnel_server_new` fails when `Config` rejects it, and the spawn loop runs to its `thread_count` (`CfgThreads`). A file without `thread_count` sends `serve_forever` straight to its `thread_list` check.
- **Counts.** `ref_count` is `unsigned int`, so `Ref`/`StoreUnref` work modulo `RefModulus` (8 in the runs, standing in for 2^32). `StoreUnref` frees on reaching 0, whatever the count was before. `ThreadFree` is `tunnel_thread_free`'s two server unrefs.
- **Undefined behaviour.** A touch of the freed server sets `uaf` and the run continues, which is one outcome the build can produce. Two other outcomes record `null_server`:
  - a signal while the global `server` is NULL;
  - `serve_forever` given a NULL server, unless its `socket()` fails first, in which case it returns before touching the server and `tunnel_server_unref(NULL)` does nothing.
- **Clients.** `ClientFree` is `tunnel_client_free`: unref the thread (`tunnel_thread_free` when the count reaches zero), then unref the server. `ClientRefs` is the reference `tunnel_client_new` takes on each.
  - A session that ends on its own removes one live client.
  - A failed connect prepends a `stale` client.
  - `WorkerShutdown` is `on_shutdown`'s loop. Every stale client at the head is freed a second time (`client_uaf`), and its link stays, so the loop goes on. The first live client is freed, and its deleted link ends the loop. Each free is one more `ClientFree` (`ClientFrees`), so a stale client can free the thread under its own loop and take the server down with it.
- **The unsynchronised decrement.** `main`'s final `tunnel_server_unref` is two steps, `MainUnrefLoad` and `MainUnrefStore`. With `RefRace = TRUE`, a worker's `Ref`/`Unref` may land between them, and its update is lost; with `FALSE` the decrement is atomic.
- **Failures.** `Failures` is a subset of `FailurePoints`: `server_new`, `socket`, `thread_alloc`, `thread_event`, `launch`, `listen`, `client_new`, `connect`. Each failure is a disjunct of the action that makes the call.
- **Bounds.** `MaxAccepts` connections and `MaxSignals` signals.

### Fairness

libevent's loop runs every active event, so each callback and timer has weak fairness. A destination that has not failed eventually accepts a write: `SF` on the `OnWriteDest` steps that move bytes. The code waits by timer for exactly this; it never spins. Without the `SF`, an adversarial destination could refuse every write forever, and no delivery property could hold.

In Dispatch, the server's `ServerOnShutdown` and the workers' `DispatchBegin`, `DispatchLock` and `DispatchTake` have weak fairness. A worker's `WorkerOnShutdown` has none, because the code does not guarantee it runs: `main` returns once the server's `on_shutdown` has deleted its events, and the process exits without joining the workers (main.c:45-53). The mutex is held only within one step of the model. Accepts, the shutdown signal, timer expiry and session ends belong to the environment, so they have no fairness. The event loops may wait forever, so these runs say `CHECK_DEADLOCK FALSE`.

In Lifecycle, the main thread's steps and the workers' event-loop callbacks (`WorkerStart`, `WorkerDispatch`, `WorkerShutdown`) have weak fairness. Accepts, signals and client sessions ending belong to the environment. The worker loops never return (their `on_accept_dispatch_event` stays added), so Lifecycle too says `CHECK_DEADLOCK FALSE`.

## 3. Runs

| Run | cfg | Expect | Checks |
|---|---|---|---|
| session_core | `MCSession_core.cfg` | pass | `TypeOK`, `FromSslNeverStalls`, `DeliveryToDest` |
| session_stale_status | `MCSession_stale_status.cfg` | violation | `ClosedOnlyByPeer` |
| fifo_refines | `MCFifoBuffer.cfg` | pass | `TypeOK`, `RefinesByteQueue` |
| null_event | `MCSession_null_event.cfg` | violation | `NoNullEventAdd` |
| handshake_uaf | `MCSession_handshake_uaf.cfg` | violation | `NoUseAfterFree` |
| dispatch_core | `MCDispatch_core.cfg` | pass | `TypeOK`, `ListsWellLinked` |
| dispatch_stranded | `MCDispatch_stranded.cfg` | violation | `PendingEventuallyTaken` |
| dispatch_shutdown_partial | `MCDispatch_shutdown_partial.cfg` | violation | `ShutdownFreesClients` |
| dispatch_stale_client | `MCDispatch_stale_client.cfg` | violation | `NoUseAfterFree` |
| lifecycle_core | `MCLifecycle.cfg` | pass | `TypeOK`, `ServesWithConfiguredPool`, `ShutdownEndsMain` |
| lifecycle_startup_failure | `MCLifecycle_startup_failure.cfg` | violation | `NoUseAfterFree` |
| lifecycle_graceful | `MCLifecycle_graceful.cfg` | violation | `GracefulShutdown` |

### What the passing runs show

**session_core.** This run uses peer resets, renegotiation and the stale values under which the error branches are harmless (`errno` EAGAIN, CyaSSL WANT_READ). Under them, the client:

- never holds bytes for the destination with neither the write event nor its timer armed;
- delivers every byte it read from the TLS client, unless the destination itself goes away.

**dispatch_core.** The 72000 s timeouts may expire at any moment, and connects may fail. `ListsWellLinked` holds through every interleaving of:

- the listener's prepends;
- the workers' dispatches;
- session ends, which delete from the middle of `client_list`;
- shutdowns.

No list loops or reaches a freed node, every `prev` is right, no two lists share a node, and every allocated node is on a list. A connect failure leaves a freed *client* on the list (dispatch_stale_client), but its *node* stays allocated and well linked.

**lifecycle_core.** The run uses two workers, two connections, every failure point enabled, and five kinds of `tunnel.ini`. `serve_forever` enters its event loop only with exactly `config->thread_count` workers running, and at least one:

- a failed spawn unwinds the whole pool;
- a file without `thread_count` (0) stops at the `thread_list` check.

The check is on the step that enters the loop. Later, a stale client's second free may free a listed thread. Every shutdown signal makes `main` return. The unsigned counts stay in range, even though `tunnel_thread_new`'s `event_new` failure path unrefs a reference it never took.

**fifo_refines.** `fifo.c` with its array is a correct bounded byte queue, including across the counter wrap, when `buffer_size` divides the counter modulus. The deployed configuration uses power-of-two sizes.

### What the violation runs show

Each violation run is a defect in the code, described in PROJECT.json's `findings`:

- **session_stale_status:** with the values `errno` and `CyaSSL_get_error()` really hold after a successful call, a healthy side is closed. In TLC's trace, `on_read_ssl` fills a one-byte FIFO and then reads `SSL_ERROR_NONE` (tunnel_client.c:399), which it treats as an error.
- **handshake_uaf:** a client that leaves mid-handshake causes a use after free.
- **null_event:** after one side is disconnected, a callback does `event_add(NULL)`.
- **dispatch_stranded:** coalesced `event_active` calls strand a pending connection.
- **dispatch_shutdown_partial:** a worker's shutdown frees only its first client.
- **dispatch_stale_client:** a client whose connect failed is freed twice.
- **lifecycle_startup_failure:** `NoUseAfterFree`. In TLC's trace, a failed `pthread_create()` for the second thread makes the unwinding loop free the first thread, whose `tunnel_thread_free` drops two server references for the one it took; the server is freed and `serve_forever` then writes into it.
- **lifecycle_graceful:** a SIGINT or SIGTERM does not shut the process down gracefully (spec 6.4).
  - TLC's trace is a signal before `tunnel_server_new` returns. The handlers are installed (main.c:34-35) before the global is assigned (main.c:39), so the handler calls `tunnel_server_shutdown(NULL)`.
  - Past start-up, the property fails as well. Checking `(signals > 0 /\ "null_server" \notin faults) ~> ...` instead gives a trace where `main` returns with both worker loops running. Nothing joins the workers, and their `on_accept_dispatch_event` stays added (tunnel_thread.c:246).

### Violations reproduced by changing a constant

These were found while modelling, and each reproduces by changing a constant in a passing run's cfg. They are recorded as hazards in PROJECT.json rather than as runs of their own:

- **Stale `errno` after a successful write.** Set `StaleSslError = {"WANT_READ"}` in `MCSession_stale_status.cfg`. TLC then reports `ClosedOnlyByPeer` violated on the destination side. `on_write_dest` writes the whole FIFO, then tests the `errno` an earlier call left, and closes a healthy destination (tunnel_client.c:652).
- **FIFO counter wrap.** Set `BufferSize = 3` in `MCFifoBuffer.cfg`. TLC then reports `RefinesByteQueue` violated at the wrap of the 3-bit counters. With 64-bit counters, this would take 2^64 bytes through one session, so it is not a hazard of the program.
- **Shutdown lost to a timeout.** In `MCDispatch_core.cfg`, a worker's shutdown timeout can expire together with the activation, and `on_shutdown` then returns on `EV_TIMEOUT` (tunnel_thread.c:230). No property is stated about this. The only effect is a worker whose `on_shutdown` never runs, and `main` exits without waiting for it.

- **Destination half-close.** Run `MCSession_handshake_uaf.cfg`'s constants with `StaleErrno = {"EAGAIN", "OTHER"}` and `INVARIANT DestDrained`. A destination half-close drops bytes still bound for it; the spec describes on_read_dest as mirroring on_read_ssl (tunnel_client.c:603).
- **Banner stall.** The same constants with `INVARIANT FromDestNeverStalls`: bytes the destination sends before the handshake is done stall (tunnel_client.c:490).
- **Missed end of file.** The same constants with `PROPERTY DestEofDetected`: end of file from the destination is missed when `errno` is stale (tunnel_client.c:593).
- **Racing the final unref.** Set `RefRace = TRUE` and `Failures = {}` in `MCLifecycle_startup_failure.cfg`. TLC reports `NoUseAfterFree` violated with no failing call. `main`'s unsynchronised final `tunnel_server_unref` loses a worker's concurrent client reference (tunnel_client.c:172), and a client's later free then frees the server under its users (tunnel_server.c:121).
- **Configurations the spec forbids.** Check `INVARIANT ConfigMeetsSpec` in `MCLifecycle.cfg`. `tunnel_config_new` accepts two kinds of file (tunnel_config.c:67):
  - a file with a misspelt key and a malformed line, because `ini_parse` returns a positive line number and only a negative result is checked;
  - a file without `thread_count`, which leaves 0 workers.
  A file without `buffer_size` likewise gives 0, and the first FIFO operation then divides by zero (fifo.c:58).
- **One worker.** Set `Failures = {}` in `MCLifecycle_startup_failure.cfg`. TLC reports `NoUseAfterFree` violated on the one-thread file. The server's count is 1, `main`'s final unref frees it, and a second signal then uses it (main.c:45).

The round-robin cursor that never advances (tunnel_server.c:340) is visible in every Dispatch trace: only the second worker of `thread_list` is ever woken.

### Bounds

- **Session.** The runs use `BufferSize = 1` (2 for null_event) and `MaxBytes = 2`.
  - A one-byte FIFO is full after every read, so the full-buffer and timer paths are exercised.
  - Two bytes make a second read and a second write happen.
  - The null_event run needs a FIFO that is non-empty yet not full, which is why it uses 2.
  - The counters never exceed `MaxBytes`, so `SizeModulus = 16` never wraps here. The wrap is FifoBuffer's subject.
- **FifoBuffer.** The runs use `SizeModulus = 8` (3-bit counters), so a run crosses the wrap within a few chunks.
  - `BufferSize = 4` divides 8.
  - `BufferSize = 3` does not, and that makes the refinement fail.
  - The data values are {0, 1}, enough to tell a byte from the one it overwrote.

- **Dispatch.**
  - The runs use 2 workers and 3 connections. With 3 connections, two accepts can coalesce while a third is still to come. With 2 workers, the shutdown broadcast has more than one target and the dispatch choice matters.
  - Each connection is accepted once, so every counter is bounded by the number of connections.
  - Workers are not interchangeable (the listener always wakes the second), so the runs use no symmetry.
- **Lifecycle.** The runs use 2 workers, 2 connections, 2 signals and `RefModulus = 8`.
  - Two workers make the unwinding loop free a thread that is already running, and give the listener a choice of worker.
  - Two connections let a client end and another be created around `main`'s final unref.
  - Two signals let a signal arrive after `main`'s unref.
  - `IniFiles` holds five files, so that every path through `tunnel_config_new` and the spawn loop is taken:
    - two threads;
    - one thread;
    - no `thread_count`, with a negative `buffer_size`;
    - two threads with a misspelt key and a malformed line;
    - a file that cannot be opened.
    `SizeModulus = 16` stands in for 2^64, and -1 wraps to 15.
  - The count never exceeds `ThreadCount + MaxAccepts + 1 < 8` without a wrap, so 8 behaves as 2^32 except for the wrap below zero, which is the case that matters.

Every property of a passing run has a mutant in PROJECT.json: a plausible bug in one mapped definition that TLC finds under the same cfg.

## 4. Plan, and what is not modelled

Work is ordered by importance; what is done is marked.

1. **Done.** Session (`tunnel_client.c`): the byte-moving core and its error paths.
2. **Done.** Fifo, FifoBuffer and ByteQueue, with a refinement.
3. **Done (partly): `Dispatch`.** It is described above. Still to do: the worker event loop ending after shutdown, and the accepted fd leaked on connect failure. The original plan for this module covers `tunnel_server.c` `on_accept`/`on_shutdown` and `tunnel_thread.c` `on_accept_dispatch`/`on_shutdown` for 2 workers and 2–3 sockets.
   - **Pending list and waking.** The pending list and the client lists are `list.c` lists on a modelled heap (`LinkedList`). `event_active` coalesces a wake on an event that is already active, and the 72000 s timeout is a nondeterministic EV_TIMEOUT.
   - **Round-robin and connect.** The model includes the round-robin cursor, and connect failure leaves a stale `client_list` link.
   - **Shutdown.** Shutdown iterates the client list and deletes one event.
   - **Properties.**
     - Every accepted socket is eventually served (liveness).
     - Round-robin spreading (the spec says the cursor advances).
     - The client list holds no freed client.
     - Worker loops end after shutdown.
4. **Done: `Lifecycle`.** The server and thread reference counts from `main` to exit, with the failure paths of start-up and the non-atomic decrement of `main`'s final unref as two steps. A failed connect's stale client is freed again by `on_shutdown`. Still to do: the non-atomic `++` of the workers (modelled atomic, with only `main`'s decrement split), and SIGPIPE.
5. **Done (partly): `Config`.** `tunnel_config_new` and its handler, composed into Lifecycle's start-up.
6. **Done: `LinkedList`.** `list.c` at pointer level, composed into Dispatch, with a reference check of all its functions.
7. **Later: a composition.** Dispatch with a handful of Session instances is possible only if the state space allows it.

**Not modelled.**

- `tunnel_config_free` and the memory of the `strdup()`ed strings. They are freed once, at exit; the leaks are `verify_locations`, which is never freed, and a repeated key. A failing `strdup()` that leaves a field NULL is not modelled either.
- `tunnel.h`: includes and logging macros.
- CyaSSL and libevent internals: they enter only through the results their calls can return and the event semantics described above.
- Socket setup (`bind`, `listen`, `getaddrinfo`) and CyaSSL context loading: only whether they fail.
- Logging.
- fd numbers, so the `fd > 0` defect is listed as a hazard without a property. For the same reason, the accepted fd that a failed `tunnel_client_new`/`tunnel_client_connect` never closes (tunnel_thread.c:210) is a hazard without a property.
- `list_new` returning NULL: `list_prepend` does not check it (list.c:107). The address pool never runs out.
- SIGPIPE.
