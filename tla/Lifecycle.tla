------------------------------ MODULE Lifecycle ------------------------------
(***************************************************************************)
(* Start-up and tear-down of the process: main(), tunnel_server_new(),    *)
(* tunnel_server_serve_forever() with its thread-spawning loop and the    *)
(* loop that unwinds it on failure, the reference counts of the server    *)
(* and the threads, and the worker's task.                                *)
(*                                                                         *)
(* How a connection is handed over and served is modelled in Dispatch and *)
(* Session.  Here a worker starts its loop, takes dispatches (locking     *)
(* server->pending_socket_mutex and creating a client, which references   *)
(* the thread and the server), sees clients end, and runs on_shutdown.    *)
(*                                                                         *)
(* Use of freed memory is undefined behaviour; the model records it and   *)
(* lets the program go on as if the memory were intact, one of the        *)
(* outcomes a build produces.  So is the unsynchronised ref_count--; its  *)
(* load and store are two steps of main's tunnel_server_unref().          *)
(***************************************************************************)
EXTENDS Naturals, Sequences, SequencesExt

CONSTANTS
  ThreadCount,   \* the most threads a configuration asks for
  IniFiles,      \* the contents ./tunnel.ini may have (see Config)
  SizeModulus,   \* 2^64: size_t
  RefModulus,    \* 2^32: ref_count is an unsigned int
  Failures,      \* which library calls may fail (see FailurePoints)
  MaxSignals,    \* how many SIGINT/SIGTERM the process receives at most
  MaxAccepts,    \* how many connections are accepted at most
  RefRace        \* whether a worker's ref_count update may fall between
                 \* the load and the store of main's unref

\* The calls whose failure the code handles, or meets:
\*   server_new   tunnel_server_new() returns NULL
\*   socket       socket(), inet_pton() or bind() fails
\*   thread_alloc calloc() or event_base_new() in tunnel_thread_new() fails
\*   thread_event event_new() in tunnel_thread_new() fails
\*   launch       pthread_create() fails
\*   listen       event_new(on_accept_event) or listen() fails
\*   client_new   tunnel_client_new() fails
\*   connect      tunnel_client_connect() fails
FailurePoints == {"server_new", "socket", "thread_alloc", "thread_event",
                  "launch", "listen", "client_new", "connect"}

\* tunnel_config.c, which tunnel_server_new() calls.
C == INSTANCE Config

ASSUME ThreadCount \in Nat \ {0}
ASSUME \A f \in IniFiles : \A c \in C!TunnelConfigNew(f) :
         c.thread_count <= ThreadCount
ASSUME RefModulus > ThreadCount + MaxAccepts + 1
ASSUME Failures \subseteq FailurePoints
ASSUME MaxSignals \in Nat \ {0} /\ MaxAccepts \in Nat
ASSUME RefRace \in BOOLEAN

VARIABLES
  mpc,             \* where the main thread is
  index,           \* the spawn loop's index
  threadList,      \* server->thread_list, head first
  loaded,          \* the ref_count main's unref loaded, or NoLoad
  thread,          \* each TunnelThread: "none", "created", "running", "freed"
  tref,            \* each thread->ref_count
  server,          \* the TunnelServer: its ref_count, how often it was
                   \* freed, whether it was used after being freed
  serverEvents,    \* the server's events that are added
  shutdownActive,  \* server->on_shutdown_event is active
  pending,         \* sockets on server->pending_socket_list
  accepts,         \* connections accepted so far
  wpc,             \* where each worker thread is
  wEvents,         \* each worker's added events
  dispatchActive,  \* each worker's on_accept_dispatch_event is active
  wShutdownActive, \* each worker's on_shutdown_event is active
  clients,         \* each worker's client_list, head first: the client
                   \* is "live", or "stale" (freed by a failed connect)
  faults,          \* "thread_uaf", "client_uaf", "null_server" once they
                   \* happened
  failed,          \* the calls that failed so far (history)
  signals,         \* signals received so far
  iniFile,         \* what ./tunnel.ini holds
  nullServer       \* main's global server pointer is NULL

mainVars == <<mpc, index, threadList, loaded>>
threadVars == <<thread, tref>>
serverVars == <<serverEvents, shutdownActive, pending, accepts>>
workerVars == <<wpc, wEvents, dispatchActive, wShutdownActive, clients>>
vars == <<mainVars, threadVars, server, serverVars, workerVars,
          faults, failed, signals, iniFile, nullServer>>

Threads == 1 .. ThreadCount

NoLoad == -1

\* server->config->thread_count, once tunnel_server_new() has loaded it.
CfgThreads ==
  LET c == C!TunnelConfigNew(iniFile)
  IN  IF c = {} THEN 0 ELSE (CHOOSE x \in c : TRUE).thread_count

Counts == 0 .. RefModulus - 1

TypeOK ==
  /\ mpc \in {"new", "socket", "spawn", "cleanup", "listen", "serving",
              "unref", "unref_store", "exit", "exited"}
  /\ index \in 0 .. ThreadCount
  /\ threadList \in Seq(Threads)
  /\ loaded \in Counts \cup {NoLoad}
  /\ thread \in [Threads -> {"none", "created", "running", "freed"}]
  /\ tref \in [Threads -> Counts]
  /\ server \in [ref_count : Counts, frees : Nat, uaf : BOOLEAN]
  /\ serverEvents \subseteq {"accept", "shutdown"}
  /\ shutdownActive \in BOOLEAN
  /\ pending \in 0 .. MaxAccepts
  /\ accepts \in 0 .. MaxAccepts
  /\ wpc \in [Threads -> {"none", "starting", "looping"}]
  /\ wEvents \in [Threads -> SUBSET {"dispatch", "shutdown"}]
  /\ dispatchActive \in [Threads -> BOOLEAN]
  /\ wShutdownActive \in [Threads -> BOOLEAN]
  /\ clients \in [Threads -> Seq({"live", "stale"})]
  /\ \A t \in Threads : Len(clients[t]) <= MaxAccepts
  /\ faults \subseteq {"thread_uaf", "client_uaf", "null_server"}
  /\ failed \subseteq Failures
  /\ signals \in 0 .. MaxSignals
  /\ iniFile \in IniFiles
  /\ nullServer \in BOOLEAN

-----------------------------------------------------------------------------
(***************************************************************************)
(* Reference counts.                                                       *)
(***************************************************************************)

\* Any read or write of the server's memory.
Touch(s) == [s EXCEPT !.uaf = @ \/ s.frees > 0]

\* tunnel_server_ref(): ref_count++.
Ref(s) == [Touch(s) EXCEPT !.ref_count = (@ + 1) % RefModulus]

\* Variant: ref_count as a signed int.
StoreUnrefSigned(s, l) ==
  LET r == l - 1
  IN  [Touch(s) EXCEPT !.ref_count = r, !.frees = @ + (IF r = 0 THEN 1 ELSE 0)]

\* The second half of tunnel_server_unref(): store the decrement of the
\* count l loaded before, and tunnel_server_free() when it is zero.  The
\* unsigned count wraps below zero.
StoreUnref(s, l) ==
  LET r == (l + RefModulus - 1) % RefModulus
  IN  [Touch(s) EXCEPT !.ref_count = r, !.frees = @ + (IF r = 0 THEN 1 ELSE 0)]

\* tunnel_server_unref() with nothing between its load and its store.
Unref(s) == StoreUnref(s, s.ref_count)

\* tunnel_thread_free(): unref the server, event_base_free(), unref the
\* server again, free the thread.
ThreadFree(s) == Unref(Unref(s))

\* What a client's tunnel_client_free() changes, as a record: the count of
\* its thread, whether the thread is freed, and the server.
Refs(t) == [tref |-> tref[t], freed |-> thread[t] = "freed", server |-> server]

SetRefs(t, st) ==
  /\ tref' = [tref EXCEPT ![t] = st.tref]
  /\ thread' = IF st.freed THEN [thread EXCEPT ![t] = "freed"] ELSE thread
  /\ server' = st.server

\* tunnel_client_free(): tunnel_thread_unref(client->thread), which calls
\* tunnel_thread_free() when the count reaches zero, then
\* tunnel_server_unref(client->server).
ClientFree(st) ==
  LET r == (st.tref + RefModulus - 1) % RefModulus
  IN  [tref   |-> r,
       freed  |-> st.freed \/ r = 0,
       server |-> Unref(IF r = 0 THEN ThreadFree(st.server) ELSE st.server)]

\* tunnel_client_new() once it got past its allocations:
\* tunnel_thread_ref() and tunnel_server_ref().
ClientRefs(st) ==
  [st EXCEPT !.tref = (@ + 1) % RefModulus, !.server = Ref(@)]

RECURSIVE ClientFrees(_, _)
ClientFrees(st, n) == IF n = 0 THEN st ELSE ClientFrees(ClientFree(st), n - 1)

\* A worker's update of server->ref_count, unless the race is excluded and
\* main is between the load and the store of its own unref.
WorkerRefOK == RefRace \/ mpc # "unref_store"

\* The calls at a failure point: success, and failure where it may happen.
Outcomes(p) == {"ok"} \cup (IF p \in Failures THEN {p} ELSE {})

Fail(p) == failed' = failed \cup {p}

-----------------------------------------------------------------------------
(***************************************************************************)
(* The main thread.                                                        *)
(***************************************************************************)

\* main(): the signal handlers are installed, then
\* server = tunnel_server_new("./tunnel.ini"); calloc() leaves ref_count
\* at 0.  It returns NULL when tunnel_config_new() does, or another of its
\* calls fails.  A NULL server goes straight into
\* tunnel_server_serve_forever(): when socket() fails it returns before
\* touching the server and tunnel_server_unref(NULL) does nothing;
\* otherwise it reads server->config and the process crashes.
ServerNew ==
  /\ mpc = "new"
  /\ \E o \in Outcomes("server_new") :
       LET isNull == o # "ok" \/ C!TunnelConfigNew(iniFile) = {} IN
       /\ nullServer' = isNull
       /\ \/ /\ ~isNull
             /\ mpc' = "socket"
             /\ UNCHANGED <<faults, failed>>
          \/ /\ isNull
             /\ "socket" \in Failures
             /\ mpc' = "exit"
             /\ failed' = failed \cup ({o, "socket"} \ {"ok"})
             /\ UNCHANGED faults
          \/ /\ isNull
             /\ mpc' = "exited"
             /\ faults' = faults \cup {"null_server"}
             /\ failed' = failed \cup ({o} \ {"ok"})
  /\ UNCHANGED <<index, threadList, loaded, threadVars, server, serverVars,
                 workerVars, signals, iniFile>>

\* serve_forever(): socket(), inet_pton() and bind(); on failure it
\* returns at once.  The spawn loop runs while index <
\* config->thread_count; with no thread to spawn, serve_forever goes
\* straight to its check of server->thread_list.
ServeSocket ==
  /\ mpc = "socket"
  /\ \E o \in Outcomes("socket") :
       IF o = "ok"
       THEN /\ mpc' = IF CfgThreads = 0 THEN "cleanup" ELSE "spawn"
            /\ UNCHANGED failed
       ELSE mpc' = "unref" /\ Fail(o)
  /\ UNCHANGED <<index, threadList, loaded, threadVars, server, serverVars,
                 workerVars, faults, signals, iniFile, nullServer>>

\* Variant: the spawn loop stops one thread short.
SpawnThreadStopsEarly ==
  /\ mpc = "spawn"
  /\ LET t == index + 1 IN
     /\ thread' = [thread EXCEPT ![t] = "running"]
     /\ tref' = [tref EXCEPT ![t] = 1]
     /\ wpc' = [wpc EXCEPT ![t] = "starting"]
     /\ threadList' = <<t>> \o threadList
  /\ server' = Ref(server)
  /\ index' = index + 1
  /\ mpc' = IF index + 2 >= CfgThreads THEN "listen" ELSE "spawn"
  /\ UNCHANGED <<loaded, serverVars, wEvents, dispatchActive, wShutdownActive,
                 clients, faults, failed, signals, iniFile, nullServer>>

\* One pass of the spawn loop where tunnel_thread_new() and
\* tunnel_thread_launch() succeed: the thread takes a reference to the
\* server, starts with ref_count 1 and is list_prepend()ed.
SpawnThread ==
  /\ mpc = "spawn"
  /\ LET t == index + 1 IN
     /\ thread' = [thread EXCEPT ![t] = "running"]
     /\ tref' = [tref EXCEPT ![t] = 1]
     /\ wpc' = [wpc EXCEPT ![t] = "starting"]
     /\ threadList' = <<t>> \o threadList
  /\ server' = Ref(server)
  /\ index' = index + 1
  /\ mpc' = IF index + 1 = CfgThreads THEN "listen" ELSE "spawn"
  /\ UNCHANGED <<loaded, serverVars, wEvents, dispatchActive, wShutdownActive,
                 clients, faults, failed, signals, iniFile, nullServer>>

\* pthread_create() fails: the thread, with its reference to the server,
\* is neither unref'd nor listed; the loop goes to unwinding.
SpawnLaunchFails ==
  /\ mpc = "spawn"
  /\ "launch" \in Failures
  /\ thread' = [thread EXCEPT ![index + 1] = "created"]
  /\ tref' = [tref EXCEPT ![index + 1] = 1]
  /\ server' = Ref(server)
  /\ mpc' = "cleanup"
  /\ Fail("launch")
  /\ UNCHANGED <<index, threadList, loaded, serverVars, workerVars, faults,
                 signals, iniFile, nullServer>>

\* tunnel_thread_new() returns NULL before it created an event.
SpawnAllocFails ==
  /\ mpc = "spawn"
  /\ "thread_alloc" \in Failures
  /\ mpc' = "cleanup"
  /\ Fail("thread_alloc")
  /\ UNCHANGED <<index, threadList, loaded, threadVars, server, serverVars,
                 workerVars, faults, signals, iniFile, nullServer>>

\* event_new() fails in tunnel_thread_new(): it calls tunnel_server_unref()
\* on a server it never took a reference to, and returns NULL.
SpawnEventFails ==
  /\ mpc = "spawn"
  /\ "thread_event" \in Failures
  /\ server' = Unref(server)
  /\ mpc' = "cleanup"
  /\ Fail("thread_event")
  /\ UNCHANGED <<index, threadList, loaded, threadVars, serverVars, workerVars,
                 faults, signals, iniFile, nullServer>>

\* One pass of the unwinding loop: tunnel_thread_unref() on the head of
\* server->thread_list (tunnel_thread_free() when the count reaches zero),
\* then list_delete_link() written back to server->thread_list.
Cleanup ==
  /\ mpc = "cleanup"
  /\ threadList # <<>>
  /\ LET t == Head(threadList)
         r == (tref[t] + RefModulus - 1) % RefModulus
     IN  /\ tref' = [tref EXCEPT ![t] = r]
         /\ thread' = IF r = 0 THEN [thread EXCEPT ![t] = "freed"] ELSE thread
         /\ server' = Touch(IF r = 0 THEN ThreadFree(server) ELSE server)
  /\ threadList' = Tail(threadList)
  /\ UNCHANGED <<mpc, index, loaded, serverVars, workerVars, faults, failed,
                 signals, iniFile, nullServer>>

\* The unwinding loop ends with server->thread_list NULL, so serve_forever
\* logs "Launching threads failed", closes the socket and returns.
CleanupDone ==
  /\ mpc = "cleanup"
  /\ threadList = <<>>
  /\ server' = Touch(server)
  /\ mpc' = "unref"
  /\ UNCHANGED <<index, threadList, loaded, threadVars, serverVars, workerVars,
                 faults, failed, signals, iniFile, nullServer>>

\* After the loop: last_thread_link is set, on_accept_event is created,
\* both server events are added and listen() is called; if the event or
\* listen() fails, serve_forever returns with the workers running.
ServeListen ==
  /\ mpc = "listen"
  /\ \E o \in Outcomes("listen") :
       IF o = "ok"
       THEN /\ mpc' = "serving"
            /\ serverEvents' = {"accept", "shutdown"}
            /\ UNCHANGED failed
       ELSE /\ mpc' = "unref"
            /\ Fail(o)
            /\ UNCHANGED serverEvents
  /\ server' = Touch(server)
  /\ UNCHANGED <<index, threadList, loaded, threadVars, shutdownActive, pending,
                 accepts, workerVars, faults, signals, iniFile, nullServer>>

\* on_accept(): accept(), list_prepend() the fd under the server's mutex,
\* and event_active() the dispatch event of the thread after
\* last_thread_link (the head).  Activating an active event adds nothing.
OnAccept ==
  /\ mpc = "serving"
  /\ "accept" \in serverEvents
  /\ accepts < MaxAccepts
  /\ LET t == IF Len(threadList) > 1 THEN threadList[2] ELSE threadList[1] IN
     dispatchActive' = [dispatchActive EXCEPT ![t] = TRUE]
  /\ pending' = pending + 1
  /\ accepts' = accepts + 1
  /\ server' = Touch(server)
  /\ UNCHANGED <<mainVars, threadVars, serverEvents, shutdownActive, wpc,
                 wEvents, wShutdownActive, clients, faults, failed, signals, iniFile,
                 nullServer>>

\* SIGINT or SIGTERM: sighandler() calls tunnel_server_shutdown(server),
\* which event_active()s server->on_shutdown_event (again, if it is still
\* active).  While the global server is NULL, the process crashes.
Signal ==
  /\ mpc # "exited"
  /\ signals < MaxSignals
  /\ signals' = signals + 1
  /\ IF nullServer
     THEN /\ faults' = faults \cup {"null_server"}
          /\ mpc' = "exited"
          /\ UNCHANGED <<server, shutdownActive>>
     ELSE /\ server' = Touch(server)
          /\ shutdownActive' = TRUE
          /\ UNCHANGED <<mpc, faults>>
  /\ UNCHANGED <<index, threadList, loaded, threadVars, serverEvents, pending,
                 accepts, workerVars, failed, iniFile, nullServer>>

\* Variant: on_shutdown leaves on_accept_event added.
ServerOnShutdownKeepsAccept ==
  /\ mpc = "serving"
  /\ shutdownActive
  /\ wShutdownActive' = [t \in Threads |->
                           wShutdownActive[t] \/ t \in Range(threadList)]
  /\ serverEvents' = serverEvents \ {"shutdown"}
  /\ shutdownActive' = FALSE
  /\ server' = Touch(server)
  /\ UNCHANGED <<mainVars, threadVars, pending, accepts, wpc, wEvents,
                 dispatchActive, clients, faults, failed, signals, iniFile,
                 nullServer>>

\* The server's on_shutdown(): event_active() the shutdown event of every
\* thread on thread_list, then event_del() on_accept_event and
\* on_shutdown_event.
ServerOnShutdown ==
  /\ mpc = "serving"
  /\ shutdownActive
  /\ wShutdownActive' = [t \in Threads |->
                           wShutdownActive[t] \/ t \in Range(threadList)]
  /\ serverEvents' = {}
  /\ shutdownActive' = FALSE
  /\ server' = Touch(server)
  /\ UNCHANGED <<mainVars, threadVars, pending, accepts, wpc, wEvents,
                 dispatchActive, clients, faults, failed, signals, iniFile,
                 nullServer>>

\* event_base_dispatch() returns once no event is added or active;
\* serve_forever event_free()s on_accept_event, closes the socket and
\* returns.
ServeReturn ==
  /\ mpc = "serving"
  /\ serverEvents = {}
  /\ ~shutdownActive
  /\ server' = Touch(server)
  /\ mpc' = "unref"
  /\ UNCHANGED <<index, threadList, loaded, threadVars, serverVars, workerVars,
                 faults, failed, signals, iniFile, nullServer>>

\* main(): tunnel_server_unref(server) after serve_forever returns; first
\* the load of server->ref_count ...
MainUnrefLoad ==
  /\ mpc = "unref"
  /\ loaded' = server.ref_count
  /\ server' = Touch(server)
  /\ mpc' = "unref_store"
  /\ UNCHANGED <<index, threadList, threadVars, serverVars, workerVars,
                 faults, failed, signals, iniFile, nullServer>>

\* ... then the store of its decrement, and the free when it is zero.
MainUnrefStore ==
  /\ mpc = "unref_store"
  /\ server' = StoreUnref(server, loaded)
  /\ loaded' = NoLoad
  /\ mpc' = "exit"
  /\ UNCHANGED <<index, threadList, threadVars, serverVars, workerVars,
                 faults, failed, signals, iniFile, nullServer>>

\* main() closes syslog, calls CyaSSL_Cleanup() and returns: the process
\* exits with every worker thread, joined or not.
MainExit ==
  /\ mpc = "exit"
  /\ mpc' = "exited"
  /\ UNCHANGED <<index, threadList, loaded, threadVars, server, serverVars,
                 workerVars, faults, failed, signals, iniFile, nullServer>>

-----------------------------------------------------------------------------
(***************************************************************************)
(* A worker thread, from tunnel_thread_task().  Its steps stop when the    *)
(* process exits.                                                          *)
(***************************************************************************)

\* Any use of the thread's memory or event_base.
ThreadTouch(t) ==
  faults' = faults \cup (IF thread[t] = "freed" THEN {"thread_uaf"} ELSE {})

Looping(t) == mpc # "exited" /\ wpc[t] = "looping"

\* tunnel_thread_task(): event_add() both software events with the
\* 72000 s timeout and enter event_base_dispatch().
WorkerStart(t) ==
  /\ mpc # "exited"
  /\ wpc[t] = "starting"
  /\ wpc' = [wpc EXCEPT ![t] = "looping"]
  /\ wEvents' = [wEvents EXCEPT ![t] = {"dispatch", "shutdown"}]
  /\ ThreadTouch(t)
  /\ UNCHANGED <<mainVars, threadVars, server, serverVars, dispatchActive,
                 wShutdownActive, clients, failed, signals, iniFile, nullServer>>

\* on_accept_dispatch(): lock server->pending_socket_mutex and take the
\* head of pending_socket_list, or return if it is empty.  A client
\* tunnel_client_new() returns holds a thread and a server reference and
\* is list_prepend()ed to client_list; when tunnel_client_connect() then
\* fails, tunnel_client_free() drops both references and frees the client,
\* but its link stays on client_list.  When tunnel_client_new() fails,
\* the references it took are dropped again and nothing is listed.
WorkerDispatch(t) ==
  /\ Looping(t)
  /\ dispatchActive[t]
  /\ "dispatch" \in wEvents[t]
  /\ WorkerRefOK
  /\ dispatchActive' = [dispatchActive EXCEPT ![t] = FALSE]
  /\ IF pending = 0
     THEN /\ server' = Touch(server)
          /\ UNCHANGED <<pending, thread, tref, clients, failed>>
     ELSE /\ pending' = pending - 1
          /\ \E o \in Outcomes("client_new") \cup Outcomes("connect") :
               LET st == ClientRefs(Refs(t)) IN
               CASE o = "ok" ->
                      /\ SetRefs(t, st)
                      /\ clients' = [clients EXCEPT ![t] = <<"live">> \o @]
                      /\ UNCHANGED failed
                 [] o = "client_new" ->
                      /\ server' = Touch(server)
                      /\ Fail(o)
                      /\ UNCHANGED <<thread, tref, clients>>
                 [] o = "connect" ->
                      /\ SetRefs(t, ClientFree(st))
                      /\ clients' = [clients EXCEPT ![t] = <<"stale">> \o @]
                      /\ Fail(o)
  /\ ThreadTouch(t)
  /\ UNCHANGED <<mainVars, serverEvents, shutdownActive, accepts, wpc,
                 wEvents, wShutdownActive, signals, iniFile, nullServer>>

\* A client's session ends on its own: tunnel_client_disconnect_and_free()
\* deletes its link from client_list and calls tunnel_client_free().
ClientEnds(t) ==
  /\ Looping(t)
  /\ WorkerRefOK
  /\ \E i \in 1 .. Len(clients[t]) :
       /\ clients[t][i] = "live"
       /\ clients' = [clients EXCEPT ![t] = RemoveAt(@, i)]
  /\ SetRefs(t, ClientFree(Refs(t)))
  /\ ThreadTouch(t)
  /\ UNCHANGED <<mainVars, serverVars, wpc, wEvents, dispatchActive,
                 wShutdownActive, failed, signals, iniFile, nullServer>>

\* The clients at the head of a client_list that a failed connect freed.
StalePrefix(c) ==
  LET first == SelectInSeq(c, LAMBDA x : x = "live")
  IN  IF first = 0 THEN Len(c) ELSE first - 1

\* The worker's on_shutdown(): tunnel_client_disconnect_and_free() on each
\* client from the head of client_list.  A stale client is freed again
\* (its link was never saved, so it stays listed and list_next() goes
\* on), releasing the thread and the server a second time.  A live client
\* deletes and frees its link, whose list_next() the loop then reads: the
\* NULL list_remove_link() stored ends the loop (see Dispatch).  Last,
\* event_del() on_shutdown_event, through the thread; on_accept_dispatch_event
\* stays added, so event_base_dispatch() does not return.
WorkerShutdown(t) ==
  LET c    == clients[t]
      k    == StalePrefix(c)
      live == k < Len(c)
      st   == ClientFrees(Refs(t), IF live THEN k + 1 ELSE k)
  IN
  /\ Looping(t)
  /\ wShutdownActive[t]
  /\ "shutdown" \in wEvents[t]
  /\ WorkerRefOK
  /\ wShutdownActive' = [wShutdownActive EXCEPT ![t] = FALSE]
  /\ wEvents' = [wEvents EXCEPT ![t] = @ \ {"shutdown"}]
  /\ clients' = [clients EXCEPT ![t] = IF live THEN RemoveAt(c, k + 1) ELSE c]
  /\ SetRefs(t, st)
  /\ faults' = faults \cup (IF thread[t] = "freed" \/ st.freed THEN {"thread_uaf"} ELSE {})
                      \cup (IF k > 0 THEN {"client_uaf"} ELSE {})
  /\ UNCHANGED <<mainVars, serverVars, wpc, dispatchActive, failed,
                 signals, iniFile, nullServer>>

-----------------------------------------------------------------------------

Init ==
  /\ mpc = "new"
  /\ index = 0
  /\ threadList = <<>>
  /\ loaded = NoLoad
  /\ thread = [t \in Threads |-> "none"]
  /\ tref = [t \in Threads |-> 0]
  /\ server = [ref_count |-> 0, frees |-> 0, uaf |-> FALSE]
  /\ serverEvents = {}
  /\ shutdownActive = FALSE
  /\ pending = 0
  /\ accepts = 0
  /\ wpc = [t \in Threads |-> "none"]
  /\ wEvents = [t \in Threads |-> {}]
  /\ dispatchActive = [t \in Threads |-> FALSE]
  /\ wShutdownActive = [t \in Threads |-> FALSE]
  /\ clients = [t \in Threads |-> <<>>]
  /\ faults = {}
  /\ failed = {}
  /\ signals = 0
  /\ iniFile \in IniFiles
  /\ nullServer = TRUE

\* What the main thread does of its own accord (on_accept waits for a
\* connection, so it is not among them).
MainStep ==
  \/ ServerNew \/ ServeSocket \/ SpawnThread \/ SpawnLaunchFails
  \/ SpawnAllocFails \/ SpawnEventFails \/ Cleanup \/ CleanupDone
  \/ ServeListen \/ ServerOnShutdown \/ ServeReturn
  \/ MainUnrefLoad \/ MainUnrefStore \/ MainExit

WorkerStep(t) ==
  WorkerStart(t) \/ WorkerDispatch(t) \/ ClientEnds(t) \/ WorkerShutdown(t)

Next == MainStep \/ OnAccept \/ Signal \/ \E t \in Threads : WorkerStep(t)

\* The main thread and every worker are scheduled.  Signals, connections
\* and the end of a client's session come from outside and are not assumed.
Fairness ==
  /\ WF_vars(MainStep)
  /\ \A t \in Threads : WF_vars(WorkerStart(t) \/ WorkerDispatch(t)
                                \/ WorkerShutdown(t))

Spec == Init /\ [][Next]_vars /\ Fairness

-----------------------------------------------------------------------------
(***************************************************************************)
(* Properties.                                                             *)
(***************************************************************************)

\* No memory is used after it was freed and the server is freed at most
\* once: not by serve_forever's unwinding loop (tunnel_thread_free drops
\* two references for the one tunnel_thread_new took), not by main's
\* final tunnel_server_unref, not by a worker locking the server's mutex,
\* creating or freeing a client (on_shutdown frees again a client a failed
\* connect left on client_list), nor by the signal handler.
NoUseAfterFree ==
  /\ ~server.uaf
  /\ server.frees <= 1
  /\ faults \cap {"thread_uaf", "client_uaf"} = {}

\* A shutdown signal makes main() return: the server's on_shutdown deletes
\* both of its events, so its event loop ends, and main exits.
ShutdownEndsMain == shutdownActive ~> mpc = "exited"

\* serve_forever() enters its event loop only with the whole pool that
\* config->thread_count asks for, at least one thread, running: a failed
\* spawn unwinds every thread already listed, and a configuration without
\* thread_count (which calloc() left at 0) stops at the thread_list check.
ServesWithConfiguredPool ==
  [][mpc' = "serving" /\ mpc # "serving" =>
       /\ CfgThreads >= 1
       /\ Len(threadList') = CfgThreads
       /\ \A t \in Range(threadList') : thread'[t] = "running"]_vars

\* A worker whose event loop has not returned.
LoopRunning(t) == wpc[t] \in {"starting", "looping"}

\* SIGINT and SIGTERM shut the process down gracefully (spec 6.4, and 4.5:
\* a worker drains its sessions, then its event loop ends and the thread
\* exits): after a signal, main returns without having crashed on a NULL
\* server, and no worker's event loop is left running.
GracefulShutdown ==
  signals > 0 ~>
    /\ mpc = "exited"
    /\ "null_server" \notin faults
    /\ \A t \in Threads : ~LoopRunning(t)

\* The configuration tunnel_server_new() keeps is one spec 6.1 allows: a
\* file with a key the handler refuses is rejected, and thread_count and
\* buffer_size are at least 1.
ConfigMeetsSpec ==
  mpc # "new" => \A c \in C!TunnelConfigNew(iniFile) : C!MeetsSpec(iniFile, c)

====
