------------------------------ MODULE Dispatch ------------------------------
(***************************************************************************)
(* The hand-off of accepted sockets from the listener (tunnel_server.c)   *)
(* to the worker threads (tunnel_thread.c), and the shutdown broadcast.   *)
(*                                                                         *)
(* The listener's on_accept pushes the fd onto the mutex-protected        *)
(* pending_socket_list with list_prepend() and event_active()s the        *)
(* dispatch event of the worker after server->last_thread_link.  A worker *)
(* runs on_accept_dispatch: it pops the head of the list under the mutex, *)
(* creates a client, prepends it to its client_list and connects it.      *)
(* tunnel_server_shutdown activates the server's shutdown event, whose     *)
(* callback activates every worker's shutdown event; a worker's on_shutdown*)
(* walks its client_list freeing the clients.                              *)
(*                                                                         *)
(* Workers are named by their position in server->thread_list.  A client  *)
(* is the socket it serves and whether it is live or already freed.       *)
(* The two kinds of list are List nodes on one heap (LinkedList): the     *)
(* listener's pending_socket_list holds fds, a worker's client_list       *)
(* holds clients.                                                          *)
(* An active software event is the set of result flags libevent will pass *)
(* its callback ({} = not active): event_active() on an active event ORs  *)
(* its flag in, so two activations run the callback once.                 *)
(***************************************************************************)
EXTENDS Naturals, FiniteSets, Sequences, SequencesExt

CONSTANTS
  NumWorkers,      \* config->thread_count
  Sockets,         \* the connections the listener accepts
  Timers,          \* whether the 72000 s timeouts of the worker events fire
  ConnectMayFail,  \* whether tunnel_client_new/connect may fail
  FreedLinkNext,   \* what list_next() of a freed link yields: "null", "garbage"
  NULL             \* the null pointer

ASSUME NumWorkers \in Nat \ {0}
ASSUME FreedLinkNext \subseteq {"null", "garbage"} /\ FreedLinkNext # {}

VARIABLES
  heap,           \* the List nodes malloc()ed by list.c
  pending_socket_list, \* server->pending_socket_list: its head node
  mutex,          \* holder of server->pending_socket_mutex, or Unlocked
  accepted,       \* sockets accept()ed so far
  posted,         \* dispatch activations sent to each worker
  dispatchRes,    \* result flags of each worker's active dispatch event
  shutdownRes,    \* result flags of each worker's active shutdown event
  shutdownEvent,  \* each worker's on_shutdown_event: "added" or "deleted"
  serverState,    \* "running", "shutdown_active" or "stopped"
  wpc,            \* where each worker is in on_accept_dispatch
  wsock,          \* the socket a worker read off the list head
  client_list,    \* each worker's thread->client_list: its head node
  takes,          \* how many times each socket was taken off the list
  fault           \* "none", or "use_after_free" once freed memory is used

vars == <<heap, pending_socket_list, mutex, accepted, posted, dispatchRes, shutdownRes,
          shutdownEvent, serverState, wpc, wsock, client_list, takes, fault>>

Workers == 1 .. NumWorkers

NoSocket == "none"

\* No worker holds the mutex (the listener only holds it inside one step).
Unlocked == 0

Client == [sock : Sockets, state : {"live", "freed"}]

Flags == SUBSET {"write", "timeout"}

\* Addresses for List nodes.  A connection is on at most one list at a
\* time, so twice as many addresses as connections never run out, and
\* list_new()'s unchecked calloc() never returns NULL here.
LinkAddrs == 1 .. 2 * Cardinality(Sockets)

L == INSTANCE LinkedList WITH Links <- LinkAddrs

\* The lists as the program reads them: payloads from the head by next.
pending == L!Payloads(heap, pending_socket_list)
clients == [w \in Workers |-> L!Payloads(heap, client_list[w])]

TypeOK ==
  /\ heap \in L!HeapType(Sockets \cup Client)
  /\ pending_socket_list \in L!Addr
  /\ client_list \in [Workers -> L!Addr]
  /\ pending \in Seq(Sockets)
  /\ mutex \in Workers \cup {Unlocked}
  /\ accepted \subseteq Sockets
  /\ posted \in [Workers -> 0 .. Cardinality(Sockets)]
  /\ dispatchRes \in [Workers -> Flags]
  /\ shutdownRes \in [Workers -> Flags]
  /\ shutdownEvent \in [Workers -> {"added", "deleted"}]
  /\ serverState \in {"running", "shutdown_active", "stopped"}
  /\ wpc \in [Workers -> {"idle", "waiting", "locked"}]
  /\ wsock \in [Workers -> Sockets \cup {NoSocket}]
  /\ clients \in [Workers -> Seq(Client)]
  /\ takes \in [Sockets -> 0 .. NumWorkers]
  /\ fault \in {"none", "use_after_free"}

\* Set the listener's list, or a worker's, to the result of a list call.
SetPending(r) == heap' = r.heap /\ pending_socket_list' = r.head
SetClients(w, r) == heap' = r.heap /\ client_list' = [client_list EXCEPT ![w] = r.head]

-----------------------------------------------------------------------------
(***************************************************************************)
(* The listener thread.                                                    *)
(***************************************************************************)

\* serve_forever sets last_thread_link to the head of thread_list; nothing
\* ever assigns it again.
LastThreadLink == 1

\* on_accept's round-robin choice: the link after last_thread_link, or
\* the head of thread_list when there is none.
NextThread(last) == IF last + 1 <= NumWorkers THEN last + 1 ELSE 1

\* on_accept(): accept() a connection, list_prepend() it under the mutex,
\* and event_active() the chosen worker's dispatch event.
OnAccept ==
  /\ serverState # "stopped"
  /\ mutex = Unlocked
  /\ \E s \in Sockets \ accepted :
       LET w == NextThread(LastThreadLink) IN
       /\ accepted' = accepted \cup {s}
       /\ SetPending(L!ListPrepend(heap, pending_socket_list, s))
       /\ dispatchRes' = [dispatchRes EXCEPT ![w] = @ \cup {"write"}]
       /\ posted' = [posted EXCEPT ![w] = @ + 1]
  /\ UNCHANGED <<mutex, shutdownRes, shutdownEvent, serverState, wpc, wsock,
                 client_list, takes, fault>>

\* tunnel_server_shutdown(), from the signal handler.
TunnelServerShutdown ==
  /\ serverState = "running"
  /\ serverState' = "shutdown_active"
  /\ UNCHANGED <<heap, pending_socket_list, mutex, accepted, posted, dispatchRes, shutdownRes,
                 shutdownEvent, wpc, wsock, client_list, takes, fault>>

\* The server's on_shutdown(): event_active() the shutdown event of every
\* worker on thread_list, then event_del() the accept and shutdown events.
ServerOnShutdown ==
  /\ serverState = "shutdown_active"
  /\ shutdownRes' = [w \in Workers |-> shutdownRes[w] \cup {"write"}]
  /\ serverState' = "stopped"
  /\ UNCHANGED <<heap, pending_socket_list, mutex, accepted, posted, dispatchRes, shutdownEvent,
                 wpc, wsock, client_list, takes, fault>>

-----------------------------------------------------------------------------
(***************************************************************************)
(* A worker thread.                                                        *)
(***************************************************************************)

\* The persistent dispatch and shutdown events were added with a 72000 s
\* timeout; when it expires, EV_TIMEOUT joins the result flags.
DispatchTimeout(w) ==
  /\ Timers
  /\ "timeout" \notin dispatchRes[w]
  /\ dispatchRes' = [dispatchRes EXCEPT ![w] = @ \cup {"timeout"}]
  /\ UNCHANGED <<heap, pending_socket_list, mutex, accepted, posted, shutdownRes, shutdownEvent,
                 serverState, wpc, wsock, client_list, takes, fault>>

ShutdownTimeout(w) ==
  /\ Timers
  /\ shutdownEvent[w] = "added"
  /\ "timeout" \notin shutdownRes[w]
  /\ shutdownRes' = [shutdownRes EXCEPT ![w] = @ \cup {"timeout"}]
  /\ UNCHANGED <<heap, pending_socket_list, mutex, accepted, posted, dispatchRes, shutdownEvent,
                 serverState, wpc, wsock, client_list, takes, fault>>

\* on_accept_dispatch() is called with the flags of its activation, which
\* are cleared; it returns at once when EV_TIMEOUT is among them.
DispatchBegin(w) ==
  /\ fault = "none"
  /\ wpc[w] = "idle"
  /\ dispatchRes[w] # {}
  /\ dispatchRes' = [dispatchRes EXCEPT ![w] = {}]
  /\ wpc' = [wpc EXCEPT ![w] = IF "timeout" \in dispatchRes[w] THEN "idle"
                                                             ELSE "waiting"]
  /\ UNCHANGED <<heap, pending_socket_list, mutex, accepted, posted, shutdownRes, shutdownEvent,
                 serverState, wsock, client_list, takes, fault>>

\* pthread_mutex_lock(), then read the head link's socket, if any.
DispatchLock(w) ==
  /\ wpc[w] = "waiting"
  /\ mutex = Unlocked
  /\ mutex' = w
  /\ wsock' = [wsock EXCEPT ![w] = IF pending_socket_list = NULL THEN NoSocket
                                  ELSE heap.node[pending_socket_list].user_data]
  /\ wpc' = [wpc EXCEPT ![w] = "locked"]
  /\ UNCHANGED <<heap, pending_socket_list, accepted, posted, dispatchRes, shutdownRes,
                 shutdownEvent, serverState, client_list, takes, fault>>

\* tunnel_client_new(): a client, or NULL when CyaSSL_new(), one of the
\* callocs, a fifo_new() or an event_new() fails; each failure
\* tunnel_client_free()s what was already made.
ClientNewResults ==
  IF ConnectMayFail THEN {"created", "new_failed"} ELSE {"created"}

\* tunnel_client_connect(): 0, or a negative result when getaddrinfo()
\* fails, connect() fails for every address, or an event_new() fails.  It
\* stores the link in the client only on success.
ConnectResults ==
  IF ConnectMayFail THEN {"connected", "connect_failed"} ELSE {"connected"}

\* What becomes of a socket the worker took: tunnel_client_new() fails
\* (nothing is listed), or the client is prepended to client_list and
\* tunnel_client_connect() succeeds, or it fails and the client is
\* tunnel_client_free()d while its link stays on the list.
ConnectOutcomes ==
  (ClientNewResults \ {"created"})
    \cup (IF "created" \in ClientNewResults THEN ConnectResults ELSE {})

\* Variant: the fd, not the client, is stored as the link's user_data.
ClientAfterFdPayload(h, list, s, outcome) ==
  IF outcome = "new_failed" THEN [heap |-> h, head |-> list]
  ELSE L!ListPrepend(h, list, s)

\* client_list after the set-up: unchanged when tunnel_client_new() failed,
\* otherwise list_prepend()ed with the client, live or already freed.
ClientAfter(h, list, s, outcome) ==
  CASE outcome = "new_failed"     -> [heap |-> h, head |-> list]
    [] outcome = "connected"      -> L!ListPrepend(h, list, [sock |-> s, state |-> "live"])
    [] outcome = "connect_failed" -> L!ListPrepend(h, list, [sock |-> s, state |-> "freed"])

\* Variant: the head link is read but never deleted from the list.
DispatchTakeNoDelete(w) ==
  LET s == wsock[w] IN
  /\ wpc[w] = "locked"
  /\ mutex' = Unlocked
  /\ wpc' = [wpc EXCEPT ![w] = "idle"]
  /\ wsock' = [wsock EXCEPT ![w] = NoSocket]
  /\ IF s = NoSocket
     THEN UNCHANGED <<heap, client_list, takes>>
     ELSE /\ takes' = [takes EXCEPT ![s] = @ + 1]
          /\ \E o \in ConnectOutcomes :
               SetClients(w, ClientAfter(heap, client_list[w], s, o))
  /\ UNCHANGED <<pending_socket_list, accepted, posted, dispatchRes, shutdownRes,
                 shutdownEvent, serverState, fault>>

\* Variant: the head link is list_remove_link()ed but never freed.
DispatchTakeRemoveOnly(w) ==
  LET s == wsock[w]
      r == IF s = NoSocket THEN [heap |-> heap, head |-> pending_socket_list]
           ELSE L!ListRemoveLink(heap, pending_socket_list, pending_socket_list)
  IN
  /\ wpc[w] = "locked"
  /\ pending_socket_list' = r.head
  /\ mutex' = Unlocked
  /\ wpc' = [wpc EXCEPT ![w] = "idle"]
  /\ wsock' = [wsock EXCEPT ![w] = NoSocket]
  /\ IF s = NoSocket
     THEN UNCHANGED <<heap, client_list, takes>>
     ELSE /\ takes' = [takes EXCEPT ![s] = @ + 1]
          /\ \E o \in ConnectOutcomes :
               SetClients(w, ClientAfter(r.heap, client_list[w], s, o))
  /\ UNCHANGED <<accepted, posted, dispatchRes, shutdownRes, shutdownEvent,
                 serverState, fault>>

\* list_delete_link() of the head link read, pthread_mutex_unlock(), and,
\* when a socket was read, the client set-up.  The mutex is still held,
\* so the head is the link DispatchLock read.
DispatchTake(w) ==
  LET s == wsock[w]
      r == IF s = NoSocket THEN [heap |-> heap, head |-> pending_socket_list]
           ELSE L!ListDeleteLink(heap, pending_socket_list, pending_socket_list)
  IN
  /\ wpc[w] = "locked"
  /\ pending_socket_list' = r.head
  /\ mutex' = Unlocked
  /\ wpc' = [wpc EXCEPT ![w] = "idle"]
  /\ wsock' = [wsock EXCEPT ![w] = NoSocket]
  /\ IF s = NoSocket
     THEN UNCHANGED <<heap, client_list, takes>>
     ELSE /\ takes' = [takes EXCEPT ![s] = @ + 1]
          /\ \E o \in ConnectOutcomes :
               SetClients(w, ClientAfter(r.heap, client_list[w], s, o))
  /\ UNCHANGED <<accepted, posted, dispatchRes, shutdownRes, shutdownEvent,
                 serverState, fault>>

\* A session ends on its own: tunnel_client_disconnect_and_free() deletes
\* the client's link (client->link) from client_list.
SessionEnd(w) ==
  /\ fault = "none"
  /\ \E a \in Range(L!Chain(heap, client_list[w])) :
       /\ heap.node[a].user_data.state = "live"
       /\ SetClients(w, L!ListDeleteLink(heap, client_list[w], a))
  /\ UNCHANGED <<pending_socket_list, mutex, accepted, posted, dispatchRes, shutdownRes,
                 shutdownEvent, serverState, wpc, wsock, takes, fault>>

\* The worker's on_shutdown(), run from its flags.  Past the EV_TIMEOUT
\* check, it calls tunnel_client_disconnect_and_free() on the head client,
\* which deletes and frees the head link, and then takes list_next() of
\* that freed link: the NULL list_remove_link() stored ends the loop, but
\* the read is of freed memory, which the allocator may have overwritten.
\* Finally it event_del()s its shutdown event.
WorkerOnShutdown(w) ==
  LET head == client_list[w] IN
  /\ fault = "none"
  /\ wpc[w] = "idle"
  /\ shutdownRes[w] # {}
  /\ shutdownRes' = [shutdownRes EXCEPT ![w] = {}]
  /\ IF "timeout" \in shutdownRes[w] \/ head = NULL
     THEN /\ shutdownEvent' = IF "timeout" \in shutdownRes[w] THEN shutdownEvent
                              ELSE [shutdownEvent EXCEPT ![w] = "deleted"]
          /\ UNCHANGED <<heap, client_list, fault>>
     ELSE IF heap.node[head].user_data.state = "freed"
     THEN /\ fault' = "use_after_free"
          /\ UNCHANGED <<heap, client_list, shutdownEvent>>
     ELSE \E next \in FreedLinkNext :
            /\ SetClients(w, L!ListDeleteLink(heap, head, head))
            /\ fault' = IF next = "null" THEN "none" ELSE "use_after_free"
            /\ shutdownEvent' = [shutdownEvent EXCEPT ![w] = "deleted"]
  /\ UNCHANGED <<pending_socket_list, mutex, accepted, posted, dispatchRes, serverState,
                 wpc, wsock, takes>>

-----------------------------------------------------------------------------

Init ==
  /\ heap = L!EmptyHeap
  /\ pending_socket_list = NULL
  /\ mutex = Unlocked
  /\ accepted = {}
  /\ posted = [w \in Workers |-> 0]
  /\ dispatchRes = [w \in Workers |-> {}]
  /\ shutdownRes = [w \in Workers |-> {}]
  /\ shutdownEvent = [w \in Workers |-> "added"]
  /\ serverState = "running"
  /\ wpc = [w \in Workers |-> "idle"]
  /\ wsock = [w \in Workers |-> NoSocket]
  /\ client_list = [w \in Workers |-> NULL]
  /\ takes = [s \in Sockets |-> 0]
  /\ fault = "none"

Next ==
  \/ OnAccept \/ TunnelServerShutdown \/ ServerOnShutdown
  \/ \E w \in Workers :
       \/ DispatchTimeout(w) \/ ShutdownTimeout(w)
       \/ DispatchBegin(w) \/ DispatchLock(w) \/ DispatchTake(w)
       \/ SessionEnd(w) \/ WorkerOnShutdown(w)

\* Each event loop runs its active callbacks, and a thread blocked on the
\* mutex gets it once it is free (the holder releases it in one step).
\* Accepts, signals, timer expiry and session ends are up to the world.
\* A worker's on_shutdown is not assumed to run: main() returns once the
\* server's on_shutdown has deleted its events, and the process exits with
\* the workers (main.c), so nothing guarantees the workers get there.
Fairness ==
  /\ WF_vars(ServerOnShutdown)
  /\ \A w \in Workers :
       WF_vars(DispatchBegin(w)) /\ WF_vars(DispatchLock(w)) /\ WF_vars(DispatchTake(w))

Spec == Init /\ [][Next]_vars /\ Fairness

-----------------------------------------------------------------------------
(***************************************************************************)
(* Properties.                                                             *)
(***************************************************************************)

\* Every accepted socket is eventually taken off the pending list by a
\* worker (spec 4.4: the dispatch event wakes a worker for each accept).
PendingEventuallyTaken ==
  \A s \in Sockets : s \in accepted ~> takes[s] > 0

\* When a worker's on_shutdown finishes, no client is left on its
\* client_list (spec 4.5: each worker closes every owned session).
ShutdownFreesClients ==
  [][\A w \in Workers :
       shutdownEvent[w] = "added" /\ shutdownEvent'[w] = "deleted"
         => clients'[w] = <<>>]_vars

\* The heads of the listener's list and of every worker's list.
ListHeads == <<pending_socket_list>> \o [w \in Workers |-> client_list[w]]

\* The lists stay well linked through the listener's list_prepend()s and
\* the workers' list_prepend()s and list_delete_link()s (dispatch, a
\* session's end, on_shutdown): no list loops or reaches a freed node,
\* every prev pointer is the node before, no two lists share a node, and
\* every allocated node is on some list.
ListsWellLinked ==
  LET nodes(i) == Range(L!Chain(heap, ListHeads[i])) IN
  /\ \A i \in DOMAIN ListHeads : L!WellLinked(heap, ListHeads[i])
  /\ \A i, j \in DOMAIN ListHeads : i # j => nodes(i) \cap nodes(j) = {}
  /\ heap.live = UNION {nodes(i) : i \in DOMAIN ListHeads}

\* on_shutdown never touches a freed client or a freed list link.
NoUseAfterFree == fault = "none"

=============================================================================
