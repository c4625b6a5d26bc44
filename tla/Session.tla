------------------------------- MODULE Session -------------------------------
(***************************************************************************)
(* One TunnelClient of src/src/tunnel_client.c, from a successful          *)
(* tunnel_client_connect() to tunnel_client_free(), driven by the eight    *)
(* libevent callbacks of its worker thread, against two peers: the TLS     *)
(* client (behind CyaSSL) and the plaintext destination.                   *)
(*                                                                         *)
(* A worker runs one callback at a time, so each callback is one atomic    *)
(* action.  Its do/while I/O loops are expanded by the RECURSIVE loop      *)
(* operators below into every sequence of chunk sizes the sockets may      *)
(* return.  Bytes are counted, not stored: the FIFO counters say how many  *)
(* bytes each direction has taken from one peer and handed to the other.   *)
(*                                                                         *)
(* Reads of values the code did not just produce are nondeterministic:     *)
(*  - errno after a read()/write() that did not fail (returned >= 0) is    *)
(*    whatever an earlier call on the worker thread left: StaleErrno;      *)
(*  - CyaSSL_get_error(ssl, 0) after a call that did not fail reports an   *)
(*    earlier error of the library: StaleSslError.                         *)
(***************************************************************************)
EXTENDS Integers, FiniteSets

CONSTANTS
  BufferSize,     \* config->buffer_size (>= 1, tunnel_config.c)
  MaxBytes,       \* bytes each peer sends over the whole session
  StaleErrno,     \* errno values left by an earlier call: {"EAGAIN","OTHER"}
  StaleSslError,  \* CyaSSL errors left by an earlier call: {"WANT_READ","NONE"}
  PeerFailures,   \* may a peer reset, so that its I/O fails hard?
  Renegotiation,  \* may CyaSSL_read want to write and CyaSSL_write to read?
  SizeModulus     \* 2^w of size_t

ASSUME /\ BufferSize \in Nat \ {0}
       /\ MaxBytes \in Nat
       /\ SizeModulus > MaxBytes          \* FIFO counters never wrap here
       /\ StaleErrno \subseteq {"EAGAIN", "OTHER"} /\ StaleErrno # {}
       /\ StaleSslError \subseteq {"WANT_READ", "NONE"} /\ StaleSslError # {}
       /\ PeerFailures \in BOOLEAN /\ Renegotiation \in BOOLEAN

INSTANCE Fifo

VARIABLES
  client,    \* the TunnelClient record
  tlsPeer,   \* [sent, eof, failed]: what the TLS client has done
  destPeer   \* [sent, eof, failed]: what the destination has done

vars == <<client, tlsPeer, destPeer>>

\* The four socket events, and the four timeout events, keyed alike:
\* on_<e>_event and <e>_timeout_event of tunnel_client.h.
IoEvent == {"read_ssl", "write_ssl", "read_dest", "write_dest"}

\* An on_*_event is pending ("added"), allocated but not pending ("idle"),
\* or event_free()d and set to NULL ("freed").
EventState == {"added", "idle", "freed"}

Fault == {"none", "null_event_add", "use_after_free"}

Peer == [sent : 0 .. MaxBytes, eof : BOOLEAN, failed : BOOLEAN]

FifoType == [buffer_size : {BufferSize}, read_count : 0 .. MaxBytes,
             write_count : 0 .. MaxBytes]

TypeOK ==
  /\ client \in [ssl_socket_fd : {"open", "closed"},
                 dest_socket_fd : {"open", "closed"},
                 ssl_accepted : BOOLEAN,
                 event : [IoEvent -> EventState],
                 timeout : [IoEvent -> BOOLEAN],
                 from_ssl_fifo : FifoType,
                 from_dest_fifo : FifoType,
                 link : BOOLEAN,
                 freed : BOOLEAN,
                 fault : Fault]
  /\ tlsPeer \in Peer
  /\ destPeer \in Peer

-----------------------------------------------------------------------------
(***************************************************************************)
(* Operations on a client record c, composed by the callbacks.            *)
(***************************************************************************)

\* event_add() of a socket event.  The pointer is NULL once the event was
\* freed by a disconnect, and libevent then dereferences NULL.
EventAdd(c, e) ==
  IF c.event[e] = "freed" THEN [c EXCEPT !.fault = "null_event_add"]
                          ELSE [c EXCEPT !.event[e] = "added"]

EventDel(c, e) == [c EXCEPT !.event[e] = "idle"]

\* event_add(<e>_timeout_event, &one_ms)
TimeoutAdd(c, e) == [c EXCEPT !.timeout[e] = TRUE]

\* tunnel_client_disconnect_dest(): close the socket, free both dest
\* events, and unlink from thread->client_list.
DisconnectDest(c) ==
  [c EXCEPT !.dest_socket_fd = "closed",
            !.event = [@ EXCEPT !["read_dest"] = "freed", !["write_dest"] = "freed"],
            !.link = FALSE]

\* tunnel_client_disconnect_ssl(): the same for the TLS side.
DisconnectSsl(c) ==
  [c EXCEPT !.ssl_socket_fd = "closed",
            !.event = [@ EXCEPT !["read_ssl"] = "freed", !["write_ssl"] = "freed"],
            !.link = FALSE]

\* tunnel_client_disconnect_and_free(): tunnel_client_disconnect() (dest,
\* then ssl) and tunnel_client_free(), which frees the timeout events.
DisconnectAndFree(c) ==
  [DisconnectSsl(DisconnectDest(c)) EXCEPT !.timeout = [e \in IoEvent |-> FALSE],
                                           !.freed = TRUE]

Used(f) == FifoBytesUsed(f)

-----------------------------------------------------------------------------
(***************************************************************************)
(* The do/while I/O loops.  Each returns the set of possible outcomes      *)
(* [fifo, last]: the FIFO after the loop, and how the last call ended:     *)
(* "pos" (it moved bytes and the loop stopped on the FIFO condition),      *)
(* "zero" (a zero-length call returned 0) or "fail" (it returned <= 0).    *)
(***************************************************************************)

\* The read loops of on_read_ssl (CyaSSL_read) and on_read_dest (read()):
\* read at most the contiguous write window, and at most avail bytes the
\* peer has sent; continue while the read was positive and room is left.
RECURSIVE ReadLoop(_, _)
ReadLoop(f, avail) ==
  {[fifo |-> f, last |-> "fail"]} \cup
  UNION { LET g == FifoWrite(f, n) IN
            IF FifoBytesFree(g) > 0 THEN ReadLoop(g, avail - n)
                                    ELSE {[fifo |-> g, last |-> "pos"]}
          : n \in 1 .. MinOf(FifoWriteSize(f), avail) }

\* The write loop of on_write_dest: write() the contiguous read window,
\* continue while the write was positive and bytes are left.
RECURSIVE DestWriteLoop(_)
DestWriteLoop(f) ==
  IF FifoReadSize(f) = 0
  THEN {[fifo |-> f, last |-> "zero"]}
  ELSE {[fifo |-> f, last |-> "fail"]} \cup
       UNION { LET g == FifoRead(f, n) IN
                 IF Used(g) > 0 THEN DestWriteLoop(g)
                                ELSE {[fifo |-> g, last |-> "pos"]}
               : n \in 1 .. FifoReadSize(f) }

\* The write loop of on_write_ssl: it calls CyaSSL_write() again after
\* every positive result, so a drained FIFO ends with a zero-length write.
RECURSIVE SslWriteLoop(_)
SslWriteLoop(f) ==
  IF FifoReadSize(f) = 0
  THEN {[fifo |-> f, last |-> "zero"]}
  ELSE {[fifo |-> f, last |-> "fail"]} \cup
       UNION { SslWriteLoop(FifoRead(f, n)) : n \in 1 .. FifoReadSize(f) }

-----------------------------------------------------------------------------
(***************************************************************************)
(* What the peers and the libraries may answer.                            *)
(***************************************************************************)

\* Variant: counts one byte more than the client sent (off by one).
TlsUnreadOffByOne(f) == tlsPeer.sent + 1 - f.write_count

TlsUnread(f)  == tlsPeer.sent - f.write_count
DestUnread(f) == destPeer.sent - f.write_count

\* CyaSSL_get_error() after the on_read_ssl loop.
SslReadErrors(o) ==
  IF o.last = "pos" THEN StaleSslError
  ELSE {"WANT_READ"}
       \cup (IF Renegotiation THEN {"WANT_WRITE"} ELSE {})
       \cup (IF (tlsPeer.eof /\ TlsUnread(o.fifo) = 0) \/ tlsPeer.failed
             THEN {"OTHER"} ELSE {})

\* CyaSSL_get_error() after the on_write_ssl loop.
SslWriteErrors(o) ==
  IF o.last = "zero" THEN StaleSslError
  ELSE {"WANT_WRITE"}
       \cup (IF Renegotiation THEN {"WANT_READ"} ELSE {})
       \cup (IF tlsPeer.failed THEN {"OTHER"} ELSE {})

\* errno after the on_read_dest loop ended on a result <= 0: read() returns
\* 0 at end of file without setting errno, -1 with EAGAIN when no data has
\* arrived, -1 with another errno on a reset.
DestReadErrno(o) ==
  {"EAGAIN"}
  \cup (IF destPeer.eof /\ DestUnread(o.fifo) = 0 THEN StaleErrno ELSE {})
  \cup (IF destPeer.failed THEN {"OTHER"} ELSE {})

\* errno after the on_write_dest loop.
DestWriteErrno(o) ==
  IF o.last # "fail" THEN StaleErrno
  ELSE {"EAGAIN"} \cup (IF destPeer.failed THEN {"OTHER"} ELSE {})

\* CyaSSL_accept() of handle_ssl_accept(): it wants more I/O, or it
\* succeeds while the client is there, or fails once the client is gone.
AcceptResults ==
  {"WANT_READ", "WANT_WRITE"}
  \cup (IF tlsPeer.eof \/ tlsPeer.failed THEN {"ERROR"} ELSE {"SUCCESS"})

-----------------------------------------------------------------------------
(***************************************************************************)
(* The callbacks, as functions from the client record to the set of        *)
(* records it may leave behind.                                            *)
(***************************************************************************)

\* handle_ssl_accept()
HandleSslAccept(c, r) ==
  CASE r = "WANT_READ"  -> c
    [] r = "WANT_WRITE" -> EventAdd(c, "write_ssl")
    [] r = "ERROR"      -> DisconnectAndFree(c)
    [] r = "SUCCESS"    -> [c EXCEPT !.ssl_accepted = TRUE]

\* The handshake gate at the top of on_read_ssl and on_write_ssl: run
\* handle_ssl_accept(), then read client->ssl_accept_state again -- from
\* freed memory when the handshake failed.
AcceptGate(c) ==
  IF c.ssl_accepted THEN {c}
  ELSE { LET a == HandleSslAccept(c, r) IN
           IF a.freed THEN [a EXCEPT !.fault = "use_after_free"] ELSE a
       : r \in AcceptResults }

\* The callback goes on past the gate only once the handshake is done.
Proceeds(a) == a.ssl_accepted /\ a.fault = "none" /\ ~a.freed

\* on_read_ssl, after the loop: error handling on CyaSSL_get_error().
SslReadError(c, err) ==
  CASE err = "WANT_READ"  -> c
    [] err = "WANT_WRITE" -> EventAdd(c, "write_ssl")
    [] OTHER ->
         IF Used(c.from_dest_fifo) > 0 THEN EventAdd(c, "write_ssl")
         ELSE LET d == DisconnectSsl(c) IN
              IF Used(d.from_ssl_fifo) = 0 THEN DisconnectAndFree(d) ELSE d

\* on_read_ssl, from the room check to the end.
ReadSsl(c) ==
  IF FifoBytesFree(c.from_ssl_fifo) = 0
  THEN {TimeoutAdd(EventDel(c, "read_ssl"), "read_ssl")}
  ELSE UNION { LET c1 == [c EXCEPT !.from_ssl_fifo = o.fifo]
                   c2 == IF Used(o.fifo) > 0 THEN EventAdd(c1, "write_dest") ELSE c1
               IN { SslReadError(c2, err) : err \in SslReadErrors(o) }
             : o \in ReadLoop(c.from_ssl_fifo, TlsUnread(c.from_ssl_fifo)) }

\* on_write_ssl, after the loop.
SslWriteError(c, err) ==
  CASE err = "WANT_READ" ->
         IF c.dest_socket_fd = "closed" THEN DisconnectAndFree(c) ELSE c
    [] err = "WANT_WRITE" ->
         IF Used(c.from_dest_fifo) > 0 THEN TimeoutAdd(c, "write_ssl")
                                       ELSE EventAdd(c, "write_ssl")
    [] OTHER ->
         LET d == DisconnectSsl(c) IN
         IF Used(d.from_ssl_fifo) = 0 THEN DisconnectAndFree(d)
                                      ELSE EventAdd(d, "write_dest")

\* on_write_ssl, from the first CyaSSL_write() to the end.
WriteSsl(c) ==
  UNION { LET c1 == [c EXCEPT !.from_dest_fifo = o.fifo] IN
          { SslWriteError(c1, err) : err \in SslWriteErrors(o) }
        : o \in SslWriteLoop(c.from_dest_fifo) }

\* on_read_dest, after the loop.
ReadDestAfterLoop(c, o) ==
  LET c1 == [c EXCEPT !.from_dest_fifo = o.fifo]
      c2 == IF Used(o.fifo) > 0 THEN EventAdd(c1, "write_ssl") ELSE c1
  IN IF FifoBytesFree(o.fifo) = 0 THEN {c2}     \* full: errno ignored
     ELSE { IF e = "EAGAIN" THEN c2
            ELSE LET d == DisconnectDest(c2) IN
                 IF Used(d.from_dest_fifo) = 0 THEN DisconnectAndFree(d) ELSE d
          : e \in DestReadErrno(o) }

\* on_read_dest
ReadDest(c) ==
  IF FifoBytesFree(c.from_dest_fifo) = 0
  THEN {TimeoutAdd(EventDel(c, "read_dest"), "read_dest")}
  ELSE UNION { ReadDestAfterLoop(c, o)
             : o \in ReadLoop(c.from_dest_fifo, DestUnread(c.from_dest_fifo)) }

\* Variant: on EAGAIN the write_dest_timeout_event is not armed.
WriteDestAfterLoopNoRetry(c, o) ==
  LET c1 == [c EXCEPT !.from_ssl_fifo = o.fifo] IN
  { IF e = "EAGAIN" THEN c1
    ELSE IF Used(o.fifo) > 0 THEN EventAdd(c1, "write_dest")
         ELSE LET d == DisconnectDest(c1) IN
              IF d.ssl_socket_fd = "closed" THEN DisconnectAndFree(d) ELSE d
  : e \in DestWriteErrno(o) }

\* on_write_dest, after the loop.
WriteDestAfterLoop(c, o) ==
  LET c1 == [c EXCEPT !.from_ssl_fifo = o.fifo] IN
  { IF e = "EAGAIN"
    THEN IF Used(o.fifo) > 0 THEN TimeoutAdd(c1, "write_dest") ELSE c1
    ELSE IF Used(o.fifo) > 0 THEN EventAdd(c1, "write_dest")
         ELSE LET d == DisconnectDest(c1) IN
              IF d.ssl_socket_fd = "closed" THEN DisconnectAndFree(d) ELSE d
  : e \in DestWriteErrno(o) }

\* on_write_dest
WriteDest(c) ==
  UNION { WriteDestAfterLoop(c, o) : o \in DestWriteLoop(c.from_ssl_fifo) }

\* The four timeout callbacks: give up if the socket was closed meanwhile,
\* else re-add the socket event once the FIFO allows it.
ReadSslTimeout(c) ==
  IF c.ssl_socket_fd = "closed" THEN c
  ELSE IF FifoBytesFree(c.from_ssl_fifo) > 0 THEN EventAdd(c, "read_ssl")
       ELSE TimeoutAdd(c, "read_ssl")

WriteSslTimeout(c) ==
  IF c.ssl_socket_fd = "closed" THEN c
  ELSE IF Used(c.from_dest_fifo) > 0 THEN EventAdd(c, "write_ssl") ELSE c

ReadDestTimeout(c) ==
  IF c.dest_socket_fd = "closed" THEN c
  ELSE IF FifoBytesFree(c.from_dest_fifo) > 0 THEN EventAdd(c, "read_dest")
       ELSE TimeoutAdd(c, "read_dest")

\* Variant: the timeout callback re-arms itself instead of the write event.
WriteDestTimeoutSpin(c) ==
  IF c.dest_socket_fd = "closed" THEN c
  ELSE IF Used(c.from_ssl_fifo) > 0 THEN TimeoutAdd(c, "write_dest") ELSE c

WriteDestTimeout(c) ==
  IF c.dest_socket_fd = "closed" THEN c
  ELSE IF Used(c.from_ssl_fifo) > 0 THEN EventAdd(c, "write_dest") ELSE c

-----------------------------------------------------------------------------
(***************************************************************************)
(* The specification.                                                      *)
(***************************************************************************)

\* The client after tunnel_client_new() and a successful
\* tunnel_client_connect(): both sockets open, the two read events added,
\* the write events allocated, the handshake not yet done.
Init ==
  /\ client = [ssl_socket_fd |-> "open", dest_socket_fd |-> "open",
               ssl_accepted |-> FALSE,
               event |-> [e \in IoEvent |->
                            IF e \in {"read_ssl", "read_dest"} THEN "added" ELSE "idle"],
               timeout |-> [e \in IoEvent |-> FALSE],
               from_ssl_fifo |-> FifoNew(BufferSize),
               from_dest_fifo |-> FifoNew(BufferSize),
               link |-> TRUE, freed |-> FALSE, fault |-> "none"]
  /\ tlsPeer = [sent |-> 0, eof |-> FALSE, failed |-> FALSE]
  /\ destPeer = [sent |-> 0, eof |-> FALSE, failed |-> FALSE]

Live == ~client.freed /\ client.fault = "none"

\* Readiness that wakes the persistent read events: data, end of file or
\* an error; before the handshake completes, handshake records.
SslReadable  == ~client.ssl_accepted \/ TlsUnread(client.from_ssl_fifo) > 0
                \/ tlsPeer.eof \/ tlsPeer.failed
DestReadable == DestUnread(client.from_dest_fifo) > 0
                \/ destPeer.eof \/ destPeer.failed

\* A socket event can fire while the client lives and the event is added.
Armed(e) == Live /\ client.event[e] = "added"

\* The client as its callback sees it: the read events were created with
\* EV_READ | EV_PERSIST and stay added; the write events, created with
\* EV_WRITE alone, are no longer pending once they fire.
Fired(e) == IF e \in {"read_ssl", "read_dest"} THEN client ELSE EventDel(client, e)

OnReadSsl ==
  /\ Armed("read_ssl") /\ SslReadable
  /\ \E a \in AcceptGate(Fired("read_ssl")) :
       client' \in (IF Proceeds(a) THEN ReadSsl(a) ELSE {a})
  /\ UNCHANGED <<tlsPeer, destPeer>>

OnWriteSsl ==
  /\ Armed("write_ssl")
  /\ \E a \in AcceptGate(Fired("write_ssl")) :
       client' \in (IF Proceeds(a) THEN WriteSsl(a) ELSE {a})
  /\ UNCHANGED <<tlsPeer, destPeer>>

OnReadDest ==
  /\ Armed("read_dest") /\ DestReadable
  /\ client' \in ReadDest(Fired("read_dest"))
  /\ UNCHANGED <<tlsPeer, destPeer>>

OnWriteDest ==
  /\ Armed("write_dest")
  /\ client' \in WriteDest(Fired("write_dest"))
  /\ UNCHANGED <<tlsPeer, destPeer>>

\* A one-millisecond timeout event fires (it is no longer pending).
Expired(e) == [client EXCEPT !.timeout[e] = FALSE]

OnReadSslTimeout ==
  /\ Live /\ client.timeout["read_ssl"]
  /\ client' = ReadSslTimeout(Expired("read_ssl"))
  /\ UNCHANGED <<tlsPeer, destPeer>>

OnWriteSslTimeout ==
  /\ Live /\ client.timeout["write_ssl"]
  /\ client' = WriteSslTimeout(Expired("write_ssl"))
  /\ UNCHANGED <<tlsPeer, destPeer>>

OnReadDestTimeout ==
  /\ Live /\ client.timeout["read_dest"]
  /\ client' = ReadDestTimeout(Expired("read_dest"))
  /\ UNCHANGED <<tlsPeer, destPeer>>

OnWriteDestTimeout ==
  /\ Live /\ client.timeout["write_dest"]
  /\ client' = WriteDestTimeout(Expired("write_dest"))
  /\ UNCHANGED <<tlsPeer, destPeer>>

\* The peers: send a byte, close (end of file), or reset.
Send(p) == /\ ~p.eof /\ ~p.failed /\ p.sent < MaxBytes
           /\ p' = [p EXCEPT !.sent = @ + 1]
Close(p) == /\ ~p.eof /\ p' = [p EXCEPT !.eof = TRUE]
Reset(p) == /\ PeerFailures /\ ~p.failed /\ p' = [p EXCEPT !.failed = TRUE]

TlsPeerStep  == /\ Send(tlsPeer) \/ Close(tlsPeer) \/ Reset(tlsPeer)
                /\ UNCHANGED <<client, destPeer>>
DestPeerStep == /\ Send(destPeer) \/ Close(destPeer) \/ Reset(destPeer)
                /\ UNCHANGED <<client, tlsPeer>>

\* The client is gone (freed, or the process crashed on it).
Terminated == ~Live /\ UNCHANGED vars

Next ==
  \/ OnReadSsl \/ OnWriteSsl \/ OnReadDest \/ OnWriteDest
  \/ OnReadSslTimeout \/ OnWriteSslTimeout
  \/ OnReadDestTimeout \/ OnWriteDestTimeout
  \/ TlsPeerStep \/ DestPeerStep
  \/ Terminated

\* libevent runs every active event of the loop, so a pending callback
\* whose socket stays ready eventually runs.  A destination that has not
\* failed eventually accepts bytes written to it.
Fairness ==
  /\ WF_vars(OnReadSsl) /\ WF_vars(OnWriteSsl)
  /\ WF_vars(OnReadDest) /\ WF_vars(OnWriteDest)
  /\ WF_vars(OnReadSslTimeout) /\ WF_vars(OnWriteSslTimeout)
  /\ WF_vars(OnReadDestTimeout) /\ WF_vars(OnWriteDestTimeout)
  /\ SF_vars(OnWriteDest /\ client'.from_ssl_fifo # client.from_ssl_fifo)

Spec == Init /\ [][Next]_vars /\ Fairness

-----------------------------------------------------------------------------
(***************************************************************************)
(* Properties.                                                             *)
(***************************************************************************)

\* Bytes taken from the TLS client never sit in from_ssl_fifo with nothing
\* scheduled to write them: while the destination socket is open, either
\* on_write_dest_event is pending or write_dest_timeout_event will re-add
\* it (on_read_ssl, on_write_dest, on_write_dest_timeout, on_write_ssl).
FromSslNeverStalls ==
  (Live /\ client.dest_socket_fd = "open" /\ Used(client.from_ssl_fifo) > 0)
    => client.event["write_dest"] = "added" \/ client.timeout["write_dest"]

\* The mirror for bytes from the destination waiting in from_dest_fifo:
\* while the TLS socket is open, on_write_ssl_event is pending or
\* write_ssl_timeout_event will re-add it (spec section 8).
FromDestNeverStalls ==
  (Live /\ client.ssl_socket_fd = "open" /\ Used(client.from_dest_fifo) > 0)
    => client.event["write_ssl"] = "added" \/ client.timeout["write_ssl"]

\* The tunnel closes the destination socket only after the destination
\* closed or failed, or after the TLS side is gone: never in the middle of
\* a healthy session (on_read_dest, on_write_dest error branches).
DestClosedOnlyByPeer ==
  (client.dest_socket_fd = "closed" /\ client.fault = "none")
    => destPeer.eof \/ destPeer.failed \/ client.ssl_socket_fd = "closed"

\* Likewise the TLS socket is closed only after the TLS client closed or
\* failed, or after the destination side is gone (on_read_ssl,
\* on_write_ssl, handle_ssl_accept).
SslClosedOnlyByPeer ==
  (client.ssl_socket_fd = "closed" /\ client.fault = "none")
    => tlsPeer.eof \/ tlsPeer.failed \/ client.dest_socket_fd = "closed"

\* A healthy side is never closed by the tunnel: neither socket is closed
\* unless its peer ended or failed or the other side is already gone.
\* Both error branches decide from errno and CyaSSL_get_error(), which a
\* read loop that stopped on a full FIFO left from an earlier call
\* (on_read_dest after its loop, on_read_ssl after its loop).
ClosedOnlyByPeer == DestClosedOnlyByPeer /\ SslClosedOnlyByPeer

\* Half-close drain (spec 4.2, 8): bytes already taken from the TLS client
\* are not stranded by closing a destination that has not failed, e.g.
\* when it only shut down its sending side.
DestDrained ==
  (client.dest_socket_fd = "closed" /\ ~destPeer.failed)
    => Used(client.from_ssl_fifo) = 0

\* No callback reads the client after tunnel_client_free() (the handshake
\* gate of on_read_ssl / on_write_ssl after handle_ssl_accept failed).
NoUseAfterFree == client.fault # "use_after_free"

\* No callback event_add()s a socket event that a disconnect has freed and
\* set to NULL (on_read_ssl, on_read_dest, on_write_ssl).
NoNullEventAdd == client.fault # "null_event_add"

\* Every byte taken from the TLS client is eventually written to the
\* destination, unless the destination socket closes, the destination
\* fails, or the process crashes first.
DeliveryToDest ==
  \A n \in 1 .. MaxBytes :
    (client.from_ssl_fifo.write_count >= n)
      ~> (client.from_ssl_fifo.read_count >= n
          \/ client.dest_socket_fd = "closed" \/ destPeer.failed
          \/ client.fault # "none")

\* When the destination closes its connection, the tunnel eventually
\* notices: it closes the destination socket or frees the client
\* (spec 8: "Destination peer closes ... Session must destroy itself").
DestEofDetected ==
  destPeer.eof ~> (client.dest_socket_fd = "closed" \/ ~Live)

=============================================================================
