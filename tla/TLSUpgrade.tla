----------------------------- MODULE TLSUpgrade -----------------------------
(***************************************************************************)
(* The plaintext-to-TLS upgrade of one TLSSocket, as coded in              *)
(* src/ext/node/polyfills/_tls_wrap.ts.                                    *)
(*                                                                         *)
(* tls.connect() or `new TLSSocket(socket)` arms a one-shot hook,          *)
(* handle.afterConnectTls, on the socket's handle and sets                 *)
(* handle.upgrading to a pending promise (_wrapHandle).  When the          *)
(* transport is connected the hook runs: unless the npm-agent workaround   *)
(* flag is set it awaits startTlsInternal() and conn.handshake(), then     *)
(* swaps handle[kStreamBaseField] to the TLS connection, starts reading,   *)
(* resolves handle.upgrading and emits connect, ready and secureConnect.   *)
(*                                                                         *)
(* Application writes are followed through the two places that hold them  *)
(* back: net.Socket defers a write while `connecting` is true until the    *)
(* next "connect" event, and the handle's write waits for                  *)
(* handle.upgrading (stream plumbing outside src/, modelled from the spec: *)
(* pending I/O is re-homed onto the secured connection).  Each write is    *)
(* a number 1..MaxWrites; `wire` records the stream each one went out on.  *)
(***************************************************************************)
EXTENDS Naturals, Sequences

CONSTANTS
  Protocols,   \* ALPN protocols the peer may select (model values)
  MaxWrites    \* bound on the number of application writes

ASSUME ProtocolsAssumption == Protocols # {}
ASSUME MaxWritesAssumption == MaxWrites \in Nat

\* tlssock.alpnProtocol before the handshake (null) and when the handshake
\* selected no protocol (false).
AlpnNull == "null"
AlpnFalse == "false"

\* The outcomes of `await conn.handshake()`: a selected protocol, none, or
\* a rejection.
HandshakeRejected == "rejected"
HandshakeResults == Protocols \cup {AlpnFalse, HandshakeRejected}

VARIABLES
  mode,          \* "none" (no socket yet), "internal" (tls.connect made the
                 \* socket), "socket" (tls.connect({socket})), "direct"
                 \* (new TLSSocket(socket))
  stream,        \* handle[kStreamBaseField]: "none", "plain" or "tls"
  hookArmed,     \* handle.afterConnectTls is set
  workaround,    \* tlssock._needsSockInitWorkaround
  hs,            \* where the hook's async body is
  hsFailed,      \* conn.handshake() rejected (history)
  upgrading,     \* handle.upgrading: "none", "pending" or "resolved"
  connecting,    \* tlssock.connecting
  pauseOnCreate, \* handle.pauseOnCreate
  reading,       \* handle.readStart() was called and the read loop runs
  alpn,          \* tlssock.alpnProtocol
  endListener,   \* onConnectEnd is attached to "end"
  hadError,      \* tlssock._hadError
  destroyed,     \* tlssock.destroyed
  trace,         \* events emitted and "destroy" marks, in order (history)
  issued,        \* number of application writes issued
  netDeferred,   \* writes net.Socket holds until "connect"
  handleWaiting, \* writes awaiting handle.upgrading
  wire           \* writes done on a stream, as <<id, stream>>

vars == <<mode, stream, hookArmed, workaround, hs, hsFailed, upgrading,
          connecting, pauseOnCreate, reading, alpn, endListener, hadError,
          destroyed, trace, issued, netDeferred, handleWaiting, wire>>

Modes == {"none", "internal", "socket", "direct"}
Streams == {"none", "plain", "tls"}
HsStates == {"idle", "startTls", "handshake", "failed", "skipped", "done"}
Events == {"connect", "ready", "secureConnect", "error", "destroy"}
WriteIds == 1..MaxWrites

\* The writes of a sequence of ids, as done on stream s.
OnStream(ids, s) == [i \in 1..Len(ids) |-> <<ids[i], s>>]

\* Writes awaiting handle.upgrading resume as promise reactions once it is
\* resolved: they run before any further I/O or timer callback.
MicrotaskPending == upgrading = "resolved" /\ handleWaiting # <<>>

-----------------------------------------------------------------------------
Init ==
  /\ mode = "none"
  /\ stream = "none"
  /\ hookArmed = FALSE
  /\ workaround = FALSE
  /\ hs = "idle"
  /\ hsFailed = FALSE
  /\ upgrading = "none"
  /\ connecting = FALSE
  /\ pauseOnCreate = FALSE
  /\ reading = FALSE
  /\ alpn = AlpnNull
  /\ endListener = FALSE
  /\ hadError = FALSE
  /\ destroyed = FALSE
  /\ trace = <<>>
  /\ issued = 0
  /\ netDeferred = <<>>
  /\ handleWaiting = <<>>
  /\ wire = <<>>

\* tls.connect() without options.socket: the TLSSocket constructor arms the
\* hook on a fresh TCP handle, tlssock.connect() starts connecting with
\* _start as its callback, and the "end" listener onConnectEnd is added.
ConnectInternal(pause) ==
  /\ mode = "none"
  /\ mode' = "internal"
  /\ hookArmed' = TRUE
  /\ upgrading' = "pending"
  /\ connecting' = TRUE
  /\ pauseOnCreate' = pause
  /\ endListener' = TRUE
  /\ UNCHANGED <<stream, workaround, hs, hsFailed, reading, alpn, hadError,
                 destroyed, trace, issued, netDeferred, handleWaiting, wire>>

\* Variant of ConnectSocket whose _start calls the hook without checking
\* that the handle has a stream.
ConnectSocketUnchecked(connected, pause) ==
  /\ mode = "none"
  /\ mode' = "socket"
  /\ stream' = IF connected THEN "plain" ELSE "none"
  /\ hookArmed' = ~connected
  /\ hs' = "startTls"
  /\ upgrading' = "pending"
  /\ connecting' = TRUE
  /\ pauseOnCreate' = pause
  /\ endListener' = TRUE
  /\ UNCHANGED <<workaround, hsFailed, reading, alpn, hadError, destroyed,
                 trace, issued, netDeferred, handleWaiting, wire>>

\* tls.connect({socket}): the hook is armed on the user's socket's handle;
\* tlssock._start() sets connecting and, when that socket is already
\* connected, calls the hook at once.  The workaround flag cannot be set
\* yet, so the hook starts TLS.  onConnectEnd is added after _start.
ConnectSocket(connected, pause) ==
  /\ mode = "none"
  /\ mode' = "socket"
  /\ stream' = IF connected THEN "plain" ELSE "none"
  /\ hookArmed' = ~connected
  /\ hs' = IF connected THEN "startTls" ELSE "idle"
  /\ upgrading' = "pending"
  /\ connecting' = TRUE
  /\ pauseOnCreate' = pause
  /\ endListener' = TRUE
  /\ UNCHANGED <<workaround, hsFailed, reading, alpn, hadError, destroyed,
                 trace, issued, netDeferred, handleWaiting, wire>>

\* new TLSSocket(socket): the constructor alone arms the hook; nothing
\* calls _start and the socket is not connecting.
NewTLSSocket(connected, pause) ==
  /\ mode = "none"
  /\ mode' = "direct"
  /\ stream' = IF connected THEN "plain" ELSE "none"
  /\ hookArmed' = TRUE
  /\ upgrading' = "pending"
  /\ pauseOnCreate' = pause
  /\ UNCHANGED <<workaround, hs, hsFailed, connecting, reading, alpn,
                 endListener, hadError, destroyed, trace, issued,
                 netDeferred, handleWaiting, wire>>

\* The synchronous part of the armed hook: it disarms itself, then either
\* takes the workaround (emit secureConnect, drop onConnectEnd, return) or
\* calls startTlsInternal and suspends on it.  `after` are the events its
\* caller emits once the hook has returned.
AfterConnectTls(after) ==
  /\ hookArmed' = FALSE
  /\ \/ /\ workaround
        /\ hs' = "skipped"
        /\ trace' = Append(trace, "secureConnect") \o after
        /\ endListener' = FALSE
     \/ /\ ~workaround
        /\ hs' = "startTls"
        /\ trace' = trace \o after
        /\ UNCHANGED endListener

\* The events net.Socket afterConnect emits on the TLSSocket after calling
\* the hook: connect and ready when the TLSSocket is the connecting socket
\* (tls.connect made it); otherwise they go to the user's socket.
TransportEvents ==
  IF mode = "internal" THEN <<"connect", "ready">> ELSE <<>>

\* The transport connects (net.Socket afterConnect on the shared handle):
\* the stream exists and the hook, armed whenever the stream is missing,
\* runs; then connect and ready are emitted on the connecting socket.  For
\* a socket made by tls.connect that is the TLSSocket, whose connect
\* callback _start (line 466) re-sets connecting and finds the hook already
\* cleared; writes net.Socket deferred see connecting again and stay
\* deferred.
TransportReady ==
  /\ mode # "none"
  /\ stream = "none"
  /\ ~destroyed
  /\ ~MicrotaskPending
  /\ stream' = "plain"
  /\ AfterConnectTls(TransportEvents)
  /\ UNCHANGED <<mode, workaround, hsFailed, upgrading, connecting,
                 pauseOnCreate, reading, alpn, hadError, destroyed, issued,
                 netDeferred, handleWaiting, wire>>

\* The HTTP client marks the socket for the npm-agent workaround.
SetWorkaround ==
  /\ mode # "none"
  /\ ~workaround
  /\ ~destroyed
  /\ ~MicrotaskPending
  /\ workaround' = TRUE
  /\ UNCHANGED <<mode, stream, hookArmed, hs, hsFailed, upgrading,
                 connecting, pauseOnCreate, reading, alpn, endListener,
                 hadError, destroyed, trace, issued, netDeferred,
                 handleWaiting, wire>>

\* `await startTlsInternal(...)` returns the TLS connection.
StartTlsResolved ==
  /\ hs = "startTls"
  /\ ~MicrotaskPending
  /\ hs' = "handshake"
  /\ UNCHANGED <<mode, stream, hookArmed, workaround, hsFailed, upgrading,
                 connecting, pauseOnCreate, reading, alpn, endListener,
                 hadError, destroyed, trace, issued, netDeferred,
                 handleWaiting, wire>>

\* `await startTlsInternal(...)` throws: the outer catch only logs it.
StartTlsRejected ==
  /\ hs = "startTls"
  /\ ~MicrotaskPending
  /\ hs' = "failed"
  /\ UNCHANGED <<mode, stream, hookArmed, workaround, hsFailed, upgrading,
                 connecting, pauseOnCreate, reading, alpn, endListener,
                 hadError, destroyed, trace, issued, netDeferred,
                 handleWaiting, wire>>

\* Variants of the three steps below, as a plausible bug would write them.
AlpnOfUnchecked(r) == r
SwapToTlsSkipped == stream' = stream
ResolveUpgradingSkipped == upgrading' = upgrading

\* tlssock.alpnProtocol after `await conn.handshake()` gives r: the selected
\* protocol, or false; a rejection is swallowed and leaves it alone.
AlpnOf(r) ==
  CASE r \in Protocols -> r
    [] r = AlpnFalse -> AlpnFalse
    [] OTHER -> alpn

\* handle[kStreamBaseField] = conn.
SwapToTls == stream' = "tls"

\* handle.upgrading = false, then resolve() of the upgrading promise.
ResolveUpgrading == upgrading' = "resolved"

\* `await conn.handshake()` settles with result r, and the rest of the hook
\* runs to its end in one go: alpnProtocol is set (a rejection is
\* swallowed), the handle is swapped to the TLS connection, reading starts
\* unless pauseOnCreate, handle.upgrading is resolved, and connect, ready
\* and secureConnect are emitted.  The "connect" event flushes the writes
\* net.Socket deferred; the listeners of the three events may write k more,
\* which go straight to the TLS connection.  A destroyed socket does
\* neither.  onConnectEnd is removed last.
Handshake(r, k) ==
  LET newIds == [i \in 1..k |-> issued + i]
  IN
  /\ hs = "handshake"
  /\ ~MicrotaskPending
  /\ issued + k <= MaxWrites
  /\ destroyed => k = 0
  /\ alpn' = AlpnOf(r)
  /\ hsFailed' = (r = HandshakeRejected)
  /\ SwapToTls
  /\ ResolveUpgrading
  /\ connecting' = FALSE
  /\ reading' = (~pauseOnCreate /\ ~destroyed)
  /\ trace' = trace \o <<"connect", "ready", "secureConnect">>
  /\ issued' = issued + k
  /\ wire' = IF destroyed THEN wire
             ELSE wire \o OnStream(netDeferred \o newIds, stream')
  /\ netDeferred' = <<>>
  /\ endListener' = FALSE
  /\ hs' = "done"
  /\ UNCHANGED <<mode, hookArmed, workaround, pauseOnCreate, hadError,
                 destroyed, handleWaiting>>

\* Variant of FlushWaiting that writes even when the socket is destroyed.
FlushWaitingAfterDestroy ==
  /\ MicrotaskPending
  /\ wire' = wire \o OnStream(handleWaiting, stream)
  /\ handleWaiting' = <<>>
  /\ UNCHANGED <<mode, stream, hookArmed, workaround, hs, hsFailed,
                 upgrading, connecting, pauseOnCreate, reading, alpn,
                 endListener, hadError, destroyed, trace, issued,
                 netDeferred>>

\* The writes awaiting handle.upgrading resume, in the order they awaited,
\* and write to the handle's current stream (a closed one if destroyed).
FlushWaiting ==
  /\ MicrotaskPending
  /\ wire' = IF destroyed THEN wire
             ELSE wire \o OnStream(handleWaiting, stream)
  /\ handleWaiting' = <<>>
  /\ UNCHANGED <<mode, stream, hookArmed, workaround, hs, hsFailed,
                 upgrading, connecting, pauseOnCreate, reading, alpn,
                 endListener, hadError, destroyed, trace, issued,
                 netDeferred>>

\* The application writes to the TLSSocket: net.Socket defers it while
\* connecting; otherwise the handle writes it once handle.upgrading is no
\* longer pending.
UserWrite ==
  LET id == issued + 1
  IN
  /\ mode # "none"
  /\ ~destroyed
  /\ issued < MaxWrites
  /\ ~MicrotaskPending
  /\ issued' = id
  /\ \/ /\ connecting
        /\ netDeferred' = Append(netDeferred, id)
        /\ UNCHANGED <<handleWaiting, wire>>
     \/ /\ ~connecting
        /\ upgrading = "pending"
        /\ handleWaiting' = Append(handleWaiting, id)
        /\ UNCHANGED <<netDeferred, wire>>
     \/ /\ ~connecting
        /\ upgrading = "resolved"
        /\ wire' = Append(wire, <<id, stream>>)
        /\ UNCHANGED <<netDeferred, handleWaiting>>
  /\ UNCHANGED <<mode, stream, hookArmed, workaround, hs, hsFailed,
                 upgrading, connecting, pauseOnCreate, reading, alpn,
                 endListener, hadError, destroyed, trace>>

\* The application destroys the socket; the handle is closed.
Destroy ==
  /\ mode # "none"
  /\ ~destroyed
  /\ ~MicrotaskPending
  /\ destroyed' = TRUE
  /\ reading' = FALSE
  /\ trace' = Append(trace, "destroy")
  /\ UNCHANGED <<mode, stream, hookArmed, workaround, hs, hsFailed,
                 upgrading, connecting, pauseOnCreate, alpn, endListener,
                 hadError, issued, netDeferred, handleWaiting, wire>>

\* The read loop meets end of stream and "end" is emitted.  onConnectEnd,
\* if still attached and no error was had, destroys the socket with the
\* "disconnected before secure TLS connection" error; otherwise the socket
\* (not half-open) ends and is destroyed.
End ==
  /\ reading
  /\ ~destroyed
  /\ ~MicrotaskPending
  /\ reading' = FALSE
  /\ destroyed' = TRUE
  /\ hadError' = (hadError \/ endListener)
  /\ trace' = IF endListener /\ ~hadError
                THEN trace \o <<"error", "destroy">>
                ELSE Append(trace, "destroy")
  /\ UNCHANGED <<mode, stream, hookArmed, workaround, hs, hsFailed,
                 upgrading, connecting, pauseOnCreate, alpn, endListener,
                 issued, netDeferred, handleWaiting, wire>>

Next ==
  \/ \E p \in BOOLEAN : ConnectInternal(p)
  \/ \E c, p \in BOOLEAN : ConnectSocket(c, p) \/ NewTLSSocket(c, p)
  \/ TransportReady
  \/ SetWorkaround
  \/ StartTlsResolved
  \/ StartTlsRejected
  \/ \E r \in HandshakeResults, k \in 0..MaxWrites : Handshake(r, k)
  \/ FlushWaiting
  \/ UserWrite
  \/ Destroy
  \/ End

\* The TLS engine eventually answers a started handshake (its promises
\* settle), and promise reactions run: the event loop schedules both.
Fairness ==
  /\ WF_vars(StartTlsResolved \/ StartTlsRejected)
  /\ WF_vars(\E r \in HandshakeResults, k \in 0..MaxWrites : Handshake(r, k))
  /\ WF_vars(FlushWaiting)

Spec == Init /\ [][Next]_vars /\ Fairness

-----------------------------------------------------------------------------
(***************************************************************************)
(* Properties.                                                             *)
(***************************************************************************)

\* Every variable has the type the code gives it.
TypeOK ==
  /\ mode \in Modes
  /\ stream \in Streams
  /\ hookArmed \in BOOLEAN
  /\ workaround \in BOOLEAN
  /\ hs \in HsStates
  /\ hsFailed \in BOOLEAN
  /\ upgrading \in {"none", "pending", "resolved"}
  /\ connecting \in BOOLEAN
  /\ pauseOnCreate \in BOOLEAN
  /\ reading \in BOOLEAN
  /\ alpn \in Protocols \cup {AlpnNull, AlpnFalse}
  /\ endListener \in BOOLEAN
  /\ hadError \in BOOLEAN
  /\ destroyed \in BOOLEAN
  /\ trace \in Seq(Events)
  /\ issued \in 0..MaxWrites
  /\ netDeferred \in Seq(WriteIds)
  /\ handleWaiting \in Seq(WriteIds)
  /\ wire \in Seq(WriteIds \X Streams)

\* No application write written after tls.connect() or new TLSSocket()
\* ever goes out on the plain transport: writes held by net.Socket or by
\* handle.upgrading are released only once the hook has swapped the handle
\* to the TLS connection (afterConnectTls, lines 203-214).
WritesNeverPlain ==
  \A i \in 1..Len(wire) : wire[i][2] = "tls"

\* Application writes reach the wire in the order they were issued, across
\* the swap: writes held while upgrading are not overtaken by writes made
\* in the connect, ready or secureConnect listeners (spec 4.1).
WritesInOrder ==
  \A i, j \in 1..Len(wire) : i < j => wire[i][1] < wire[j][1]

\* The upgrade events of the hook, in the order emitted.
UpgradeEvents ==
  SelectSeq(trace, LAMBDA e : e \in {"connect", "ready", "secureConnect"})

\* The TLSSocket emits connect, ready, secureConnect once each, in this
\* order and only after the handle is swapped to the TLS connection, or
\* secureConnect alone on the workaround path (spec 4.1 and 5; the hook at
\* lines 170-215 emits them so).  net.Socket afterConnect, which calls the
\* hook, also emits connect and ready on the socket tls.connect made, before
\* the swap.
EventOrder ==
  /\ UpgradeEvents \in {<<>>, <<"secureConnect">>,
                        <<"connect", "ready", "secureConnect">>}
  /\ UpgradeEvents # <<>> => (hs = "skipped" \/ stream = "tls")

\* The handle's stream only moves forward: a transport appears where there
\* was none, and the TLS connection replaces only a connected plain
\* transport (_start, line 94, calls the hook only once the handle has a
\* stream; afterConnectTls swaps it at line 203).  No step ever takes the
\* socket back to plain or starts TLS with no transport under it.
StreamForward ==
  [][\/ stream' = stream
     \/ <<stream, stream'>> \in {<<"none", "plain">>, <<"plain", "tls">>}]_vars

\* A socket destroyed while its upgrade is pending never emits
\* secureConnect afterwards (spec 5 and 8); the hook's continuation after
\* `await conn.handshake()` does not look at tlssock.destroyed.
NoSecureConnectAfterDestroy ==
  \A i, j \in 1..Len(trace) :
    (i < j /\ trace[i] = "destroy") => trace[j] # "secureConnect"

\* Once the hook has called startTlsInternal the upgrade is settled: the
\* socket is secured, an error is surfaced, or it is destroyed (spec 7:
\* failures are never silently swallowed); the catch at lines 216-219 only
\* logs.
StartedUpgradeSettles ==
  (hs = "startTls") ~>
    (destroyed \/ \E i \in 1..Len(trace) : trace[i] \in {"secureConnect", "error"})

\* An armed hook on a connected transport eventually runs (spec 1: an
\* already-open connection is upgraded); only net.Socket afterConnect and
\* _start call it, and new TLSSocket() on a connected socket calls neither.
ArmedHookFires ==
  (hookArmed /\ stream = "plain") ~> (~hookArmed \/ destroyed)

\* Once TLS is started and the connection obtained, the upgrade completes
\* and no application write stays held back, unless the socket is
\* destroyed: the hook resolves handle.upgrading and emits "connect".
UpgradeCompletes ==
  (hs = "handshake") ~>
    (destroyed \/ (hs = "done" /\ netDeferred = <<>> /\ handleWaiting = <<>>))


-----------------------------------------------------------------------------
(***************************************************************************)
(* Refinement: the upgrade implements the abstract Upgrade Token.  The     *)
(* token is handle.upgrading; the held writes are those net.Socket defers  *)
(* and those awaiting handle.upgrading; the sent ones are on the wire; the *)
(* socket is cancelled when destroyed.                                     *)
(***************************************************************************)

\* The set of elements of a sequence.
IdsOf(s) == {s[i] : i \in DOMAIN s}

TokenOf == IF upgrading = "resolved" THEN "secured" ELSE upgrading

UT == INSTANCE UpgradeToken
        WITH token <- TokenOf,
             held <- IdsOf(netDeferred) \cup IdsOf(handleWaiting),
             sent <- IdsOf(wire),
             cancelled <- destroyed

\* Every behaviour of the upgrade is one of the Upgrade Token: writes are
\* held until handle.upgrading resolves, then released on TLS or dropped
\* once the socket is destroyed, and held writes are eventually released
\* (afterConnectTls lines 203-214 with net.Socket and the handle's write).
UpgradeTokenRefined == UT!Spec

=============================================================================
