------------------------------ MODULE TlsServer ------------------------------
(***************************************************************************)
(* ServerImpl of src/ext/node/polyfills/_tls_wrap.ts (lines 299-382): the  *)
(* node:tls server over Deno.listenTls, with its accept loop #listen.      *)
(*                                                                         *)
(* this.listener is the last listener listen() created; each listen()      *)
(* starts its own #listen loop on its own listener, and all the loops      *)
(* share the one #closed field.  The listen() callback runs synchronously  *)
(* between the creation of the listener and #listen (phase "callback"),    *)
(* and may call unref(), ref() or close().  The Deno listener (accept,     *)
(* close, ref/unref) is runtime code outside src/: a pending accept        *)
(* resolves with a queued connection or rejects; on a closed listener it   *)
(* rejects, with BadResource or, for an accept already in flight, possibly *)
(* another error.                                                          *)
(***************************************************************************)
EXTENDS Naturals, Sequences

CONSTANTS
  MaxListen,  \* listen() calls
  MaxConns,   \* client connections arriving over the run
  MaxErrors   \* accept rejections that #listen swallows

ASSUME BoundsAssumption ==
  /\ MaxListen \in Nat \ {0}
  /\ MaxConns \in Nat
  /\ MaxErrors \in Nat

VARIABLES
  unrefed,     \* this.#unrefed
  closed,      \* this.#closed
  listeners,   \* listeners created by listen(), the last is this.listener
  loops,       \* per listener, its #listen call
  phase,       \* "idle" or "callback" (listen() is running its callback)
  closeCalled, \* close() was called
  closeEvent,  \* "none", "pending" (nextTick queued) or "emitted"
  conns,       \* connections that arrived so far
  errors,      \* accept rejections swallowed so far
  served       \* "secureConnection" events emitted

vars == <<unrefed, closed, listeners, loops, phase, closeCalled, closeEvent,
          conns, errors, served>>

ListenerStates == {"open", "closed"}
LoopStates == {"none", "returned", "accepting", "done"}
Listener == [state : ListenerStates, refed : BOOLEAN, incoming : 0..MaxConns]

\* this.listener exists.
HasListener == listeners # <<>>

\* Index of this.listener.
Current == Len(listeners)

-----------------------------------------------------------------------------
\* new ServerImpl(options, listener): no listener yet.
Init ==
  /\ unrefed = FALSE
  /\ closed = FALSE
  /\ listeners = <<>>
  /\ loops = <<>>
  /\ phase = "idle"
  /\ closeCalled = FALSE
  /\ closeEvent = "none"
  /\ conns = 0
  /\ errors = 0
  /\ served = 0

\* unref(): set #unrefed and unref this.listener if there is one.
Unref ==
  /\ unrefed' = TRUE
  /\ listeners' = IF HasListener
                    THEN [listeners EXCEPT ![Current].refed = FALSE]
                    ELSE listeners
  /\ UNCHANGED <<closed, loops, phase, closeCalled, closeEvent, conns,
                 errors, served>>

\* ref(): clear #unrefed and ref this.listener if there is one.
Ref ==
  /\ unrefed' = FALSE
  /\ listeners' = IF HasListener
                    THEN [listeners EXCEPT ![Current].refed = TRUE]
                    ELSE listeners
  /\ UNCHANGED <<closed, loops, phase, closeCalled, closeEvent, conns,
                 errors, served>>

\* listen(port, callback): Deno.listenTls creates a new listener, which
\* becomes this.listener, and the callback starts to run.
Listen ==
  /\ phase = "idle"
  /\ Len(listeners) < MaxListen
  /\ listeners' = Append(listeners, [state |-> "open", refed |-> TRUE,
                                     incoming |-> 0])
  /\ loops' = Append(loops, "none")
  /\ phase' = "callback"
  /\ UNCHANGED <<unrefed, closed, closeCalled, closeEvent, conns, errors,
                 served>>

\* Variant of ListenLoop without the #unrefed early return.
ListenLoopNoUnrefCheck ==
  /\ phase = "callback"
  /\ loops' = [loops EXCEPT ![Current] = IF closed THEN "done" ELSE "accepting"]
  /\ phase' = "idle"
  /\ UNCHANGED <<unrefed, closed, listeners, closeCalled, closeEvent, conns,
                 errors, served>>

\* The callback has returned and listen() calls #listen(listener): if the
\* server is unrefed the listener is unrefed and #listen returns, otherwise
\* the loop `while (!this.#closed)` issues its first accept().
ListenLoop ==
  /\ phase = "callback"
  /\ IF unrefed
       THEN /\ listeners' = [listeners EXCEPT ![Current].refed = FALSE]
            /\ loops' = [loops EXCEPT ![Current] = "returned"]
       ELSE /\ loops' = [loops EXCEPT ![Current] = IF closed THEN "done"
                                                          ELSE "accepting"]
            /\ UNCHANGED listeners
  /\ phase' = "idle"
  /\ UNCHANGED <<unrefed, closed, closeCalled, closeEvent, conns, errors,
                 served>>

\* A client connects to listener i while it is open.
ConnArrive(i) ==
  /\ conns < MaxConns
  /\ listeners[i].state = "open"
  /\ listeners' = [listeners EXCEPT ![i].incoming = @ + 1]
  /\ conns' = conns + 1
  /\ UNCHANGED <<unrefed, closed, loops, phase, closeCalled, closeEvent,
                 errors, served>>

\* The loop goes round: it stops when #closed is set, else accepts again.
Continue(i) == [loops EXCEPT ![i] = IF closed' THEN "done" ELSE "accepting"]

\* Variant of AcceptResolve that takes a connection whether one is queued.
AcceptResolveUnqueued(i) ==
  /\ phase = "idle"
  /\ loops[i] = "accepting"
  /\ listeners[i].state = "open"
  /\ listeners' = [listeners EXCEPT ![i].incoming = @ - 1]
  /\ served' = served + 1
  /\ UNCHANGED closed
  /\ loops' = Continue(i)
  /\ UNCHANGED <<unrefed, phase, closeCalled, closeEvent, conns, errors>>

\* accept() of loop i resolves with a connection: the loop wraps it in a
\* TCP handle and a net.Socket, emits "secureConnection", and goes round.
AcceptResolve(i) ==
  /\ phase = "idle"
  /\ loops[i] = "accepting"
  /\ listeners[i].state = "open"
  /\ listeners[i].incoming > 0
  /\ listeners' = [listeners EXCEPT ![i].incoming = @ - 1]
  /\ served' = served + 1
  /\ UNCHANGED closed
  /\ loops' = Continue(i)
  /\ UNCHANGED <<unrefed, phase, closeCalled, closeEvent, conns, errors>>

\* Variant of AcceptBadResource that swallows BadResource like any error.
AcceptBadResourceIgnored(i) ==
  /\ phase = "idle"
  /\ loops[i] = "accepting"
  /\ listeners[i].state = "closed"
  /\ UNCHANGED closed
  /\ loops' = Continue(i)
  /\ UNCHANGED <<unrefed, listeners, phase, closeCalled, closeEvent, conns,
                 errors, served>>

\* accept() of loop i rejects with BadResource: #closed is set, the loop
\* stops, and so does every other loop when it next goes round.
AcceptBadResource(i) ==
  /\ phase = "idle"
  /\ loops[i] = "accepting"
  /\ listeners[i].state = "closed"
  /\ closed' = TRUE
  /\ loops' = Continue(i)
  /\ UNCHANGED <<unrefed, listeners, phase, closeCalled, closeEvent, conns,
                 errors, served>>

\* Variant of AcceptError that stops the loop on every error.
AcceptErrorCloses(i) ==
  /\ phase = "idle"
  /\ loops[i] = "accepting"
  /\ errors < MaxErrors
  /\ errors' = errors + 1
  /\ closed' = TRUE
  /\ loops' = Continue(i)
  /\ UNCHANGED <<unrefed, listeners, phase, closeCalled, closeEvent, conns,
                 served>>

\* accept() of loop i rejects with another error (on an open listener, or
\* for the accept in flight when it was closed): the error is swallowed and
\* the loop goes round.
AcceptError(i) ==
  /\ phase = "idle"
  /\ loops[i] = "accepting"
  /\ errors < MaxErrors
  /\ errors' = errors + 1
  /\ UNCHANGED closed
  /\ loops' = Continue(i)
  /\ UNCHANGED <<unrefed, listeners, phase, closeCalled, closeEvent, conns,
                 served>>

\* close(cb): close this.listener if there is one (its queued connections
\* are refused), call cb, and queue the "close" event with nextTick.
Close ==
  /\ ~closeCalled
  /\ closeCalled' = TRUE
  /\ listeners' = IF HasListener
                    THEN [listeners EXCEPT ![Current].state = "closed",
                                           ![Current].incoming = 0]
                    ELSE listeners
  /\ closeEvent' = "pending"
  /\ UNCHANGED <<unrefed, closed, loops, phase, conns, errors, served>>

\* The nextTick callback emits "close".
EmitClose ==
  /\ phase = "idle"
  /\ closeEvent = "pending"
  /\ closeEvent' = "emitted"
  /\ UNCHANGED <<unrefed, closed, listeners, loops, phase, closeCalled,
                 conns, errors, served>>

Next ==
  \/ Unref
  \/ Ref
  \/ Listen
  \/ ListenLoop
  \/ Close
  \/ EmitClose
  \/ \E i \in 1..Len(listeners) :
       \/ ConnArrive(i)
       \/ AcceptResolve(i)
       \/ AcceptBadResource(i)
       \/ AcceptError(i)

\* The event loop keeps running: a callback, a nextTick and the settling of
\* a pending accept() are eventually run.
Fairness ==
  /\ WF_vars(ListenLoop)
  /\ WF_vars(EmitClose)
  /\ \A i \in 1..MaxListen :
       /\ WF_vars(i \in 1..Len(listeners) /\ AcceptResolve(i))
       /\ WF_vars(i \in 1..Len(listeners) /\ AcceptBadResource(i))

Spec == Init /\ [][Next]_vars /\ Fairness

-----------------------------------------------------------------------------
(***************************************************************************)
(* Properties.                                                             *)
(***************************************************************************)

\* Every variable has the type the code gives it.
TypeOK ==
  /\ unrefed \in BOOLEAN
  /\ closed \in BOOLEAN
  /\ listeners \in Seq(Listener)
  /\ loops \in Seq(LoopStates)
  /\ Len(loops) = Len(listeners)
  /\ Len(listeners) <= MaxListen
  /\ phase \in {"idle", "callback"}
  /\ closeCalled \in BOOLEAN
  /\ closeEvent \in {"none", "pending", "emitted"}
  /\ conns \in 0..MaxConns
  /\ errors \in 0..MaxErrors
  /\ served \in 0..MaxConns

\* An unrefed server never keeps the process alive through its accept
\* loop: whether unref() comes before listen() (the #listen early return,
\* lines 338-341) or after it (listener.unref(), line 312), no loop waits
\* in accept() on a refed listener.  This is what the test "tls.Server.unref()
\* works" relies on.
UnrefedNeverKeepsAlive ==
  unrefed =>
    \A i \in 1..Len(loops) :
      ~(loops[i] = "accepting" /\ listeners[i].refed
        /\ listeners[i].state = "open")

\* Once close() has closed this.listener, every accept loop eventually
\* stops, so no accept() stays pending (the op sanitizer of the test
\* "tls.createServer creates a TLS server" requires it).
LoopStopsAfterClose ==
  (HasListener /\ listeners[Current].state = "closed")
    ~> (\A i \in 1..Len(loops) : loops[i] \in {"returned", "done"})

\* Listener i exists and is closed.
ListenerClosed(i) ==
  IF i \in 1..Len(listeners) THEN listeners[i].state = "closed" ELSE FALSE

\* Loop i is running on an open listener with a connection queued.
Queued(i) ==
  IF i \in 1..Len(listeners)
    THEN /\ loops[i] = "accepting"
         /\ listeners[i].state = "open"
         /\ listeners[i].incoming > 0
    ELSE FALSE

\* A connection queued on an open listener whose loop is running is
\* eventually served, unless the listener is closed first: an accept()
\* error other than BadResource is swallowed (line 357) and does not stop
\* the loop.
QueuedConnectionServed ==
  \A i \in 1..MaxListen, n \in 0..MaxConns :
    (Queued(i) /\ served = n) ~> (served > n \/ ListenerClosed(i))

=============================================================================
