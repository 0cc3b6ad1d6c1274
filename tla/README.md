# TLA+ models of Deno's `node:tls` polyfill

This directory holds TLA+ specifications of the TLS parts of Deno's Node
compatibility layer under `src/`:

* `src/ext/node/polyfills/_tls_wrap.ts`: `TLSSocket`, `tls.connect`,
  `ServerImpl`, `checkServerIdentity`;
* `src/ext/node/polyfills/internal/events/abort_listener.mjs`;
* `src/ext/node/polyfills/_fs/_fs_common.ts`.

It also holds TLC configurations for small instances and TLAPS proofs.
`spec.md` states what the code promises. The models are written from the
code. Each place where code and spec disagree is a run that expects a
violation.

## 1. Inventory

### Upgrade coordinator (`_tls_wrap.ts` 55-231, 388-496)

A `TLSSocket` is a `net.Socket` whose handle gets a TLS upgrade.

* **State.** The handle's stream (`handle[kStreamBaseField]`), the one-shot
  hook `handle.afterConnectTls` and the promise `handle.upgrading`.
* **Socket fields.** The socket keeps `connecting`, `alpnProtocol`,
  `_hadError`, `destroyed`, `_needsSockInitWorkaround` and the `"end"`
  listener `onConnectEnd`.

**Operations:**

* `tls.connect()` without a socket. It creates a TCP handle, arms the hook,
  connects with `_start` as callback and adds `onConnectEnd`.
* `tls.connect({socket})`. It arms the hook on the user's socket's handle and
  calls `_start`. `_start` runs the hook at once when the stream already
  exists.
* `new TLSSocket(socket)`. Only the constructor runs, so the hook is armed and
  nothing calls it.
* The hook:
  * it disarms itself;
  * on the npm-agent workaround it emits `secureConnect` and returns;
  * otherwise it awaits `startTlsInternal`, then `conn.handshake()`, whose
    rejection is swallowed;
  * it swaps the stream and clears `upgrading` and `connecting`;
  * it starts reading unless `pauseOnCreate`;
  * it resolves `upgrading` and emits `connect`, `ready` and `secureConnect`;
  * it removes `onConnectEnd`;
  * an exception is only logged.
* `onConnectEnd`. It destroys the socket with a "disconnected before secure
  TLS connection" error.
* `onConnectSecure` is dead code, because nothing emits `"secure"`.

**Interactions.** Outside `src/`, `net.Socket` defers writes while `connecting`
until `"connect"`. `stream_wrap` makes handle writes wait for
`handle.upgrading` (spec 4.1).

**Hard behaviours:**

* the two awaits interleave with `destroy()`, writes and `"end"`;
* promise reactions run only after the synchronous emits;
* each await can fail.

### Identity verifier (`_tls_wrap.ts` 540-694)

`checkServerIdentity(hostname, cert)` and `check(hostParts, pattern,
wildcards)`:

* `unfqdn` and `splitHost` lowercase A-Z only.
* The `isBad` character class is applied.
* Labels are compared right to left.
* A leftmost label without `*`, or one that contains `xn--`, is compared
  verbatim.
* Otherwise the wildcard rules apply: one `*`, no `*.tld`, prefix/suffix.
* SAN entries are split: `DNS:` gives names and `IP Address:` gives
  canonicalized addresses.
* The CN is used only when there is no DNS SAN.

The verifier is pure and has no state.

### TLS server (`ServerImpl`, `_tls_wrap.ts` 300-382)

* `listen` creates a `Deno.listenTls` listener and starts an async accept
  loop.
* `unref` and `ref` toggle a flag.
* `close` closes the listener and emits `close` on `nextTick`.
* Hard behaviours:
  * `unref()` before `listen()` stops the loop before it starts;
  * accept errors other than `BadResource` are swallowed and retried at once.

### `addAbortListener` (`abort_listener.mjs`)

It registers a one-shot abort handler and returns a disposer. When the signal
is already aborted, the listener is queued as a microtask that the disposer
cannot cancel.

### fs option helpers (`_fs_common.ts`)

`getOpenOptions`, `checkEncoding`, `getEncoding` and `isFileOptions` are pure
translations of option values.

## 2. Status

All five parts are modelled (the fs helpers in part, see section 7).
`UpgradeToken` is the abstract specification of the upgrade, and
`TLSUpgrade` is shown to implement it, by TLC and, for the safety part, by
TLAPS. The server's, the abort listener's and the identity verifier's
safety invariants are proved by TLAPS as well (sections 6c-6e), and so are
the three properties of the fs helpers (section 6f). Every invariant of a
passing run is proved; the liveness properties stay with TLC. Open work: a `TlsServer` instance composed with
`TLSUpgrade` for the sockets it accepts.

## 3. Modules

| Module | Models |
| --- | --- |
| `TLSUpgrade` | upgrade coordinator (one socket) |
| `MC_TLSUpgrade` | TLC instance: one ALPN protocol, two writes |
| `TLSUpgrade_proofs` | TLAPS proofs of `TypeOK`, `WritesNeverPlain` and `StreamForward` |
| `ServerIdentity` | `check`, `checkServerIdentity`, reference matcher of spec 4.2 |
| `MC_ServerIdentity` | TLC instance: small alphabet, names of 1-3 labels |
| `ServerIdentity_proofs` | TLAPS proofs of `CheckSoundOnDnsNames`, `TypeOK` and `VerifySound` |
| `UpgradeToken` | abstract upgrade (spec 4.1), refined by `TLSUpgrade` |
| `TLSUpgradeRefinement_proofs` | TLAPS proof of the refinement, with its invariant `HeldWritesConsistent` |
| `TlsServer` | `ServerImpl`: listen, the `#listen` accept loop, unref, ref, close |
| `MC_TlsServer` | TLC instance: 1 or 2 listen() calls, 2 connections, 2 errors |
| `TlsServer_proofs` | TLAPS proofs of `TypeOK` (with `served <= MaxConns`) and of `UnrefedNeverKeepsAlive` |
| `AbortListener` | `addAbortListener` and its disposer against `abort()` |
| `MC_AbortListener` | TLC instance: three registrations |
| `AbortListener_proofs` | TLAPS proofs of `DisposedBeforeAbortNeverCalled`, `CalledAfterReturn` and `CalledInAddOrder` |
| `FsCommon` | `getOpenOptions`, `getEncoding`, `checkEncoding` |
| `MC_FsCommon` | TLC instance: Linux open bits, 13 encoding names |
| `FsCommon_proofs` | TLAPS proofs of the three fs properties |

### `TLSUpgrade`

**Variables.** They mirror the code:

* `stream`: `handle[kStreamBaseField]`;
* `hookArmed`: `afterConnectTls` is set;
* `upgrading`: the promise is none, pending or resolved;
* `connecting`, `pauseOnCreate`, `reading`, `alpn`, `hadError`, `destroyed`;
* `endListener`: `onConnectEnd` is attached;
* `workaround`: `_needsSockInitWorkaround`;
* `hs`: where the hook's async body is suspended.

**Writes.** A write is a number. Three places hold it or record it:

* `netDeferred`: deferred by `net.Socket`;
* `handleWaiting`: awaiting `upgrading`;
* `wire`: id and stream it went out on.

`trace` records the events emitted and the destroys.

**Actions:**

* `ConnectInternal`, `ConnectSocket` and `NewTLSSocket` are the three
  creation paths.
* `TransportReady` is `net.Socket` connecting: `afterConnect` calls the
  hook, then emits connect and ready on the connecting socket
  (`TransportEvents`). That socket is the TLSSocket only when `tls.connect`
  made it (line 466), and then `_start`, its connect callback, runs too.
* `AfterConnectTls(after)` is the hook's synchronous part, followed by the
  events `after` that its caller emits. It is part of the creating action
  when `_start` finds the stream.
* `StartTlsResolved`/`StartTlsRejected` model the first await.
* `Handshake(r, k)` is everything after the second await, as one step:
  * a handshake result `r`;
  * `k` writes made by the event listeners, which go straight to TLS.
* `FlushWaiting` is the writes parked on `upgrading` resuming as microtasks.
* `UserWrite`, `Destroy`, `End` (`onConnectEnd` or a plain end) and
  `SetWorkaround` (set by the HTTP client) complete the actions.

**Microtasks.** `MicrotaskPending` blocks every other action while parked
writes are runnable. This models the microtask queue running before any I/O
callback.

**Source of the `net.Socket` / `stream_wrap` actions.**
`TransportReady`, `SetWorkaround`, `FlushWaiting`, `UserWrite` and `Destroy`
are code outside `src/`. They are written from the spec and marked
`spec_modelled` in `PROJECT.json`.

### `ServerIdentity`

**Data.** Host names and patterns are sequences of labels. A label is a
sequence of characters from a small alphabet with these symbols:

* `Xn` for the four characters `xn--`;
* `Del` for U+007F, `Space` for U+0020 and `Uni` for a non-ASCII character;
* `LowerOf` maps `A` to `a`.

**Certificates.** A certificate is its CN set, its SAN entries (kind and
value) and a flag for a quoted SAN that `splitEscapedAltNames` rejects.

**Operators.** `Check` has one conjunct per early `return false` of `check`,
in order. `VerifyResult` follows `checkServerIdentity`'s `if / else if`
branches as an IF chain: a CASE with overlapping guards would leave the
result unspecified when, say, the SAN string is malformed and the host is an
IP literal, where the code takes the first branch.

**Reference.** `RefMatch`/`RefVerify` are the rules of spec 4.2. They are
written declaratively: a wildcard replaces some run `SubSeq(H[1], a, b)` of
the host's leftmost label.

**Calls.** A behaviour is one call: `CallCheck` or `CallVerify` on inputs
from the constant sets.

### `UpgradeToken` and the refinement

`UpgradeToken` says what the upgrade promises its writers, in spec 4.1's
words: after `Arm`, writes are `Hold`-ed until `Secure`; held writes are
then `Release`-d onto TLS (or dropped once `Cancel`led); later writes go
out at once (`SendNow`). It leaves open where writes wait and in which
order they leave. `TLSUpgrade` defines the mapping:

* `token`: `upgrading`, with `"resolved"` read as `"secured"`;
* `held`: the ids in `netDeferred` and in `handleWaiting`;
* `sent`: the ids and streams on `wire`;
* `issued` is the same; `cancelled` is `destroyed`.

`UpgradeTokenRefined == UT!Spec` is checked by TLC as a property, with the
abstract weak fairness of `Release`. `HeldWritesConsistent`, defined in
`TLSUpgradeRefinement_proofs`, is the invariant the mapping needs: the two holding places are never in use
together, deferred writes exist only while connecting, awaiting writes
only after it, and `connecting` implies a pending upgrade.

### `TlsServer`

Variables mirror `ServerImpl`: `unrefed` (`#unrefed`), `closed`
(`#closed`), `listeners` (each listener made by `listen()`, the last being
`this.listener`, with its state, ref flag and queued connections), `loops`
(each `#listen` call: not started, returned early, accepting, done),
`phase` (the listen callback is running), `closeCalled`, `closeEvent`
(the `nextTick` "close") and the counters `conns`, `errors`, `served`.
`Listen` is `listen()` up to its callback; `ListenLoop` is `#listen`'s
entry after it (unrefed: unref the listener and return). The accept
outcomes are `AcceptResolve`, `AcceptBadResource` (sets the shared
`#closed`) and `AcceptError` (swallowed). `ConnArrive` is the client side,
outside `src/`.

### `AbortListener`

`state` per registration (none, threw, added), `remover`
(`removeEventListener` is set), the signal's `algos` in insertion order,
`microtasks` (queued listener calls), and two histories: `calls` and
`added`. `AddAbortListener(r, valid)` has one disjunct per outcome: the
validation throws, the signal is already aborted (queue a microtask), or a
handler is added. `Dispose` is the returned disposer; `Abort` runs the
handlers in order; `RunMicrotask` runs the oldest queued call.

### `FsCommon`

A flag word is its set of bit positions, so `(flag & X) === X` is
`X \subseteq flag` and `customFlags &= ~X` is set difference.
`GetOpenOptions` applies `TranslateBlock` to the seven blocks one after
the other, in code order, as the code's seven `if` statements do.
`PlatformAssumption` states what every platform's values satisfy:
`O_RDONLY` is 0 and each other `O_*` flag is a single bit.
`StringAssumption` says a caller's encoding is never the model's null and
lower-casing leaves a string empty only when it was empty. TLC checks both
on `MC_FsCommon`. `GetEncoding` and `CheckEncoding` follow their branches;
lower-casing is the constant table `Lower`. Each state is the last call
(`OpenCall` or `EncodingCall`) and its result.

## 4. Runs

### Upgrade runs

The upgrade runs use `MC_TLSUpgrade`: `Protocols = {p1}`, `MaxWrites = 2`.
Every creation path and both values of `connected` and `pauseOnCreate` are
enumerated.

`tls_upgrade` (pass, 757 states) checks:

* `TypeOK`;
* `WritesNeverPlain`: no write is done on the plain transport;
* `UpgradeCompletes`: once the TLS connection is obtained, the upgrade ends
  with nothing held back unless destroyed;
* `StreamForward` (action property): the handle's stream only moves from
  none to plain to TLS. Its mutant is a `_start` that calls the hook
  without checking for a stream (line 94). That mutant starts TLS with no
  transport under it.

Two writes are enough: one held, then one made in a listener, shows
reordering. Every action and every disjunct fires. The same run checks
`UpgradeTokenRefined` (section 3).

The violation runs each check one property:

| Run | Property | Shows |
| --- | --- | --- |
| `tls_writes_in_order` | `WritesInOrder` | parked writes are overtaken by listener writes |
| `tls_secure_after_destroy` | `NoSecureConnectAfterDestroy` | `secureConnect` after `destroy()` |
| `tls_event_order` | `EventOrder` | `tls.connect()` emits connect and ready before the swap, and connect twice |

`tls_event_order` comes from the socket `tls.connect()` makes itself: it
is connected with `tlssock.connect(options, tlssock._start)` (line 466), so
`net.Socket`'s `afterConnect` emits connect and ready on the TLSSocket just
after the hook has started TLS, and the hook emits them again after the
swap. TLC's trace is two steps: `ConnectInternal`, then `TransportReady`.

A failed handshake is not a run: the hook swallows a rejected
`conn.handshake()` and swaps to the failed connection anyway (lines
195-203), which spec 8 forbids, but the comment at lines 196-197 says this
is deliberate (the first read or write reports the error). The model keeps
the rejection in `hsFailed`, and the hazard list records the difference.
| `tls_start_failure_hangs` | `StartedUpgradeSettles` | a `startTlsInternal` failure hangs silently |
| `tls_connected_socket_never_upgrades` | `ArmedHookFires` | `new TLSSocket(connectedSocket)` never upgrades |

### Identity runs

The identity runs use `MC_ServerIdentity`. Both hosts and patterns have 1-3
labels:

* the leftmost label has up to two characters from `a`, `*`, `xn--`, or is one
  of `A`, DEL, blank, non-ASCII;
* the other labels are `b`, `*` or empty.

The certificates are:

* a CN, or none;
* no SAN, or one SAN entry of kind DNS, IP or URI;
* IPv4, IPv4-mapped and IPv6 literals.

`server_identity` (pass, 43,264 states) checks `TypeOK`,
`CheckSoundOnDnsNames` and `VerifySound`.

The violation runs each check one property:

| Run | Property | Shows |
| --- | --- | --- |
| `identity_cn_throws` | `VerifyNeverThrows` | `ArrayIsArray` is unbound: the CN path throws |

Three smaller divergences of `check` from spec 4.2 are known and kept as
hazards, not runs. `*` matches an empty leftmost host label. A wildcard
label with `xn--` after its first character (`*xn--`) is compared verbatim
(`includes` instead of `startsWith`, line 594). `isBad` lets U+007F through
although its comment says control characters are rejected (line 575).
The pass run's `CheckSoundOnDnsNames` is stated for DNS host names only.

A fourth divergence is in `checkServerIdentity` (line 656): it unfqdn's the
hostname before `net.isIP`, and `splitHost` unfqdn's it again. A hostname
with two trailing dots is matched as if it had none, although spec 4.2
rejects a name with an empty label; an IP literal with a trailing dot is
compared as an address. `MC_ServerIdentity`'s hosts have at most one
trailing dot, and `VerifySoundOnPlainHosts` (section 6e) excludes exactly
these hostnames.

### Server, abort listener and fs runs

| Run | Expect | Properties | States |
| --- | --- | --- | --- |
| `tls_server` | pass | `TypeOK`, `UnrefedNeverKeepsAlive`, `LoopStopsAfterClose`, `QueuedConnectionServed` | 324 |
| `tls_server_double_listen` | violation | `LoopStopsAfterClose` | 5,784 |
| `abort_listener` | pass | `DisposedBeforeAbortNeverCalled`, `EventuallyCalled`, `CalledAfterReturn` | 472 |
| `fs_options` | pass | `FlagsTranslatedOnce`, `PosixFlagsHonoured`, `EncodingCaseInsensitive` | 288 |

* `tls_server` has one `listen()`, two connections and two swallowed
  errors: enough for unref, ref and close before, during (in the callback)
  and after the loop starts, for an error between two connections, and for
  a connection queued when close comes.
* `tls_server_double_listen` allows two `listen()` calls. TLC finds listen,
  listen, close: the second listener is closed, the first loop keeps
  accepting on its open listener for ever. The createServer test relies on
  close() leaving no accept pending.
* `abort_listener` has three registrations, each valid or not, added
  before or after `abort()` and disposed at any time. `CalledAfterReturn`
  (action property) says no listener is called before its
  `addAbortListener` call has returned; its mutant calls the listener
  synchronously instead of with `queueMicrotask` (line 26). That listeners
  run in add order (`CalledInAddOrder`) rests only on the signal running
  its handlers in insertion order and on the FIFO microtask queue, both
  outside `src/`; it is proved (section 6d) but not a run property, since
  no change to `abort_listener.mjs` can break it.
* `fs_options` enumerates every subset of the Linux open bits plus one
  untranslated bit (bit 20), and undefined; and every options argument
  over 13 encoding names in several cases.

## 5. Fairness

`Spec` assumes weak fairness of:

* `StartTlsResolved \/ StartTlsRejected`: the TLS engine settles the
  `startTlsInternal` promise;
* `Handshake`: it settles the handshake promise;
* `FlushWaiting`: promise reactions run.

The event loop runs every settled promise's reaction, so these are
justified.

`UpgradeToken` assumes weak fairness of `Release`; under the mapping it is
met by `TLSUpgrade`'s fairness of `FlushWaiting` and `Handshake`.

`TlsServer` assumes weak fairness of `ListenLoop` (the synchronous rest of
`listen()`), `EmitClose` (a `nextTick`), and of each loop's accept
resolving or rejecting with BadResource: Deno settles a pending accept when
a connection is queued or the listener is closed. Connections, errors and
the user's calls are not fair.

`AbortListener` assumes weak fairness of `RunMicrotask`: queued microtasks
run. `FsCommon` has no liveness. The transport connecting, the user's writes and destroy, and the
peer closing are not fair, because the environment may never do them.

## 6. Proofs (`TLSUpgrade_proofs`)

The proofs are checked by `tlapm`.

### `TypeCorrect`: `Spec => []TypeOK`

It holds for every `Protocols` and every `MaxWrites \in Nat`.

* `TypeOK` is split into three parts: the finite-type variables (Zenon), the
  write counter (SMT) and the sequence variables (SMT, with the lemmas
  `ConcatType`, `OnStreamType` and `NewIdsType`).
* `TypeInit` and `TypeNext` prove the parts separately, with one step per
  action.

### `NeverPlain`: `Spec => []WritesNeverPlain`

`WritesNeverPlain` alone is not inductive. A write made while
`upgrading = "resolved"` goes to the current stream, so the invariant is
strengthened:

* `IInv == TypeOK /\ WritesNeverPlain /\ (upgrading = "resolved" => stream = "tls")`;
* `IInv` was checked by TLC on the `tls_upgrade` instance before the proof.

The step proof has one case per action:

* `Handshake` swaps to TLS and resolves in the same step.
* `FlushWaiting` and `UserWrite` write only when `upgrading` is resolved.
* `TransportReady` requires no stream, which by the invariant means not
  resolved.
* The lemma `ConcatOnTls` covers appending writes on TLS.

## 6b. Proofs (`TLSUpgradeRefinement_proofs`)

### The invariant `RefInv`

`HeldWritesConsistent` says where a held write can be: never both deferred
by `net.Socket` and awaiting `handle.upgrading`, all issued, and the hook
in flight only while `handle.upgrading` is pending. It is not inductive alone: `Handshake` resolves the
upgrade and sends on the stream, so the proof needs `UpgradedIsTls` and
`TypeOK` from `TLSUpgrade_proofs`. `RefInv == TypeOK /\ UpgradedIsTls /\
HeldWritesConsistent` is shown inductive (`RefInvInit`, `RefInvNext`), one
case per action; `AppendBounded` covers the id bounds of a new write.

### `Refinement`: `Spec => UT!Init /\ [][UT!Next]_UT!vars`

It holds for every `Protocols` and `MaxWrites`. `RefStep` shows that under
`RefInv` and `RefInv'` each concrete step is an abstract step or a
stutter:

* `ConnectInternal`, `ConnectSocket`, `NewTLSSocket` are `Arm`;
* `UserWrite` is `Hold` (pending) or `SendNow` (resolved);
* `Handshake(r, k)` is `Secure(S, k)`, whatever the handshake result
  (the code swaps the stream either way): `S` is the ids of `netDeferred`,
  flushed by the `"connect"` event, and the `k` listener writes go to TLS;
* `FlushWaiting` is `Release` of `handleWaiting`'s ids, once the token is
  secured;
* `TransportReady`, `SetWorkaround` and the `startTlsInternal` outcomes
  leave the mapped state unchanged;
* `Destroy` and `End` are `Cancel`.

The lemmas `IdsOfAppend*`, `IdsOfConcat*` compute the mapped sets of
appended sequences. The fairness part of `UT!Spec` is checked by TLC only.

### `StreamMovesForward`: `Spec => StreamForward`

This is an action property. It is proved from
`StreamInv`: with no connect yet there is no stream and no handshake, and
`startTlsInternal` and the handshake run only over a plain stream. The
connect steps need `mode = "none"` and so find no stream. `TransportReady`
needs no stream. `Handshake` swaps a plain stream to TLS. No other step
touches the stream. `StreamStep` proves both that `StreamInv` is kept and
that each step is a `Forward` step, one case per action. TLC checked
`StreamInv` on the `tls_upgrade` instance first.

## 6c. Proofs (`TlsServer_proofs`)

### `UnrefedServerSafe`: `Spec => [](TypeInv /\ UnrefedOnlyOlderListeners)`

It holds for every `MaxListen >= 1`, `MaxConns` and `MaxErrors`.
`TypeInv` is `TypeOK` without `served <= MaxConns`, plus
`IncomingBound`: no listener has queued more connections than have
arrived. `UnrefedOnlyOlderListeners` says that while the server is unrefed,
a loop accepting on a refed, open listener belongs to a listener made
before `this.listener` (`i < Current`).

It is not inductive alone. The listen callback runs before `#listen`, and
an `unref()` in the callback must find `this.listener`'s loop not started,
so the invariant is strengthened with `CallbackBeforeLoop`:
`phase = "callback" => loops[Current] = "none"`. `IInv` is the
conjunction, checked by TLC on the `tls_server` instance first. The step
proof has one lemma per part (`FlagStep`, `CountStep`, `SeqStep`,
`UnrefedStep`, `CallbackStep`), each with one case per action.

### `UnrefedNeverKeepsAliveProved` (corollary)

With `MaxListen = 1`, as in the unref test, `i < Current` is impossible, so
`UnrefedNeverKeepsAlive` follows. With two `listen()` calls it does not
hold: unref() leaves the first listener refed (hazard at line 330). The
hypothesis is therefore the statement, not a convenience.

### `TypeCorrect`: `Spec => []TypeOK`

This adds `served <= MaxConns`. It holds for every `MaxListen >= 1`,
`MaxConns` and `MaxErrors`. A queued connection is counted as a pair
`<<i, k>>`: the k-th connection waiting on listener `i`. `QueuedIn` is that
finite set of pairs. The strengthening is
`ServedBound == served + Cardinality(QueuedIn(listeners)) <= conns`:

* every connection that arrived is served, still queued, or refused by
  `close()`;
* TLC checked `IInv /\ ServedBound` on a scratch instance with
  `MaxConns = 3` first.

Counting pairs instead of summing the `incoming` fields turns each step
into adding or removing one element of a finite set. The lemmas
`QueuedAdd`, `QueuedTake`, `QueuedDrop`, `QueuedAppend` and
`QueuedUnchanged` say which element, and `FS_AddElement`,
`FS_RemoveElement` and `FS_Subset` give the cardinality. `ServedStep` has
one case per action:

* an arrival adds one pair and one to `conns`;
* `accept()` moves one pair to `served`;
* `close()` only drops pairs;
* `listen()` appends an empty queue.

`served <= MaxConns` then follows from `conns <= MaxConns`.

## 6d. Proofs (`AbortListener_proofs`)

### `DisposeInvariant`, `DisposedEarlyNeverCalled`

`DisposedBeforeAbortNeverCalled` needs the queues' contents tied to the
registrations: `DisposeInv` says that handlers of distinct registrations
are distinct and removable until abort, that abort empties the handler
list, that nothing is queued before abort, that a disposer removes only
what its add installed, and that a disposed registration is in no queue.
`IInv == TypeOK /\ DisposeInv` is proved inductive, one lemma per action
(`AddStep`, `DisposeStep`, `AbortStep`, `MicrotaskStep`).

### `CalledAfterReturnProved`: `Spec => CalledAfterReturn`

An action property, from `OrderIInv` (below): abort() calls the handlers
on the signal and a microtask calls a queued registration, and every
element of those sequences is in `added`, i.e. in state "added";
`addAbortListener` and the disposers call nobody. `CallsReturnedStep`
has one case per kind of step.

### `CalledInAddOrderProved`

`OrderInv` adds that the registration sequence `added` has no repeats,
holds exactly the registrations in state "added", and that the handler
list and the calls-then-microtasks sequence are both ordered by position in
`added`. The lemmas `OrderedAppend`, `OrderedWithout` and
`OrderedPrefix` give the orders after an append, a removal and a pop.
The signal's removal is written with an explicit index map (`Without`), so
no recursive operator is involved.

## 6e. Proofs (`ServerIdentity_proofs`)

The proofs hold for every alphabet, every name length and every label
length, from two assumptions of `ServerIdentity`, which TLC evaluates on
every identity run:

* `CharsAssumption`: the special characters are distinct, and `LowerOf`
  (`toLowerCase` on A-Z) fixes them and maps no other character onto them;
* `NamesAssumption`: hosts and patterns given to `check()` are names, i.e.
  non-empty label sequences, as `split(".")` always returns.

### `CheckSound`

For a host that is a DNS name and any pattern, `Check(SplitHost(h), p,
TRUE) => RefMatch(h, p)`. The verbatim branch is direct. In the wildcard
branch, `SingleStar` fixes the star's position `i0`, the prefix and suffix
tests give the lengths, `SplitAround` cuts the host label into prefix, run
and suffix, and `DnsLabels` shows that a host label and hence the matched
pattern characters are printable. `CheckSoundOnDnsNamesProved` lifts it to
`Spec => []CheckSoundOnDnsNames` via `CheckRecorded`: a recorded check()
call holds its arguments and the value `check` returned.

### `TypeCorrect`, `VerifySoundOnPlainHosts`

`TypeCorrect` is `Spec => []TypeOK`. `VerifySoundOnPlainHosts` proves
`Spec => []VerifySound` for hostnames that are IP literals without a
trailing dot or DNS names with at most one, and certificates whose DNS SAN
values are names. The first hypothesis excludes the inputs on which the
code and spec 4.2 differ (section 4, identity runs), so it cannot be
dropped. `MC_ServerIdentity`'s hosts and certificates satisfy both. The
argument: `SansAgree` (the code and the reference collect the same SANs),
then `CheckSound` on the unfqdn'ed host, whose `SplitHost` equals the
host's.

## 6f. Proofs (`FsCommon_proofs`)

`Partial(flag, j)` is the result after the first `j` blocks:

* the options of the blocks among `1..j` whose bits are all in the flag;
* the flag without those blocks' bits.

`PartialStep` shows each block takes `Partial(flag, j - 1)` to
`Partial(flag, j)`. `OpenOptionsResult` chains the seven applications of
`GetOpenOptions`. From `PlatformAssumption`, a block's bits are in the flag
as soon as one of them is (`BlockAllOrNothing`). Then:

* `FlagsTranslatedOnceProved`: customFlags is the flag without every
  block's bits (`CustomIsRest`).
* `PosixFlagsHonouredProved`: each POSIX bit gives its option
  (`OptsHonoured`). `read` is always set, because `O_RDONLY` is 0.
* `EncodingCaseInsensitiveProved`: `getEncoding` never returns `""`, so
  `checkEncoding` of two names that lower-case alike sees the same
  lower-cased string (`CheckByLower`).

Each state holds only the last call and its result, so the three
properties are inductive as they stand. The assumptions are those of the
platform and of JavaScript strings, not of the model. With a two-bit
`O_RDWR`, for instance, a flag with one of the bits would pass that bit to
Deno as a custom flag and also not open for writing.

### What stays with TLC

* Liveness: `UpgradeCompletes`, the fairness part of the refinement,
  `LoopStopsAfterClose`, `QueuedConnectionServed`, `EventuallyCalled`, and
  the `~>` violations. TLAPS does not reason about `ENABLED` and fairness
  here.
* `EventOrder` (`TLSUpgrade`) is violated (run `tls_event_order`), so
  there is nothing to prove. It is stated with `SelectSeq`, defined by
  recursion over the trace, which would in any case need induction over
  sequences, which the installed provers cannot do.

## 7. Not modelled

* `isFileOptions`, `getSignal`, `maybeCallback` and `makeCallback` only
  test or forward their argument. The O_* values and lower-casing are
  platform constants of `MC_FsCommon`.
* `O_RDONLY` is 0, so `getOpenOptions` sets `read` for every numeric flag,
  write-only included. Nothing in the repository states the access an open
  must request, so this is a hazard without a property.
* `ServerImpl.address()` changes nothing. A second `close()` and a
  `listen()` from inside the listen callback are not modelled. The Deno
  listener is modelled by the outcomes `#listen` handles.
* `ref()` after an early `unref()` re-refs the listener but never starts
  the loop; nothing in the repository says what it should do.
* `addAbortListener`'s listeners do not call back into the signal.
* `splitEscapedAltNames`' character-level JSON parsing is reduced to "yields
  these entries or throws".
* `op_tls_canonicalize_ipv4_address` is outside `src/` and is a constant map
  `Canon`. Its IPv6 behaviour is assumed, not checked.
* Logging, error messages and options plumbing (ciphers, `minDHSize`
  assertions, session, servername warnings) do not change the upgrade's
  state.
