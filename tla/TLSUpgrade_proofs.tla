-------------------------- MODULE TLSUpgrade_proofs --------------------------
(***************************************************************************)
(* Proofs about the TLS upgrade of TLSUpgrade, for every set of protocols *)
(* and every bound on the writes.                                          *)
(***************************************************************************)
EXTENDS TLSUpgrade, TLAPS

-----------------------------------------------------------------------------
(***************************************************************************)
(* Lemmas on the sequence operators the steps use.                         *)
(***************************************************************************)

\* Writing ids on a stream gives pairs of an id and that stream.
LEMMA OnStreamType ==
  ASSUME NEW S, NEW T, NEW ids \in Seq(S), NEW s \in T
  PROVE  OnStream(ids, s) \in Seq(S \X T)
BY DEF OnStream

\* Joining two sequences over S gives a sequence over S.
LEMMA ConcatType ==
  ASSUME NEW S, NEW s \in Seq(S), NEW t \in Seq(S)
  PROVE  s \o t \in Seq(S)
OBVIOUS

\* Writing ids on the TLS connection after writes all done on it leaves
\* every write done on it.
LEMMA ConcatOnTls ==
  ASSUME NEW w \in Seq(WriteIds \X Streams), NEW ids \in Seq(WriteIds),
         \A i \in 1..Len(w) : w[i][2] = "tls"
  PROVE  LET v == w \o OnStream(ids, "tls") IN \A i \in 1..Len(v) : v[i][2] = "tls"
BY DEF OnStream

\* The ids a Handshake step issues are the next k write numbers.
LEMMA NewIdsType ==
  ASSUME NEW n \in Nat, NEW k \in Nat, n + k <= MaxWrites
  PROVE  [i \in 1..k |-> n + i] \in Seq(WriteIds)
BY MaxWritesAssumption DEF WriteIds

-----------------------------------------------------------------------------
(***************************************************************************)
(* Type correctness.  TypeOK is split into the variables of finite types   *)
(* (left to Zenon), the write counter (arithmetic, left to SMT) and the    *)
(* variables that hold sequences, so that each obligation stays small.     *)
(***************************************************************************)

FlagTypeOK ==
  /\ mode \in Modes
  /\ stream \in Streams
  /\ hookArmed \in BOOLEAN
  /\ workaround \in BOOLEAN
  /\ hs \in HsStates
  /\ hsFailed \in BOOLEAN
  /\ upgrading \in {"none", "pending", "resolved"}
  /\ connecting \in BOOLEAN
  /\ pauseOnCreate \in BOOLEAN
  /\ reading \in BOOLEAN
  /\ alpn \in Protocols \cup {AlpnNull, AlpnFalse}
  /\ endListener \in BOOLEAN
  /\ hadError \in BOOLEAN
  /\ destroyed \in BOOLEAN

IssuedTypeOK == issued \in 0..MaxWrites

SeqTypeOK ==
  /\ trace \in Seq(Events)
  /\ netDeferred \in Seq(WriteIds)
  /\ handleWaiting \in Seq(WriteIds)
  /\ wire \in Seq(WriteIds \X Streams)

LEMMA TypeOKSplit ==
  /\ TypeOK <=> FlagTypeOK /\ IssuedTypeOK /\ SeqTypeOK
  /\ TypeOK' <=> FlagTypeOK' /\ IssuedTypeOK' /\ SeqTypeOK'
BY Zenon DEF TypeOK, FlagTypeOK, IssuedTypeOK, SeqTypeOK

\* The initial state has the types the code gives the variables.
LEMMA TypeInit == Init => TypeOK
<1> SUFFICES ASSUME Init PROVE FlagTypeOK /\ IssuedTypeOK /\ SeqTypeOK
  BY TypeOKSplit
<1>1. FlagTypeOK
  BY Zenon DEF Init, FlagTypeOK, Modes, Streams, HsStates
<1>2. IssuedTypeOK
  BY MaxWritesAssumption DEF Init, IssuedTypeOK
<1>3. SeqTypeOK
  BY DEF Init, SeqTypeOK
<1>4. QED
  BY <1>1, <1>2, <1>3

\* Every step of the socket, the hook and the application keeps each
\* variable in the type the code gives it.
LEMMA TypeNext == TypeOK /\ [Next]_vars => TypeOK'
<1> SUFFICES ASSUME FlagTypeOK, IssuedTypeOK, SeqTypeOK, [Next]_vars
             PROVE  FlagTypeOK' /\ IssuedTypeOK' /\ SeqTypeOK'
  BY TypeOKSplit
<1> USE MaxWritesAssumption DEF FlagTypeOK, IssuedTypeOK, SeqTypeOK
<1>1. ASSUME NEW p \in BOOLEAN, ConnectInternal(p)
      PROVE  FlagTypeOK' /\ IssuedTypeOK' /\ SeqTypeOK'
  <2>1. FlagTypeOK'
    BY <1>1, Zenon DEF ConnectInternal, Modes
  <2>2. QED
    BY <1>1, <2>1 DEF ConnectInternal
<1>2. ASSUME NEW c \in BOOLEAN, NEW p \in BOOLEAN, ConnectSocket(c, p)
      PROVE  FlagTypeOK' /\ IssuedTypeOK' /\ SeqTypeOK'
  <2>1. FlagTypeOK'
    BY <1>2, Zenon DEF ConnectSocket, Modes, Streams, HsStates
  <2>2. QED
    BY <1>2, <2>1 DEF ConnectSocket
<1>3. ASSUME NEW c \in BOOLEAN, NEW p \in BOOLEAN, NewTLSSocket(c, p)
      PROVE  FlagTypeOK' /\ IssuedTypeOK' /\ SeqTypeOK'
  <2>1. FlagTypeOK'
    BY <1>3, Zenon DEF NewTLSSocket, Modes, Streams
  <2>2. QED
    BY <1>3, <2>1 DEF NewTLSSocket
<1>4. CASE TransportReady
  <2>1. FlagTypeOK'
    BY <1>4, Zenon DEF TransportReady, AfterConnectTls, TransportEvents, Streams, HsStates
  <2>2. trace' \in Seq(Events)
    <3>1. Append(trace, "secureConnect") \in Seq(Events)
      BY DEF Events
    <3>2. TransportEvents \in Seq(Events)
      <4>1. <<"connect", "ready">> \in Seq(Events) /\ <<>> \in Seq(Events)
        BY DEF Events
      <4>2. QED
        BY <4>1 DEF TransportEvents
    <3>3. \/ trace' = Append(trace, "secureConnect") \o TransportEvents
          \/ trace' = trace \o TransportEvents
      BY <1>4, Zenon DEF TransportReady, AfterConnectTls
    <3>4. \A s, t \in Seq(Events) : s \o t \in Seq(Events)
      OBVIOUS
    <3>5. QED
      BY <3>1, <3>2, <3>3, <3>4
  <2>3. QED
    BY <1>4, <2>1, <2>2 DEF TransportReady
<1>5. CASE SetWorkaround
  <2>1. FlagTypeOK'
    BY <1>5, Zenon DEF SetWorkaround
  <2>2. QED
    BY <1>5, <2>1 DEF SetWorkaround
<1>6. CASE StartTlsResolved
  <2>1. FlagTypeOK'
    <3>1. hs' \in HsStates
      BY <1>6 DEF StartTlsResolved, HsStates
    <3>2. QED
      BY <1>6, <3>1, ZenonT(60) DEF StartTlsResolved
  <2>2. QED
    BY <1>6, <2>1 DEF StartTlsResolved
<1>7. CASE StartTlsRejected
  <2>1. FlagTypeOK'
    <3>1. hs' \in HsStates
      BY <1>7 DEF StartTlsRejected, HsStates
    <3>2. QED
      BY <1>7, <3>1, ZenonT(60) DEF StartTlsRejected
  <2>2. QED
    BY <1>7, <2>1 DEF StartTlsRejected
<1>8. ASSUME NEW r \in HandshakeResults, NEW k \in 0..MaxWrites,
             Handshake(r, k)
      PROVE  FlagTypeOK' /\ IssuedTypeOK' /\ SeqTypeOK'
  <2> DEFINE newIds == [i \in 1..k |-> issued + i]
  <2>1. alpn' \in Protocols \cup {AlpnNull, AlpnFalse}
    BY <1>8 DEF Handshake, AlpnOf
  <2>2. FlagTypeOK'
    BY <1>8, <2>1, Zenon
    DEF Handshake, SwapToTls, ResolveUpgrading, Streams, HsStates
  <2>3. IssuedTypeOK'
    BY <1>8 DEF Handshake
  <2>4. trace' \in Seq(Events)
    <3>1. <<"connect", "ready", "secureConnect">> \in Seq(Events)
      BY DEF Events
    <3>2. QED
      BY <1>8, <3>1, ConcatType DEF Handshake
  <2>5. newIds \in Seq(WriteIds)
    <3>1. issued \in Nat /\ k \in Nat /\ issued + k <= MaxWrites
      BY <1>8 DEF Handshake
    <3>2. QED
      BY <3>1, NewIdsType
  <2>6. netDeferred \o newIds \in Seq(WriteIds)
    BY <2>5, ConcatType
  <2>7. OnStream(netDeferred \o newIds, "tls") \in Seq(WriteIds \X Streams)
    BY <2>6, OnStreamType DEF Streams
  <2>8. wire' \in Seq(WriteIds \X Streams)
    BY <1>8, <2>7, ConcatType DEF Handshake, SwapToTls
  <2>9. QED
    BY <1>8, <2>2, <2>3, <2>4, <2>8 DEF Handshake
<1>9. CASE FlushWaiting
  <2>1. wire' \in Seq(WriteIds \X Streams)
    BY <1>9, OnStreamType, ConcatType DEF FlushWaiting
  <2>2. FlagTypeOK'
    BY <1>9, ZenonT(60) DEF FlushWaiting
  <2>3. QED
    BY <1>9, <2>1, <2>2 DEF FlushWaiting
<1>10. CASE UserWrite
  <2>1. issued + 1 \in WriteIds /\ IssuedTypeOK'
    BY <1>10 DEF UserWrite, WriteIds
  <2>2. FlagTypeOK'
    BY <1>10, Zenon DEF UserWrite
  <2>3. <<issued + 1, stream>> \in WriteIds \X Streams
    BY <2>1
  <2>4. SeqTypeOK'
    <3>1. /\ Append(netDeferred, issued + 1) \in Seq(WriteIds)
          /\ Append(handleWaiting, issued + 1) \in Seq(WriteIds)
          /\ Append(wire, <<issued + 1, stream>>) \in Seq(WriteIds \X Streams)
      BY <2>1, <2>3
    <3>2. QED
      BY <1>10, <3>1, Zenon DEF UserWrite
  <2>5. QED
    BY <2>1, <2>2, <2>4
<1>11. CASE Destroy
  <2>1. FlagTypeOK'
    BY <1>11, Zenon DEF Destroy
  <2>2. QED
    BY <1>11, <2>1 DEF Destroy, Events
<1>12. CASE End
  <2>1. trace' \in Seq(Events)
    <3>1. <<"error", "destroy">> \in Seq(Events)
      BY DEF Events
    <3>2. Append(trace, "destroy") \in Seq(Events)
      BY DEF Events
    <3>3. QED
      BY <1>12, <3>1, <3>2, ConcatType DEF End
  <2>2. FlagTypeOK'
    BY <1>12, Zenon DEF End
  <2>3. QED
    BY <1>12, <2>1, <2>2 DEF End
<1>13. CASE UNCHANGED vars
  BY <1>13 DEF vars
<1>14. QED
  BY <1>1, <1>2, <1>3, <1>4, <1>5, <1>6, <1>7, <1>8, <1>9, <1>10, <1>11,
     <1>12, <1>13 DEF Next

\* TypeOK holds in every state of every behaviour (for every set of
\* protocols and every bound on the writes).
THEOREM TypeCorrect == Spec => []TypeOK
BY TypeInit, TypeNext, PTL DEF Spec

-----------------------------------------------------------------------------
(***************************************************************************)
(* No application write goes out on the plain transport.  WritesNeverPlain *)
(* alone is not inductive: a write done while handle.upgrading is resolved *)
(* goes to the handle's current stream, so the invariant must also say     *)
(* that a resolved upgrading implies the swap to TLS has happened.         *)
(***************************************************************************)

UpgradedIsTls == upgrading = "resolved" => stream = "tls"

IInv == TypeOK /\ WritesNeverPlain /\ UpgradedIsTls

\* Whatever the interleaving of writes, the transport connecting, the hook's
\* awaits and destroy, every write issued on the TLSSocket is done on the
\* TLS connection: the writes net.Socket deferred and those awaiting
\* handle.upgrading are released only after the swap at line 203.
THEOREM NeverPlain == Spec => []WritesNeverPlain
<1>1. Init => IInv
  BY TypeInit DEF Init, IInv, WritesNeverPlain, UpgradedIsTls
<1>2. IInv /\ [Next]_vars => IInv'
  <2> SUFFICES ASSUME TypeOK, WritesNeverPlain, UpgradedIsTls, [Next]_vars
               PROVE  IInv'
    BY DEF IInv
  <2>1. TypeOK'
    BY TypeNext
  <2>2. /\ wire \in Seq(WriteIds \X Streams)
        /\ netDeferred \in Seq(WriteIds)
        /\ handleWaiting \in Seq(WriteIds)
        /\ issued \in 0..MaxWrites
    BY DEF TypeOK
  <2> DEFINE Goal == WritesNeverPlain' /\ UpgradedIsTls'
  <2> SUFFICES Goal
    BY <2>1 DEF IInv, Goal
  <2>3. CASE \E p \in BOOLEAN : ConnectInternal(p)
    BY <2>3 DEF ConnectInternal, Goal, WritesNeverPlain, UpgradedIsTls
  <2>4. CASE \E c, p \in BOOLEAN : ConnectSocket(c, p) \/ NewTLSSocket(c, p)
    BY <2>4 DEF ConnectSocket, NewTLSSocket, Goal, WritesNeverPlain,
                UpgradedIsTls
  <2>5. CASE TransportReady
    BY <2>5 DEF TransportReady, Goal, WritesNeverPlain, UpgradedIsTls
  <2>6. CASE SetWorkaround \/ StartTlsResolved \/ StartTlsRejected
    BY <2>6 DEF SetWorkaround, StartTlsResolved, StartTlsRejected, Goal,
                WritesNeverPlain, UpgradedIsTls
  <2>7. CASE \E r \in HandshakeResults, k \in 0..MaxWrites : Handshake(r, k)
    <3>1. PICK r \in HandshakeResults, k \in 0..MaxWrites : Handshake(r, k)
      BY <2>7
    <3>2. stream' = "tls" /\ upgrading' = "resolved"
      BY <3>1 DEF Handshake, SwapToTls, ResolveUpgrading
    <3> DEFINE ids == netDeferred \o [i \in 1..k |-> issued + i]
    <3>3. ids \in Seq(WriteIds)
      <4>1. [i \in 1..k |-> issued + i] \in Seq(WriteIds)
        <5>1. issued \in Nat /\ k \in Nat /\ issued + k <= MaxWrites
          BY <2>2, <3>1 DEF Handshake
        <5>2. QED
          BY <5>1, NewIdsType
      <4>2. QED
        BY <2>2, <4>1, ConcatType
    <3>4. \A i \in 1..Len(wire \o OnStream(ids, "tls")) :
             (wire \o OnStream(ids, "tls"))[i][2] = "tls"
      <4>1. \A i \in 1..Len(wire) : wire[i][2] = "tls"
        BY DEF WritesNeverPlain
      <4>2. QED
        BY <2>2, <3>3, <4>1, ConcatOnTls
    <3>5. wire' = wire \/ wire' = wire \o OnStream(ids, "tls")
      BY <3>1, <3>2 DEF Handshake
    <3>6. QED
      BY <3>2, <3>4, <3>5 DEF Goal, WritesNeverPlain, UpgradedIsTls
  <2>8. CASE FlushWaiting
    <3>1. stream = "tls"
      BY <2>8 DEF FlushWaiting, MicrotaskPending, UpgradedIsTls
    <3>2. \A i \in 1..Len(wire \o OnStream(handleWaiting, "tls")) :
             (wire \o OnStream(handleWaiting, "tls"))[i][2] = "tls"
      <4>1. \A i \in 1..Len(wire) : wire[i][2] = "tls"
        BY DEF WritesNeverPlain
      <4>2. QED
        BY <2>2, <4>1, ConcatOnTls
    <3>3. QED
      BY <2>8, <3>1, <3>2 DEF FlushWaiting, Goal, WritesNeverPlain,
                              UpgradedIsTls
  <2>9. CASE UserWrite
    <3>1. upgrading = "resolved" => stream = "tls"
      BY DEF UpgradedIsTls
    <3>2. QED
      BY <2>9, <3>1 DEF UserWrite, Goal, WritesNeverPlain, UpgradedIsTls
  <2>10. CASE Destroy \/ End
    BY <2>10 DEF Destroy, End, Goal, WritesNeverPlain, UpgradedIsTls
  <2>11. CASE UNCHANGED vars
    BY <2>11 DEF vars, Goal, WritesNeverPlain, UpgradedIsTls
  <2>12. QED
    BY <2>3, <2>4, <2>5, <2>6, <2>7, <2>8, <2>9, <2>10, <2>11 DEF Next
<1>3. IInv => WritesNeverPlain
  BY DEF IInv
<1>4. QED
  BY <1>1, <1>2, <1>3, PTL DEF Spec
-----------------------------------------------------------------------------
(***************************************************************************)
(* The stream only moves forward.  A connect step is the only one that     *)
(* can take the stream away from what it was, and it runs only before the  *)
(* socket exists, when there is no stream; the handshake swaps to TLS, and  *)
(* it starts only from startTlsInternal, which runs only once the handle    *)
(* has a plain stream.                                                     *)
(***************************************************************************)

StreamInv ==
  /\ mode = "none" => stream = "none" /\ hs = "idle"
  /\ hs \in {"startTls", "handshake"} => stream = "plain"

\* The step relation of StreamForward.
Forward ==
  \/ stream' = stream
  \/ <<stream, stream'>> \in {<<"none", "plain">>, <<"plain", "tls">>}

\* Every step keeps StreamInv and moves the stream forward.
LEMMA StreamStep == StreamInv /\ [Next]_vars => StreamInv' /\ Forward
<1> SUFFICES ASSUME StreamInv, [Next]_vars PROVE StreamInv' /\ Forward
  OBVIOUS
<1> USE DEF StreamInv, Forward
<1>1. CASE \E p \in BOOLEAN : ConnectInternal(p)
  BY <1>1, Zenon DEF ConnectInternal
<1>2. CASE \E c, p \in BOOLEAN : ConnectSocket(c, p) \/ NewTLSSocket(c, p)
  BY <1>2, Zenon DEF ConnectSocket, NewTLSSocket
<1>3. CASE TransportReady
  BY <1>3, Zenon DEF TransportReady, AfterConnectTls, TransportEvents
<1>4. CASE SetWorkaround \/ StartTlsResolved \/ StartTlsRejected
  BY <1>4, Zenon DEF SetWorkaround, StartTlsResolved, StartTlsRejected
<1>5. CASE \E r \in HandshakeResults, k \in 0..MaxWrites : Handshake(r, k)
  BY <1>5, Zenon DEF Handshake, SwapToTls
<1>6. CASE FlushWaiting \/ UserWrite \/ Destroy \/ End
  BY <1>6, Zenon DEF FlushWaiting, UserWrite, Destroy, End
<1>7. CASE UNCHANGED vars
  BY <1>7 DEF vars
<1>8. QED
  BY <1>1, <1>2, <1>3, <1>4, <1>5, <1>6, <1>7 DEF Next

\* Whatever the connect path and the interleaving of the transport, the
\* hook, the handshake and destroy, the socket never falls back from TLS to
\* the plain transport, and the TLS connection replaces only a connected
\* plain transport.
THEOREM StreamMovesForward == Spec => StreamForward
<1>1. Init => StreamInv
  BY DEF Init, StreamInv
<1>2. StreamInv /\ [Next]_vars => StreamInv'
  BY StreamStep
<1>3. StreamInv /\ [Next]_vars => [Forward]_vars
  BY StreamStep
<1>4. QED
  BY <1>1, <1>2, <1>3, PTL DEF Spec, StreamForward, Forward

=============================================================================
