--------------------- MODULE TLSUpgradeRefinement_proofs ---------------------
(***************************************************************************)
(* Proof that the upgrade of TLSUpgrade implements the safety part of the  *)
(* abstract Upgrade Token (UpgradeToken), under the refinement mapping UT, *)
(* for every set of protocols and every bound on the writes.               *)
(*                                                                         *)
(* The mapping is a function of the state, but a step maps to an abstract  *)
(* step only in reachable states: a write released by the handshake must  *)
(* not also be awaiting handle.upgrading, the hook must be in flight only  *)
(* while handle.upgrading is pending, and a write made once it resolved    *)
(* must go to TLS.  RefInv collects what is needed: the type invariant,    *)
(* UpgradedIsTls, and HeldWritesConsistent.                                *)
(***************************************************************************)
EXTENDS TLSUpgrade_proofs

\* Where a held write can be: net.Socket defers writes only while the
\* socket is connecting, whose end (the "connect" the hook emits) also
\* resolves handle.upgrading, and writes await handle.upgrading only
\* after it; so the two holding places are never both in use, every held
\* write has been issued, and the upgrade's steps (awaits, read start)
\* happen only while handle.upgrading is in the state they expect
\* (net.Socket._writeGeneric with afterConnectTls lines 184-214).
HeldWritesConsistent ==
  /\ (mode = "none") <=> (upgrading = "none")
  /\ connecting => upgrading = "pending"
  /\ netDeferred # <<>> => connecting
  /\ handleWaiting # <<>> => ~connecting /\ upgrading # "none"
  /\ hs \in {"startTls", "handshake"} => upgrading = "pending"
  /\ reading => upgrading = "resolved"
  /\ \A i \in DOMAIN netDeferred : netDeferred[i] \in 1..issued
  /\ \A i \in DOMAIN handleWaiting : handleWaiting[i] \in 1..issued

RefInv == TypeOK /\ UpgradedIsTls /\ HeldWritesConsistent

-----------------------------------------------------------------------------
(***************************************************************************)
(* The invariant.                                                          *)
(***************************************************************************)

\* Every id in an appended sequence is bounded as before or is the new one.
LEMMA AppendBounded ==
  ASSUME NEW s \in Seq(WriteIds), NEW n \in Nat,
         \A i \in DOMAIN s : s[i] \in 1..n
  PROVE  \A i \in DOMAIN Append(s, n + 1) : Append(s, n + 1)[i] \in 1..n + 1
OBVIOUS

LEMMA RefInvInit == Init => RefInv
<1> SUFFICES ASSUME Init PROVE RefInv
  OBVIOUS
<1>1. TypeOK
  BY TypeInit
<1>2. UpgradedIsTls
  BY DEF Init, UpgradedIsTls
<1>3. HeldWritesConsistent
  BY DEF Init, HeldWritesConsistent
<1>4. QED
  BY <1>1, <1>2, <1>3 DEF RefInv

LEMMA RefInvNext == RefInv /\ [Next]_vars => RefInv'
<1> SUFFICES ASSUME TypeOK, UpgradedIsTls, HeldWritesConsistent, [Next]_vars
             PROVE  RefInv'
  BY DEF RefInv
<1>1. TypeOK'
  BY TypeNext
<1>2. /\ netDeferred \in Seq(WriteIds)
      /\ handleWaiting \in Seq(WriteIds)
      /\ issued \in 0..MaxWrites
      /\ mode \in Modes
      /\ upgrading \in {"none", "pending", "resolved"}
      /\ stream \in Streams
  BY DEF TypeOK
<1> DEFINE Goal == UpgradedIsTls' /\ HeldWritesConsistent'
<1> SUFFICES Goal
  BY <1>1 DEF RefInv, Goal
<1> USE DEF Goal, UpgradedIsTls, HeldWritesConsistent
<1>3. CASE \E p \in BOOLEAN : ConnectInternal(p)
  BY <1>3 DEF ConnectInternal
<1>4. CASE \E c, p \in BOOLEAN : ConnectSocket(c, p)
  BY <1>4 DEF ConnectSocket
<1>5. CASE \E c, p \in BOOLEAN : NewTLSSocket(c, p)
  BY <1>5 DEF NewTLSSocket
<1>6. CASE TransportReady
  <2>1. upgrading = "pending"
    BY <1>2, <1>6 DEF TransportReady
  <2>2. QED
    BY <1>6, <2>1 DEF TransportReady, AfterConnectTls, TransportEvents
<1>7. CASE SetWorkaround \/ StartTlsResolved \/ StartTlsRejected
  BY <1>7 DEF SetWorkaround, StartTlsResolved, StartTlsRejected
<1>8. CASE \E r \in HandshakeResults, k \in 0..MaxWrites : Handshake(r, k)
  <2>1. PICK r \in HandshakeResults, k \in 0..MaxWrites : Handshake(r, k)
    BY <1>8
  <2>2. /\ stream' = "tls" /\ upgrading' = "resolved"
        /\ connecting' = FALSE /\ netDeferred' = <<>> /\ hs' = "done"
        /\ handleWaiting' = handleWaiting /\ mode' = mode
        /\ issued' = issued + k
    BY <2>1 DEF Handshake, SwapToTls, ResolveUpgrading
  <2>3. upgrading = "pending" /\ mode # "none"
    BY <2>1 DEF Handshake
  <2>4. \A i \in DOMAIN handleWaiting : handleWaiting[i] \in 1..issued'
    BY <1>2, <2>2
  <2>5. QED
    BY <2>2, <2>3, <2>4
<1>9. CASE FlushWaiting
  BY <1>9 DEF FlushWaiting, MicrotaskPending
<1>10. CASE UserWrite
  <2>1. /\ issued' = issued + 1 /\ mode # "none"
        /\ UNCHANGED <<mode, upgrading, connecting, hs, reading, stream>>
    BY <1>10 DEF UserWrite
  <2>2. /\ \A i \in DOMAIN netDeferred : netDeferred[i] \in 1..issued'
        /\ \A i \in DOMAIN handleWaiting : handleWaiting[i] \in 1..issued'
    BY <1>2, <2>1
  <2>3. CASE connecting
    <3>1. netDeferred' = Append(netDeferred, issued + 1)
          /\ handleWaiting' = handleWaiting
      BY <1>10, <2>3 DEF UserWrite
    <3>2. \A i \in DOMAIN netDeferred' : netDeferred'[i] \in 1..issued'
      BY <1>2, <2>1, <3>1, AppendBounded
    <3>3. QED
      BY <2>1, <2>2, <2>3, <3>1, <3>2
  <2>4. CASE ~connecting /\ upgrading = "pending"
    <3>1. handleWaiting' = Append(handleWaiting, issued + 1)
          /\ netDeferred' = netDeferred
      BY <1>10, <2>4 DEF UserWrite
    <3>2. \A i \in DOMAIN handleWaiting' : handleWaiting'[i] \in 1..issued'
      BY <1>2, <2>1, <3>1, AppendBounded
    <3>3. QED
      BY <2>1, <2>2, <2>4, <3>1, <3>2
  <2>5. CASE ~connecting /\ upgrading # "pending"
    <3>1. UNCHANGED <<netDeferred, handleWaiting>>
      BY <1>10, <2>5 DEF UserWrite
    <3>2. QED
      BY <2>1, <2>2, <3>1
  <2>6. QED
    BY <2>3, <2>4, <2>5
<1>11. CASE Destroy \/ End
  BY <1>11 DEF Destroy, End
<1>12. CASE UNCHANGED vars
  BY <1>12 DEF vars
<1>13. QED
  BY <1>3, <1>4, <1>5, <1>6, <1>7, <1>8, <1>9, <1>10, <1>11, <1>12 DEF Next

-----------------------------------------------------------------------------
(***************************************************************************)
(* The ids a step adds to or takes from the mapped sets.                   *)
(***************************************************************************)

LEMMA IdsOfEmpty == IdsOf(<<>>) = {}
BY DEF IdsOf

\* Appending a write number adds it to the held ids.
LEMMA IdsOfAppendIds ==
  ASSUME NEW s \in Seq(WriteIds), NEW x \in WriteIds
  PROVE  IdsOf(Append(s, x)) = IdsOf(s) \cup {x}
<1>1. IdsOf(Append(s, x)) \subseteq IdsOf(s) \cup {x}
  <2> SUFFICES ASSUME NEW i \in 1..Len(s) + 1
               PROVE  Append(s, x)[i] \in IdsOf(s) \cup {x}
    BY DEF IdsOf
  <2>1. CASE i <= Len(s)
    BY <2>1 DEF IdsOf
  <2>2. CASE i = Len(s) + 1
    BY <2>2
  <2>3. QED
    BY <2>1, <2>2
<1>2. IdsOf(s) \subseteq IdsOf(Append(s, x))
  BY DEF IdsOf
<1>3. x \in IdsOf(Append(s, x))
  <2>1. Len(s) + 1 \in DOMAIN Append(s, x) /\ Append(s, x)[Len(s) + 1] = x
    OBVIOUS
  <2>2. QED
    BY <2>1 DEF IdsOf
<1>4. QED
  BY <1>1, <1>2, <1>3

\* Appending a write to the wire adds it to the sent writes.
LEMMA IdsOfAppendWire ==
  ASSUME NEW s \in Seq(WriteIds \X Streams), NEW x \in WriteIds \X Streams
  PROVE  IdsOf(Append(s, x)) = IdsOf(s) \cup {x}
<1>1. IdsOf(Append(s, x)) \subseteq IdsOf(s) \cup {x}
  <2> SUFFICES ASSUME NEW i \in 1..Len(s) + 1
               PROVE  Append(s, x)[i] \in IdsOf(s) \cup {x}
    BY DEF IdsOf
  <2>1. CASE i <= Len(s)
    BY <2>1 DEF IdsOf
  <2>2. CASE i = Len(s) + 1
    BY <2>2
  <2>3. QED
    BY <2>1, <2>2
<1>2. IdsOf(s) \subseteq IdsOf(Append(s, x))
  BY DEF IdsOf
<1>3. x \in IdsOf(Append(s, x))
  <2>1. Len(s) + 1 \in DOMAIN Append(s, x) /\ Append(s, x)[Len(s) + 1] = x
    OBVIOUS
  <2>2. QED
    BY <2>1 DEF IdsOf
<1>4. QED
  BY <1>1, <1>2, <1>3

\* Joining two sequences of write numbers joins their ids.
LEMMA IdsOfConcatIds ==
  ASSUME NEW s \in Seq(WriteIds), NEW t \in Seq(WriteIds)
  PROVE  IdsOf(s \o t) = IdsOf(s) \cup IdsOf(t)
<1>1. IdsOf(s \o t) \subseteq IdsOf(s) \cup IdsOf(t)
  <2> SUFFICES ASSUME NEW i \in 1..Len(s) + Len(t)
               PROVE  (s \o t)[i] \in IdsOf(s) \cup IdsOf(t)
    BY DEF IdsOf
  <2>1. CASE i <= Len(s)
    BY <2>1 DEF IdsOf
  <2>2. CASE i > Len(s)
    <3>1. i - Len(s) \in 1..Len(t) /\ (s \o t)[i] = t[i - Len(s)]
      BY <2>2
    <3>2. QED
      BY <3>1 DEF IdsOf
  <2>3. QED
    BY <2>1, <2>2
<1>2. IdsOf(s) \cup IdsOf(t) \subseteq IdsOf(s \o t)
  <2>1. IdsOf(s) \subseteq IdsOf(s \o t)
    BY DEF IdsOf
  <2>2. IdsOf(t) \subseteq IdsOf(s \o t)
    <3> SUFFICES ASSUME NEW j \in 1..Len(t)
                 PROVE  t[j] \in IdsOf(s \o t)
      BY SMTT(60) DEF IdsOf
    <3>1. Len(s) + j \in DOMAIN (s \o t) /\ (s \o t)[Len(s) + j] = t[j]
      OBVIOUS
    <3>2. QED
      BY <3>1 DEF IdsOf
  <2>3. QED
    BY <2>1, <2>2
<1>3. QED
  BY <1>1, <1>2

\* The same for the wire and writes done on TLS.
LEMMA IdsOfConcatWire ==
  ASSUME NEW s \in Seq(WriteIds \X Streams), NEW ids \in Seq(WriteIds)
  PROVE  IdsOf(s \o OnStream(ids, "tls"))
           = IdsOf(s) \cup UT!OnTls(IdsOf(ids))
<1> DEFINE t == OnStream(ids, "tls")
<1>1. t \in Seq(WriteIds \X Streams)
  BY OnStreamType DEF Streams
<1>2. IdsOf(t) = UT!OnTls(IdsOf(ids))
  BY DEF IdsOf, OnStream, UT!OnTls
<1>3. IdsOf(s \o t) \subseteq IdsOf(s) \cup IdsOf(t)
  <2> SUFFICES ASSUME NEW i \in 1..Len(s) + Len(t)
               PROVE  (s \o t)[i] \in IdsOf(s) \cup IdsOf(t)
    BY <1>1 DEF IdsOf
  <2>1. CASE i <= Len(s)
    BY <1>1, <2>1 DEF IdsOf
  <2>2. CASE i > Len(s)
    <3>1. i - Len(s) \in 1..Len(t) /\ (s \o t)[i] = t[i - Len(s)]
      BY <1>1, <2>2
    <3>2. QED
      BY <3>1 DEF IdsOf
  <2>3. QED
    BY <2>1, <2>2
<1>4. IdsOf(s) \cup IdsOf(t) \subseteq IdsOf(s \o t)
  <2>1. IdsOf(s) \subseteq IdsOf(s \o t)
    BY <1>1 DEF IdsOf
  <2>2. IdsOf(t) \subseteq IdsOf(s \o t)
    <3> SUFFICES ASSUME NEW j \in 1..Len(t)
                 PROVE  t[j] \in IdsOf(s \o t)
      BY DEF IdsOf
    <3>1. Len(s) + j \in DOMAIN (s \o t) /\ (s \o t)[Len(s) + j] = t[j]
      BY <1>1
    <3>2. QED
      BY <3>1 DEF IdsOf
  <2>3. QED
    BY <2>1, <2>2
<1>5. QED
  BY <1>2, <1>3, <1>4

\* The ids a Handshake step issues.
LEMMA IdsOfNewIds ==
  ASSUME NEW n \in Nat, NEW k \in Nat
  PROVE  IdsOf([i \in 1..k |-> n + i]) = n + 1 .. n + k
<1>1. IdsOf([i \in 1..k |-> n + i]) \subseteq n + 1 .. n + k
  BY DEF IdsOf
<1>2. n + 1 .. n + k \subseteq IdsOf([i \in 1..k |-> n + i])
  <2> SUFFICES ASSUME NEW x \in n + 1 .. n + k
               PROVE  x \in IdsOf([i \in 1..k |-> n + i])
    OBVIOUS
  <2>1. x - n \in 1..k /\ x = n + (x - n)
    OBVIOUS
  <2>2. QED
    BY <2>1 DEF IdsOf
<1>3. QED
  BY <1>1, <1>2



-----------------------------------------------------------------------------
(***************************************************************************)
(* Every step of the upgrade is a step of the Upgrade Token or leaves the  *)
(* mapped state alone: tls.connect() and new TLSSocket() arm the token, a  *)
(* write is held, sent at once or, by the handshake and by the flush of    *)
(* the writes awaiting handle.upgrading, released; destroy and end cancel. *)
(***************************************************************************)

HeldIds == IdsOf(netDeferred) \cup IdsOf(handleWaiting)

\* The mapped state is left alone.
LEMMA MappedUnchanged ==
  ASSUME UNCHANGED <<upgrading, netDeferred, handleWaiting, wire, issued,
                     destroyed>>
  PROVE  UNCHANGED UT!vars
BY DEF UT!vars, TokenOf

LEMMA RefStep ==
  ASSUME RefInv, RefInv', [Next]_vars
  PROVE  [UT!Next]_UT!vars
<1> USE DEF RefInv
<1>1. /\ netDeferred \in Seq(WriteIds)
      /\ handleWaiting \in Seq(WriteIds)
      /\ wire \in Seq(WriteIds \X Streams)
      /\ issued \in 0..MaxWrites
      /\ upgrading \in {"none", "pending", "resolved"}
      /\ MaxWrites \in Nat
  BY MaxWritesAssumption DEF TypeOK
<1>2. CASE \E p \in BOOLEAN : ConnectInternal(p)
  <2>1. UNCHANGED <<netDeferred, handleWaiting, wire, issued, destroyed>>
        /\ upgrading = "none" /\ upgrading' = "pending"
    BY <1>2 DEF ConnectInternal, HeldWritesConsistent
  <2>2. UT!Arm
    BY <2>1 DEF UT!Arm, TokenOf
  <2>3. QED
    BY <2>2 DEF UT!Next
<1>3. CASE \E c, p \in BOOLEAN : ConnectSocket(c, p) \/ NewTLSSocket(c, p)
  <2>1. UNCHANGED <<netDeferred, handleWaiting, wire, issued, destroyed>>
        /\ upgrading = "none" /\ upgrading' = "pending"
    BY <1>3 DEF ConnectSocket, NewTLSSocket, HeldWritesConsistent
  <2>2. UT!Arm
    BY <2>1 DEF UT!Arm, TokenOf
  <2>3. QED
    BY <2>2 DEF UT!Next
<1>4. CASE TransportReady \/ SetWorkaround \/ StartTlsResolved
           \/ StartTlsRejected
  <2>1. UNCHANGED <<upgrading, netDeferred, handleWaiting, wire, issued,
                    destroyed>>
    BY <1>4 DEF TransportReady, SetWorkaround, StartTlsResolved,
                StartTlsRejected
  <2>2. QED
    BY <2>1, MappedUnchanged
<1>5. CASE \E r \in HandshakeResults, k \in 0..MaxWrites : Handshake(r, k)
  <2>1. PICK r \in HandshakeResults, k \in 0..MaxWrites : Handshake(r, k)
    BY <1>5
  <2> DEFINE newIds == [i \in 1..k |-> issued + i]
             S == IdsOf(netDeferred)
             N == issued + 1 .. issued + k
  <2>2. /\ upgrading = "pending" /\ upgrading' = "resolved"
        /\ issued + k <= MaxWrites /\ (destroyed => k = 0)
        /\ issued' = issued + k /\ destroyed' = destroyed
        /\ netDeferred' = <<>> /\ handleWaiting' = handleWaiting
        /\ wire' = IF destroyed THEN wire
                   ELSE wire \o OnStream(netDeferred \o newIds, "tls")
    BY <2>1 DEF Handshake, SwapToTls, ResolveUpgrading, HeldWritesConsistent
  <2>3. newIds \in Seq(WriteIds) /\ IdsOf(newIds) = N
    <3>1. issued \in Nat /\ k \in Nat /\ issued + k <= MaxWrites
      BY <1>1, <2>2
    <3>2. newIds \in Seq(WriteIds)
      BY <3>1, NewIdsType
    <3>3. IdsOf(newIds) = N
      BY <3>1, IdsOfNewIds
    <3>4. QED
      BY <3>2, <3>3
  <2>4. IdsOf(netDeferred') \cup IdsOf(handleWaiting') = HeldIds \ (S \cup N)
    <3>1. netDeferred = <<>> \/ handleWaiting = <<>>
      BY DEF HeldWritesConsistent
    <3>2. \A x \in IdsOf(handleWaiting) : x \in 1..issued
      BY DEF HeldWritesConsistent, IdsOf
    <3>3. IdsOf(netDeferred') \cup IdsOf(handleWaiting') = IdsOf(handleWaiting)
      BY <2>2, IdsOfEmpty
    <3>4. CASE netDeferred = <<>>
      <4>1. S = {} /\ HeldIds = IdsOf(handleWaiting)
        BY <3>4, IdsOfEmpty DEF HeldIds
      <4>2. \A x \in N : x \notin IdsOf(handleWaiting)
        BY <1>1, <3>2
      <4>3. QED
        BY <3>3, <4>1, <4>2
    <3>5. CASE handleWaiting = <<>>
      <4>1. IdsOf(handleWaiting) = {} /\ HeldIds = S
        BY <3>5, IdsOfEmpty DEF HeldIds
      <4>2. QED
        BY <3>3, <4>1
    <3>6. QED
      BY <3>1, <3>4, <3>5
  <2>5. IdsOf(wire') = IF destroyed THEN IdsOf(wire)
                       ELSE IdsOf(wire) \cup UT!OnTls(S \cup N)
    <3>1. netDeferred \o newIds \in Seq(WriteIds)
      BY <1>1, <2>3, ConcatType
    <3>2. IdsOf(netDeferred \o newIds) = S \cup N
      BY <1>1, <2>3, IdsOfConcatIds
    <3>3. QED
      BY <1>1, <2>2, <3>1, <3>2, IdsOfConcatWire
  <2>6. UT!Secure(S, k)
    BY <2>2, <2>4, <2>5 DEF UT!Secure, UT!ReleaseAll, TokenOf, HeldIds
  <2>7. S \in SUBSET HeldIds
    BY DEF HeldIds
  <2>8. QED
    BY <2>6, <2>7 DEF UT!Next, HeldIds
<1>6. CASE FlushWaiting
  <2> DEFINE S == IdsOf(handleWaiting)
  <2>1. /\ upgrading = "resolved" /\ handleWaiting # <<>>
        /\ stream = "tls" /\ netDeferred = <<>>
        /\ handleWaiting' = <<>>
        /\ UNCHANGED <<upgrading, netDeferred, issued, destroyed>>
        /\ wire' = IF destroyed THEN wire
                   ELSE wire \o OnStream(handleWaiting, "tls")
    BY <1>6 DEF FlushWaiting, MicrotaskPending, UpgradedIsTls,
                HeldWritesConsistent
  <2>2. S # {}
    <3>1. 1 \in DOMAIN handleWaiting
      BY <1>1, <2>1
    <3>2. QED
      BY <3>1 DEF IdsOf
  <2>3. IdsOf(wire') = IF destroyed THEN IdsOf(wire)
                       ELSE IdsOf(wire) \cup UT!OnTls(S)
    BY <1>1, <2>1, IdsOfConcatWire
  <2>4. IdsOf(netDeferred') \cup IdsOf(handleWaiting') = HeldIds \ S
    BY <2>1, IdsOfEmpty DEF HeldIds
  <2>5. UT!Release(S)
    BY <2>1, <2>2, <2>3, <2>4 DEF UT!Release, UT!ReleaseAll, TokenOf, HeldIds
  <2>6. QED
    BY <2>5 DEF UT!Next, HeldIds
<1>7. CASE UserWrite
  <2>1. /\ issued < MaxWrites /\ ~destroyed /\ issued' = issued + 1
        /\ UNCHANGED <<upgrading, destroyed>>
    BY <1>7 DEF UserWrite
  <2>2. issued + 1 \in WriteIds
    BY <1>1, <2>1 DEF WriteIds
  <2>3. CASE connecting
    <3>1. /\ netDeferred' = Append(netDeferred, issued + 1)
          /\ UNCHANGED <<handleWaiting, wire>>
          /\ upgrading = "pending"
      BY <1>7, <2>3 DEF UserWrite, HeldWritesConsistent
    <3>2. IdsOf(netDeferred') = IdsOf(netDeferred) \cup {issued + 1}
      BY <1>1, <2>2, <3>1, IdsOfAppendIds
    <3>3. UT!Hold
      BY <2>1, <3>1, <3>2 DEF UT!Hold, TokenOf
    <3>4. QED
      BY <3>3 DEF UT!Next
  <2>4. CASE ~connecting /\ upgrading = "pending"
    <3>1. /\ handleWaiting' = Append(handleWaiting, issued + 1)
          /\ UNCHANGED <<netDeferred, wire>>
      BY <1>7, <2>4 DEF UserWrite
    <3>2. IdsOf(handleWaiting') = IdsOf(handleWaiting) \cup {issued + 1}
      BY <1>1, <2>2, <3>1, IdsOfAppendIds
    <3>3. UT!Hold
      BY <2>1, <2>4, <3>1, <3>2 DEF UT!Hold, TokenOf
    <3>4. QED
      BY <3>3 DEF UT!Next
  <2>5. CASE ~connecting /\ upgrading # "pending"
    <3>1. /\ upgrading = "resolved" /\ stream = "tls"
          /\ wire' = Append(wire, <<issued + 1, "tls">>)
          /\ UNCHANGED <<netDeferred, handleWaiting>>
      BY <1>1, <1>7, <2>5 DEF UserWrite, UpgradedIsTls
    <3>2. IdsOf(wire') = IdsOf(wire) \cup UT!OnTls({issued + 1})
      <4>1. <<issued + 1, "tls">> \in WriteIds \X Streams
        BY <2>2 DEF Streams
      <4>2. IdsOf(Append(wire, <<issued + 1, "tls">>))
              = IdsOf(wire) \cup {<<issued + 1, "tls">>}
        BY <1>1, <4>1, IdsOfAppendWire
      <4>3. UT!OnTls({issued + 1}) = {<<issued + 1, "tls">>}
        BY DEF UT!OnTls
      <4>4. QED
        BY <3>1, <4>2, <4>3
    <3>3. UT!SendNow
      BY <2>1, <3>1, <3>2 DEF UT!SendNow, TokenOf
    <3>4. QED
      BY <3>3 DEF UT!Next
  <2>6. QED
    BY <2>3, <2>4, <2>5
<1>8. CASE Destroy \/ End
  <2>1. /\ ~destroyed /\ destroyed' = TRUE
        /\ UNCHANGED <<upgrading, netDeferred, handleWaiting, wire, issued>>
    BY <1>8 DEF Destroy, End
  <2>2. upgrading # "none"
    BY <1>8 DEF Destroy, End, HeldWritesConsistent
  <2>3. UT!Cancel
    BY <2>1, <2>2 DEF UT!Cancel, TokenOf
  <2>4. QED
    BY <2>3 DEF UT!Next
<1>9. CASE UNCHANGED vars
  BY <1>9, MappedUnchanged DEF vars
<1>10. QED
  BY <1>2, <1>3, <1>4, <1>5, <1>6, <1>7, <1>8, <1>9 DEF Next

\* The upgrade implements the safety part of the Upgrade Token: from an
\* unarmed start, every step of tls.connect(), new TLSSocket(), the hook,
\* the writes, destroy and end is an abstract step or leaves the token, the
\* held and the sent writes alone.  So no write is ever sent but on TLS,
\* none is released before handle.upgrading resolves, and none is sent
\* once the socket is destroyed.
THEOREM Refinement == Spec => UT!Init /\ [][UT!Next]_UT!vars
<1>1. Init => UT!Init
  BY IdsOfEmpty DEF Init, UT!Init, TokenOf
<1>2. RefInv /\ RefInv' /\ [Next]_vars => [UT!Next]_UT!vars
  BY RefStep
<1>3. QED
  BY <1>1, <1>2, RefInvInit, RefInvNext, PTL DEF Spec


=============================================================================
