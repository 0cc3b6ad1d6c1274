--------------------------- MODULE TlsServer_proofs ---------------------------
(***************************************************************************)
(* Proofs about ServerImpl (TlsServer), for every MaxListen, MaxConns and  *)
(* MaxErrors.                                                              *)
(*                                                                         *)
(* The bound served <= MaxConns of TypeOK rests on served plus the         *)
(* connections queued on all listeners never exceeding conns.  The queued  *)
(* connections are counted as a finite set of pairs, so that each step     *)
(* adds or removes one element instead of changing a sum.                  *)
(***************************************************************************)
EXTENDS TlsServer, FiniteSetTheorems, TLAPS

\* TypeOK without the bound on served, in three parts: the flags, the
\* counters and the sequences.
FlagTypes ==
  /\ unrefed \in BOOLEAN
  /\ closed \in BOOLEAN
  /\ phase \in {"idle", "callback"}
  /\ closeCalled \in BOOLEAN
  /\ closeEvent \in {"none", "pending", "emitted"}

CountTypes ==
  /\ conns \in 0..MaxConns
  /\ errors \in 0..MaxErrors
  /\ served \in Nat

SeqTypes ==
  /\ listeners \in Seq(Listener)
  /\ loops \in Seq(LoopStates)
  /\ Len(loops) = Len(listeners)
  /\ Len(listeners) <= MaxListen

\* No listener has queued more connections than have arrived.
IncomingBound == \A i \in 1..Len(listeners) : listeners[i].incoming <= conns

TypeInv == FlagTypes /\ CountTypes /\ SeqTypes /\ IncomingBound

\* While unrefed, this.listener's loop never holds the process: unref()
\* and the #listen early return act on this.listener only, so a loop that
\* keeps a refed, open listener accepting can only belong to a listener an
\* earlier listen() made.
UnrefedOnlyOlderListeners ==
  unrefed =>
    \A i \in 1..Len(loops) :
      (loops[i] = "accepting" /\ listeners[i].refed
         /\ listeners[i].state = "open") => i < Current

\* While listen() runs its callback, this.listener's loop has not started.
CallbackBeforeLoop ==
  phase = "callback" => HasListener /\ loops[Current] = "none"

IInv == TypeInv /\ UnrefedOnlyOlderListeners /\ CallbackBeforeLoop

-----------------------------------------------------------------------------
LEMMA InitIInv == Init => IInv
<1> SUFFICES ASSUME Init PROVE IInv
  OBVIOUS
<1>1. FlagTypes
  BY DEF Init, FlagTypes
<1>2. CountTypes
  BY BoundsAssumption DEF Init, CountTypes
<1>3. SeqTypes
  BY BoundsAssumption DEF Init, SeqTypes
<1>4. IncomingBound /\ UnrefedOnlyOlderListeners /\ CallbackBeforeLoop
  BY DEF Init, IncomingBound, UnrefedOnlyOlderListeners, CallbackBeforeLoop
<1>5. QED
  BY <1>1, <1>2, <1>3, <1>4 DEF IInv, TypeInv

\* The flags keep their types.
LEMMA FlagStep == FlagTypes /\ [Next]_vars => FlagTypes'
<1> SUFFICES ASSUME FlagTypes, [Next]_vars PROVE FlagTypes'
  OBVIOUS
<1> USE DEF FlagTypes
<1>1. CASE Unref \/ Ref \/ Listen \/ ListenLoop \/ Close \/ EmitClose
  BY <1>1, Zenon DEF Unref, Ref, Listen, ListenLoop, Close, EmitClose
<1>2. ASSUME NEW i \in 1..Len(listeners),
             ConnArrive(i) \/ AcceptResolve(i) \/ AcceptBadResource(i)
               \/ AcceptError(i)
      PROVE  FlagTypes'
  BY <1>2, Zenon DEF ConnArrive, AcceptResolve, AcceptBadResource, AcceptError
<1>3. CASE UNCHANGED vars
  BY <1>3 DEF vars
<1>4. QED
  BY <1>1, <1>2, <1>3 DEF Next

\* The counters stay within their bounds.
LEMMA CountStep == CountTypes /\ [Next]_vars => CountTypes'
<1> SUFFICES ASSUME CountTypes, [Next]_vars PROVE CountTypes'
  OBVIOUS
<1> USE BoundsAssumption DEF CountTypes
<1>1. CASE Unref \/ Ref \/ Listen \/ ListenLoop \/ Close \/ EmitClose
  BY <1>1 DEF Unref, Ref, Listen, ListenLoop, Close, EmitClose
<1>2. ASSUME NEW i \in 1..Len(listeners), ConnArrive(i) PROVE CountTypes'
  BY <1>2 DEF ConnArrive
<1>3. ASSUME NEW i \in 1..Len(listeners), AcceptResolve(i) PROVE CountTypes'
  BY <1>3 DEF AcceptResolve
<1>4. ASSUME NEW i \in 1..Len(listeners),
             AcceptBadResource(i) \/ AcceptError(i)
      PROVE  CountTypes'
  BY <1>4 DEF AcceptBadResource, AcceptError
<1>5. CASE UNCHANGED vars
  BY <1>5 DEF vars
<1>6. QED
  BY <1>1, <1>2, <1>3, <1>4, <1>5 DEF Next

\* Setting the ref flag of this.listener keeps the sequences typed.
LEMMA SetRefedCurrent ==
  ASSUME SeqTypes, IncomingBound, HasListener, NEW b \in BOOLEAN,
         listeners' = [listeners EXCEPT ![Current].refed = b],
         loops' \in Seq(LoopStates), Len(loops') = Len(loops), conns' = conns
  PROVE  (SeqTypes /\ IncomingBound)'
<1>1. Current \in 1..Len(listeners)
  BY DEF SeqTypes, HasListener, Current
<1>3. listeners[Current] \in Listener
  BY <1>1 DEF SeqTypes
<1>2. listeners' = [listeners EXCEPT ![Current] =
                     [state |-> listeners[Current].state, refed |-> b,
                      incoming |-> listeners[Current].incoming]]
  <2>1. [listeners[Current] EXCEPT !.refed = b]
          = [state |-> listeners[Current].state, refed |-> b,
             incoming |-> listeners[Current].incoming]
    BY <1>3 DEF Listener
  <2>2. QED
    BY <2>1
<1>4. QED
  BY <1>1, <1>2, <1>3 DEF SeqTypes, IncomingBound, Listener

\* The sequences keep their types, and no listener queues more connections
\* than have arrived.
LEMMA SeqStep ==
  SeqTypes /\ IncomingBound /\ CountTypes /\ CallbackBeforeLoop /\ [Next]_vars
    => (SeqTypes /\ IncomingBound)'
<1> SUFFICES ASSUME SeqTypes, IncomingBound, CountTypes, CallbackBeforeLoop,
                    [Next]_vars
             PROVE  (SeqTypes /\ IncomingBound)'
  OBVIOUS
<1> USE BoundsAssumption
<1>1. CASE Unref \/ Ref
  <2>1. CASE HasListener
    <3>1. \E b \in BOOLEAN : listeners' = [listeners EXCEPT ![Current].refed = b]
      BY <1>1, <2>1, Zenon DEF Unref, Ref
    <3>2. UNCHANGED <<loops, conns>>
      BY <1>1, Zenon DEF Unref, Ref
    <3>3. QED
      BY <2>1, <3>1, <3>2, SetRefedCurrent DEF SeqTypes
  <2>2. CASE ~HasListener
    BY <1>1, <2>2 DEF Unref, Ref, SeqTypes, IncomingBound
  <2>3. QED
    BY <2>1, <2>2
<1>2. CASE Listen
  <2> DEFINE r == [state |-> "open", refed |-> TRUE, incoming |-> 0]
  <2>1. r \in Listener
    BY DEF Listener, ListenerStates
  <2>2. QED
    BY <1>2, <2>1 DEF Listen, SeqTypes, IncomingBound, LoopStates, CountTypes
<1>3. CASE ListenLoop
  <2>1. HasListener /\ Current \in 1..Len(loops)
    BY <1>3 DEF ListenLoop, CallbackBeforeLoop, HasListener, Current, SeqTypes
  <2>2. loops' \in Seq(LoopStates) /\ Len(loops') = Len(loops)
    BY <1>3, <2>1, SMTT(60) DEF ListenLoop, LoopStates, SeqTypes
  <2>3. CASE unrefed
    <3>1. listeners' = [listeners EXCEPT ![Current].refed = FALSE]
          /\ UNCHANGED conns
      BY <1>3, <2>3, Zenon DEF ListenLoop
    <3>2. QED
      BY <2>1, <2>2, <3>1, SetRefedCurrent
  <2>4. CASE ~unrefed
    BY <1>3, <2>2, <2>4 DEF ListenLoop, SeqTypes, IncomingBound
  <2>5. QED
    BY <2>3, <2>4
<1>4. CASE Close
  <2>1. CASE HasListener
    <3>1. Current \in 1..Len(listeners) /\ listeners[Current] \in Listener
      BY <2>1 DEF SeqTypes, HasListener, Current
    <3>2. listeners' = [listeners EXCEPT ![Current] =
                         [state |-> "closed", refed |-> listeners[Current].refed,
                          incoming |-> 0]]
      <4>1. [listeners[Current] EXCEPT !.state = "closed"]
              = [state |-> "closed", refed |-> listeners[Current].refed,
                 incoming |-> listeners[Current].incoming]
        BY <3>1 DEF Listener
      <4>2. [[state |-> "closed", refed |-> listeners[Current].refed,
               incoming |-> listeners[Current].incoming] EXCEPT !.incoming = 0]
              = [state |-> "closed", refed |-> listeners[Current].refed,
                 incoming |-> 0]
        OBVIOUS
      <4>3. QED
        BY <1>4, <2>1, <4>1, <4>2 DEF Close
    <3>4. UNCHANGED <<loops, conns>>
      BY <1>4, Zenon DEF Close
    <3>5. [state |-> "closed", refed |-> listeners[Current].refed,
           incoming |-> 0] \in Listener
      BY <3>1 DEF Listener, ListenerStates
    <3>3. QED
      BY <3>1, <3>2, <3>4, <3>5 DEF SeqTypes, IncomingBound, CountTypes
  <2>2. CASE ~HasListener
    BY <1>4, <2>2 DEF Close, SeqTypes, IncomingBound
  <2>3. QED
    BY <2>1, <2>2
<1>5. CASE EmitClose
  BY <1>5 DEF EmitClose, SeqTypes, IncomingBound
<1>6. ASSUME NEW i \in 1..Len(listeners), ConnArrive(i)
      PROVE  (SeqTypes /\ IncomingBound)'
  <2>1. listeners[i] \in Listener /\ listeners[i].incoming <= conns
    BY DEF SeqTypes, IncomingBound
  <2>2. listeners' = [listeners EXCEPT ![i] =
                       [state |-> listeners[i].state, refed |-> listeners[i].refed,
                        incoming |-> listeners[i].incoming + 1]]
    <3>1. [listeners[i] EXCEPT !.incoming = @ + 1]
            = [state |-> listeners[i].state, refed |-> listeners[i].refed,
               incoming |-> listeners[i].incoming + 1]
      BY <2>1 DEF Listener
    <3>2. QED
      BY <1>6, <3>1 DEF ConnArrive
  <2>0. conns < MaxConns /\ conns' = conns + 1 /\ UNCHANGED loops
    BY <1>6, Zenon DEF ConnArrive
  <2>3. [state |-> listeners[i].state, refed |-> listeners[i].refed,
         incoming |-> listeners[i].incoming + 1] \in Listener
    BY <2>0, <2>1 DEF Listener, CountTypes
  <2>6. listeners' \in Seq(Listener) /\ Len(listeners') = Len(listeners)
    BY <2>2, <2>3 DEF SeqTypes
  <2>7. \A j \in 1..Len(listeners') : listeners'[j].incoming <= conns'
    <3>1. listeners'[i].incoming = listeners[i].incoming + 1
      BY <2>2, <2>6
    <3>2. \A j \in 1..Len(listeners) \ {i} : listeners'[j] = listeners[j]
      BY <2>2
    <3>3. ASSUME NEW j \in 1..Len(listeners') PROVE listeners'[j].incoming <= conns'
      <4>1. CASE j = i
        BY <2>0, <2>1, <2>6, <3>1, <4>1 DEF CountTypes, Listener
      <4>2. CASE j # i
        <5>1. listeners[j] \in Listener /\ listeners[j].incoming <= conns
          BY <2>6 DEF SeqTypes, IncomingBound
        <5>2. QED
          BY <2>0, <2>6, <3>2, <4>2, <5>1 DEF CountTypes, Listener
      <4>3. QED
        BY <4>1, <4>2
    <3>4. QED
      BY <3>3
  <2>4. QED
    BY <2>0, <2>6, <2>7 DEF SeqTypes, IncomingBound
<1>7. ASSUME NEW i \in 1..Len(listeners), AcceptResolve(i)
      PROVE  (SeqTypes /\ IncomingBound)'
  <2>1. listeners[i] \in Listener /\ listeners[i].incoming <= conns
    BY DEF SeqTypes, IncomingBound
  <2>2. listeners' = [listeners EXCEPT ![i] =
                       [state |-> listeners[i].state, refed |-> listeners[i].refed,
                        incoming |-> listeners[i].incoming - 1]]
    <3>1. [listeners[i] EXCEPT !.incoming = @ - 1]
            = [state |-> listeners[i].state, refed |-> listeners[i].refed,
               incoming |-> listeners[i].incoming - 1]
      BY <2>1 DEF Listener
    <3>2. QED
      BY <1>7, <3>1 DEF AcceptResolve
  <2>0. /\ listeners[i].incoming > 0 /\ UNCHANGED conns
        /\ loops' = Continue(i) /\ UNCHANGED closed
    BY <1>7, Zenon DEF AcceptResolve
  <2>3. [state |-> listeners[i].state, refed |-> listeners[i].refed,
         incoming |-> listeners[i].incoming - 1] \in Listener
    BY <2>0, <2>1 DEF Listener
  <2>4. loops' \in Seq(LoopStates) /\ Len(loops') = Len(loops)
    BY <2>0 DEF Continue, SeqTypes, LoopStates
  <2>6. listeners' \in Seq(Listener) /\ Len(listeners') = Len(listeners)
    BY <2>2, <2>3 DEF SeqTypes
  <2>7. \A j \in 1..Len(listeners') : listeners'[j].incoming <= conns'
    <3>1. listeners'[i].incoming = listeners[i].incoming - 1
      BY <2>2, <2>6
    <3>2. \A j \in 1..Len(listeners) \ {i} : listeners'[j] = listeners[j]
      BY <2>2
    <3>3. ASSUME NEW j \in 1..Len(listeners') PROVE listeners'[j].incoming <= conns'
      <4>1. CASE j = i
        BY <2>0, <2>1, <2>6, <3>1, <4>1 DEF CountTypes, Listener
      <4>2. CASE j # i
        <5>1. listeners[j] \in Listener /\ listeners[j].incoming <= conns
          BY <2>6 DEF SeqTypes, IncomingBound
        <5>2. QED
          BY <2>0, <2>6, <3>2, <4>2, <5>1 DEF CountTypes, Listener
      <4>3. QED
        BY <4>1, <4>2
    <3>4. QED
      BY <3>3
  <2>5. QED
    BY <2>0, <2>6, <2>7, <2>4 DEF SeqTypes, IncomingBound
<1>8. ASSUME NEW i \in 1..Len(listeners),
             AcceptBadResource(i) \/ AcceptError(i)
      PROVE  (SeqTypes /\ IncomingBound)'
  <2>1. loops' \in Seq(LoopStates) /\ Len(loops') = Len(loops)
    BY <1>8 DEF AcceptBadResource, AcceptError, Continue, SeqTypes, LoopStates
  <2>2. QED
    BY <1>8, <2>1 DEF AcceptBadResource, AcceptError, SeqTypes, IncomingBound
<1>9. CASE UNCHANGED vars
  BY <1>9 DEF vars, SeqTypes, IncomingBound
<1>10. QED
  BY <1>1, <1>2, <1>3, <1>4, <1>5, <1>6, <1>7, <1>8, <1>9 DEF Next

-----------------------------------------------------------------------------
(***************************************************************************)
(* What an update of one listener leaves of the others.                    *)
(***************************************************************************)

\* unref() or ref() sets the ref flag of this.listener only.
LEMMA RefedFacts ==
  ASSUME SeqTypes, HasListener, NEW b \in BOOLEAN,
         listeners' = [listeners EXCEPT ![Current].refed = b]
  PROVE  /\ Len(listeners') = Len(listeners)
         /\ listeners'[Current].refed = b
         /\ listeners'[Current].state = listeners[Current].state
         /\ listeners'[Current].incoming = listeners[Current].incoming
         /\ \A j \in 1..Len(listeners) \ {Current} : listeners'[j] = listeners[j]
<1>1. Current \in 1..Len(listeners) /\ listeners[Current] \in Listener
  BY DEF SeqTypes, HasListener, Current
<1>2. listeners' = [listeners EXCEPT ![Current] =
                     [state |-> listeners[Current].state, refed |-> b,
                      incoming |-> listeners[Current].incoming]]
  <2>1. [listeners[Current] EXCEPT !.refed = b]
          = [state |-> listeners[Current].state, refed |-> b,
             incoming |-> listeners[Current].incoming]
    BY <1>1 DEF Listener
  <2>2. QED
    BY <2>1
<1>3. QED
  BY <1>1, <1>2 DEF SeqTypes

\* close() closes this.listener only.
LEMMA ClosedFacts ==
  ASSUME SeqTypes, HasListener,
         listeners' = [listeners EXCEPT ![Current].state = "closed",
                                        ![Current].incoming = 0]
  PROVE  /\ Len(listeners') = Len(listeners)
         /\ listeners'[Current].state = "closed"
         /\ listeners'[Current].incoming = 0
         /\ \A j \in 1..Len(listeners) \ {Current} : listeners'[j] = listeners[j]
<1>1. Current \in 1..Len(listeners) /\ listeners[Current] \in Listener
  BY DEF SeqTypes, HasListener, Current
<1>2. listeners' = [listeners EXCEPT ![Current] =
                     [state |-> "closed", refed |-> listeners[Current].refed,
                      incoming |-> 0]]
  <2>1. [listeners[Current] EXCEPT !.state = "closed"]
          = [state |-> "closed", refed |-> listeners[Current].refed,
             incoming |-> listeners[Current].incoming]
    BY <1>1 DEF Listener
  <2>2. [[state |-> "closed", refed |-> listeners[Current].refed,
          incoming |-> listeners[Current].incoming] EXCEPT !.incoming = 0]
          = [state |-> "closed", refed |-> listeners[Current].refed,
             incoming |-> 0]
    OBVIOUS
  <2>3. QED
    BY <2>1, <2>2
<1>3. QED
  BY <1>1, <1>2 DEF SeqTypes

\* A connection taken from listener i changes neither its state nor its
\* ref flag, nor any other listener.
LEMMA TakeFacts ==
  ASSUME SeqTypes, NEW i \in 1..Len(listeners),
         listeners' = [listeners EXCEPT ![i].incoming = @ - 1]
  PROVE  /\ Len(listeners') = Len(listeners)
         /\ listeners'[i].state = listeners[i].state
         /\ listeners'[i].refed = listeners[i].refed
         /\ listeners'[i].incoming = listeners[i].incoming - 1
         /\ \A j \in 1..Len(listeners) \ {i} : listeners'[j] = listeners[j]
<1>1. listeners[i] \in Listener
  BY DEF SeqTypes
<1>2. listeners' = [listeners EXCEPT ![i] =
                     [state |-> listeners[i].state, refed |-> listeners[i].refed,
                      incoming |-> listeners[i].incoming - 1]]
  <2>1. [listeners[i] EXCEPT !.incoming = @ - 1]
          = [state |-> listeners[i].state, refed |-> listeners[i].refed,
             incoming |-> listeners[i].incoming - 1]
    BY <1>1 DEF Listener
  <2>2. QED
    BY <2>1
<1>3. QED
  BY <1>1, <1>2 DEF SeqTypes

\* A connection queued on listener i changes neither its state nor its
\* ref flag, nor any other listener.
LEMMA AddFacts ==
  ASSUME SeqTypes, NEW i \in 1..Len(listeners),
         listeners' = [listeners EXCEPT ![i].incoming = @ + 1]
  PROVE  /\ Len(listeners') = Len(listeners)
         /\ listeners'[i].state = listeners[i].state
         /\ listeners'[i].refed = listeners[i].refed
         /\ listeners'[i].incoming = listeners[i].incoming + 1
         /\ \A j \in 1..Len(listeners) \ {i} : listeners'[j] = listeners[j]
<1>1. listeners[i] \in Listener
  BY DEF SeqTypes
<1>2. listeners' = [listeners EXCEPT ![i] =
                     [state |-> listeners[i].state, refed |-> listeners[i].refed,
                      incoming |-> listeners[i].incoming + 1]]
  <2>1. [listeners[i] EXCEPT !.incoming = @ + 1]
          = [state |-> listeners[i].state, refed |-> listeners[i].refed,
             incoming |-> listeners[i].incoming + 1]
    BY <1>1 DEF Listener
  <2>2. QED
    BY <2>1
<1>3. QED
  BY <1>1, <1>2 DEF SeqTypes

-----------------------------------------------------------------------------
\* this.listener's loop holds the process.
Holds(k) ==
  /\ loops[k] = "accepting"
  /\ listeners[k].refed
  /\ listeners[k].state = "open"

\* Under unrefed, this.listener's loop does not hold the process.
LEMMA CurrentNotHolding ==
  ASSUME SeqTypes, UnrefedOnlyOlderListeners, unrefed, HasListener
  PROVE  ~Holds(Current)
BY DEF SeqTypes, UnrefedOnlyOlderListeners, HasListener, Current, Holds

\* Listen and the #listen early return leave this.listener's loop
\* not holding the process while unrefed, and every other step keeps it so.
LEMMA UnrefedStep ==
  TypeInv /\ UnrefedOnlyOlderListeners /\ CallbackBeforeLoop /\ [Next]_vars
    => UnrefedOnlyOlderListeners'
<1> SUFFICES ASSUME TypeInv, UnrefedOnlyOlderListeners, CallbackBeforeLoop,
                    [Next]_vars,
                    unrefed',
                    NEW k \in 1..Len(loops'), Holds(k)'
             PROVE  k < Current'
  BY DEF UnrefedOnlyOlderListeners, Holds
<1>0. SeqTypes /\ (SeqTypes /\ IncomingBound)'
  <2>1. CountTypes /\ SeqTypes /\ IncomingBound
    BY DEF TypeInv
  <2>2. QED
    BY <2>1, SeqStep
<1>1. k \in 1..Len(listeners') /\ Current' = Len(listeners')
  BY <1>0 DEF SeqTypes, Current
<1> SUFFICES k # Current'
  BY <1>1
<1>2. CASE Unref
  <2>1. HasListener
    <3>1. ~HasListener => listeners' = listeners
      BY <1>2, Zenon DEF Unref
    <3>2. QED
      BY <1>1, <3>1 DEF HasListener
  <2>2. listeners' = [listeners EXCEPT ![Current].refed = FALSE]
        /\ UNCHANGED loops
    BY <1>2, <2>1, Zenon DEF Unref
  <2>3. QED
    BY <1>0, <2>1, <2>2, RefedFacts DEF Holds, Current
<1>3. CASE Ref
  BY <1>3, Zenon DEF Ref
<1>4. CASE Listen
  <2>1. loops' = Append(loops, "none") /\ Len(listeners') = Len(listeners) + 1
    <3>1. loops' = Append(loops, "none")
          /\ listeners' = Append(listeners, [state |-> "open", refed |-> TRUE,
                                             incoming |-> 0])
      BY <1>4, Zenon DEF Listen
    <3>2. QED
      BY <1>0, <3>1 DEF SeqTypes
  <2>2. QED
    BY <1>0, <2>1 DEF Holds, Current, SeqTypes
<1>5. CASE ListenLoop
  <2>1. unrefed /\ HasListener
    BY <1>5, Zenon DEF ListenLoop, CallbackBeforeLoop
  <2>2. listeners' = [listeners EXCEPT ![Current].refed = FALSE]
    BY <1>5, <2>1, Zenon DEF ListenLoop
  <2>3. QED
    BY <1>0, <2>1, <2>2, RefedFacts DEF Holds, Current
<1>6. CASE Close
  <2>1. HasListener
    <3>1. ~HasListener => listeners' = listeners
      BY <1>6, Zenon DEF Close
    <3>2. QED
      BY <1>1, <3>1 DEF HasListener
  <2>2. listeners' = [listeners EXCEPT ![Current].state = "closed",
                                      ![Current].incoming = 0]
    BY <1>6, <2>1, Zenon DEF Close
  <2>3. QED
    BY <1>0, <2>1, <2>2, ClosedFacts DEF Holds, Current
<1>7. CASE EmitClose
  <2>1. UNCHANGED <<unrefed, listeners, loops>>
    BY <1>7, Zenon DEF EmitClose
  <2>2. QED
    BY <1>0, <2>1, CurrentNotHolding DEF Holds, HasListener, Current, SeqTypes
<1>8. ASSUME NEW i \in 1..Len(listeners), ConnArrive(i) PROVE k # Current'
  <2>1. listeners' = [listeners EXCEPT ![i].incoming = @ + 1]
        /\ UNCHANGED <<unrefed, loops>>
    BY <1>8, Zenon DEF ConnArrive
  <2>2. HasListener
    BY DEF HasListener
  <2>3. Len(listeners') = Len(listeners)
        /\ listeners'[Current].state = listeners[Current].state
        /\ listeners'[Current].refed = listeners[Current].refed
    <3>1. CASE i = Current
      BY <1>0, <2>1, <3>1, AddFacts
    <3>2. CASE i # Current
      BY <1>0, <2>1, <2>2, <3>2, AddFacts DEF HasListener, Current, SeqTypes
    <3>3. QED
      BY <3>1, <3>2
  <2>4. ~Holds(Current)
    BY <1>0, <2>1, <2>2, CurrentNotHolding
  <2>5. QED
    BY <2>1, <2>3, <2>4 DEF Holds, Current
<1>9. ASSUME NEW i \in 1..Len(listeners), AcceptResolve(i) PROVE k # Current'
  <2>1. /\ listeners' = [listeners EXCEPT ![i].incoming = @ - 1]
        /\ UNCHANGED unrefed
        /\ loops[i] = "accepting" /\ listeners[i].state = "open"
        /\ loops' = Continue(i)
    BY <1>9, Zenon DEF AcceptResolve
  <2>2. HasListener
    BY DEF HasListener
  <2>3. ~Holds(Current)
    BY <1>0, <2>1, <2>2, CurrentNotHolding
  <2>4. CASE i = Current
    <3>1. ~listeners[i].refed
      BY <2>1, <2>3, <2>4 DEF Holds
    <3>2. Len(listeners') = Len(listeners) /\ listeners'[i].refed = listeners[i].refed
      BY <1>0, <2>1, TakeFacts
    <3>3. QED
      BY <2>4, <3>1, <3>2 DEF Holds, Current
  <2>5. CASE i # Current
    <3>1. Current \in 1..Len(listeners)
      BY <2>2 DEF HasListener, Current, SeqTypes
    <3>2. Len(listeners') = Len(listeners) /\ listeners'[Current] = listeners[Current]
      BY <1>0, <2>1, <2>5, <3>1, TakeFacts
    <3>3. loops'[Current] = loops[Current]
      BY <1>0, <2>1, <2>5, <3>1 DEF Continue, SeqTypes
    <3>4. QED
      BY <2>3, <3>2, <3>3 DEF Holds, Current
  <2>6. QED
    BY <2>4, <2>5
<1>10. ASSUME NEW i \in 1..Len(listeners), AcceptBadResource(i) \/ AcceptError(i)
       PROVE  k # Current'
  <2>1. /\ UNCHANGED <<unrefed, listeners>>
        /\ loops[i] = "accepting"
        /\ loops' = Continue(i)
    BY <1>10, Zenon DEF AcceptBadResource, AcceptError
  <2>2. HasListener
    BY DEF HasListener
  <2>3. ~Holds(Current)
    BY <1>0, <2>1, <2>2, CurrentNotHolding
  <2>4. CASE i = Current
    BY <2>1, <2>3, <2>4 DEF Holds, Current
  <2>5. CASE i # Current
    <3>1. Current \in 1..Len(loops)
      BY <1>0, <2>2 DEF HasListener, Current, SeqTypes
    <3>2. loops'[Current] = loops[Current]
      BY <1>0, <2>1, <2>5, <3>1 DEF Continue, SeqTypes
    <3>3. QED
      BY <2>1, <2>3, <3>2 DEF Holds, Current
  <2>6. QED
    BY <2>4, <2>5
<1>11. CASE UNCHANGED vars
  BY <1>0, <1>11, CurrentNotHolding DEF vars, Holds, HasListener, Current, SeqTypes
<1>12. QED
  BY <1>2, <1>3, <1>4, <1>5, <1>6, <1>7, <1>8, <1>9, <1>10, <1>11 DEF Next

\* While the listen callback runs, this.listener's loop has not started:
\* the accept steps and the close event wait for the callback to return.
LEMMA CallbackStep ==
  TypeInv /\ CallbackBeforeLoop /\ [Next]_vars => CallbackBeforeLoop'
<1> SUFFICES ASSUME TypeInv, CallbackBeforeLoop, [Next]_vars, phase' = "callback"
             PROVE  HasListener' /\ loops'[Current'] = "none"
  BY DEF CallbackBeforeLoop
<1>0. SeqTypes
  BY DEF TypeInv
<1>1. CASE Listen
  <2>1. loops' = Append(loops, "none")
        /\ listeners' = Append(listeners, [state |-> "open", refed |-> TRUE,
                                           incoming |-> 0])
    BY <1>1, Zenon DEF Listen
  <2>2. QED
    BY <1>0, <2>1 DEF SeqTypes, HasListener, Current
<1>2. CASE Unref \/ Ref \/ Close
  <2>1. phase = "callback" /\ UNCHANGED loops
    BY <1>2, Zenon DEF Unref, Ref, Close
  <2>2. Len(listeners') = Len(listeners)
    <3>1. CASE HasListener
      <4>1. \E b \in BOOLEAN : listeners' = [listeners EXCEPT ![Current].refed = b]
            \/ listeners' = [listeners EXCEPT ![Current].state = "closed",
                                              ![Current].incoming = 0]
        BY <1>2, <3>1, Zenon DEF Unref, Ref, Close
      <4>2. QED
        BY <1>0, <3>1, <4>1, RefedFacts, ClosedFacts
    <3>2. CASE ~HasListener
      BY <1>2, <3>2, Zenon DEF Unref, Ref, Close
    <3>3. QED
      BY <3>1, <3>2
  <2>3. QED
    BY <2>1, <2>2 DEF CallbackBeforeLoop, HasListener, Current
<1>3. ASSUME NEW i \in 1..Len(listeners), ConnArrive(i)
      PROVE  HasListener' /\ loops'[Current'] = "none"
  <2>1. phase = "callback" /\ UNCHANGED loops
        /\ listeners' = [listeners EXCEPT ![i].incoming = @ + 1]
    BY <1>3, Zenon DEF ConnArrive
  <2>2. Len(listeners') = Len(listeners)
    BY <1>0, <2>1, AddFacts
  <2>3. QED
    BY <2>1, <2>2 DEF CallbackBeforeLoop, HasListener, Current
<1>4. CASE ListenLoop \/ EmitClose
  BY <1>4, Zenon DEF ListenLoop, EmitClose
<1>5. ASSUME NEW i \in 1..Len(listeners),
             AcceptResolve(i) \/ AcceptBadResource(i) \/ AcceptError(i)
      PROVE  HasListener' /\ loops'[Current'] = "none"
  BY <1>5, Zenon DEF AcceptResolve, AcceptBadResource, AcceptError
<1>6. CASE UNCHANGED vars
  BY <1>6 DEF vars, CallbackBeforeLoop, HasListener, Current
<1>7. QED
  BY <1>1, <1>2, <1>3, <1>4, <1>5, <1>6 DEF Next

-----------------------------------------------------------------------------
\* The inductive invariant is preserved by every step.
LEMMA IInvStep == IInv /\ [Next]_vars => IInv'
<1> SUFFICES ASSUME IInv, [Next]_vars PROVE IInv'
  OBVIOUS
<1>1. (SeqTypes /\ IncomingBound)'
  BY SeqStep DEF IInv, TypeInv
<1>2. FlagTypes' /\ CountTypes'
  BY FlagStep, CountStep DEF IInv, TypeInv
<1>3. UnrefedOnlyOlderListeners' /\ CallbackBeforeLoop'
  BY UnrefedStep, CallbackStep DEF IInv
<1>4. QED
  BY <1>1, <1>2, <1>3 DEF IInv, TypeInv

\* ServerImpl keeps its fields in their types, and, while the server is
\* unrefed, the accept loop of this.listener never holds the process,
\* whatever order listen(), its callback, unref(), ref(), close() and the
\* accept outcomes come in.
THEOREM UnrefedServerSafe == Spec => [](TypeInv /\ UnrefedOnlyOlderListeners)
<1>1. Init => IInv
  BY InitIInv
<1>2. IInv /\ [Next]_vars => IInv'
  BY IInvStep
<1>3. IInv => TypeInv /\ UnrefedOnlyOlderListeners
  BY DEF IInv
<1>4. QED
  BY <1>1, <1>2, <1>3, PTL DEF Spec

\* With one listen() call, as in the tls.Server.unref() test, an unrefed
\* server never keeps the process alive through its accept loop.  (With a
\* second listen() the first listener is not this.listener any more and
\* unref() leaves it refed: see the finding on listen() at line 330.)
COROLLARY UnrefedNeverKeepsAliveProved ==
  ASSUME MaxListen = 1
  PROVE  Spec => []UnrefedNeverKeepsAlive
<1>1. TypeInv /\ UnrefedOnlyOlderListeners => UnrefedNeverKeepsAlive
  BY DEF TypeInv, SeqTypes, UnrefedOnlyOlderListeners, UnrefedNeverKeepsAlive,
         Current
<1>2. QED
  BY <1>1, UnrefedServerSafe, PTL

-----------------------------------------------------------------------------
(***************************************************************************)
(* served <= MaxConns.  A queued connection is a pair <<i, k>>: the k-th   *)
(* connection waiting on listener i.  Every connection that arrived has    *)
(* been served, is still queued, or was refused by close(); so served      *)
(* plus the number of queued pairs never exceeds conns.  Counting pairs    *)
(* instead of summing the incoming fields keeps the argument to adding and *)
(* removing one element of a finite set.                                   *)
(***************************************************************************)

\* The connections queued on the listeners ls.
QueuedIn(ls) == {q \in (1..Len(ls)) \X (1..MaxConns) : q[2] <= ls[q[1]].incoming}

\* A connection is served at most once, and only after it arrived.
ServedBound == served + Cardinality(QueuedIn(listeners)) <= conns

\* The queued pairs of well-typed listeners form a finite set.
LEMMA QueuedFinite ==
  ASSUME NEW ls \in Seq(Listener)
  PROVE  IsFiniteSet(QueuedIn(ls))
<1>0. IsFiniteSet(1..Len(ls)) /\ IsFiniteSet(1..MaxConns)
  BY BoundsAssumption, FS_Interval
<1>1. IsFiniteSet((1..Len(ls)) \X (1..MaxConns))
  BY <1>0, FS_Product
<1>2. QueuedIn(ls) \subseteq (1..Len(ls)) \X (1..MaxConns)
  BY DEF QueuedIn
<1>3. QED
  BY <1>1, <1>2, FS_Subset

\* Listeners whose queues did not change queue the same pairs.
LEMMA QueuedUnchanged ==
  ASSUME NEW ls, NEW ms, Len(ms) = Len(ls),
         \A j \in 1..Len(ls) : ms[j].incoming = ls[j].incoming
  PROVE  QueuedIn(ms) = QueuedIn(ls)
BY DEF QueuedIn

\* A new listener starts with nothing queued.
LEMMA QueuedAppend ==
  ASSUME NEW ls \in Seq(Listener), NEW r, r.incoming = 0
  PROVE  QueuedIn(Append(ls, r)) = QueuedIn(ls)
<1>1. \A q \in QueuedIn(Append(ls, r)) : q[1] \in 1..Len(ls)
  BY DEF QueuedIn
<1>2. QED
  BY <1>1 DEF QueuedIn

\* A connection arriving on listener i adds the pair <<i, n + 1>>, where n
\* connections were queued there, and that pair is new.
LEMMA QueuedAdd ==
  ASSUME NEW ls \in Seq(Listener), NEW ms, NEW i \in 1..Len(ls),
         Len(ms) = Len(ls),
         ls[i].incoming < MaxConns,
         ms[i].incoming = ls[i].incoming + 1,
         \A j \in 1..Len(ls) \ {i} : ms[j].incoming = ls[j].incoming
  PROVE  /\ QueuedIn(ms) = QueuedIn(ls) \cup {<<i, ls[i].incoming + 1>>}
         /\ <<i, ls[i].incoming + 1>> \notin QueuedIn(ls)
<1> DEFINE n == ls[i].incoming
<1> USE DEF n
<1>1. n \in Nat /\ n < MaxConns
  <2>1. ls[i] \in Listener
    OBVIOUS
  <2>2. ls[i].incoming \in 0..MaxConns
    BY <2>1 DEF Listener
  <2>3. QED
    BY <2>2, BoundsAssumption
<1>2. ASSUME NEW a \in 1..Len(ls), NEW k \in 1..MaxConns
      PROVE  (k <= ms[a].incoming) <=> (k <= ls[a].incoming \/ (a = i /\ k = n + 1))
  <2>1. CASE a = i
    BY <1>1, <2>1
  <2>2. CASE a # i
    BY <2>2
  <2>3. QED
    BY <2>1, <2>2
<1>3. ~(n + 1 <= n)
  BY <1>1, BoundsAssumption
<1>4. n + 1 \in 1..MaxConns
  BY <1>1, BoundsAssumption
<1>5. QED
  BY <1>2, <1>3, <1>4 DEF QueuedIn

\* accept() taking a connection from listener i, where n > 0 were queued,
\* removes the pair <<i, n>>, which was there.
LEMMA QueuedTake ==
  ASSUME NEW ls \in Seq(Listener), NEW ms, NEW i \in 1..Len(ls),
         Len(ms) = Len(ls),
         ls[i].incoming > 0,
         ms[i].incoming = ls[i].incoming - 1,
         \A j \in 1..Len(ls) \ {i} : ms[j].incoming = ls[j].incoming
  PROVE  /\ QueuedIn(ms) = QueuedIn(ls) \ {<<i, ls[i].incoming>>}
         /\ <<i, ls[i].incoming>> \in QueuedIn(ls)
<1> DEFINE n == ls[i].incoming
<1> USE DEF n
<1>1. n \in 1..MaxConns
  <2>1. ls[i] \in Listener
    OBVIOUS
  <2>2. ls[i].incoming \in 0..MaxConns
    BY <2>1 DEF Listener
  <2>3. QED
    BY <2>2, BoundsAssumption
<1>2. ASSUME NEW a \in 1..Len(ls), NEW k \in 1..MaxConns
      PROVE  (k <= ms[a].incoming) <=> (k <= ls[a].incoming /\ ~(a = i /\ k = n))
  <2>1. CASE a = i
    BY <1>1, <2>1
  <2>2. CASE a # i
    BY <2>2
  <2>3. QED
    BY <2>1, <2>2
<1>3. QED
  BY <1>1, <1>2 DEF QueuedIn

\* close() refuses the connections queued on this.listener.
LEMMA QueuedDrop ==
  ASSUME NEW ls \in Seq(Listener), NEW ms, NEW i \in 1..Len(ls),
         Len(ms) = Len(ls),
         ms[i].incoming = 0,
         \A j \in 1..Len(ls) \ {i} : ms[j].incoming = ls[j].incoming
  PROVE  QueuedIn(ms) \subseteq QueuedIn(ls)
BY DEF QueuedIn


\* Every step keeps served plus the queued connections within conns: an
\* arrival queues one pair and counts it, accept() moves one pair to served,
\* close() only drops pairs, and the other steps leave the queues alone.
LEMMA ServedStep == IInv /\ ServedBound /\ [Next]_vars => ServedBound'
<1> SUFFICES ASSUME IInv, ServedBound, [Next]_vars PROVE ServedBound'
  OBVIOUS
<1>0. SeqTypes /\ IncomingBound /\ CountTypes /\ CallbackBeforeLoop
  BY DEF IInv, TypeInv
<1>1. SeqTypes'
  BY IInvStep DEF IInv, TypeInv
<1>2. IsFiniteSet(QueuedIn(listeners)) /\ Cardinality(QueuedIn(listeners)) \in Nat
  BY <1>0, QueuedFinite, FS_CardinalityType DEF SeqTypes
<1>3. IsFiniteSet(QueuedIn(listeners')) /\ Cardinality(QueuedIn(listeners')) \in Nat
  BY <1>1, QueuedFinite, FS_CardinalityType DEF SeqTypes
\* The steps that keep every queue, served and conns.
<1>4. ASSUME Len(listeners') = Len(listeners),
             \A j \in 1..Len(listeners) : listeners'[j].incoming = listeners[j].incoming,
             served' = served, conns' = conns
      PROVE  ServedBound'
  <2>1. QueuedIn(listeners') = QueuedIn(listeners)
    BY <1>4, QueuedUnchanged
  <2>2. QED
    BY <1>4, <2>1 DEF ServedBound
\* unref(), ref() and the unrefed accept loop only set this.listener's flag.
<1>5. ASSUME NEW b \in BOOLEAN, HasListener,
             listeners' = [listeners EXCEPT ![Current].refed = b],
             served' = served, conns' = conns
      PROVE  ServedBound'
  <2>1. /\ Len(listeners') = Len(listeners)
        /\ listeners'[Current].incoming = listeners[Current].incoming
        /\ \A j \in 1..Len(listeners) \ {Current} : listeners'[j] = listeners[j]
    BY <1>0, <1>5, RefedFacts
  <2>2. QED
    BY <1>4, <1>5, <2>1
<1>6. CASE UNCHANGED <<listeners, served, conns>>
  BY <1>4, <1>6
<1>7. CASE Unref \/ Ref
  <2>1. CASE HasListener
    <3>1. \E b \in BOOLEAN : listeners' = [listeners EXCEPT ![Current].refed = b]
      BY <1>7, <2>1, Zenon DEF Unref, Ref
    <3>2. served' = served /\ conns' = conns
      BY <1>7, Zenon DEF Unref, Ref
    <3>3. QED
      BY <1>5, <2>1, <3>1, <3>2
  <2>2. CASE ~HasListener
    BY <1>6, <1>7, <2>2, Zenon DEF Unref, Ref
  <2>3. QED
    BY <2>1, <2>2
<1>8. CASE ListenLoop
  <2>1. CASE unrefed
    <3>1. HasListener
      BY <1>0, <1>8 DEF ListenLoop, CallbackBeforeLoop
    <3>2. listeners' = [listeners EXCEPT ![Current].refed = FALSE]
          /\ served' = served /\ conns' = conns
      BY <1>8, <2>1, Zenon DEF ListenLoop
    <3>3. QED
      BY <1>5, <3>1, <3>2
  <2>2. CASE ~unrefed
    BY <1>6, <1>8, <2>2, Zenon DEF ListenLoop
  <2>3. QED
    BY <2>1, <2>2
<1>9. CASE Listen
  <2>1. listeners' = Append(listeners, [state |-> "open", refed |-> TRUE,
                                       incoming |-> 0])
        /\ served' = served /\ conns' = conns
    BY <1>9, Zenon DEF Listen
  <2>2. QueuedIn(listeners') = QueuedIn(listeners)
    BY <1>0, <2>1, QueuedAppend DEF SeqTypes
  <2>3. QED
    BY <2>1, <2>2 DEF ServedBound
<1>10. CASE Close
  <2>1. CASE HasListener
    <3>1. listeners' = [listeners EXCEPT ![Current].state = "closed",
                                         ![Current].incoming = 0]
          /\ served' = served /\ conns' = conns
      BY <1>10, <2>1, Zenon DEF Close
    <3>2. /\ Len(listeners') = Len(listeners)
          /\ listeners'[Current].incoming = 0
          /\ \A j \in 1..Len(listeners) \ {Current} : listeners'[j] = listeners[j]
      BY <1>0, <2>1, <3>1, ClosedFacts
    <3>3. Current \in 1..Len(listeners)
      BY <2>1 DEF HasListener, Current
    <3>4. QueuedIn(listeners') \subseteq QueuedIn(listeners)
      BY <1>0, <3>2, <3>3, QueuedDrop DEF SeqTypes
    <3>5. Cardinality(QueuedIn(listeners')) <= Cardinality(QueuedIn(listeners))
      BY <1>2, <3>4, FS_Subset
    <3>6. QED
      BY <1>0, <1>2, <1>3, <3>1, <3>5 DEF ServedBound, CountTypes
  <2>2. CASE ~HasListener
    BY <1>6, <1>10, <2>2, Zenon DEF Close
  <2>3. QED
    BY <2>1, <2>2
<1>11. CASE EmitClose
  BY <1>6, <1>11, Zenon DEF EmitClose
<1>12. ASSUME NEW i \in 1..Len(listeners), AcceptBadResource(i) \/ AcceptError(i)
       PROVE  ServedBound'
  BY <1>6, <1>12, Zenon DEF AcceptBadResource, AcceptError
\* A connection arrives: one new pair, and conns grows by one.
<1>13. ASSUME NEW i \in 1..Len(listeners), ConnArrive(i) PROVE ServedBound'
  <2>1. listeners' = [listeners EXCEPT ![i].incoming = @ + 1]
        /\ served' = served /\ conns' = conns + 1 /\ conns < MaxConns
    BY <1>13, Zenon DEF ConnArrive
  <2>2. /\ Len(listeners') = Len(listeners)
        /\ listeners'[i].incoming = listeners[i].incoming + 1
        /\ \A j \in 1..Len(listeners) \ {i} : listeners'[j] = listeners[j]
    BY <1>0, <2>1, AddFacts
  <2>3. listeners[i].incoming < MaxConns
    <3>1. listeners[i].incoming <= conns
      BY <1>0 DEF IncomingBound
    <3>2. listeners[i] \in Listener
      BY <1>0 DEF SeqTypes
    <3>3. listeners[i].incoming \in 0..MaxConns
      BY <3>2 DEF Listener
    <3>4. conns \in 0..MaxConns
      BY <1>0 DEF CountTypes
    <3>5. QED
      BY <2>1, <3>1, <3>3, <3>4, BoundsAssumption
  <2>4. /\ QueuedIn(listeners') = QueuedIn(listeners) \cup {<<i, listeners[i].incoming + 1>>}
        /\ <<i, listeners[i].incoming + 1>> \notin QueuedIn(listeners)
    BY <1>0, <2>2, <2>3, QueuedAdd DEF SeqTypes
  <2>5. Cardinality(QueuedIn(listeners')) = Cardinality(QueuedIn(listeners)) + 1
    BY <1>2, <2>4, FS_AddElement
  <2>6. QED
    BY <1>0, <1>2, <2>1, <2>5 DEF ServedBound, CountTypes
\* accept() resolves: one pair leaves the queue, and served grows by one.
<1>14. ASSUME NEW i \in 1..Len(listeners), AcceptResolve(i) PROVE ServedBound'
  <2>1. listeners' = [listeners EXCEPT ![i].incoming = @ - 1]
        /\ served' = served + 1 /\ conns' = conns /\ listeners[i].incoming > 0
    BY <1>14, Zenon DEF AcceptResolve
  <2>2. /\ Len(listeners') = Len(listeners)
        /\ listeners'[i].incoming = listeners[i].incoming - 1
        /\ \A j \in 1..Len(listeners) \ {i} : listeners'[j] = listeners[j]
    BY <1>0, <2>1, TakeFacts
  <2>3. /\ QueuedIn(listeners') = QueuedIn(listeners) \ {<<i, listeners[i].incoming>>}
        /\ <<i, listeners[i].incoming>> \in QueuedIn(listeners)
    BY <1>0, <2>1, <2>2, QueuedTake DEF SeqTypes
  <2>4. Cardinality(QueuedIn(listeners')) = Cardinality(QueuedIn(listeners)) - 1
    <3>1. Cardinality(QueuedIn(listeners) \ {<<i, listeners[i].incoming>>})
            = Cardinality(QueuedIn(listeners)) - 1
      BY <1>2, <2>3, FS_RemoveElement
    <3>2. QED
      BY <2>3, <3>1
  <2>5. QED
    BY <1>0, <1>2, <2>1, <2>4 DEF ServedBound, CountTypes
<1>15. CASE UNCHANGED vars
  BY <1>6, <1>15 DEF vars
<1>16. QED
  BY <1>7, <1>8, <1>9, <1>10, <1>11, <1>12, <1>13, <1>14, <1>15 DEF Next

\* No queue at the start.
LEMMA InitServed == Init => ServedBound
<1> SUFFICES ASSUME Init PROVE ServedBound
  OBVIOUS
<1>1. QueuedIn(listeners) = {}
  BY DEF Init, QueuedIn
<1>2. QED
  BY <1>1, FS_EmptySet DEF Init, ServedBound

\* The bound served <= MaxConns of TypeOK follows: served connections are
\* among those that arrived, and no more than MaxConns arrive.
LEMMA ServedTypeOK == IInv /\ ServedBound => TypeOK
<1> SUFFICES ASSUME IInv, ServedBound PROVE TypeOK
  OBVIOUS
<1>1. FlagTypes /\ CountTypes /\ SeqTypes
  BY DEF IInv, TypeInv
<1>2. Cardinality(QueuedIn(listeners)) \in Nat
  BY <1>1, QueuedFinite, FS_CardinalityType DEF SeqTypes
<1>3. served \in 0..MaxConns
  BY <1>1, <1>2, BoundsAssumption DEF ServedBound, CountTypes
<1>4. QED
  BY <1>1, <1>3 DEF TypeOK, FlagTypes, CountTypes, SeqTypes

\* ServerImpl keeps every field in its type, the number of served
\* connections included, whatever order listen(), unref(), ref(), close(),
\* the arrivals and the accept outcomes come in.
THEOREM TypeCorrect == Spec => []TypeOK
<1>1. Init => IInv /\ ServedBound
  BY InitIInv, InitServed
<1>2. IInv /\ ServedBound /\ [Next]_vars => (IInv /\ ServedBound)'
  BY IInvStep, ServedStep
<1>3. IInv /\ ServedBound => TypeOK
  BY ServedTypeOK
<1>4. QED
  BY <1>1, <1>2, <1>3, PTL DEF Spec

====
