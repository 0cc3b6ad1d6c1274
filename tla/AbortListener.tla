---------------------------- MODULE AbortListener ----------------------------
(***************************************************************************)
(* addAbortListener(signal, listener), src/ext/node/polyfills/internal/   *)
(* events/abort_listener.mjs, on one AbortSignal, with several calls       *)
(* (registrations) racing with abort() and with the disposers they return. *)
(*                                                                         *)
(* The signal's side (its set of abort algorithms, run in insertion order  *)
(* by abort()) is ext/web code outside src/ and is modelled from how the   *)
(* listener module uses it.  A listener body runs to completion; the       *)
(* listeners are not modelled as calling back into the module.             *)
(***************************************************************************)
EXTENDS Naturals, Sequences

CONSTANT Regs   \* the addAbortListener calls (model values)

ASSUME RegsAssumption == Regs # {}

VARIABLES
  aborted,      \* signal.aborted
  state,        \* per call: "none" (not made), "threw", "added"
  remover,      \* per call: removeEventListener is set (added while live)
  algos,        \* the signal's abort algorithms (handlers), in order
  microtasks,   \* listener calls queued with queueMicrotask, in order
  calls,        \* listener invocations, in order (history)
  added,        \* successful calls, in the order they were made (history)
  disposedEarly \* per call: disposed while the signal was not aborted

vars == <<aborted, state, remover, algos, microtasks, calls, added,
          disposedEarly>>

\* Position of x in the injective sequence s.
PosOf(s, x) == CHOOSE i \in 1..Len(s) : s[i] = x

\* The insertion-ordered set s (a sequence without repetitions) without
\* the element x.
Without(s, x) ==
  IF \E i \in 1..Len(s) : s[i] = x
    THEN LET k == PosOf(s, x)
         IN  [i \in 1..Len(s) - 1 |-> IF i < k THEN s[i] ELSE s[i + 1]]
    ELSE s

-----------------------------------------------------------------------------
Init ==
  /\ aborted = FALSE
  /\ state = [r \in Regs |-> "none"]
  /\ remover = [r \in Regs |-> FALSE]
  /\ algos = <<>>
  /\ microtasks = <<>>
  /\ calls = <<>>
  /\ added = <<>>
  /\ disposedEarly = [r \in Regs |-> FALSE]

\* Variant of QueueListener that forgets to queue the call.
QueueListenerDropped(r) == UNCHANGED <<microtasks, calls>>

\* Variant of QueueListener that calls the listener synchronously instead
\* of queueing the call.
QueueListenerSync(r) ==
  /\ calls' = Append(calls, r)
  /\ UNCHANGED microtasks

\* queueMicrotask(() => listener({ target: signal })).
QueueListener(r) ==
  /\ microtasks' = Append(microtasks, r)
  /\ UNCHANGED calls

\* addAbortListener(signal, listener).  `valid` says whether signal and
\* listener pass the checks; if not the call throws and nothing is
\* registered.  On an aborted signal the call of the listener is queued;
\* otherwise a handler is added to the signal and removeEventListener set.
AddAbortListener(r, valid) ==
  /\ state[r] = "none"
  /\ \/ /\ ~valid
        /\ state' = [state EXCEPT ![r] = "threw"]
        /\ UNCHANGED <<remover, algos, microtasks, calls, added>>
     \/ /\ valid
        /\ aborted
        /\ QueueListener(r)
        /\ state' = [state EXCEPT ![r] = "added"]
        /\ added' = Append(added, r)
        /\ UNCHANGED <<remover, algos>>
     \/ /\ valid
        /\ ~aborted
        /\ algos' = Append(algos, r)
        /\ remover' = [remover EXCEPT ![r] = TRUE]
        /\ state' = [state EXCEPT ![r] = "added"]
        /\ added' = Append(added, r)
        /\ UNCHANGED <<microtasks, calls>>
  /\ UNCHANGED <<aborted, disposedEarly>>

\* Variant of Dispose whose disposer never removes the handler.
DisposeNoRemove(r) ==
  /\ state[r] = "added"
  /\ disposedEarly' = [disposedEarly EXCEPT ![r] = disposedEarly[r] \/ ~aborted]
  /\ UNCHANGED <<aborted, state, remover, algos, microtasks, calls, added>>

\* The disposer: removeEventListener?.(), which takes the handler off the
\* signal when it was set, and does nothing for a queued call.
Dispose(r) ==
  /\ state[r] = "added"
  /\ algos' = IF remover[r] THEN Without(algos, r) ELSE algos
  /\ disposedEarly' = [disposedEarly EXCEPT ![r] = disposedEarly[r] \/ ~aborted]
  /\ UNCHANGED <<aborted, state, remover, microtasks, calls, added>>

\* signal abort(): the handlers run in insertion order; each removes itself
\* (removeEventListener) and calls its listener.
Abort ==
  /\ ~aborted
  /\ aborted' = TRUE
  /\ calls' = calls \o algos
  /\ algos' = <<>>
  /\ UNCHANGED <<state, remover, microtasks, added, disposedEarly>>

\* The oldest queued microtask runs: the listener is called.
RunMicrotask ==
  /\ microtasks # <<>>
  /\ calls' = Append(calls, Head(microtasks))
  /\ microtasks' = Tail(microtasks)
  /\ UNCHANGED <<aborted, state, remover, algos, added, disposedEarly>>

Next ==
  \/ \E r \in Regs, v \in BOOLEAN : AddAbortListener(r, v)
  \/ \E r \in Regs : Dispose(r)
  \/ Abort
  \/ RunMicrotask

\* The event loop runs queued microtasks.
Spec == Init /\ [][Next]_vars /\ WF_vars(RunMicrotask)

-----------------------------------------------------------------------------
(***************************************************************************)
(* Properties.                                                             *)
(***************************************************************************)

\* Every variable has the type the code gives it.
TypeOK ==
  /\ aborted \in BOOLEAN
  /\ state \in [Regs -> {"none", "threw", "added"}]
  /\ remover \in [Regs -> BOOLEAN]
  /\ algos \in Seq(Regs)
  /\ microtasks \in Seq(Regs)
  /\ calls \in Seq(Regs)
  /\ added \in Seq(Regs)
  /\ disposedEarly \in [Regs -> BOOLEAN]

\* A listener whose disposer ran before the signal was aborted is never
\* called: the disposer's removeEventListener (lines 33-41) takes the
\* handler off the signal in time.
DisposedBeforeAbortNeverCalled ==
  \A r \in Regs : disposedEarly[r] => \A i \in 1..Len(calls) : calls[i] # r

\* Listeners are called in the order addAbortListener was called: those
\* added before abort() by the signal's loop, those added after it by
\* microtasks in queue order (line 26).
CalledInAddOrder ==
  \A i, j \in 1..Len(calls) :
    i < j => PosOf(added, calls[i]) < PosOf(added, calls[j])

\* A listener added to an aborted signal, or added before the abort and not
\* disposed before it, is eventually called, even if it is disposed after
\* its call was queued (the disposer cannot cancel a queued microtask).
EventuallyCalled ==
  \A r \in Regs :
    (aborted /\ state[r] = "added" /\ ~disposedEarly[r])
      ~> (\E i \in 1..Len(calls) : calls[i] = r)

\* A listener is only ever called after the addAbortListener call that
\* registered it has returned, so the caller already holds the disposer: on
\* an aborted signal the call is queued with queueMicrotask (line 26), never
\* made during addAbortListener, and abort() runs only handlers added earlier.
CalledAfterReturn ==
  [][\A i \in (Len(calls) + 1)..Len(calls') : state[calls'[i]] = "added"]_vars

=============================================================================
