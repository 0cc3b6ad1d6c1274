------------------------- MODULE AbortListener_proofs -------------------------
(***************************************************************************)
(* Proofs about addAbortListener (AbortListener), for every set of         *)
(* registrations.                                                          *)
(***************************************************************************)
EXTENDS AbortListener, TLAPS

\* The elements of a sequence.
Elems(s) == {s[i] : i \in 1..Len(s)}

\* A sequence without repetitions.
Injective(s) == \A i, j \in 1..Len(s) : s[i] = s[j] => i = j

\* Only handlers whose removeEventListener is set are on the signal, at most
\* once each, and abort() empties the set.
HandlersRemovable == \A r \in Elems(algos) : remover[r]
HandlersDistinct == Injective(algos)
AbortEmptiesHandlers == aborted => algos = <<>>

\* Nothing is called or queued before abort().
NothingRunsBeforeAbort == ~aborted => calls = <<>> /\ microtasks = <<>>

\* A call made before abort() has its removeEventListener set, and only a
\* call that was made has it.
AddedBeforeAbortRemovable ==
  \A r \in Regs : state[r] = "added" /\ ~aborted => remover[r]
RemoverOnlyIfAdded == \A r \in Regs : remover[r] => state[r] = "added"

\* Queued calls come from calls made on an aborted signal.
QueuedNotRemovable == \A r \in Elems(microtasks) : ~remover[r]

\* An early disposer removed its handler before anything ran.
DisposedGone ==
  \A r \in Regs : disposedEarly[r] =>
    /\ remover[r]
    /\ r \notin Elems(algos)
    /\ r \notin Elems(calls)

\* What a disposer run before abort() relies on, and why a listener queued
\* with queueMicrotask is never one that was disposed early.
DisposeInv ==
  /\ HandlersRemovable
  /\ HandlersDistinct
  /\ AbortEmptiesHandlers
  /\ NothingRunsBeforeAbort
  /\ AddedBeforeAbortRemovable
  /\ RemoverOnlyIfAdded
  /\ QueuedNotRemovable
  /\ DisposedGone

\* The sequence s lists registrations in the order in which they occur in a.
Ordered(s, a) ==
  \A i, j \in 1..Len(s) : i < j => PosOf(a, s[i]) < PosOf(a, s[j])

\* Why listeners run in the order they were added: the handlers on the signal
\* and, after abort(), the calls made followed by the queued ones are in the
\* order of the successful addAbortListener calls.
OrderInv ==
  /\ Injective(added)
  /\ \A r \in Regs : r \in Elems(added) <=> state[r] = "added"
  /\ Elems(algos) \cup Elems(calls) \cup Elems(microtasks) \subseteq Elems(added)
  /\ Ordered(algos, added)
  /\ Ordered(calls \o microtasks, added)

IInv == TypeOK /\ DisposeInv

-----------------------------------------------------------------------------
(***************************************************************************)
(* Lemmas about the sequences of registrations.                            *)
(***************************************************************************)

\* Appending x adds x to the elements.
LEMMA ElemsAppend ==
  ASSUME NEW s \in Seq(Regs), NEW x \in Regs
  PROVE  /\ Append(s, x) \in Seq(Regs)
         /\ Elems(Append(s, x)) = Elems(s) \cup {x}
<1>1. Append(s, x) \in Seq(Regs) /\ Len(Append(s, x)) = Len(s) + 1
  OBVIOUS
<1>2. Elems(Append(s, x)) \subseteq Elems(s) \cup {x}
  BY <1>1 DEF Elems
<1>3. Elems(s) \cup {x} \subseteq Elems(Append(s, x))
  <2>1. x \in Elems(Append(s, x))
    <3>1. Len(s) + 1 \in 1..Len(Append(s, x)) /\ Append(s, x)[Len(s) + 1] = x
      BY <1>1
    <3>2. QED
      BY <3>1 DEF Elems
  <2>2. Elems(s) \subseteq Elems(Append(s, x))
    BY <1>1 DEF Elems
  <2>3. QED
    BY <2>1, <2>2
<1>4. QED
  BY <1>1, <1>2, <1>3

\* The elements of a concatenation are those of its parts.
LEMMA ElemsConcat ==
  ASSUME NEW s \in Seq(Regs), NEW t \in Seq(Regs)
  PROVE  /\ s \o t \in Seq(Regs)
         /\ Elems(s \o t) = Elems(s) \cup Elems(t)
<1>1. s \o t \in Seq(Regs) /\ Len(s \o t) = Len(s) + Len(t)
  OBVIOUS
<1>2. Elems(s \o t) \subseteq Elems(s) \cup Elems(t)
  <2>1. SUFFICES ASSUME NEW i \in 1..Len(s \o t)
                 PROVE  (s \o t)[i] \in Elems(s) \cup Elems(t)
    BY DEF Elems
  <2>2. CASE i <= Len(s)
    BY <1>1, <2>2 DEF Elems
  <2>3. CASE i > Len(s)
    <3>1. i - Len(s) \in 1..Len(t) /\ (s \o t)[i] = t[i - Len(s)]
      BY <1>1, <2>3
    <3>2. QED
      BY <3>1 DEF Elems
  <2>4. QED
    BY <2>2, <2>3
<1>3. Elems(s) \subseteq Elems(s \o t)
  <2>1. SUFFICES ASSUME NEW i \in 1..Len(s) PROVE s[i] \in Elems(s \o t)
    BY DEF Elems
  <2>2. i \in 1..Len(s \o t) /\ (s \o t)[i] = s[i]
    BY <1>1
  <2>3. QED
    BY <2>2 DEF Elems
<1>4. Elems(t) \subseteq Elems(s \o t)
  <2>1. SUFFICES ASSUME NEW i \in 1..Len(t) PROVE t[i] \in Elems(s \o t)
    BY DEF Elems
  <2>2. Len(s) + i \in 1..Len(s \o t) /\ (s \o t)[Len(s) + i] = t[i]
    BY <1>1
  <2>3. QED
    BY <2>2 DEF Elems
<1>5. QED
  BY <1>1, <1>2, <1>3, <1>4

\* The head of a sequence is one of its elements, and its tail has no
\* others.
LEMMA ElemsTail ==
  ASSUME NEW s \in Seq(Regs), s # <<>>
  PROVE  /\ Tail(s) \in Seq(Regs)
         /\ Head(s) \in Elems(s)
         /\ Elems(Tail(s)) \subseteq Elems(s)
<1>1. Len(s) >= 1 /\ Tail(s) \in Seq(Regs) /\ Len(Tail(s)) = Len(s) - 1
  OBVIOUS
<1>2. Head(s) \in Elems(s)
  BY <1>1 DEF Elems
<1>3. Elems(Tail(s)) \subseteq Elems(s)
  <2>1. SUFFICES ASSUME NEW i \in 1..Len(Tail(s)) PROVE Tail(s)[i] \in Elems(s)
    BY DEF Elems
  <2>2. i + 1 \in 1..Len(s) /\ Tail(s)[i] = s[i + 1]
    BY <1>1
  <2>3. QED
    BY <2>2 DEF Elems
<1>4. QED
  BY <1>1, <1>2, <1>3

\* Appending an element not yet present keeps a sequence without
\* repetitions.
LEMMA AppendInjective ==
  ASSUME NEW s \in Seq(Regs), Injective(s), NEW x \in Regs, x \notin Elems(s)
  PROVE  Injective(Append(s, x))
<1>1. Len(Append(s, x)) = Len(s) + 1
  OBVIOUS
<1>2. \A i \in 1..Len(s) : s[i] # x
  BY DEF Elems
<1>3. QED
  BY <1>1, <1>2 DEF Injective

\* Removing an element from a sequence without repetitions removes exactly
\* that element and keeps it without repetitions.
LEMMA WithoutFacts ==
  ASSUME NEW s \in Seq(Regs), Injective(s), NEW x
  PROVE  /\ Without(s, x) \in Seq(Regs)
         /\ Elems(Without(s, x)) = Elems(s) \ {x}
         /\ Injective(Without(s, x))
<1>1. CASE \E i \in 1..Len(s) : s[i] = x
  <2>1. PICK k \in 1..Len(s) : s[k] = x
    BY <1>1
  <2>2. PosOf(s, x) = k
    BY <2>1 DEF PosOf, Injective
  <2> DEFINE w == [i \in 1..Len(s) - 1 |-> IF i < k THEN s[i] ELSE s[i + 1]]
  <2>3. Without(s, x) = w
    BY <1>1, <2>2 DEF Without
  <2>4. w \in Seq(Regs) /\ Len(w) = Len(s) - 1
    <3>1. Len(s) - 1 \in Nat
      BY <2>1
    <3>2. \A i \in 1..Len(s) - 1 : w[i] \in Regs
      OBVIOUS
    <3>3. QED
      BY <3>1, <3>2
  <2>5. \A i \in 1..Len(w) : w[i] = s[IF i < k THEN i ELSE i + 1]
    BY <2>4
  <2>6. Elems(w) \subseteq Elems(s) \ {x}
    <3>1. SUFFICES ASSUME NEW i \in 1..Len(w) PROVE w[i] \in Elems(s) \ {x}
      BY DEF Elems
    <3> DEFINE j == IF i < k THEN i ELSE i + 1
    <3>2. j \in 1..Len(s) /\ j # k /\ w[i] = s[j]
      BY <2>1, <2>4, <2>5
    <3>3. s[j] # x
      BY <2>1, <3>2 DEF Injective
    <3>4. QED
      BY <3>2, <3>3 DEF Elems
  <2>7. Elems(s) \ {x} \subseteq Elems(w)
    <3>1. SUFFICES ASSUME NEW j \in 1..Len(s), s[j] # x PROVE s[j] \in Elems(w)
      BY DEF Elems
    <3>2. j # k
      BY <2>1, <3>1
    <3>3. CASE j < k
      BY <2>4, <2>5, <3>3 DEF Elems
    <3>4. CASE j > k
      <4>1. j - 1 \in 1..Len(w) /\ w[j - 1] = s[j]
        BY <2>4, <2>5, <3>4
      <4>2. QED
        BY <4>1 DEF Elems
    <3>5. QED
      BY <3>2, <3>3, <3>4
  <2>8. Injective(w)
    BY <2>4, <2>5 DEF Injective
  <2>9. QED
    BY <2>3, <2>4, <2>6, <2>7, <2>8
<1>2. CASE ~\E i \in 1..Len(s) : s[i] = x
  <2>1. Without(s, x) = s
    BY <1>2 DEF Without
  <2>2. x \notin Elems(s)
    BY <1>2 DEF Elems
  <2>3. QED
    BY <2>1, <2>2
<1>3. QED
  BY <1>1, <1>2

\* In a sequence without repetitions, PosOf finds the one index of an element.
LEMMA PosOfIndex ==
  ASSUME NEW a \in Seq(Regs), Injective(a), NEW i \in 1..Len(a)
  PROVE  PosOf(a, a[i]) = i
BY DEF PosOf, Injective

\* The position of an element of a.
LEMMA PosOfElem ==
  ASSUME NEW a \in Seq(Regs), NEW y \in Elems(a)
  PROVE  PosOf(a, y) \in 1..Len(a) /\ a[PosOf(a, y)] = y
BY DEF PosOf, Elems

\* Appending a fresh x to a leaves the positions of a's elements alone and
\* puts x last.
LEMMA PosOfAppend ==
  ASSUME NEW a \in Seq(Regs), Injective(a), NEW x \in Regs, x \notin Elems(a)
  PROVE  /\ \A y \in Elems(a) : PosOf(Append(a, x), y) = PosOf(a, y)
         /\ PosOf(Append(a, x), x) = Len(a) + 1
<1>1. Injective(Append(a, x)) /\ Append(a, x) \in Seq(Regs)
  BY AppendInjective
<1>2. ASSUME NEW y \in Elems(a) PROVE PosOf(Append(a, x), y) = PosOf(a, y)
  <2>1. PosOf(a, y) \in 1..Len(a) /\ a[PosOf(a, y)] = y
    BY PosOfElem
  <2>2. PosOf(a, y) \in 1..Len(Append(a, x)) /\ Append(a, x)[PosOf(a, y)] = y
    BY <2>1
  <2>3. QED
    BY <1>1, <2>2, PosOfIndex
<1>3. PosOf(Append(a, x), x) = Len(a) + 1
  <2>1. Len(a) + 1 \in 1..Len(Append(a, x)) /\ Append(a, x)[Len(a) + 1] = x
    OBVIOUS
  <2>2. QED
    BY <1>1, <2>1, PosOfIndex
<1>4. QED
  BY <1>2, <1>3

\* A sequence ordered by a stays ordered when a fresh x is appended to a.
LEMMA OrderedNewRank ==
  ASSUME NEW s \in Seq(Regs), NEW a \in Seq(Regs), Injective(a),
         Elems(s) \subseteq Elems(a), Ordered(s, a),
         NEW x \in Regs, x \notin Elems(a)
  PROVE  Ordered(s, Append(a, x))
<1>1. \A i \in 1..Len(s) : s[i] \in Elems(a)
  BY DEF Elems
<1>2. \A i \in 1..Len(s) : PosOf(Append(a, x), s[i]) = PosOf(a, s[i])
  BY <1>1, PosOfAppend
<1>3. QED
  BY <1>2 DEF Ordered

\* Appending the fresh x to both s and a keeps s ordered by a.
LEMMA OrderedAppend ==
  ASSUME NEW s \in Seq(Regs), NEW a \in Seq(Regs), Injective(a),
         Elems(s) \subseteq Elems(a), Ordered(s, a),
         NEW x \in Regs, x \notin Elems(a)
  PROVE  Ordered(Append(s, x), Append(a, x))
<1>1. Ordered(s, Append(a, x))
  BY OrderedNewRank
<1>2. \A i \in 1..Len(s) : PosOf(Append(a, x), s[i]) \in 1..Len(a)
  <2>1. SUFFICES ASSUME NEW i \in 1..Len(s)
                 PROVE  PosOf(Append(a, x), s[i]) \in 1..Len(a)
    OBVIOUS
  <2>2. s[i] \in Elems(a)
    BY DEF Elems
  <2>3. QED
    BY <2>2, PosOfAppend, PosOfElem
<1>3. PosOf(Append(a, x), x) = Len(a) + 1
  BY PosOfAppend
<1>4. SUFFICES ASSUME NEW i \in 1..Len(s) + 1, NEW j \in 1..Len(s) + 1, i < j
               PROVE  PosOf(Append(a, x), Append(s, x)[i])
                        < PosOf(Append(a, x), Append(s, x)[j])
  BY DEF Ordered
<1>5. i \in 1..Len(s) /\ Append(s, x)[i] = s[i]
  BY <1>4
<1>6. CASE j <= Len(s)
  <2>1. Append(s, x)[j] = s[j] /\ j \in 1..Len(s)
    BY <1>6
  <2>2. QED
    BY <1>1, <1>4, <1>5, <2>1 DEF Ordered
<1>7. CASE j = Len(s) + 1
  <2>1. Append(s, x)[j] = x
    BY <1>7
  <2>2. QED
    BY <1>2, <1>3, <1>5, <2>1
<1>8. QED
  BY <1>6, <1>7

\* Removing an element keeps a sequence ordered.
LEMMA OrderedWithout ==
  ASSUME NEW s \in Seq(Regs), Injective(s), NEW a, Ordered(s, a), NEW x
  PROVE  Ordered(Without(s, x), a)
<1>1. CASE \E i \in 1..Len(s) : s[i] = x
  <2>1. PICK k \in 1..Len(s) : s[k] = x
    BY <1>1
  <2>2. PosOf(s, x) = k
    BY <2>1 DEF PosOf, Injective
  <2> DEFINE w == [i \in 1..Len(s) - 1 |-> IF i < k THEN s[i] ELSE s[i + 1]]
  <2>3. Without(s, x) = w
    BY <1>1, <2>2 DEF Without
  <2>4. Len(w) = Len(s) - 1
    BY <2>1
  <2>5. SUFFICES ASSUME NEW i \in 1..Len(w), NEW j \in 1..Len(w), i < j
                 PROVE  PosOf(a, w[i]) < PosOf(a, w[j])
    BY <2>3 DEF Ordered
  <2>6. PICK fi, fj \in 1..Len(s) : fi < fj /\ w[i] = s[fi] /\ w[j] = s[fj]
    <3>1. /\ (IF i < k THEN i ELSE i + 1) \in 1..Len(s)
          /\ (IF j < k THEN j ELSE j + 1) \in 1..Len(s)
          /\ (IF i < k THEN i ELSE i + 1) < (IF j < k THEN j ELSE j + 1)
      BY <2>1, <2>4, <2>5
    <3>2. /\ w[i] = s[IF i < k THEN i ELSE i + 1]
          /\ w[j] = s[IF j < k THEN j ELSE j + 1]
      BY <2>4, <2>5
    <3>3. QED
      BY <3>1, <3>2
  <2>7. QED
    BY <2>6 DEF Ordered
<1>2. CASE ~\E i \in 1..Len(s) : s[i] = x
  BY <1>2 DEF Without
<1>3. QED
  BY <1>1, <1>2

\* Queuing a call on an aborted signal appends it after the calls made and
\* queued so far.
LEMMA ConcatAppend ==
  ASSUME NEW c \in Seq(Regs), NEW m \in Seq(Regs), NEW x \in Regs
  PROVE  c \o Append(m, x) = Append(c \o m, x)
OBVIOUS

\* A prefix of an ordered sequence is ordered.
LEMMA OrderedPrefix ==
  ASSUME NEW c \in Seq(Regs), NEW m \in Seq(Regs), NEW a, Ordered(c \o m, a)
  PROVE  Ordered(c, a)
<1>1. \A i \in 1..Len(c) : i \in 1..Len(c \o m) /\ (c \o m)[i] = c[i]
  OBVIOUS
<1>2. QED
  BY <1>1 DEF Ordered

\* Running the first queued call moves it from the queue to the calls made.
LEMMA ShiftHead ==
  ASSUME NEW c \in Seq(Regs), NEW m \in Seq(Regs), m # <<>>
  PROVE  Append(c, Head(m)) \o Tail(m) = c \o m
OBVIOUS

-----------------------------------------------------------------------------
(***************************************************************************)
(* The inductive invariant.                                                *)
(***************************************************************************)

\* The empty sequence has no elements.
LEMMA ElemsEmpty == Elems(<<>>) = {}
BY DEF Elems

LEMMA InitIInv == Init => IInv
<1> SUFFICES ASSUME Init PROVE IInv
  OBVIOUS
<1>1. TypeOK
  <2>1. /\ aborted \in BOOLEAN
        /\ state \in [Regs -> {"none", "threw", "added"}]
        /\ remover \in [Regs -> BOOLEAN]
        /\ disposedEarly \in [Regs -> BOOLEAN]
    BY Zenon DEF Init
  <2>2. /\ algos \in Seq(Regs)
        /\ microtasks \in Seq(Regs)
        /\ calls \in Seq(Regs)
        /\ added \in Seq(Regs)
    BY DEF Init
  <2>3. QED
    BY <2>1, <2>2, Zenon DEF TypeOK
<1>2. DisposeInv
  BY ElemsEmpty DEF Init, DisposeInv, HandlersRemovable, HandlersDistinct,
     Injective, AbortEmptiesHandlers, NothingRunsBeforeAbort,
     AddedBeforeAbortRemovable, RemoverOnlyIfAdded, QueuedNotRemovable,
     DisposedGone
<1>3. QED
  BY <1>1, <1>2 DEF IInv

\* An addAbortListener call that throws, queues its listener on an aborted
\* signal, or adds an abort handler with its disposer keeps the invariant.
LEMMA AddStep ==
  ASSUME IInv, NEW r \in Regs, NEW v \in BOOLEAN, AddAbortListener(r, v)
  PROVE  IInv'
<1>0. TypeOK /\ DisposeInv
  BY DEF IInv
<1>1. /\ state[r] = "none"
      /\ ~remover[r]
      /\ r \notin Elems(algos)
      /\ ~disposedEarly[r]
      /\ UNCHANGED <<aborted, calls, disposedEarly>>
  BY <1>0 DEF AddAbortListener, QueueListener, DisposeInv,
     RemoverOnlyIfAdded, HandlersRemovable, DisposedGone
<1>2. CASE ~v
  <2>1. /\ state' = [state EXCEPT ![r] = "threw"]
        /\ UNCHANGED <<remover, algos, microtasks, added>>
    BY <1>2, Zenon DEF AddAbortListener
  <2>2. TypeOK'
    BY <1>0, <1>1, <2>1 DEF TypeOK
  <2>3. DisposeInv'
    BY <1>0, <1>1, <2>1 DEF DisposeInv, HandlersRemovable, HandlersDistinct,
       AbortEmptiesHandlers, NothingRunsBeforeAbort,
       AddedBeforeAbortRemovable, RemoverOnlyIfAdded, QueuedNotRemovable,
       DisposedGone
  <2>4. QED
    BY <2>2, <2>3 DEF IInv
<1>3. CASE v /\ aborted
  <2>1. /\ microtasks' = Append(microtasks, r)
        /\ state' = [state EXCEPT ![r] = "added"]
        /\ added' = Append(added, r)
        /\ UNCHANGED <<remover, algos>>
    BY <1>3, Zenon DEF AddAbortListener, QueueListener
  <2>2. /\ microtasks' \in Seq(Regs)
        /\ Elems(microtasks') = Elems(microtasks) \cup {r}
    BY <1>0, <2>1, ElemsAppend DEF TypeOK
  <2>3. added' \in Seq(Regs)
    BY <1>0, <2>1 DEF TypeOK
  <2>4. TypeOK'
    BY <1>0, <1>1, <2>1, <2>2, <2>3 DEF TypeOK
  <2>5. QueuedNotRemovable'
    BY <1>0, <1>1, <2>1, <2>2 DEF DisposeInv, QueuedNotRemovable
  <2>6. DisposeInv'
    BY <1>0, <1>1, <1>3, <2>1, <2>5 DEF DisposeInv, HandlersRemovable,
       HandlersDistinct, AbortEmptiesHandlers, NothingRunsBeforeAbort,
       AddedBeforeAbortRemovable, RemoverOnlyIfAdded, DisposedGone
  <2>7. QED
    BY <2>4, <2>6 DEF IInv
<1>4. CASE v /\ ~aborted
  <2>1. /\ algos' = Append(algos, r)
        /\ remover' = [remover EXCEPT ![r] = TRUE]
        /\ state' = [state EXCEPT ![r] = "added"]
        /\ added' = Append(added, r)
        /\ UNCHANGED microtasks
    BY <1>4, Zenon DEF AddAbortListener
  <2>2. /\ algos' \in Seq(Regs)
        /\ Elems(algos') = Elems(algos) \cup {r}
    BY <1>0, <2>1, ElemsAppend DEF TypeOK
  <2>3. Injective(algos')
    BY <1>0, <1>1, <2>1, AppendInjective DEF TypeOK, DisposeInv,
       HandlersDistinct
  <2>4. added' \in Seq(Regs)
    BY <1>0, <2>1 DEF TypeOK
  <2>5. TypeOK'
    BY <1>0, <1>1, <2>1, <2>2, <2>4 DEF TypeOK
  <2>6. microtasks = <<>> /\ calls = <<>>
    BY <1>0, <1>4 DEF DisposeInv, NothingRunsBeforeAbort
  <2>7. HandlersRemovable'
    BY <1>0, <2>1, <2>2 DEF TypeOK, DisposeInv, HandlersRemovable
  <2>8. QueuedNotRemovable'
    BY <2>1, <2>6, ElemsEmpty DEF QueuedNotRemovable
  <2>9. DisposedGone'
    BY <1>0, <1>1, <2>1, <2>2 DEF TypeOK, DisposeInv, DisposedGone
  <2>10. DisposeInv'
    BY <1>0, <1>1, <1>4, <2>1, <2>3, <2>6, <2>7, <2>8, <2>9
       DEF TypeOK, DisposeInv, HandlersDistinct, AbortEmptiesHandlers,
       NothingRunsBeforeAbort, AddedBeforeAbortRemovable, RemoverOnlyIfAdded
  <2>11. QED
    BY <2>5, <2>10 DEF IInv
<1>5. QED
  BY <1>2, <1>3, <1>4

\* A disposer removes its abort handler when one was added, and marks the
\* call disposed early when the signal has not aborted.
LEMMA DisposeStep ==
  ASSUME IInv, NEW r \in Regs, Dispose(r)
  PROVE  IInv'
<1>0. TypeOK /\ DisposeInv
  BY DEF IInv
<1>1. /\ state[r] = "added"
      /\ algos' = IF remover[r] THEN Without(algos, r) ELSE algos
      /\ disposedEarly' = [disposedEarly EXCEPT ![r] = disposedEarly[r] \/ ~aborted]
      /\ UNCHANGED <<aborted, state, remover, microtasks, calls, added>>
  BY Zenon DEF Dispose
<1>2. /\ algos' \in Seq(Regs)
      /\ Injective(algos')
      /\ Elems(algos') \subseteq Elems(algos)
      /\ remover[r] => r \notin Elems(algos')
  <2>1. CASE remover[r]
    BY <1>0, <1>1, <2>1, WithoutFacts DEF TypeOK, DisposeInv, HandlersDistinct
  <2>2. CASE ~remover[r]
    BY <1>0, <1>1, <2>2 DEF TypeOK, DisposeInv, HandlersDistinct
  <2>3. QED
    BY <2>1, <2>2
<1>3. aborted => algos' = <<>>
  BY <1>0, <1>1 DEF DisposeInv, AbortEmptiesHandlers, Without
<1>4. disposedEarly' \in [Regs -> BOOLEAN]
  BY <1>0, <1>1 DEF TypeOK
<1>5. TypeOK'
  BY <1>0, <1>1, <1>2, <1>4 DEF TypeOK
<1>6. DisposedGone'
  <2>1. SUFFICES ASSUME NEW q \in Regs, disposedEarly'[q]
                 PROVE  /\ remover[q]
                        /\ q \notin Elems(algos')
                        /\ q \notin Elems(calls)
    BY <1>1 DEF DisposedGone
  <2>2. CASE q = r /\ ~aborted
    <3>1. remover[r]
      BY <1>0, <1>1, <2>2 DEF DisposeInv, AddedBeforeAbortRemovable
    <3>2. calls = <<>>
      BY <1>0, <2>2 DEF DisposeInv, NothingRunsBeforeAbort
    <3>3. QED
      BY <1>2, <2>2, <3>1, <3>2, ElemsEmpty
  <2>3. CASE ~(q = r /\ ~aborted)
    <3>1. disposedEarly[q]
      BY <1>0, <1>1, <2>1, <2>3 DEF TypeOK
    <3>2. QED
      BY <1>0, <1>2, <3>1 DEF DisposeInv, DisposedGone
  <2>4. QED
    BY <2>2, <2>3
<1>7. DisposeInv'
  BY <1>0, <1>1, <1>2, <1>3, <1>6 DEF DisposeInv, HandlersRemovable,
     HandlersDistinct, AbortEmptiesHandlers, NothingRunsBeforeAbort,
     AddedBeforeAbortRemovable, RemoverOnlyIfAdded, QueuedNotRemovable
<1>8. QED
  BY <1>5, <1>7 DEF IInv

\* abort() runs the signal's handlers in order and clears them.
LEMMA AbortStep ==
  ASSUME IInv, Abort
  PROVE  IInv'
<1>0. TypeOK /\ DisposeInv
  BY DEF IInv
<1>1. /\ ~aborted
      /\ aborted' = TRUE
      /\ calls' = calls \o algos
      /\ algos' = <<>>
      /\ UNCHANGED <<state, remover, microtasks, added, disposedEarly>>
  BY Zenon DEF Abort
<1>2. calls = <<>> /\ microtasks = <<>>
  BY <1>0, <1>1 DEF DisposeInv, NothingRunsBeforeAbort
<1>3. /\ calls' \in Seq(Regs)
      /\ Elems(calls') = Elems(calls) \cup Elems(algos)
  BY <1>0, <1>1, ElemsConcat DEF TypeOK
<1>4. TypeOK'
  BY <1>0, <1>1, <1>3 DEF TypeOK
<1>5. DisposeInv'
  BY <1>0, <1>1, <1>2, <1>3, ElemsEmpty DEF DisposeInv, HandlersRemovable,
     HandlersDistinct, Injective, AbortEmptiesHandlers,
     NothingRunsBeforeAbort, AddedBeforeAbortRemovable, RemoverOnlyIfAdded,
     QueuedNotRemovable, DisposedGone
<1>6. QED
  BY <1>4, <1>5 DEF IInv

\* A queued listener call runs; it is never one whose disposer removed it.
LEMMA MicrotaskStep ==
  ASSUME IInv, RunMicrotask
  PROVE  IInv'
<1>0. TypeOK /\ DisposeInv
  BY DEF IInv
<1>1. /\ microtasks # <<>>
      /\ calls' = Append(calls, Head(microtasks))
      /\ microtasks' = Tail(microtasks)
      /\ UNCHANGED <<aborted, state, remover, algos, added, disposedEarly>>
  BY Zenon DEF RunMicrotask
<1>2. /\ Tail(microtasks) \in Seq(Regs)
      /\ Head(microtasks) \in Elems(microtasks)
      /\ Elems(Tail(microtasks)) \subseteq Elems(microtasks)
  BY <1>0, <1>1, ElemsTail DEF TypeOK
<1>3. Head(microtasks) \in Regs /\ ~remover[Head(microtasks)]
  BY <1>0, <1>2 DEF TypeOK, DisposeInv, QueuedNotRemovable, Elems
<1>4. /\ calls' \in Seq(Regs)
      /\ Elems(calls') = Elems(calls) \cup {Head(microtasks)}
  BY <1>0, <1>1, <1>3, ElemsAppend DEF TypeOK
<1>5. aborted
  BY <1>0, <1>1 DEF DisposeInv, NothingRunsBeforeAbort
<1>6. TypeOK'
  BY <1>0, <1>1, <1>2, <1>4 DEF TypeOK
<1>7. DisposeInv'
  BY <1>0, <1>1, <1>2, <1>3, <1>4, <1>5 DEF DisposeInv, HandlersRemovable,
     HandlersDistinct, AbortEmptiesHandlers, NothingRunsBeforeAbort,
     AddedBeforeAbortRemovable, RemoverOnlyIfAdded, QueuedNotRemovable,
     DisposedGone
<1>8. QED
  BY <1>6, <1>7 DEF IInv

LEMMA IInvStep == IInv /\ [Next]_vars => IInv'
<1> SUFFICES ASSUME IInv, [Next]_vars PROVE IInv'
  OBVIOUS
<1>1. CASE \E r \in Regs, v \in BOOLEAN : AddAbortListener(r, v)
  BY <1>1, AddStep
<1>2. CASE \E r \in Regs : Dispose(r)
  BY <1>2, DisposeStep
<1>3. CASE Abort
  BY <1>3, AbortStep
<1>4. CASE RunMicrotask
  BY <1>4, MicrotaskStep
<1>5. CASE UNCHANGED vars
  BY <1>5 DEF vars, IInv, TypeOK, DisposeInv, HandlersRemovable,
     HandlersDistinct, Injective, AbortEmptiesHandlers,
     NothingRunsBeforeAbort, AddedBeforeAbortRemovable, RemoverOnlyIfAdded,
     QueuedNotRemovable, DisposedGone, Elems
<1>6. QED
  BY <1>1, <1>2, <1>3, <1>4, <1>5 DEF Next

\* Both invariants together.
OrderIInv == IInv /\ OrderInv

LEMMA InitOrderIInv == Init => OrderIInv
<1> SUFFICES ASSUME Init PROVE OrderInv
  BY InitIInv DEF OrderIInv
<1>1. Elems(<<>> \o <<>>) = {} /\ <<>> \o <<>> = <<>>
  BY ElemsEmpty
<1>2. QED
  BY <1>1, ElemsEmpty DEF Init, OrderInv, Injective, Ordered

\* An addAbortListener call keeps the handlers, and the calls made and
\* queued, in the order of the successful calls.
LEMMA AddOrderStep ==
  ASSUME OrderIInv, NEW r \in Regs, NEW v \in BOOLEAN, AddAbortListener(r, v)
  PROVE  OrderInv'
<1>0. TypeOK /\ DisposeInv /\ OrderInv
  BY DEF OrderIInv, IInv
<1>1. /\ state[r] = "none"
      /\ r \notin Elems(added)
      /\ UNCHANGED <<aborted, calls, disposedEarly>>
  BY <1>0 DEF AddAbortListener, QueueListener, OrderInv
<1>2. /\ calls \o microtasks \in Seq(Regs)
      /\ Elems(calls \o microtasks) = Elems(calls) \cup Elems(microtasks)
  BY <1>0, ElemsConcat DEF TypeOK
<1>3. CASE ~v
  <2>1. /\ state' = [state EXCEPT ![r] = "threw"]
        /\ UNCHANGED <<remover, algos, microtasks, added>>
    BY <1>3, Zenon DEF AddAbortListener
  <2>2. QED
    BY <1>0, <1>1, <2>1 DEF TypeOK, OrderInv
<1>4. CASE v /\ aborted
  <2>1. /\ microtasks' = Append(microtasks, r)
        /\ state' = [state EXCEPT ![r] = "added"]
        /\ added' = Append(added, r)
        /\ UNCHANGED <<remover, algos>>
    BY <1>4, Zenon DEF AddAbortListener, QueueListener
  <2>2. /\ Elems(added') = Elems(added) \cup {r}
        /\ Elems(microtasks') = Elems(microtasks) \cup {r}
        /\ Injective(added')
    BY <1>0, <1>1, <2>1, ElemsAppend, AppendInjective DEF TypeOK, OrderInv
  <2>3. calls' \o microtasks' = Append(calls \o microtasks, r)
    BY <1>0, <1>1, <2>1, ConcatAppend DEF TypeOK
  <2>4. Ordered(calls' \o microtasks', added')
    <3>1. Ordered(Append(calls \o microtasks, r), Append(added, r))
      <4>1. /\ Ordered(calls \o microtasks, added)
            /\ Elems(calls \o microtasks) \subseteq Elems(added)
            /\ Injective(added)
        BY <1>0, <1>2 DEF OrderInv
      <4>2. QED
        BY <1>0, <1>1, <1>2, <4>1, OrderedAppend DEF TypeOK
    <3>2. QED
      BY <2>1, <2>3, <3>1
  <2>5. Ordered(algos', added')
    BY <1>0, <1>1, <2>1, OrderedNewRank DEF TypeOK, OrderInv
  <2>6. \A q \in Regs : q \in Elems(added') <=> state'[q] = "added"
    BY <1>0, <2>1, <2>2 DEF TypeOK, OrderInv
  <2>7. QED
    BY <1>0, <1>1, <2>1, <2>2, <2>4, <2>5, <2>6 DEF OrderInv
<1>5. CASE v /\ ~aborted
  <2>1. /\ algos' = Append(algos, r)
        /\ remover' = [remover EXCEPT ![r] = TRUE]
        /\ state' = [state EXCEPT ![r] = "added"]
        /\ added' = Append(added, r)
        /\ UNCHANGED microtasks
    BY <1>5, Zenon DEF AddAbortListener
  <2>2. /\ Elems(added') = Elems(added) \cup {r}
        /\ Elems(algos') = Elems(algos) \cup {r}
        /\ Injective(added')
    BY <1>0, <1>1, <2>1, ElemsAppend, AppendInjective DEF TypeOK, OrderInv
  <2>3. Ordered(algos', added')
    BY <1>0, <1>1, <2>1, OrderedAppend DEF TypeOK, OrderInv
  <2>4. Ordered(calls' \o microtasks', added')
    BY <1>0, <1>1, <1>2, <2>1, OrderedNewRank DEF TypeOK, OrderInv
  <2>5. \A q \in Regs : q \in Elems(added') <=> state'[q] = "added"
    BY <1>0, <2>1, <2>2 DEF TypeOK, OrderInv
  <2>6. QED
    BY <1>0, <1>1, <2>1, <2>2, <2>3, <2>4, <2>5 DEF OrderInv
<1>6. QED
  BY <1>3, <1>4, <1>5

\* A disposer only takes a handler out; the rest keep their order.
LEMMA DisposeOrderStep ==
  ASSUME OrderIInv, NEW r \in Regs, Dispose(r)
  PROVE  OrderInv'
<1>0. TypeOK /\ DisposeInv /\ OrderInv
  BY DEF OrderIInv, IInv
<1>1. /\ algos' = IF remover[r] THEN Without(algos, r) ELSE algos
      /\ UNCHANGED <<aborted, state, remover, microtasks, calls, added>>
  BY Zenon DEF Dispose
<1>2. Ordered(algos', added) /\ Elems(algos') \subseteq Elems(algos)
  <2>1. CASE remover[r]
    BY <1>0, <1>1, <2>1, WithoutFacts, OrderedWithout
       DEF TypeOK, DisposeInv, HandlersDistinct, OrderInv
  <2>2. CASE ~remover[r]
    BY <1>0, <1>1, <2>2 DEF OrderInv
  <2>3. QED
    BY <2>1, <2>2
<1>3. QED
  BY <1>0, <1>1, <1>2 DEF OrderInv

\* abort() moves the handlers, in order, to the calls made; nothing was made
\* or queued before.
LEMMA AbortOrderStep ==
  ASSUME OrderIInv, Abort
  PROVE  OrderInv'
<1>0. TypeOK /\ DisposeInv /\ OrderInv
  BY DEF OrderIInv, IInv
<1>1. /\ ~aborted
      /\ calls' = calls \o algos
      /\ algos' = <<>>
      /\ UNCHANGED <<state, remover, microtasks, added, disposedEarly>>
  BY Zenon DEF Abort
<1>2. calls = <<>> /\ microtasks = <<>>
  BY <1>0, <1>1 DEF DisposeInv, NothingRunsBeforeAbort
<1>3. calls' \o microtasks' = algos
  BY <1>0, <1>1, <1>2 DEF TypeOK
<1>4. Ordered(algos', added') /\ Elems(algos') = {}
  BY <1>1, ElemsEmpty DEF Ordered
<1>5. Elems(calls') \cup Elems(microtasks') = Elems(algos)
  BY <1>0, <1>1, <1>2, ElemsEmpty DEF TypeOK
<1>6. QED
  BY <1>0, <1>1, <1>3, <1>4, <1>5 DEF OrderInv

\* Running the first queued call leaves the calls made followed by the
\* queued ones as they were.
LEMMA MicrotaskOrderStep ==
  ASSUME OrderIInv, RunMicrotask
  PROVE  OrderInv'
<1>0. TypeOK /\ DisposeInv /\ OrderInv
  BY DEF OrderIInv, IInv
<1>1. /\ microtasks # <<>>
      /\ calls' = Append(calls, Head(microtasks))
      /\ microtasks' = Tail(microtasks)
      /\ UNCHANGED <<aborted, state, remover, algos, added, disposedEarly>>
  BY Zenon DEF RunMicrotask
<1>2. calls' \o microtasks' = calls \o microtasks
  BY <1>0, <1>1, ShiftHead DEF TypeOK
<1>3. Elems(calls') \cup Elems(microtasks') \subseteq Elems(calls) \cup Elems(microtasks)
  <2>1. Head(microtasks) \in Elems(microtasks) /\ Head(microtasks) \in Regs
        /\ Elems(Tail(microtasks)) \subseteq Elems(microtasks)
    BY <1>0, <1>1, ElemsTail DEF TypeOK
  <2>2. Elems(calls') = Elems(calls) \cup {Head(microtasks)}
    BY <1>0, <1>1, <2>1, ElemsAppend DEF TypeOK
  <2>3. QED
    BY <1>1, <2>1, <2>2
<1>4. QED
  BY <1>0, <1>1, <1>2, <1>3 DEF OrderInv

LEMMA OrderIInvStep == OrderIInv /\ [Next]_vars => OrderIInv'
<1> SUFFICES ASSUME OrderIInv, [Next]_vars PROVE OrderIInv'
  OBVIOUS
<1>1. IInv'
  BY IInvStep DEF OrderIInv
<1>2. OrderInv'
  <2>1. CASE \E r \in Regs, v \in BOOLEAN : AddAbortListener(r, v)
    BY <2>1, AddOrderStep
  <2>2. CASE \E r \in Regs : Dispose(r)
    BY <2>2, DisposeOrderStep
  <2>3. CASE Abort
    BY <2>3, AbortOrderStep
  <2>4. CASE RunMicrotask
    BY <2>4, MicrotaskOrderStep
  <2>5. CASE UNCHANGED vars
    BY <2>5 DEF OrderIInv, vars, OrderInv
  <2>6. QED
    BY <2>1, <2>2, <2>3, <2>4, <2>5 DEF Next
<1>3. QED
  BY <1>1, <1>2 DEF OrderIInv

\* The listeners a step calls are those of calls that had returned.
CallsReturned ==
  \A i \in (Len(calls) + 1)..Len(calls') : state[calls'[i]] = "added"

\* A step only calls listeners whose addAbortListener call had returned:
\* addAbortListener and the disposers call none, abort() calls the handlers
\* on the signal, and a microtask the call it queued.
LEMMA CallsReturnedStep ==
  ASSUME OrderIInv, [Next]_vars
  PROVE  CallsReturned
<1>0. TypeOK /\ OrderInv
  BY DEF OrderIInv, IInv
<1>1. ASSUME NEW r \in Elems(added) PROVE state[r] = "added"
  <2>1. r \in Regs
    BY <1>0 DEF TypeOK, Elems
  <2>2. QED
    BY <1>0, <2>1 DEF OrderInv
<1>2. CASE calls' = calls
  BY <1>2 DEF CallsReturned
<1>3. CASE Abort
  <2>1. calls' = calls \o algos
    BY <1>3, Zenon DEF Abort
  <2>2. SUFFICES ASSUME NEW i \in (Len(calls) + 1)..Len(calls')
                 PROVE  state[calls'[i]] = "added"
    BY DEF CallsReturned
  <2>3. i - Len(calls) \in 1..Len(algos) /\ calls'[i] = algos[i - Len(calls)]
    BY <1>0, <2>1 DEF TypeOK
  <2>4. calls'[i] \in Elems(added)
    BY <1>0, <2>3 DEF OrderInv, Elems
  <2>5. QED
    BY <2>4, <1>1
<1>4. CASE RunMicrotask
  <2>1. microtasks # <<>> /\ calls' = Append(calls, Head(microtasks))
    BY <1>4, Zenon DEF RunMicrotask
  <2>2. SUFFICES ASSUME NEW i \in (Len(calls) + 1)..Len(calls')
                 PROVE  state[calls'[i]] = "added"
    BY DEF CallsReturned
  <2>3. calls'[i] = Head(microtasks) /\ Head(microtasks) \in Elems(microtasks)
    BY <1>0, <2>1, ElemsTail DEF TypeOK
  <2>4. calls'[i] \in Elems(added)
    BY <1>0, <2>3 DEF OrderInv
  <2>5. QED
    BY <2>4, <1>1
<1>5. QED
  <2>1. (\E r \in Regs, v \in BOOLEAN : AddAbortListener(r, v)) => calls' = calls
    BY Zenon DEF AddAbortListener, QueueListener
  <2>2. (\E r \in Regs : Dispose(r)) => calls' = calls
    BY Zenon DEF Dispose
  <2>3. UNCHANGED vars => calls' = calls
    BY DEF vars
  <2>4. QED
    BY <1>2, <1>3, <1>4, <2>1, <2>2, <2>3 DEF Next

-----------------------------------------------------------------------------
(***************************************************************************)
(* Theorems.                                                               *)
(***************************************************************************)

\* The inductive invariant holds in every reachable state.
THEOREM DisposeInvariant == Spec => []IInv
BY InitIInv, IInvStep, PTL DEF Spec

\* A listener whose disposer ran before abort() is never called: the
\* disposer's removeEventListener (abort_listener.mjs) takes its handler off
\* the signal before abort() runs the handlers, and no call of it is ever
\* queued with queueMicrotask, for every set of registrations.
THEOREM DisposedEarlyNeverCalled == Spec => []DisposedBeforeAbortNeverCalled
<1>1. IInv => DisposedBeforeAbortNeverCalled
  BY DEF IInv, DisposeInv, DisposedGone, DisposedBeforeAbortNeverCalled, Elems
<1>2. QED
  BY <1>1, DisposeInvariant, PTL


\* Listeners are called in the order in which addAbortListener added them:
\* abort() runs the handlers in insertion order before any call queued with
\* queueMicrotask on the aborted signal, and the queue runs first in, first
\* out, whatever the interleaving of calls, disposers and abort().
THEOREM CalledInAddOrderProved == Spec => []CalledInAddOrder
<1>1. OrderIInv => CalledInAddOrder
  BY OrderedPrefix DEF OrderIInv, IInv, TypeOK, OrderInv, Ordered,
     CalledInAddOrder
<1>2. QED
  BY <1>1, InitOrderIInv, OrderIInvStep, PTL DEF Spec


\* A listener is only ever called after the addAbortListener call that
\* registered it has returned: the call on an aborted signal is queued with
\* queueMicrotask (abort_listener.mjs line 26), and abort() runs only the
\* handlers of earlier calls, for every set of registrations.
THEOREM CalledAfterReturnProved == Spec => CalledAfterReturn
<1>1. OrderIInv /\ [Next]_vars => [CallsReturned]_vars
  BY CallsReturnedStep
<1>2. QED
  BY <1>1, InitOrderIInv, OrderIInvStep, PTL DEF Spec, CalledAfterReturn,
     CallsReturned

====
