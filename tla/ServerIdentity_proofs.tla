------------------------ MODULE ServerIdentity_proofs ------------------------
(***************************************************************************)
(* Proofs about check() and checkServerIdentity() (ServerIdentity), for    *)
(* names and labels of every length: the run checks labels of at most two  *)
(* characters and names of at most three labels.                           *)
(***************************************************************************)
EXTENDS ServerIdentity, FiniteSetTheorems, SequenceTheorems, TLAPS

-----------------------------------------------------------------------------
(***************************************************************************)
(* unfqdn and splitHost.                                                   *)
(***************************************************************************)

\* A sequence of labels with a label is not empty.
LEMMA NonEmptyLabels ==
  \A s \in Seq(Label) : Len(s) >= 1 => s # <<>>
BY SMTT(30) DEF Label

\* unfqdn keeps the labels it does not drop, and a name stays a name.
LEMMA UnfqdnFacts ==
  ASSUME NEW ls \in Name
  PROVE  /\ Unfqdn(ls) \in Name
         /\ Len(Unfqdn(ls)) <= Len(ls)
         /\ \A k \in 1..Len(Unfqdn(ls)) : Unfqdn(ls)[k] = ls[k]
<1>1. Len(ls) >= 1
  BY DEF Name
<1>2. CASE Len(ls) > 1 /\ ls[Len(ls)] = <<>>
  <2>1. Unfqdn(ls) = SubSeq(ls, 1, Len(ls) - 1)
    BY <1>2 DEF Unfqdn
  <2>2. ls \in Seq(Label)
    BY DEF Name
  <2>3. /\ SubSeq(ls, 1, Len(ls) - 1) \in Seq(Label)
        /\ Len(SubSeq(ls, 1, Len(ls) - 1)) = Len(ls) - 1
        /\ \A k \in 1..Len(ls) - 1 : SubSeq(ls, 1, Len(ls) - 1)[k] = ls[k]
    BY <1>2, <2>2
  <2>4. SubSeq(ls, 1, Len(ls) - 1) # <<>>
    <3>1. Len(SubSeq(ls, 1, Len(ls) - 1)) >= 1
      BY <1>2, <2>3
    <3>2. QED
      BY <2>3, <3>1, NonEmptyLabels, Zenon
  <2>5. QED
    BY <1>2, <2>1, <2>3, <2>4 DEF Name
<1>3. CASE ~(Len(ls) > 1 /\ ls[Len(ls)] = <<>>)
  BY <1>3 DEF Unfqdn
<1>4. QED
  BY <1>2, <1>3

\* splitHost lower-cases every character of the labels unfqdn keeps.
LEMMA SplitHostFacts ==
  ASSUME NEW ls \in Name
  PROVE  /\ SplitHost(ls) \in Name
         /\ Len(SplitHost(ls)) = Len(Unfqdn(ls))
         /\ \A k \in 1..Len(SplitHost(ls)) :
              /\ Len(SplitHost(ls)[k]) = Len(Unfqdn(ls)[k])
              /\ \A j \in 1..Len(SplitHost(ls)[k]) :
                   SplitHost(ls)[k][j] = LowerOf[Unfqdn(ls)[k][j]]
<1>1. Unfqdn(ls) \in Name
  BY UnfqdnFacts
<1>2. LowerOf \in [Chars -> Chars]
  BY CharsAssumption
<1> DEFINE u == Unfqdn(ls)
<1>3. \A i \in 1..Len(u) :
        [j \in 1..Len(u[i]) |-> LowerOf[u[i][j]]] \in Label
  BY <1>1, <1>2 DEF Name, Label
<1>4. QED
  BY <1>1, <1>3 DEF SplitHost, Name

\* The labels of a DNS name, once split, are non-empty and hold no "*",
\* U+007F, blank or non-ASCII character.
LEMMA DnsLabels ==
  ASSUME NEW h \in Name, IsDnsName(h)
  PROVE  \A k \in 1..Len(SplitHost(h)) :
           /\ SplitHost(h)[k] # <<>>
           /\ \A j \in 1..Len(SplitHost(h)[k]) :
                SplitHost(h)[k][j] \notin {Star, Del, Space, Uni}
<1> DEFINE u == Unfqdn(h)
<1>1. SUFFICES ASSUME NEW k \in 1..Len(SplitHost(h))
               PROVE  /\ SplitHost(h)[k] # <<>>
                      /\ \A j \in 1..Len(SplitHost(h)[k]) :
                           SplitHost(h)[k][j] \notin {Star, Del, Space, Uni}
  OBVIOUS
<1>2. k \in 1..Len(u) /\ Len(SplitHost(h)[k]) = Len(u[k])
  BY SplitHostFacts
<1>3. u \in Name /\ u[k] \in Label
  BY <1>2, UnfqdnFacts DEF Name
<1>4. u[k] # <<>> /\ RangeOf(u[k]) \cap {Star, Del, Space, Uni} = {}
  BY <1>2 DEF IsDnsName
<1>5. SplitHost(h)[k] # <<>>
  BY <1>2, <1>3, <1>4 DEF Label
<1>6. ASSUME NEW j \in 1..Len(SplitHost(h)[k])
      PROVE  SplitHost(h)[k][j] \notin {Star, Del, Space, Uni}
  <2>1. j \in 1..Len(u[k]) /\ SplitHost(h)[k][j] = LowerOf[u[k][j]]
    BY <1>2, SplitHostFacts
  <2>2. u[k][j] \in Chars /\ u[k][j] \notin {Star, Del, Space, Uni}
    BY <1>3, <1>4, <2>1 DEF Label, RangeOf
  <2>3. QED
    BY <2>1, <2>2, CharsAssumption
<1>7. QED
  BY <1>5, <1>6

-----------------------------------------------------------------------------
(***************************************************************************)
(* The wildcard label.                                                     *)
(***************************************************************************)

\* A label with exactly one "*" has it at one position.
LEMMA SingleStar ==
  ASSUME NEW ps \in Label, Cardinality(StarsOf(ps)) = 1
  PROVE  \E i0 \in 1..Len(ps) : StarsOf(ps) = {i0}
<1>1. IsFiniteSet(1..Len(ps))
  BY FS_Interval
<1>2. StarsOf(ps) \subseteq 1..Len(ps)
  BY DEF StarsOf
<1>3. IsFiniteSet(StarsOf(ps))
  BY <1>1, <1>2, FS_Subset
<1>4. PICK i0 : StarsOf(ps) = {i0}
  BY <1>3, FS_Singleton
<1>5. QED
  BY <1>2, <1>4

\* A label that starts with x and ends with y, the two not overlapping, is
\* x, then the run between them, then y.
LEMMA SplitAround ==
  ASSUME NEW s \in Label, NEW a \in Nat, NEW b \in Nat, a + b <= Len(s)
  PROVE  SubSeq(s, 1, a) \o SubSeq(s, a + 1, Len(s) - b)
           \o SubSeq(s, Len(s) - b + 1, Len(s)) = s
<1> DEFINE x == SubSeq(s, 1, a)
           w == SubSeq(s, a + 1, Len(s) - b)
           y == SubSeq(s, Len(s) - b + 1, Len(s))
<1>1. s \in Seq(Chars)
  BY DEF Label
<1>2. /\ x \in Seq(Chars) /\ Len(x) = a
      /\ \A n \in 1..a : x[n] = s[n]
  BY <1>1
<1>3. /\ w \in Seq(Chars) /\ Len(w) = Len(s) - b - a
      /\ \A n \in 1..Len(s) - b - a : w[n] = s[a + n]
  BY <1>1
<1>4. /\ y \in Seq(Chars) /\ Len(y) = b
      /\ \A n \in 1..b : y[n] = s[Len(s) - b + n]
  BY <1>1
<1> HIDE DEF x, w, y
<1>5. x \o w \o y \in Seq(Chars) /\ Len(x \o w \o y) = Len(s)
  BY <1>2, <1>3, <1>4
<1>6. \A n \in 1..Len(s) : (x \o w \o y)[n] = s[n]
  <2>1. SUFFICES ASSUME NEW n \in 1..Len(s) PROVE (x \o w \o y)[n] = s[n]
    OBVIOUS
  <2>2. x \o w \in Seq(Chars) /\ Len(x \o w) = Len(s) - b
    BY <1>2, <1>3
  <2>3. CASE n <= Len(s) - b
    <3>1. (x \o w \o y)[n] = (x \o w)[n]
      BY <1>2, <1>3, <1>4, <2>2, <2>3
    <3>2. CASE n <= a
      BY <1>4, <2>2, <1>2, <1>3, <3>1, <3>2
    <3>3. CASE a < n
      <4>1. (x \o w)[n] = w[n - a]
        BY <1>4, <2>2, <1>2, <1>3, <2>3, <3>3
      <4>2. QED
        BY <1>2, <1>4, <2>2, <1>3, <2>3, <3>1, <3>3, <4>1
    <3>4. QED
      BY <1>2, <1>3, <1>4, <2>2, <3>2, <3>3
  <2>4. CASE Len(s) - b < n
    <3> DEFINE u == x \o w
    <3>1. u \in Seq(Chars) /\ Len(u) = Len(s) - b
      BY <2>2
    <3>2. x \o w \o y = u \o y
      OBVIOUS
    <3> HIDE DEF u
    <3>3. n - Len(u) \in 1..Len(y) /\ (u \o y)[n] = y[n - Len(u)]
      <4>1. y \in Seq(Chars) /\ Len(y) = b
        BY <1>4
      <4>2. n - Len(u) \in 1..Len(y)
        BY <2>4, <3>1, <4>1
      <4>3. QED
        BY <3>1, <4>1, <4>2, SMTT(30)
    <3>4. y[n - Len(u)] = s[n]
      <4>1. n - Len(u) \in 1..b /\ Len(s) - b + (n - Len(u)) = n
        BY <1>4, <3>1, <3>3
      <4>2. y[n - Len(u)] = s[Len(s) - b + (n - Len(u))]
        BY <1>4, <4>1
      <4>3. QED
        BY <4>1, <4>2
    <3>5. QED
      BY <3>2, <3>3, <3>4, Zenon
  <2>5. QED
    BY <1>2, <1>3, <1>4, <2>2, <2>3, <2>4
<1>7. x \o w \o y = s
  BY <1>1, <1>5, <1>6, SeqEqual
<1>8. QED
  BY <1>7 DEF x, w, y

-----------------------------------------------------------------------------
(***************************************************************************)
(* check() against the reference matcher.                                  *)
(***************************************************************************)

\* check(hostParts, pattern, true) fails closed: for every hostname that is
\* a DNS name and every pattern, of any length, check() accepts only when
\* the wildcard algorithm of spec 4.2 step 4 accepts.  The early returns of
\* check() (label count, empty labels, blanks and non-ASCII, right-to-left
\* comparison, one "*", no *.tld, prefix and suffix) together imply every
\* rejection rule of the reference; U+007F, which isBad lets through, is
\* excluded because the host's labels must equal or contain the pattern's.
THEOREM CheckSound ==
  ASSUME NEW h \in Name, NEW p \in Name, IsDnsName(h),
         Check(SplitHost(h), p, TRUE)
  PROVE  RefMatch(h, p)
<1> DEFINE H == SplitHost(h)
           P == SplitHost(p)
           ps == P[1]
           hs == H[1]
<1> USE DEF H, P, ps, hs
<1>1. H \in Name /\ P \in Name
  BY SplitHostFacts
<1>2. /\ Len(H) = Len(P)
      /\ \A k \in 1..Len(P) : P[k] # <<>>
      /\ \A k \in 2..Len(P) : H[k] = P[k]
      /\ IF StarsOf(ps) = {} \/ Xn \in RangeOf(ps)
           THEN hs = ps
           ELSE WildcardMatch(hs, P, TRUE)
  BY Zenon DEF Check
<1>3. Len(P) >= 1 /\ ps \in Label /\ hs \in Label
  BY <1>1, <1>2 DEF Name
<1>4. \A k \in 1..Len(H) :
        /\ H[k] # <<>>
        /\ \A j \in 1..Len(H[k]) : H[k][j] \notin {Star, Del, Space, Uni}
  BY DnsLabels
<1>5. \A k \in 2..Len(P) :
        /\ StarsOf(P[k]) = {}
        /\ \A c \in RangeOf(P[k]) : ~NotPrintable(c)
  BY <1>2, <1>4 DEF StarsOf, RangeOf, NotPrintable
<1>6. \A k \in 1..Len(P) : H[k] # <<>> /\ P[k] # <<>>
  BY <1>2, <1>4
\* The host's leftmost label has no "*" and only printable characters.
<1>10. \A j \in 1..Len(hs) : hs[j] \notin {Star, Del, Space, Uni}
  BY <1>2, <1>3, <1>4
<1>7. CASE StarsOf(ps) = {} \/ Xn \in RangeOf(ps)
  <2>1. hs = ps
    BY <1>2, <1>7
  <2>2. StarsOf(ps) = {}
    BY <1>10, <2>1 DEF StarsOf
  <2>3. \A c \in RangeOf(ps) : ~NotPrintable(c)
    BY <1>3, <1>10, <2>1 DEF RangeOf, NotPrintable, Label
  <2>4. Cardinality(StarsOf(ps)) <= 1
    BY <2>2, FS_EmptySet
  <2>5. \A k \in 1..Len(P) : \A c \in RangeOf(P[k]) : ~NotPrintable(c)
    BY <1>5, <2>3
  <2>6. QED
    BY <1>2, <1>5, <1>6, <2>1, <2>2, <2>4, <2>5 DEF RefMatch
<1>8. CASE ~(StarsOf(ps) = {} \/ Xn \in RangeOf(ps))
  <2>1. WildcardMatch(hs, P, TRUE)
    BY <1>2, <1>8
  <2>2. Cardinality(StarsOf(ps)) = 1
    BY <2>1 DEF WildcardMatch
  <2>3. PICK i0 \in 1..Len(ps) : StarsOf(ps) = {i0}
    BY <1>3, <2>2, SingleStar
  <2>4. /\ (CHOOSE j \in StarsOf(ps) : \A m \in StarsOf(ps) : j <= m) = i0
        /\ (CHOOSE j \in StarsOf(ps) : TRUE) = i0
    BY <2>3
  <2> DEFINE prefix == SubSeq(ps, 1, i0 - 1)
             suffix == SubSeq(ps, i0 + 1, Len(ps))
  <2> USE DEF prefix, suffix
  <2>5. /\ Len(P) > 2
        /\ Len(prefix) + Len(suffix) <= Len(hs)
        /\ SubSeq(hs, 1, Len(prefix)) = prefix
        /\ SubSeq(hs, Len(hs) - Len(suffix) + 1, Len(hs)) = suffix
    BY <2>1, <2>4 DEF WildcardMatch
  <2>6. /\ prefix \in Seq(Chars) /\ Len(prefix) = i0 - 1
        /\ \A j \in 1..i0 - 1 : prefix[j] = ps[j]
        /\ suffix \in Seq(Chars) /\ Len(suffix) = Len(ps) - i0
        /\ \A j \in 1..Len(ps) - i0 : suffix[j] = ps[i0 + j]
    BY <1>3 DEF Label
  <2> HIDE DEF prefix, suffix
  <2>7. hs \in Seq(Chars) /\ ps \in Seq(Chars) /\ ps[i0] = Star
    BY <1>3, <2>3 DEF StarsOf, Label
  <2> HIDE DEF ps, hs
  \* The lengths alone.
  <2>N. /\ Len(hs) \in Nat /\ Len(ps) \in Nat
        /\ Len(prefix) = i0 - 1 /\ Len(suffix) = Len(ps) - i0
        /\ Len(prefix) + Len(suffix) <= Len(hs)
    <3>1. Len(prefix) + Len(suffix) <= Len(hs)
      BY <2>5, Zenon
    <3>2. Len(prefix) = i0 - 1 /\ Len(suffix) = Len(ps) - i0
      BY <2>6, Zenon
    <3>3. QED
      BY <2>7, <3>1, <3>2
  <2>8. \A c \in RangeOf(ps) : ~NotPrintable(c)
    <3>1. SUFFICES ASSUME NEW j \in 1..Len(ps) PROVE ~NotPrintable(ps[j])
      BY <2>7 DEF RangeOf
    <3>2. CASE j < i0
      <4>1. j \in 1..Len(prefix) /\ prefix[j] = ps[j]
        BY <2>6, <3>2
      <4>2. j \in 1..Len(hs) /\ SubSeq(hs, 1, Len(prefix))[j] = hs[j]
        BY <2>5, <2>6, <2>7, <4>1
      <4>3. QED
        BY <1>10, <2>5, <4>1, <4>2 DEF NotPrintable
    <3>3. CASE j = i0
      BY <2>7, <3>3, CharsAssumption DEF NotPrintable
    <3>4. CASE j > i0
      <4>1. j - i0 \in 1..Len(suffix) /\ suffix[j - i0] = ps[j]
        BY <2>6, <3>4
      <4> DEFINE m == Len(hs) - Len(suffix)
      <4>2. m \in 0..Len(hs) /\ m + (j - i0) \in 1..Len(hs)
        BY <2>N, <3>4
      <4>3. SubSeq(hs, m + 1, Len(hs))[j - i0] = hs[m + (j - i0)]
        BY <2>7, <4>1, <4>2
      <4>4. QED
        BY <1>10, <2>5, <4>1, <4>2, <4>3 DEF NotPrintable
    <3>5. QED
      BY <3>2, <3>3, <3>4
  <2>9. ps # <<>> /\ ps[1] # Xn
    <3>1. ps[1] \in RangeOf(ps) /\ Len(ps) >= 1
      BY <2>3, <2>7 DEF RangeOf
    <3>2. QED
      BY <1>8, <3>1
  <2>10. \E a \in 1..Len(hs) + 1, b \in 0..Len(hs) :
           prefix \o SubSeq(hs, a, b) \o suffix = hs
    <3>1. Len(prefix) \in Nat /\ Len(suffix) \in Nat
      BY <2>6
    <3>2. /\ Len(prefix) + 1 \in 1..Len(hs) + 1
          /\ Len(hs) - Len(suffix) \in 0..Len(hs)
      BY <2>N
    <3> WITNESS Len(prefix) + 1 \in 1..Len(hs) + 1,
                Len(hs) - Len(suffix) \in 0..Len(hs)
    <3>3. QED
      BY <1>3, <2>5, <3>1, SplitAround
  <2>11. \A k \in 1..Len(P) : \A c \in RangeOf(P[k]) : ~NotPrintable(c)
    BY <1>5, <2>8 DEF ps
  <2>12. LET i == CHOOSE j \in StarsOf(ps) : TRUE
         IN  \E a \in 1..Len(hs) + 1, b \in 0..Len(hs) :
               SubSeq(ps, 1, i - 1) \o SubSeq(hs, a, b) \o SubSeq(ps, i + 1, Len(ps)) = hs
    <3>1. prefix = SubSeq(ps, 1, (CHOOSE j \in StarsOf(ps) : TRUE) - 1)
      BY <2>4, Zenon DEF prefix
    <3>2. suffix = SubSeq(ps, (CHOOSE j \in StarsOf(ps) : TRUE) + 1, Len(ps))
      BY <2>4, Zenon DEF suffix
    <3>3. QED
      BY <2>10, <3>1, <3>2, Zenon
  <2>13. Cardinality(StarsOf(ps)) <= 1
    BY <2>2
  <2>14. /\ ~(StarsOf(ps) = {} \/ (ps # <<>> /\ ps[1] = Xn))
         /\ ~(Len(P) <= 2 /\ StarsOf(ps) # {})
    <3>1. Len(P) > 2
      BY <2>5, Zenon
    <3>2. QED
      BY <2>3, <2>9, <3>1
  <2>15. /\ Len(H) = Len(P)
         /\ \A k \in 2..Len(P) : H[k] = P[k]
    BY <1>2, Zenon
  <2>16. QED
    BY <1>5, <1>6, <2>11, <2>12, <2>13, <2>14, <2>15, Zenon
       DEF RefMatch, ps, hs
<1>9. QED
  BY <1>7, <1>8

-----------------------------------------------------------------------------
(***************************************************************************)
(* CheckSoundOnDnsNames for every instance.  A check() call is recorded   *)
(* with its arguments, drawn from CheckHosts and Patterns, and with the   *)
(* value check(splitHost(host), pattern, true) returned; CheckSound then  *)
(* gives the reference match whenever that value is true.                 *)
(***************************************************************************)

\* What a recorded check() call holds: its arguments and its result.
CheckRecorded ==
  last.op = "check" =>
    /\ last.host \in CheckHosts /\ last.pattern \in Patterns
    /\ last.result = Check(SplitHost(last.host), last.pattern, TRUE)

LEMMA CheckRecordedInvariant == Spec => []CheckRecorded
<1>1. Init => CheckRecorded
  BY DEF Init, CheckRecorded
<1>2. CheckRecorded /\ [Next]_vars => CheckRecorded'
  <2> SUFFICES ASSUME CheckRecorded, [Next]_vars PROVE CheckRecorded'
    OBVIOUS
  <2>1. CASE \E h \in CheckHosts, p \in Patterns : CallCheck(h, p)
    <3>1. PICK h \in CheckHosts, p \in Patterns : CallCheck(h, p)
      BY <2>1
    <3>2. last' = [op |-> "check", host |-> h, pattern |-> p,
                   result |-> Check(SplitHost(h), p, TRUE)]
      BY <3>1 DEF CallCheck
    <3>3. QED
      BY <3>2 DEF CheckRecorded
  <2>2. CASE \E h \in Hosts, c \in Certs : CallVerify(h, c)
    BY <2>2 DEF CallVerify, CheckRecorded
  <2>3. CASE UNCHANGED vars
    BY <2>3 DEF vars, CheckRecorded
  <2>4. QED
    BY <2>1, <2>2, <2>3 DEF Next
<1>3. QED
  BY <1>1, <1>2, PTL DEF Spec

\* check() fails closed in every instance: whenever it accepts a pattern
\* for a hostname that is a DNS name, the wildcard rules of spec 4.2 step 4
\* accept it too (checkServerIdentity's wildcard(), _tls_wrap.ts).
THEOREM CheckSoundOnDnsNamesProved == Spec => []CheckSoundOnDnsNames
<1>1. CheckRecorded => CheckSoundOnDnsNames
  <2> SUFFICES ASSUME CheckRecorded, last.op = "check", IsDnsName(last.host),
                      last.result
               PROVE  RefMatch(last.host, last.pattern)
    BY DEF CheckSoundOnDnsNames
  <2>1. last.host \in Name /\ last.pattern \in Name
    BY NamesAssumption DEF CheckRecorded
  <2>2. Check(SplitHost(last.host), last.pattern, TRUE)
    BY DEF CheckRecorded
  <2>3. QED
    BY <2>1, <2>2, CheckSound
<1>2. QED
  BY <1>1, CheckRecordedInvariant, PTL
-----------------------------------------------------------------------------
\* Every call returns a result of its kind: check() a Boolean, and
\* checkServerIdentity one of the outcomes of Results, whatever the host
\* and the certificate.
THEOREM TypeCorrect == Spec => []TypeOK
<1>1. Init => TypeOK
  BY DEF Init, TypeOK
<1>2. TypeOK /\ [Next]_vars => TypeOK'
  <2> SUFFICES ASSUME TypeOK, [Next]_vars PROVE TypeOK'
    OBVIOUS
  <2>1. ASSUME NEW h \in CheckHosts, NEW p \in Patterns, CallCheck(h, p)
        PROVE  TypeOK'
    <3>1. Check(SplitHost(h), p, TRUE) \in BOOLEAN
      BY DEF Check
    <3>2. QED
      BY <2>1, <3>1, Zenon DEF CallCheck, TypeOK
  <2>2. ASSUME NEW h \in Hosts, NEW c \in Certs, CallVerify(h, c)
        PROVE  TypeOK'
    <3>1. VerifyResult(h, c) \in Results
      BY DEF VerifyResult, Results, NoNameReason
    <3>2. QED
      BY <2>2, <3>1, Zenon DEF CallVerify, TypeOK
  <2>3. CASE UNCHANGED vars
    BY <2>3 DEF vars, TypeOK
  <2>4. QED
    BY <2>1, <2>2, <2>3 DEF Next
<1>3. QED
  BY <1>1, <1>2, PTL DEF Spec
-----------------------------------------------------------------------------
(***************************************************************************)
(* VerifySound for the hostnames the code and spec 4.2 read alike.        *)
(* checkServerIdentity unfqdn's the hostname before net.isIP and then      *)
(* splitHost unfqdn's it again, while the reference asks whether the       *)
(* hostname itself is an IP literal and drops one trailing dot.  So the    *)
(* two differ on an IP literal written with a trailing dot, and on a name *)
(* with two; and check() does not look at the host's own characters, so   *)
(* a host with "*" or U+007F is outside CheckSound.  PlainHost excludes    *)
(* exactly these.                                                          *)
(***************************************************************************)

\* A hostname written as an IP literal without a trailing dot, or as a DNS
\* name with at most one trailing dot.
PlainHost(h) ==
  /\ h \in Name
  /\ \/ IsIP(h) /\ Unfqdn(h) = h
     \/ IsDnsName(h) /\ ~IsIP(Unfqdn(h)) /\ Unfqdn(Unfqdn(h)) = Unfqdn(h)

\* The DNS SAN entries of a certificate, split at ".", are names: split
\* never returns an empty array.
DnsValuesNamed(c) == \A e \in RangeOf(c.alt) : e.kind = "DNS" => e.value \in Name

\* The code and the reference collect the same SAN names and addresses.
LEMMA SansAgree ==
  ASSUME NEW c
  PROVE  DnsNamesOf(c) = RefDnsNames(c) /\ IpsOf(c) = RefIps(c)
BY DEF DnsNamesOf, RefDnsNames, IpsOf, RefIps, RangeOf

\* One call: whatever checkServerIdentity accepts, spec 4.2 accepts.
LEMMA VerifyOkSound ==
  ASSUME NEW h, NEW c, PlainHost(h), DnsValuesNamed(c),
         VerifyResult(h, c) = "ok"
  PROVE  RefVerify(h, c)
<1>1. ~c.badQuote
  BY DEF VerifyResult
<1>2. DnsNamesOf(c) = RefDnsNames(c) /\ IpsOf(c) = RefIps(c)
  BY SansAgree
<1>3. CASE IsIP(h) /\ Unfqdn(h) = h
  <2>1. Canon[h] \in IpsOf(c)
    BY <1>1, <1>3 DEF VerifyResult
  <2>2. QED
    BY <1>2, <1>3, <2>1 DEF RefVerify
<1>4. CASE IsDnsName(h) /\ ~IsIP(Unfqdn(h)) /\ Unfqdn(Unfqdn(h)) = Unfqdn(h)
  <2>1. \E p \in DnsNamesOf(c) : Check(SplitHost(Unfqdn(h)), p, TRUE)
    BY <1>1, <1>4 DEF VerifyResult, NoNameReason
  <2>2. PICK p \in DnsNamesOf(c) : Check(SplitHost(Unfqdn(h)), p, TRUE)
    BY <2>1
  <2>3. p \in Name
    BY <2>2 DEF DnsValuesNamed, DnsNamesOf
  <2>4. Unfqdn(h) \in Name
    BY UnfqdnFacts DEF PlainHost
  <2>5. IsDnsName(Unfqdn(h))
    BY <1>4 DEF IsDnsName
  <2>6. RefMatch(Unfqdn(h), p)
    BY <2>2, <2>3, <2>4, <2>5, CheckSound
  <2>7. SplitHost(Unfqdn(h)) = SplitHost(h)
    BY <1>4 DEF SplitHost
  <2>8. RefMatch(h, p)
    BY <2>6, <2>7, Zenon DEF RefMatch
  <2>9. ~IsIP(h)
    BY <1>4 DEF IsDnsName
  <2>10. QED
    BY <1>2, <2>2, <2>8, <2>9 DEF RefVerify
<1>5. QED
  BY <1>3, <1>4 DEF PlainHost

\* What a recorded checkServerIdentity() call holds.
VerifyRecorded ==
  last.op = "verify" =>
    /\ last.host \in Hosts /\ last.cert \in Certs
    /\ last.result = VerifyResult(last.host, last.cert)

LEMMA VerifyRecordedInvariant == Spec => []VerifyRecorded
<1>1. Init => VerifyRecorded
  BY DEF Init, VerifyRecorded
<1>2. VerifyRecorded /\ [Next]_vars => VerifyRecorded'
  <2> SUFFICES ASSUME VerifyRecorded, [Next]_vars PROVE VerifyRecorded'
    OBVIOUS
  <2>1. CASE \E h \in CheckHosts, p \in Patterns : CallCheck(h, p)
    BY <2>1 DEF CallCheck, VerifyRecorded
  <2>2. CASE \E h \in Hosts, c \in Certs : CallVerify(h, c)
    <3>1. PICK h \in Hosts, c \in Certs : CallVerify(h, c)
      BY <2>2
    <3>2. last' = [op |-> "verify", host |-> h, cert |-> c,
                   result |-> VerifyResult(h, c)]
      BY <3>1 DEF CallVerify
    <3>3. QED
      BY <3>2 DEF VerifyRecorded
  <2>3. CASE UNCHANGED vars
    BY <2>3 DEF vars, VerifyRecorded
  <2>4. QED
    BY <2>1, <2>2, <2>3 DEF Next
<1>3. QED
  BY <1>1, <1>2, PTL DEF Spec

\* checkServerIdentity accepts only what spec 4.2 steps 1-3 accept, for
\* every hostname that is an IP literal or a DNS name with at most one
\* trailing dot, and every certificate whose DNS SANs are names.
THEOREM VerifySoundOnPlainHosts ==
  ASSUME \A h \in Hosts : PlainHost(h),
         \A c \in Certs : DnsValuesNamed(c)
  PROVE  Spec => []VerifySound
<1>1. VerifyRecorded => VerifySound
  BY VerifyOkSound DEF VerifyRecorded, VerifySound
<1>2. QED
  BY <1>1, VerifyRecordedInvariant, PTL

=============================================================================
