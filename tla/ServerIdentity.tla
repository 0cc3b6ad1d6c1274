---------------------------- MODULE ServerIdentity ----------------------------
(***************************************************************************)
(* checkServerIdentity(hostname, cert) and its wildcard matcher            *)
(* check(hostParts, pattern, wildcards), src/ext/node/polyfills/           *)
(* _tls_wrap.ts lines 540-694, and the reference matcher of spec 4.2.      *)
(*                                                                         *)
(* A host name or a certificate DNS name is the sequence of its            *)
(* dot-separated labels (the result of split(".")): a trailing dot is a    *)
(* last empty label.  A label is a sequence of characters from Chars, a    *)
(* small alphabet in which Xn stands for the four characters "xn--", Del   *)
(* for U+007F, Space for U+0020, Uni for a non-ASCII character; LowerOf    *)
(* maps the upper-case letters.  An IP literal is a member of IPForms;     *)
(* Canon is the canonical text op_tls_canonicalize_ipv4_address gives it. *)
(*                                                                         *)
(* The module is a caller that calls check() or checkServerIdentity() on   *)
(* inputs from small sets; `last` holds the call and its result.           *)
(***************************************************************************)
EXTENDS Naturals, Sequences, FiniteSets

CONSTANTS
  Chars,       \* characters of labels
  LowerOf,     \* [Chars -> Chars]: the A-Z to a-z replacement of splitHost
  Star,        \* "*"
  Xn,          \* the A-label prefix "xn--", as one symbol
  Del,         \* U+007F
  Space,       \* U+0020
  Uni,         \* a character outside ASCII
  IPForms,     \* IP literals, as written in a hostname or an IP SAN
  Canon,       \* [IPForms -> IPForms]: canonical form
  CheckHosts,  \* host label sequences given to check()
  Patterns,    \* patterns given to check()
  Hosts,       \* hostnames given to checkServerIdentity()
  Certs        \* certificates given to checkServerIdentity()

\* The special characters are distinct, and toLowerCase (String.fromCharCode
\* of 32 + the code of A-Z) leaves them alone and yields none of them from
\* another character.
ASSUME CharsAssumption ==
  /\ {Star, Xn, Del, Space, Uni} \subseteq Chars
  /\ Star \notin {Xn, Del, Space, Uni}
  /\ Xn \notin {Del, Space, Uni}
  /\ Del \notin {Space, Uni}
  /\ Space # Uni
  /\ LowerOf \in [Chars -> Chars]
  /\ \A c \in {Star, Xn, Del, Space, Uni} : LowerOf[c] = c
  /\ \A c \in Chars : LowerOf[c] = c \/ LowerOf[c] \notin {Star, Xn, Del, Space, Uni}

ASSUME IPAssumption == Canon \in [IPForms -> IPForms]

Label == Seq(Chars)

\* A name is what split(".") returns: a non-empty sequence of labels.
Name == Seq(Label) \ {<<>>}

ASSUME NamesAssumption == CheckHosts \cup Patterns \subseteq Name

\* net.isIP: the hostname is one of the IP literals (which, like every
\* hostname, are given split at ".").
IsIP(h) == h \in IPForms

\* A SAN entry of cert.subjectaltname ("DNS:...", "IP Address:...", or
\* another kind), and a certificate: its subject CN names (none when
\* absent), its SAN entries, and whether the SAN string has a quoted entry
\* that jsonStringPattern does not match.
SanKinds == {"DNS", "IP", "URI"}
Results == {"ok", "ipMismatch", "altMismatch", "cnMismatch", "noName",
            "throw"}

RangeOf(s) == {s[i] : i \in DOMAIN s}

-----------------------------------------------------------------------------
(***************************************************************************)
(* The code.                                                               *)
(***************************************************************************)

\* unfqdn: drop one trailing dot.
Unfqdn(ls) ==
  IF Len(ls) > 1 /\ ls[Len(ls)] = <<>> THEN SubSeq(ls, 1, Len(ls) - 1) ELSE ls

\* splitHost: unfqdn, replace A-Z by a-z, split at ".".
SplitHost(ls) ==
  LET h == Unfqdn(ls) IN [i \in 1..Len(h) |-> [j \in 1..Len(h[i]) |-> LowerOf[h[i][j]]]]

\* The characters /[^!-\u007F]/u finds: blanks and non-ASCII.
IsBadChar(c) == c \in {Space, Uni}

\* Where the wildcards of a label are.
StarsOf(l) == {j \in 1..Len(l) : l[j] = Star}

\* Variant of WildcardMatch without the *.tld rule.
WildcardMatchNoTld(hs, pp, wildcards) ==
  LET ps == pp[1]
      i == CHOOSE j \in StarsOf(ps) : \A m \in StarsOf(ps) : j <= m
      prefix == SubSeq(ps, 1, i - 1)
      suffix == SubSeq(ps, i + 1, Len(ps))
  IN
  /\ wildcards
  /\ Cardinality(StarsOf(ps)) = 1
  /\ Len(prefix) + Len(suffix) <= Len(hs)
  /\ SubSeq(hs, 1, Len(prefix)) = prefix
  /\ SubSeq(hs, Len(hs) - Len(suffix) + 1, Len(hs)) = suffix

\* The wildcard branch of check(): the leftmost pattern label, split at "*"
\* with split("*", 3), must have one "*", the pattern more than two labels,
\* and the host label hs must start with the prefix and end with the
\* suffix without the two overlapping.
WildcardMatch(hs, pp, wildcards) ==
  LET ps == pp[1]
      i == CHOOSE j \in StarsOf(ps) : \A m \in StarsOf(ps) : j <= m
      prefix == SubSeq(ps, 1, i - 1)
      suffix == SubSeq(ps, i + 1, Len(ps))
  IN
  /\ wildcards
  /\ Cardinality(StarsOf(ps)) = 1
  /\ Len(pp) > 2
  /\ Len(prefix) + Len(suffix) <= Len(hs)
  /\ SubSeq(hs, 1, Len(prefix)) = prefix
  /\ SubSeq(hs, Len(hs) - Len(suffix) + 1, Len(hs)) = suffix

\* check(hostParts, pattern, wildcards): every early `return false` is a
\* conjunct, in the code's order.  The pattern is split like the host;
\* labels are compared right to left, then the leftmost one: verbatim when
\* it has no "*" or contains "xn--", else by WildcardMatch.
Check(hostParts, pattern, wildcards) ==
  LET pp == SplitHost(pattern)
  IN
  /\ pattern # <<<<>>>>
  /\ Len(hostParts) = Len(pp)
  /\ \A k \in 1..Len(pp) : pp[k] # <<>>
  /\ \A k \in 1..Len(pp) : \A c \in RangeOf(pp[k]) : ~IsBadChar(c)
  /\ \A k \in 2..Len(pp) : hostParts[k] = pp[k]
  /\ IF StarsOf(pp[1]) = {} \/ Xn \in RangeOf(pp[1])
       THEN hostParts[1] = pp[1]
       ELSE WildcardMatch(hostParts[1], pp, wildcards)

\* Variant of DnsNamesOf that takes every entry whose kind is not IP.
DnsNamesOfLoose(cert) ==
  {e.value : e \in {e \in RangeOf(cert.alt) : e.kind # "IP"}}

\* The names pushed to dnsNames: the SAN entries starting "DNS:".
DnsNamesOf(cert) ==
  {e.value : e \in {e \in RangeOf(cert.alt) : e.kind = "DNS"}}

\* The addresses pushed to ips: every "IP Address:" entry, canonicalized.
IpsOf(cert) ==
  {Canon[e.value] : e \in {e \in RangeOf(cert.alt) : e.kind = "IP"}}

\* Variant of NoNameReason that leaves reason at its initial value.
NoNameReasonUnset == "Unknown reason"

\* reason = "Cert does not contain a DNS name".
NoNameReason == "noName"

\* checkServerIdentity(hostname, cert) as its result: "ok" when it returns
\* undefined, the failed comparison when it returns
\* ERR_TLS_CERT_ALTNAME_INVALID, "throw" when it throws.  It throws on a
\* malformed quoted SAN entry (splitEscapedAltNames, line 521), and
\* whenever the Common Name is consulted: ArrayIsArray (line 677) is not
\* bound in this module, so the call raises a ReferenceError.
VerifyResult(hostname, cert) ==
  LET host == Unfqdn(hostname)
      wildcard(p) == Check(SplitHost(host), p, TRUE)
  IN
  IF cert.badQuote THEN "throw"
  ELSE IF IsIP(host) THEN
    IF Canon[host] \in IpsOf(cert) THEN "ok" ELSE "ipMismatch"
  ELSE IF DnsNamesOf(cert) # {} THEN
    IF \E p \in DnsNamesOf(cert) : wildcard(p) THEN "ok" ELSE "altMismatch"
  ELSE IF cert.cn # {} THEN "throw"
  ELSE NoNameReason

-----------------------------------------------------------------------------
(***************************************************************************)
(* The reference of spec 4.2.                                              *)
(***************************************************************************)

\* The characters outside printable ASCII (U+0021..U+007E).
NotPrintable(c) == c \in {Space, Del, Uni}

\* Step 4: the wildcard match of a pattern against a hostname, both
\* normalised.  A wildcard may replace any (possibly empty) run of the
\* hostname's leftmost label between prefix and suffix.
RefMatch(host, pattern) ==
  LET H == SplitHost(host)
      P == SplitHost(pattern)
      ps == P[1]
      i == CHOOSE j \in StarsOf(ps) : TRUE
  IN
  /\ Len(H) = Len(P)
  /\ \A k \in 1..Len(P) : H[k] # <<>> /\ P[k] # <<>>
  /\ \A k \in 2..Len(P) : StarsOf(P[k]) = {}
  /\ Cardinality(StarsOf(ps)) <= 1
  /\ ~(Len(P) <= 2 /\ StarsOf(ps) # {})
  /\ \A k \in 1..Len(P) : \A c \in RangeOf(P[k]) : ~NotPrintable(c)
  /\ \A k \in 2..Len(P) : H[k] = P[k]
  /\ IF StarsOf(ps) = {} \/ (ps # <<>> /\ ps[1] = Xn)
       THEN H[1] = ps
       ELSE \E a \in 1..Len(H[1]) + 1, b \in 0..Len(H[1]) :
              SubSeq(ps, 1, i - 1) \o SubSeq(H[1], a, b) \o SubSeq(ps, i + 1, Len(ps)) = H[1]

\* The certificate's DNS names and its IP addresses, by SAN kind.
RefDnsNames(cert) == {cert.alt[i].value : i \in {i \in DOMAIN cert.alt : cert.alt[i].kind = "DNS"}}
RefIps(cert) == {Canon[cert.alt[i].value] : i \in {i \in DOMAIN cert.alt : cert.alt[i].kind = "IP"}}

\* Steps 1-3: IP literals only against the IP SANs, names against the DNS
\* SANs, and against the Common Name only when there are none.
RefVerify(hostname, cert) ==
  IF IsIP(hostname) THEN Canon[hostname] \in RefIps(cert)
  ELSE IF RefDnsNames(cert) # {} THEN
    \E p \in RefDnsNames(cert) : RefMatch(hostname, p)
  ELSE \E p \in cert.cn : RefMatch(hostname, p)

\* A hostname that is a DNS name: non-empty labels of letters (a trailing
\* dot allowed).
IsDnsName(h) ==
  /\ ~IsIP(h)
  /\ LET H == Unfqdn(h) IN
       \A k \in 1..Len(H) : H[k] # <<>> /\ RangeOf(H[k]) \cap {Star, Del, Space, Uni} = {}

-----------------------------------------------------------------------------
VARIABLE last   \* the call: what was called, on what, with what result

vars == <<last>>

Init == last = [op |-> "none"]

\* checkServerIdentity's wildcard(pattern): check(splitHost(hostname),
\* pattern, true).  Each behaviour is one call of these pure functions.
CallCheck(h, p) ==
  /\ last.op = "none"
  /\ last' = [op |-> "check", host |-> h, pattern |-> p,
           result |-> Check(SplitHost(h), p, TRUE)]

\* checkServerIdentity(hostname, cert).
CallVerify(h, c) ==
  /\ last.op = "none"
  /\ last' = [op |-> "verify", host |-> h, cert |-> c,
           result |-> VerifyResult(h, c)]

Next ==
  \/ \E h \in CheckHosts, p \in Patterns : CallCheck(h, p)
  \/ \E h \in Hosts, c \in Certs : CallVerify(h, c)

Spec == Init /\ [][Next]_vars

-----------------------------------------------------------------------------
(***************************************************************************)
(* Properties.                                                             *)
(***************************************************************************)

\* Every call returns a result of its kind.
TypeOK ==
  \/ last = [op |-> "none"]
  \/ last.op = "check" /\ last.result \in BOOLEAN
  \/ last.op = "verify" /\ last.result \in Results

\* check() fails closed: for a hostname that is a DNS name it accepts a
\* pattern only when the wildcard rules of spec 4.2 step 4 accept it.
CheckSoundOnDnsNames ==
  (last.op = "check" /\ IsDnsName(last.host) /\ last.result)
    => RefMatch(last.host, last.pattern)

\* checkServerIdentity accepts only what spec 4.2 steps 1-3 accept: an IP
\* literal through an IP SAN, a name through a DNS SAN, or, when there is
\* none, through the Common Name.
VerifySound ==
  (last.op = "verify" /\ last.result = "ok") => RefVerify(last.host, last.cert)

\* checkServerIdentity never throws on a well-formed certificate: a
\* mismatch is returned, not raised (spec 6).
VerifyNeverThrows ==
  (last.op = "verify" /\ ~last.cert.badQuote) => last.result # "throw"

=============================================================================
