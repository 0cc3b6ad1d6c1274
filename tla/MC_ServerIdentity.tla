------------------------- MODULE MC_ServerIdentity -------------------------
(* TLC instance of ServerIdentity.  Leftmost labels of up to two           *)
(* characters from a letter, "*" and the "xn--" prefix, or one of an       *)
(* upper-case letter, U+007F, a blank and a non-ASCII character; labels    *)
(* from a letter, "*" and the empty label (which also gives a trailing     *)
(* dot); names of one to three labels.  IP literals: an IPv4 address, its  *)
(* IPv4-mapped IPv6 form, and an IPv6 address.                             *)
EXTENDS ServerIdentity

MCChars == {"a", "A", "b", "*", "xn--", "DEL", " ", "U",
            "0", "1", "2", "7", ":", "f"}
MCLowerOf == [c \in MCChars |-> IF c = "A" THEN "a" ELSE c]

\* Labels of at most n characters from cs.
LabelsUpTo(cs, n) == UNION {[1..m -> cs] : m \in 0..n}

\* Names: a leftmost label from L, then up to two labels from R.
NamesOf(L, R) == {<<l>> : l \in L} \cup {<<l, r>> : l \in L, r \in R}
                   \cup {<<l, r, t>> : l \in L, r \in R, t \in R}

MCRest == {<<>>, <<"b">>, <<"*">>}
MCLeft == LabelsUpTo({"a", "*", "xn--"}, 2)
MCCheckHosts == NamesOf(MCLeft \cup LabelsUpTo({"A", "DEL"}, 1), MCRest)
MCPatterns == NamesOf(MCLeft \cup LabelsUpTo({"A", "DEL", " ", "U"}, 1), MCRest)

\* "127.0.0.1", "::ffff:127.0.0.1" and "::1", split at ".".
IPv4 == <<<<"1", "2", "7">>, <<"0">>, <<"0">>, <<"1">>>>
IPv4Mapped == <<<<":", ":", "f", "f", "f", "f", ":", "1", "2", "7">>,
                <<"0">>, <<"0">>, <<"1">>>>
IPv6 == <<<<":", ":", "1">>>>
MCIPForms == {IPv4, IPv4Mapped, IPv6}
MCCanon == [f \in MCIPForms |-> IF f = IPv6 THEN f ELSE IPv4]

MCNames == {<<<<"a">>, <<"b">>, <<"b">>>>, <<<<"*">>, <<"b">>, <<"b">>>>,
            <<<<"*">>, <<"b">>>>}
MCHosts == {<<<<"a">>, <<"b">>, <<"b">>>>, <<<<"A">>, <<"b">>, <<"b">>, <<>>>>,
            <<<<"a">>, <<"b">>>>} \cup MCIPForms
MCEntries == {[kind |-> "DNS", value |-> n] : n \in MCNames}
             \cup {[kind |-> "IP", value |-> f] : f \in {IPv4Mapped, IPv6}}
             \cup {[kind |-> "URI", value |-> <<<<"a">>, <<"b">>>>]}
MCCerts == [cn : {{}, {<<<<"a">>, <<"b">>, <<"b">>>>}},
            alt : {<<>>} \cup {<<e>> : e \in MCEntries},
            badQuote : BOOLEAN]
=============================================================================
