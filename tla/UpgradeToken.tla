----------------------------- MODULE UpgradeToken -----------------------------
(***************************************************************************)
(* What the plaintext-to-TLS upgrade promises its writers, abstractly      *)
(* (spec section 4.1, the Upgrade Token): once a connection is armed,      *)
(* application writes are held back until the token is secured; a held    *)
(* write is then released onto the TLS connection or, if the socket was   *)
(* destroyed, dropped; no write is ever sent on anything but TLS.  How     *)
(* the token is secured (hook, startTls, handshake), where writes wait and *)
(* in which order they leave is left open.  TLSUpgrade implements it.      *)
(***************************************************************************)
EXTENDS Naturals

CONSTANT MaxWrites

VARIABLES
  token,     \* "none" (not armed), "pending" or "secured"
  held,      \* writes issued and not yet released
  sent,      \* writes sent, as <<id, stream>>
  issued,    \* number of writes issued
  cancelled  \* the socket was destroyed

vars == <<token, held, sent, issued, cancelled>>

WriteIds == 1..MaxWrites

\* The writes of a set of ids, sent on TLS.
OnTls(S) == {<<i, "tls">> : i \in S}

\* Release the writes S: sent on TLS, or dropped if the socket is gone.
ReleaseAll(S) ==
  /\ held' = held \ S
  /\ sent' = IF cancelled THEN sent ELSE sent \cup OnTls(S)

Init ==
  /\ token = "none"
  /\ held = {}
  /\ sent = {}
  /\ issued = 0
  /\ cancelled = FALSE

\* A connection is armed for the upgrade.
Arm ==
  /\ token = "none"
  /\ token' = "pending"
  /\ UNCHANGED <<held, sent, issued, cancelled>>

\* A write made before the token is secured is held back.
Hold ==
  /\ token = "pending"
  /\ ~cancelled
  /\ issued < MaxWrites
  /\ issued' = issued + 1
  /\ held' = held \cup {issued + 1}
  /\ UNCHANGED <<token, sent, cancelled>>

\* The token is secured; some held writes S are released at once together
\* with k writes made by the listeners of the upgrade.
Secure(S, k) ==
  /\ token = "pending"
  /\ token' = "secured"
  /\ S \subseteq held
  /\ issued + k <= MaxWrites
  /\ cancelled => k = 0
  /\ issued' = issued + k
  /\ ReleaseAll(S \cup (issued + 1 .. issued + k))
  /\ UNCHANGED cancelled

\* Held writes S are released after the token was secured.
Release(S) ==
  /\ token = "secured"
  /\ S # {}
  /\ S \subseteq held
  /\ ReleaseAll(S)
  /\ UNCHANGED <<token, issued, cancelled>>

\* A write made once the token is secured goes straight to TLS.
SendNow ==
  /\ token = "secured"
  /\ ~cancelled
  /\ issued < MaxWrites
  /\ issued' = issued + 1
  /\ sent' = sent \cup OnTls({issued + 1})
  /\ UNCHANGED <<token, held, cancelled>>

\* The socket is destroyed.
Cancel ==
  /\ token # "none"
  /\ ~cancelled
  /\ cancelled' = TRUE
  /\ UNCHANGED <<token, held, sent, issued>>

Next ==
  \/ Arm
  \/ Hold
  \/ \E S \in SUBSET held, k \in 0..MaxWrites : Secure(S, k)
  \/ \E S \in SUBSET held : Release(S)
  \/ SendNow
  \/ Cancel

\* Writes held behind a secured token are eventually released.
Spec == Init /\ [][Next]_vars /\ WF_vars(\E S \in SUBSET held : Release(S))

=============================================================================
