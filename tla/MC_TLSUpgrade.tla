--------------------------- MODULE MC_TLSUpgrade ---------------------------
(* TLC instance of TLSUpgrade: one ALPN protocol, two application writes,  *)
(* enough for a write held by net.Socket or by handle.upgrading and one    *)
(* made in an upgrade listener.                                            *)
EXTENDS TLSUpgrade

CONSTANT p1

MCProtocols == {p1}
MCMaxWrites == 2
=============================================================================
