----------------------------- MODULE MC_TlsServer -----------------------------
(* One listen() with two client connections and two swallowed accept       *)
(* errors; MC2MaxListen allows a second listen().                          *)
EXTENDS TlsServer

MCMaxListen == 1
MCMaxConns == 2
MCMaxErrors == 2
MC2MaxListen == 2
=============================================================================
