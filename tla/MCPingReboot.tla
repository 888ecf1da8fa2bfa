---------------------------- MODULE MCPingReboot ----------------------------
(***************************************************************************)
(* A small instance of PingReboot for TLC: two sections, one of which      *)
(* reboots while the other sends a message; each may ping or use wget.     *)
(***************************************************************************)
EXTENDS PingReboot
=============================================================================
