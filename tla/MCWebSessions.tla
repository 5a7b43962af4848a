--------------------------- MODULE MCWebSessions ---------------------------
(* Instances of WebSessions for TLC. *)
EXTENDS WebSessions
============================================================================
