--------------------------- MODULE MCServerLifecycle ---------------------------
(* Small instances of ServerLifecycle for TLC. *)
EXTENDS ServerLifecycle

\* A file that is no snapshot, one with a reserved path, and one that loads.
MCFiles == {"none", "broken", "reserved", "good"}
===============================================================================
