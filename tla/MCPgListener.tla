------------------------------ MODULE MCPgListener -----------------------------
(* Values for TLC.                                                             *)
EXTENDS PgListener

MCMalformed == {2}
================================================================================
