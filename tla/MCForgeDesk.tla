----------------------------- MODULE MCForgeDesk -----------------------------
(***************************************************************************)
(* ForgeDesk with one client: two buckets, core and graphql.               *)
(***************************************************************************)
EXTENDS ForgeDesk

CONSTANTS anon
=============================================================================
