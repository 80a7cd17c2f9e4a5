---------------------------- MODULE MCSsoSession ----------------------------
(***************************************************************************)
(* One RPC, two mints under way at once, two or three JWTs.                *)
(***************************************************************************)
EXTENDS SsoSession

CONSTANTS r1, m1, m2
=============================================================================
