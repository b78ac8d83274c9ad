------------------------- MODULE MCPayloadRetention -------------------------
(* Small instances of PayloadRetention. *)
EXTENDS PayloadRetention
=============================================================================
