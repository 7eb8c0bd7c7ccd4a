---------------------------- MODULE MCApiServer -----------------------------
(* Model values for ApiServer: two connections contend for one slot, two   *)
(* scratches and two buffers, over three requests.                         *)
EXTENDS ApiServer

CONSTANTS c1, c2, s1, s2, b1, b2
=============================================================================
