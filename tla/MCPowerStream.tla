---------------------------- MODULE MCPowerStream ----------------------------
(***************************************************************************)
(* Instances of PowerStream: waits of 1, 2 and 3 ticks, a read that times  *)
(* out after 3, a poller that comes round every 4.                         *)
(***************************************************************************)
EXTENDS PowerStream
=============================================================================
