--------------------------- MODULE MCTcpTransport ---------------------------
(* A message of two packets and one of one.                                *)
EXTENDS TcpTransport, TLC

CONSTANTS m1, m2

MCNumPackets == m1 :> 2 @@ m2 :> 1
=============================================================================
