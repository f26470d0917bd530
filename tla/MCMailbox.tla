----------------------------- MODULE MCMailbox -----------------------------
(* A mailbox with three command types; the last one is SHUTDOWN.           *)
EXTENDS Mailbox, TLC

CONSTANTS m1, m2, m3

MCTypeOf == m1 :> 1 @@ m2 :> 2 @@ m3 :> 3
=============================================================================
