--------------------------- MODULE DatasetReading ---------------------------
(***************************************************************************)
(* What the training loops rely on when they read a dataset in passes: a   *)
(* pass begins at the first batch, hands out one batch after the other,    *)
(* and ends only when the dataset has no more; the reader may leave it, or *)
(* reading may fail, at any time before.                                   *)
(***************************************************************************)
EXTENDS Naturals

CONSTANTS Batches

VARIABLES status, pass, taken

vars == <<status, pass, taken>>

Init == status = "ended" /\ pass = 0 /\ taken = 0

Begin ==
    /\ status \in {"ended", "left"}
    /\ status' = "reading" /\ pass' = pass + 1 /\ taken' = 0

Take ==
    /\ status = "reading" /\ taken < Batches
    /\ taken' = taken + 1
    /\ UNCHANGED <<status, pass>>

Finish ==
    /\ status = "reading" /\ taken = Batches
    /\ status' = "ended"
    /\ UNCHANGED <<pass, taken>>

GiveUp ==
    /\ status = "reading"
    /\ status' \in {"left", "failed"}
    /\ UNCHANGED <<pass, taken>>

Next == Begin \/ Take \/ Finish \/ GiveUp

Spec == Init /\ [][Next]_vars
=============================================================================
