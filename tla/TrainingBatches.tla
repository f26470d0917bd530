-------------------------- MODULE TrainingBatches --------------------------
(***************************************************************************)
(* What pipeline-parallel training promises for one batch after the other, *)
(* without messages: each stage runs each microbatch of the open batch     *)
(* forward exactly once, in the order of the stages, and, in training,     *)
(* backward exactly once, in the opposite order and after the output of    *)
(* the last stage; the batch is closed when every stage has done all of    *)
(* it, and only then does the next one open.                               *)
(***************************************************************************)
EXTENDS Integers

CONSTANTS NumWorkers, Microbatches

VARIABLES phase, serial, forwarded, trained

vars == <<phase, serial, forwarded, trained>>

Workers == 1..NumWorkers

Work ==
    {<<serial, p>> : p \in 0..((IF phase = "train" THEN Microbatches ELSE 1) - 1)}

Init ==
    /\ phase = "idle" /\ serial = 0
    /\ forwarded = [w \in Workers |-> {}]
    /\ trained = [w \in Workers |-> {}]

Open ==
    /\ phase = "idle"
    /\ phase' \in {"train", "validate"}
    /\ serial' = serial + 1
    /\ UNCHANGED <<forwarded, trained>>

Forward(w) ==
    /\ phase # "idle"
    /\ \E mb \in Work \ forwarded[w] :
          /\ w = 1 \/ mb \in forwarded[w - 1]
          /\ forwarded' = [forwarded EXCEPT ![w] = @ \cup {mb}]
    /\ UNCHANGED <<phase, serial, trained>>

Backward(w) ==
    /\ phase = "train"
    /\ \E mb \in Work \ trained[w] :
          /\ mb \in forwarded[NumWorkers]
          /\ w = NumWorkers \/ mb \in trained[w + 1]
          /\ trained' = [trained EXCEPT ![w] = @ \cup {mb}]
    /\ UNCHANGED <<phase, serial, forwarded>>

Close ==
    /\ phase # "idle"
    /\ \A w \in Workers : /\ Work \subseteq forwarded[w]
                          /\ phase = "train" => Work \subseteq trained[w]
    /\ phase' = "idle"
    /\ UNCHANGED <<serial, forwarded, trained>>

Next == Open \/ Close \/ \E w \in Workers : Forward(w) \/ Backward(w)

Spec == Init /\ [][Next]_vars
=============================================================================
