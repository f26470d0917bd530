--------------------------- MODULE MessageDelivery ---------------------------
(***************************************************************************)
(* What the message handlers rely on: a message that was sent arrives at   *)
(* most once, and whole; only when the connection is lossy, because a      *)
(* channel has broken, say, may it fail to arrive.                         *)
(* Nothing is said of the order of messages.                               *)
(***************************************************************************)
EXTENDS Sequences, SequencesExt

CONSTANTS
    Messages,
    Whole      \* the complete body of each message

VARIABLES sent, arrivals, lossy

vars == <<sent, arrivals, lossy>>

Arrived == {a[1] : a \in ToSet(arrivals)}

Init == sent = {} /\ arrivals = <<>> /\ lossy = FALSE

Send(m) ==
    /\ m \notin sent
    /\ sent' = sent \cup {m}
    /\ UNCHANGED <<arrivals, lossy>>

Arrive(m) ==
    /\ m \in sent \ Arrived
    /\ arrivals' = Append(arrivals, <<m, Whole[m]>>)
    /\ UNCHANGED <<sent, lossy>>

BecomeLossy ==
    /\ lossy' = TRUE
    /\ UNCHANGED <<sent, arrivals>>

Next == BecomeLossy \/ \E m \in Messages : Send(m) \/ Arrive(m)

Spec == Init /\ [][Next]_vars

(* Unless it is lossy every message that is sent arrives.                  *)
Reliable == \A m \in Messages : m \in sent ~> (m \in Arrived \/ lossy)
=============================================================================
