---------------------------- MODULE IoContextPool ----------------------------
(***************************************************************************)
(* IoContextPool::get (distributed/io_context_pool.hpp): the next index is *)
(* a plain member without a lock, read and written by every thread that    *)
(* sends or connects and by the thread that accepts connections            *)
(* (communicator.hpp:55, tcp_communicator.hpp:147, :172, :267).  The race  *)
(* is modelled by the loads and stores of the member, in any order between *)
(* the threads.                                                            *)
(***************************************************************************)
EXTENDS Naturals

CONSTANTS
    Threads,      \* threads that call get
    NumContexts,  \* io_contexts_.size()
    MaxIndex      \* bound: values of the index, once it has left its range

VARIABLES
    next,    \* next_io_context_
    at,      \* where each thread is in get
    loaded,  \* what it has loaded for the increment
    given    \* the index of the context it returns

vars == <<next, at, loaded, given>>

Init ==
    /\ next = 0
    /\ at = [t \in Threads |-> "outside"]
    /\ loaded = [t \in Threads |-> 0] /\ given = [t \in Threads |-> 0]

(* io_contexts_[next_io_context_]                                          *)
Select(t) ==
    /\ at[t] = "outside"
    /\ given' = [given EXCEPT ![t] = next]
    /\ at' = [at EXCEPT ![t] = "load"]
    /\ UNCHANGED <<next, loaded>>

Load(t) ==
    /\ at[t] = "load"
    /\ loaded' = [loaded EXCEPT ![t] = next]
    /\ at' = [at EXCEPT ![t] = "store"]
    /\ UNCHANGED <<next, given>>

Store(t) ==
    /\ at[t] = "store" /\ loaded[t] < MaxIndex
    /\ next' = loaded[t] + 1
    /\ at' = [at EXCEPT ![t] = "compare"]
    /\ UNCHANGED <<loaded, given>>

Compare(t) ==
    /\ at[t] = "compare"
    /\ at' = [at EXCEPT ![t] = IF next = NumContexts THEN "reset" ELSE "outside"]
    /\ UNCHANGED <<next, loaded, given>>

Reset(t) ==
    /\ at[t] = "reset"
    /\ next' = 0
    /\ at' = [at EXCEPT ![t] = "outside"]
    /\ UNCHANGED <<loaded, given>>

Next == \E t \in Threads : Select(t) \/ Load(t) \/ Store(t) \/ Compare(t) \/ Reset(t)

Spec == Init /\ [][Next]_vars

(* "Round-robin assignment" (io_context_pool.hpp:32): when every call has  *)
(* returned, the index is that of a context, so that the next call gets    *)
(* one although nothing disturbs it.  Calls that are still between the     *)
(* increment and the reset are outside of this: what one of them repairs   *)
(* is no violation.                                                        *)
IndexInList == (\A t \in Threads : at[t] = "outside") => next < NumContexts
=============================================================================
