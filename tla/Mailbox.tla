------------------------------ MODULE Mailbox ------------------------------
(***************************************************************************)
(* The input queue of a communicator (distributed/message_map.hpp and the  *)
(* enqueue/dequeue operations of distributed/communicator.hpp) between the *)
(* io threads that deliver messages and the event loop of a worker         *)
(* (distributed/worker.hpp), with its mutex and condition variable.        *)
(*                                                                         *)
(* Each atomic operation is a step of its own: inserting a message and     *)
(* counting it are two, and so are taking one out and uncounting it.       *)
(* The queue is a set: within one command type the order plays no part.    *)
(* `atScan' is history.                                                    *)
(***************************************************************************)
EXTENDS Integers, FiniteSets

CONSTANTS
    Senders,       \* threads that run enqueue_input_message
    Messages,      \* messages there are to deliver
    NumTypes,      \* number of command types, 1 has the highest priority
    TypeOf,        \* the command type of each message
    ShutdownType,  \* the type whose handler calls stop()
    None           \* nobody holds the mutex

Types == 1..NumTypes
Loop  == "event loop"

ASSUME MailboxAssumption ==
    /\ NumTypes \in Nat \ {0}
    /\ TypeOf \in [Messages -> Types]
    /\ ShutdownType \in Types
    /\ IsFiniteSet(Senders)
    /\ None \notin Senders /\ Loop \notin Senders /\ None # Loop

VARIABLES
    unsent,     \* messages no sender has picked up yet
    queues,     \* the messages in the queues_ of the MessageMap
    count,      \* total_message_count_
    spc,        \* where each sender is in enqueue_input_message
    callback,   \* message_notification_callback_ is set
    mutex,      \* holder of message_available_mutex_
    wpc,        \* where the event loop is
    at,         \* the type dequeue_input_message tries next
    popped,     \* {} or the message being dequeued or processed
    notified,   \* the waiting loop has been notified
    shouldStop, \* should_stop_
    stopper,    \* where the thread is that calls Worker::stop from outside
    atScan      \* the queued messages when the dequeue began

vars == <<unsent, queues, count, spc, callback, mutex, wpc, at, popped, notified,
          shouldStop, stopper, atScan>>

Init ==
    /\ unsent = Messages /\ queues = {} /\ count = 0
    /\ spc = [s \in Senders |-> "idle"]
    /\ callback = FALSE /\ mutex = None
    /\ wpc = "start" /\ at = 1 /\ popped = {} /\ notified = FALSE
    /\ shouldStop = TRUE /\ stopper = "ready" /\ atScan = {}

----------------------------------------------------------------------------
(* enqueue_input_message: MessageMap::push, then the callback if there is  *)
(* one, which notifies the loop under the mutex.                           *)

senderLocal == <<callback, wpc, at, popped, shouldStop, stopper, atScan>>

Emplace(s) ==
    /\ spc[s] = "idle"
    /\ \E m \in unsent : unsent' = unsent \ {m} /\ queues' = queues \cup {m}
    /\ spc' = [spc EXCEPT ![s] = "emplaced"]
    /\ UNCHANGED <<count, mutex, notified, senderLocal>>

AddCount(s) ==
    /\ spc[s] = "emplaced"
    /\ count' = count + 1
    /\ spc' = [spc EXCEPT ![s] = "counted"]
    /\ UNCHANGED <<unsent, queues, mutex, notified, senderLocal>>

NoCallback(s) ==
    /\ spc[s] = "counted" /\ ~callback
    /\ spc' = [spc EXCEPT ![s] = "idle"]
    /\ UNCHANGED <<unsent, queues, count, mutex, notified, senderLocal>>

LockCallback(s) ==
    /\ spc[s] = "counted" /\ callback
    /\ mutex = None
    /\ mutex' = s
    /\ spc' = [spc EXCEPT ![s] = "locked"]
    /\ UNCHANGED <<unsent, queues, count, notified, senderLocal>>

Notify(s) ==
    /\ spc[s] = "locked"
    /\ notified' = (notified \/ wpc = "waiting")
    /\ mutex' = None
    /\ spc' = [spc EXCEPT ![s] = "idle"]
    /\ UNCHANGED <<unsent, queues, count, senderLocal>>

SenderStep(s) ==
    Emplace(s) \/ AddCount(s) \/ NoCallback(s) \/ LockCallback(s) \/ Notify(s)

----------------------------------------------------------------------------
(* Worker::start.                                                          *)

loopLocal == <<unsent, queues, count, spc, stopper>>

Start ==
    /\ wpc = "start" /\ shouldStop
    /\ shouldStop' = FALSE
    /\ wpc' = "set_callback"
    /\ UNCHANGED <<callback, mutex, at, popped, notified, atScan, loopLocal>>

(* Mutant: no callback is installed.                                       *)
SetCallbackForgotten ==
    /\ wpc = "set_callback"
    /\ wpc' = "loop"
    /\ UNCHANGED <<callback, mutex, at, popped, notified, shouldStop, atScan, loopLocal>>

SetCallback ==
    /\ wpc = "set_callback"
    /\ callback' = TRUE
    /\ wpc' = "loop"
    /\ UNCHANGED <<mutex, at, popped, notified, shouldStop, atScan, loopLocal>>

(* while (!should_stop_), then the lock at the top of the body.            *)
Leave ==
    /\ wpc = "loop" /\ shouldStop
    /\ wpc' = "returned"
    /\ UNCHANGED <<callback, mutex, at, popped, notified, shouldStop, atScan, loopLocal>>

Enter ==
    /\ wpc = "loop" /\ ~shouldStop
    /\ wpc' = "lock"
    /\ UNCHANGED <<callback, mutex, at, popped, notified, shouldStop, atScan, loopLocal>>

Lock ==
    /\ wpc = "lock" /\ mutex = None
    /\ mutex' = Loop /\ wpc' = "test"
    /\ UNCHANGED <<callback, at, popped, notified, shouldStop, atScan, loopLocal>>

(* Mutant: the mutex is given up before the wait begins.                   *)
TestThenUnlock ==
    /\ wpc = "test"
    /\ IF count # 0 \/ shouldStop THEN wpc' = "woken" /\ UNCHANGED mutex
                                 ELSE wpc' = "block" /\ mutex' = None
    /\ UNCHANGED <<callback, at, popped, notified, shouldStop, atScan, loopLocal>>

(* The predicate of the wait, and the step that gives up the mutex and     *)
(* starts to wait: both happen under the mutex, but not in one step.       *)
Test ==
    /\ wpc = "test"
    /\ wpc' = IF count # 0 \/ shouldStop THEN "woken" ELSE "block"
    /\ UNCHANGED <<callback, mutex, at, popped, notified, shouldStop, atScan, loopLocal>>

Block ==
    /\ wpc = "block"
    /\ wpc' = "waiting" /\ mutex' = None /\ notified' = FALSE
    /\ UNCHANGED <<callback, at, popped, shouldStop, atScan, loopLocal>>

(* A notified wait takes the mutex back and tests its predicate again; so  *)
(* does one that wakes up without being notified.                          *)
Wake(reason) ==
    /\ wpc = "waiting" /\ reason /\ mutex = None
    /\ wpc' = "test" /\ mutex' = Loop /\ notified' = FALSE
    /\ UNCHANGED <<callback, at, popped, shouldStop, atScan, loopLocal>>

Break ==
    /\ wpc = "woken" /\ shouldStop
    /\ wpc' = "returned" /\ mutex' = None
    /\ UNCHANGED <<callback, at, popped, notified, shouldStop, atScan, loopLocal>>

Continue ==
    /\ wpc = "woken" /\ ~shouldStop
    /\ wpc' = "drain"
    /\ UNCHANGED <<callback, mutex, at, popped, notified, shouldStop, atScan, loopLocal>>

(* Mutant: the dequeue resumes at the type of the previous message.        *)
DrainMoreResume ==
    /\ wpc = "drain" /\ count # 0
    /\ wpc' = "scan" /\ atScan' = queues
    /\ UNCHANGED <<callback, mutex, at, popped, notified, shouldStop, loopLocal>>

(* while (has_input_message()): the loop keeps the mutex all along.        *)
DrainMore ==
    /\ wpc = "drain" /\ count # 0
    /\ wpc' = "scan" /\ at' = 1 /\ atScan' = queues
    /\ UNCHANGED <<callback, mutex, popped, notified, shouldStop, loopLocal>>

DrainDone ==
    /\ wpc = "drain" /\ count = 0
    /\ wpc' = "loop" /\ mutex' = None
    /\ UNCHANGED <<callback, at, popped, notified, shouldStop, atScan, loopLocal>>

(* dequeue_input_message tries one type after the other; when no type has  *)
(* a message it returns a default Message, here {}.                        *)
ScanMiss ==
    /\ wpc = "scan"
    /\ \A m \in queues : TypeOf[m] # at
    /\ IF at < NumTypes THEN at' = at + 1 /\ UNCHANGED <<wpc, popped>>
                        ELSE wpc' = "handle" /\ popped' = {} /\ UNCHANGED at
    /\ UNCHANGED <<callback, mutex, notified, shouldStop, atScan, loopLocal>>

ScanHit ==
    /\ wpc = "scan"
    /\ \E m \in queues : /\ TypeOf[m] = at
                         /\ queues' = queues \ {m} /\ popped' = {m}
    /\ wpc' = "popped"
    /\ UNCHANGED <<callback, mutex, at, notified, shouldStop, atScan, unsent, count, spc,
                   stopper>>

(* Mutant: taken out without being uncounted, as pop_all does.             *)
SubCountSkipped ==
    /\ wpc = "popped"
    /\ wpc' = "handle"
    /\ UNCHANGED <<callback, mutex, at, popped, notified, shouldStop, atScan, unsent,
                   queues, count, spc, stopper>>

SubCount ==
    /\ wpc = "popped"
    /\ count' = count - 1
    /\ wpc' = "handle"
    /\ UNCHANGED <<callback, mutex, at, popped, notified, shouldStop, atScan, unsent,
                   queues, spc, stopper>>

(* Mutant: the flag is overwritten after each message.                     *)
HandleClearsStop ==
    /\ wpc = "handle"
    /\ shouldStop' = \E m \in popped : TypeOf[m] = ShutdownType
    /\ popped' = {} /\ wpc' = "drain"
    /\ UNCHANGED <<callback, mutex, at, notified, atScan, loopLocal>>

(* process_message: of its effects only those on this protocol, stop().    *)
Handle ==
    /\ wpc = "handle"
    /\ shouldStop' = (shouldStop \/ \E m \in popped : TypeOf[m] = ShutdownType)
    /\ popped' = {} /\ wpc' = "drain"
    /\ UNCHANGED <<callback, mutex, at, notified, atScan, loopLocal>>

LoopStep ==
    \/ Start \/ SetCallback \/ Leave \/ Enter \/ Lock \/ Test \/ Block
    \/ Wake(notified) \/ Break \/ Continue \/ DrainMore \/ DrainDone
    \/ ScanMiss \/ ScanHit \/ SubCount \/ Handle

----------------------------------------------------------------------------
(* Worker::stop from another thread (the destructor): the flag, then       *)
(* notify_all, neither under the mutex.                                    *)

stopLocal == <<unsent, queues, count, spc, callback, mutex, wpc, at, popped, atScan>>

StopFlag ==
    /\ stopper = "ready"
    /\ stopper' = "flagged" /\ shouldStop' = TRUE
    /\ UNCHANGED <<notified, stopLocal>>

StopNotify ==
    /\ stopper = "flagged"
    /\ stopper' = "done" /\ notified' = (notified \/ wpc = "waiting")
    /\ UNCHANGED <<shouldStop, stopLocal>>

Next ==
    \/ \E s \in Senders : SenderStep(s)
    \/ LoopStep
    \/ Wake(TRUE)
    \/ StopFlag \/ StopNotify

Spec == Init /\ [][Next]_vars

(* Every thread runs; nobody has to call stop(), and no wait has to end    *)
(* without a notification.                                                 *)
FairSpec ==
    /\ Spec
    /\ \A s \in Senders : WF_vars(SenderStep(s))
    /\ WF_vars(LoopStep)
    /\ WF_vars(StopNotify)

----------------------------------------------------------------------------
(* Properties.                                                             *)

TypeOK ==
    /\ unsent \subseteq Messages /\ queues \subseteq Messages
    /\ IsFiniteSet(queues)
    /\ count \in Int
    /\ spc \in [Senders -> {"idle", "emplaced", "counted", "locked"}]
    /\ callback \in BOOLEAN /\ notified \in BOOLEAN /\ shouldStop \in BOOLEAN
    /\ mutex \in Senders \cup {Loop, None}
    /\ wpc \in {"start", "set_callback", "loop", "lock", "test", "block", "waiting",
                "woken", "drain", "scan", "popped", "handle", "returned"}
    /\ at \in Types
    /\ popped \subseteq Messages /\ atScan \subseteq Messages
    /\ stopper \in {"ready", "flagged", "done"}

(* The counter is the number of queued messages, but for the messages that *)
(* a sender has not counted yet and the one the loop has not uncounted.    *)
(* It is unsigned and never goes below zero, although a message may be     *)
(* taken out before its sender has counted it.                             *)
Uncounted == {s \in Senders : spc[s] = "emplaced"}
TakenOut  == IF wpc = "popped" THEN 1 ELSE 0

CountNeverWraps == count >= 0

CountAccounts ==
    /\ count = Cardinality(queues) - Cardinality(Uncounted) + TakenOut
    /\ CountNeverWraps

(* Once the loop has seen has_input_message(), dequeue_input_message finds *)
(* a message: process_message never gets the default Message().            *)
NoEmptyDequeue ==
    wpc \in {"popped", "handle"} => popped # {}

(* No lost wakeup on delivery: when the loop waits un-notified although    *)
(* messages are counted, some sender is still on its way to notify it.     *)
NoLostWakeup ==
    wpc = "waiting" /\ ~notified /\ count > 0 =>
        \E s \in Senders : spc[s] \in {"counted", "locked"}

(* The dequeued message is of the highest priority among those that were   *)
(* queued when the dequeue began: of those, none of a smaller type is left.*)
PriorityRespected ==
    wpc = "popped" =>
        \A m \in atScan \cap queues, p \in popped : TypeOf[p] <= TypeOf[m]

(* So a dequeue after has_input_message() returns a message, and the right *)
(* one, whatever is enqueued while it tries one type after the other.      *)
DequeueRight == NoEmptyDequeue /\ PriorityRespected

(* Every queued message is processed, unless the loop has returned.        *)
EveryMessageProcessed ==
    \A m \in Messages : m \in queues ~> (m \notin queues \/ wpc = "returned")

(* A stop() ends the loop at the latest when the next message has arrived. *)
StopTakesEffect ==
    (wpc \notin {"start", "returned"} /\ shouldStop /\ \E s \in Senders : spc[s] = "emplaced")
        ~> (wpc = "returned")
=============================================================================
