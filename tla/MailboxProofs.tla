--------------------------- MODULE MailboxProofs ---------------------------
(***************************************************************************)
(* Proofs about Mailbox, for any finite set of sender threads, any set of  *)
(* messages and any number of command types: the counter accounts for the  *)
(* queued messages, no dequeue comes back empty, priority is respected and *)
(* no delivery is slept through.                                           *)
(***************************************************************************)
EXTENDS Mailbox, FiniteSetTheorems, TLAPS

(* The loop holds the mutex from the test of its predicate to the end of   *)
(* the drain, except while it waits; a sender holds it in its callback;    *)
(* the callback is installed before the loop first looks for messages.     *)
MutexInv ==
    /\ wpc \in {"test", "block", "woken", "drain", "scan", "popped", "handle"} =>
           mutex = Loop
    /\ \A s \in Senders : spc[s] = "locked" => mutex = s
    /\ wpc \notin {"start", "set_callback"} => callback

(* A message is queued once only.                                          *)
FreshInv == unsent \cap (queues \cup atScan) = {}

(* The counter, and what the loop knows of it while it dequeues.           *)
CountInv ==
    /\ CountAccounts
    /\ CountNeverWraps
    /\ wpc \in {"scan", "popped"} => count >= 1

(* What is left to scan: some message, and all that were there at first.   *)
ScanInv ==
    /\ wpc = "scan" => /\ \E m \in queues : TypeOf[m] >= at
                       /\ \A m \in atScan \cap queues : TypeOf[m] >= at
    /\ NoEmptyDequeue
    /\ PriorityRespected

(* Also between the test of the predicate and the wait.                    *)
WakeInv ==
    (wpc = "block" \/ (wpc = "waiting" /\ ~notified)) /\ count > 0 =>
        \E s \in Senders : spc[s] \in {"counted", "locked"}

IInv == TypeOK /\ MutexInv /\ FreshInv /\ CountInv /\ ScanInv /\ WakeInv

----------------------------------------------------------------------------
LEMMA InitIInv == Init => IInv
<1> SUFFICES ASSUME Init PROVE IInv
  OBVIOUS
<1>1. TypeOK
  <2>1. IsFiniteSet(queues)
    BY FS_EmptySet DEF Init
  <2>2. at \in Types
    BY MailboxAssumption DEF Init, Types
  <2>3. mutex \in Senders \cup {Loop, None}
    BY DEF Init
  <2>4. count \in Int
    BY DEF Init
  <2>5. spc \in [Senders -> {"idle", "emplaced", "counted", "locked"}]
    BY DEF Init
  <2> QED
    BY <2>1, <2>2, <2>3, <2>4, <2>5 DEF Init, TypeOK
<1>2. MutexInv /\ FreshInv /\ ScanInv /\ WakeInv
  BY DEF Init, MutexInv, FreshInv, ScanInv, WakeInv, NoEmptyDequeue, PriorityRespected
<1>3. CountInv
  <2>1. Uncounted = {}
    BY DEF Init, Uncounted
  <2> QED
    BY <2>1, FS_EmptySet DEF Init, CountInv, CountAccounts, CountNeverWraps, TakenOut
<1> QED
  BY <1>1, <1>2, <1>3 DEF IInv

LEMMA TypeStep == IInv /\ [Next]_vars => TypeOK'
<1> SUFFICES ASSUME IInv, [Next]_vars PROVE TypeOK'
  OBVIOUS
<1> USE MailboxAssumption DEF IInv, TypeOK
<1>1. ASSUME NEW s \in Senders, SenderStep(s) PROVE TypeOK'
  <2>1. CASE Emplace(s)
    <3>1. PICK m \in unsent : unsent' = unsent \ {m} /\ queues' = queues \cup {m}
      BY <2>1 DEF Emplace
    <3>2. IsFiniteSet(queues \cup {m})
      BY FS_AddElement
    <3> QED
      BY <2>1, <3>1, <3>2 DEF Emplace, senderLocal
  <2>2. CASE AddCount(s)
    BY <2>2 DEF AddCount, senderLocal
  <2>3. CASE NoCallback(s)
    BY <2>3 DEF NoCallback, senderLocal
  <2>4. CASE LockCallback(s)
    BY <2>4 DEF LockCallback, senderLocal
  <2>5. CASE Notify(s)
    BY <2>5 DEF Notify, senderLocal
  <2> QED
    BY <1>1, <2>1, <2>2, <2>3, <2>4, <2>5 DEF SenderStep
<1>2. CASE LoopStep \/ Wake(TRUE)
  <2>1. CASE Start
    BY <2>1 DEF Start, loopLocal
  <2>2. CASE SetCallback
    BY <2>2 DEF SetCallback, loopLocal
  <2>3. CASE Leave
    BY <2>3 DEF Leave, loopLocal
  <2>4. CASE Enter
    BY <2>4 DEF Enter, loopLocal
  <2>5. CASE Lock
    BY <2>5 DEF Lock, loopLocal
  <2>6. CASE Test
    BY <2>6 DEF Test, loopLocal
  <2>7. CASE Block
    BY <2>7 DEF Block, loopLocal
  <2>8. CASE Wake(notified)
    BY <2>8 DEF Wake, loopLocal
  <2>9. CASE Wake(TRUE)
    BY <2>9 DEF Wake, loopLocal
  <2>10. CASE Break
    BY <2>10 DEF Break, loopLocal
  <2>11. CASE Continue
    BY <2>11 DEF Continue, loopLocal
  <2>12. CASE DrainDone
    BY <2>12 DEF DrainDone, loopLocal
  <2>13. CASE SubCount
    BY <2>13 DEF SubCount, loopLocal
  <2>14. CASE Handle
    BY <2>14 DEF Handle, loopLocal
  <2>15. CASE DrainMore
    <3>1. 1 \in Types
      BY DEF Types
    <3> QED
      BY <2>15, <3>1 DEF DrainMore, loopLocal
  <2>16. CASE ScanMiss
    <3>1. at < NumTypes => at + 1 \in Types
      BY DEF Types
    <3> QED
      BY <2>16, <3>1 DEF ScanMiss, loopLocal
  <2>17. CASE ScanHit
    <3>1. PICK m \in queues : queues' = queues \ {m} /\ popped' = {m}
      BY <2>17 DEF ScanHit
    <3>2. IsFiniteSet(queues \ {m})
      BY FS_RemoveElement
    <3> QED
      BY <2>17, <3>1, <3>2 DEF ScanHit
  <2> QED
    BY <1>2, <2>1, <2>2, <2>3, <2>4, <2>5, <2>6, <2>7, <2>8, <2>9, <2>10, <2>11, <2>12, <2>13, <2>14, <2>15, <2>16, <2>17 DEF LoopStep
<1>3. CASE StopFlag \/ StopNotify
  BY <1>3 DEF StopFlag, StopNotify, stopLocal
<1>4. CASE UNCHANGED vars
  BY <1>4 DEF vars
<1> QED
  BY <1>1, <1>2, <1>3, <1>4 DEF Next

LEMMA MutexStep == IInv /\ [Next]_vars => MutexInv'
<1> SUFFICES ASSUME IInv, [Next]_vars PROVE MutexInv'
  OBVIOUS
<1> USE MailboxAssumption DEF IInv, TypeOK, MutexInv
<1>1. ASSUME NEW s \in Senders, SenderStep(s) PROVE MutexInv'
  BY <1>1 DEF SenderStep, Emplace, AddCount, NoCallback, LockCallback, Notify, senderLocal
<1>2. CASE Start \/ SetCallback \/ Leave \/ Enter \/ Lock \/ Test
  BY <1>2 DEF Start, SetCallback, Leave, Enter, Lock, Test, loopLocal
<1>3. CASE Block \/ Wake(notified) \/ Wake(TRUE) \/ Break \/ Continue \/ DrainMore \/ DrainDone
  BY <1>3 DEF Block, Wake, Break, Continue, DrainMore, DrainDone, loopLocal
<1>4. CASE ScanMiss \/ ScanHit \/ SubCount \/ Handle
  BY <1>4 DEF ScanMiss, ScanHit, SubCount, Handle, loopLocal
<1>5. CASE StopFlag \/ StopNotify
  BY <1>5 DEF StopFlag, StopNotify, stopLocal
<1>6. CASE UNCHANGED vars
  BY <1>6 DEF vars
<1> QED
  BY <1>1, <1>2, <1>3, <1>4, <1>5, <1>6 DEF Next, LoopStep

LEMMA FreshStep == IInv /\ [Next]_vars => FreshInv'
<1> SUFFICES ASSUME IInv, [Next]_vars PROVE FreshInv'
  OBVIOUS
<1> USE DEF IInv, FreshInv
<1>1. ASSUME NEW s \in Senders, SenderStep(s) PROVE FreshInv'
  BY <1>1 DEF SenderStep, Emplace, AddCount, NoCallback, LockCallback, Notify, senderLocal
<1>2. CASE LoopStep \/ Wake(TRUE)
  BY <1>2 DEF LoopStep, Start, SetCallback, Leave, Enter, Lock, Test, Block, Wake, Break,
     Continue, DrainMore, DrainDone, ScanMiss, ScanHit, SubCount, Handle, loopLocal
<1>3. CASE StopFlag \/ StopNotify \/ UNCHANGED vars
  BY <1>3 DEF StopFlag, StopNotify, stopLocal, vars
<1> QED
  BY <1>1, <1>2, <1>3 DEF Next

LEMMA CountStep == IInv /\ [Next]_vars => CountInv'
<1> SUFFICES ASSUME IInv, [Next]_vars PROVE CountInv'
  OBVIOUS
<1> USE DEF IInv, CountInv, CountAccounts, CountNeverWraps, TakenOut
<1>1. /\ IsFiniteSet(queues) /\ Cardinality(queues) \in Nat
      /\ IsFiniteSet(Uncounted) /\ Cardinality(Uncounted) \in Nat
      /\ count \in Int
  <2>1. IsFiniteSet(Uncounted)
    BY MailboxAssumption, FS_Subset DEF Uncounted
  <2> QED
    BY <2>1, FS_CardinalityType DEF TypeOK
<1>2. ASSUME NEW s \in Senders, SenderStep(s) PROVE CountInv'
  <2>1. CASE Emplace(s)
    <3>1. PICK m \in unsent : unsent' = unsent \ {m} /\ queues' = queues \cup {m}
      BY <2>1 DEF Emplace
    <3>2. Cardinality(queues') = Cardinality(queues) + 1
      BY <1>1, <3>1, FS_AddElement DEF FreshInv
    <3>3. Uncounted' = Uncounted \cup {s} /\ s \notin Uncounted
      BY <2>1 DEF Emplace, Uncounted, TypeOK
    <3>4. Cardinality(Uncounted') = Cardinality(Uncounted) + 1
      BY <1>1, <3>3, FS_AddElement
    <3> QED
      BY <1>1, <2>1, <3>2, <3>4 DEF Emplace, senderLocal
  <2>2. CASE AddCount(s)
    <3>1. Uncounted' = Uncounted \ {s} /\ s \in Uncounted
      BY <2>2 DEF AddCount, Uncounted, TypeOK
    <3>2. Cardinality(Uncounted') = Cardinality(Uncounted) - 1
      BY <1>1, <3>1, FS_RemoveElement
    <3> QED
      BY <1>1, <2>2, <3>2 DEF AddCount, senderLocal
  <2>3. CASE NoCallback(s) \/ LockCallback(s) \/ Notify(s)
    <3>1. Uncounted' = Uncounted
      BY <2>3 DEF NoCallback, LockCallback, Notify, Uncounted, TypeOK
    <3> QED
      BY <1>1, <2>3, <3>1 DEF NoCallback, LockCallback, Notify, senderLocal
  <2> QED
    BY <1>2, <2>1, <2>2, <2>3 DEF SenderStep
<1>3. CASE LoopStep \/ Wake(TRUE)
  <2>0. spc' = spc /\ Uncounted' = Uncounted
    BY <1>3 DEF LoopStep, Start, SetCallback, Leave, Enter, Lock, Test, Block, Wake, Break,
       Continue, DrainMore, DrainDone, ScanMiss, ScanHit, SubCount, Handle, loopLocal,
       Uncounted
  <2>1. CASE Start
    BY <1>1, <2>0, <2>1 DEF Start, loopLocal
  <2>2. CASE SetCallback
    BY <1>1, <2>0, <2>2 DEF SetCallback, loopLocal
  <2>3. CASE Leave
    BY <1>1, <2>0, <2>3 DEF Leave, loopLocal
  <2>4. CASE Enter
    BY <1>1, <2>0, <2>4 DEF Enter, loopLocal
  <2>5. CASE Lock
    BY <1>1, <2>0, <2>5 DEF Lock, loopLocal
  <2>6. CASE Test
    BY <1>1, <2>0, <2>6 DEF Test, loopLocal
  <2>7. CASE Block
    BY <1>1, <2>0, <2>7 DEF Block, loopLocal
  <2>8. CASE Wake(notified)
    BY <1>1, <2>0, <2>8 DEF Wake, loopLocal
  <2>9. CASE Wake(TRUE)
    BY <1>1, <2>0, <2>9 DEF Wake, loopLocal
  <2>10. CASE Break
    BY <1>1, <2>0, <2>10 DEF Break, loopLocal
  <2>11. CASE Continue
    BY <1>1, <2>0, <2>11 DEF Continue, loopLocal
  <2>12. CASE DrainMore
    BY <1>1, <2>0, <2>12 DEF DrainMore, loopLocal
  <2>13. CASE DrainDone
    BY <1>1, <2>0, <2>13 DEF DrainDone, loopLocal
  <2>14. CASE ScanMiss
    BY <1>1, <2>0, <2>14 DEF ScanMiss, loopLocal
  <2>15. CASE ScanHit
    <3>1. PICK m \in queues : queues' = queues \ {m}
      BY <2>15 DEF ScanHit
    <3>2. Cardinality(queues') = Cardinality(queues) - 1
      BY <1>1, <3>1, FS_RemoveElement
    <3> QED
      BY <1>1, <2>0, <2>15, <3>2 DEF ScanHit
  <2>16. CASE SubCount
    BY <1>1, <2>0, <2>16 DEF SubCount
  <2>17. CASE Handle
    BY <1>1, <2>0, <2>17 DEF Handle, loopLocal
  <2> QED
    BY <1>3, <2>1, <2>2, <2>3, <2>4, <2>5, <2>6, <2>7, <2>8, <2>9, <2>10, <2>11, <2>12, <2>13, <2>14, <2>15, <2>16, <2>17 DEF LoopStep
<1>4. CASE StopFlag \/ StopNotify
  <2>1. Uncounted' = Uncounted
    BY <1>4 DEF StopFlag, StopNotify, stopLocal, Uncounted
  <2> QED
    BY <1>4, <2>1 DEF StopFlag, StopNotify, stopLocal
<1>5. CASE UNCHANGED vars
  <2>1. Uncounted' = Uncounted
    BY <1>5 DEF vars, Uncounted
  <2> QED
    BY <1>5, <2>1 DEF vars
<1> QED
  BY <1>2, <1>3, <1>4, <1>5 DEF Next

LEMMA ScanStep == IInv /\ [Next]_vars => ScanInv'
<1> SUFFICES ASSUME IInv, [Next]_vars PROVE ScanInv'
  OBVIOUS
<1> USE DEF IInv, ScanInv, NoEmptyDequeue, PriorityRespected
<1>0. /\ NumTypes \in Nat /\ at \in Nat /\ at <= NumTypes
      /\ \A m \in Messages : TypeOf[m] \in Nat /\ 1 <= TypeOf[m] /\ TypeOf[m] <= NumTypes
      /\ queues \subseteq Messages
  BY MailboxAssumption DEF TypeOK, Types
<1>1. ASSUME NEW s \in Senders, SenderStep(s) PROVE ScanInv'
  <2>1. CASE Emplace(s)
    BY <2>1 DEF Emplace, senderLocal, FreshInv
  <2>2. CASE AddCount(s) \/ NoCallback(s) \/ LockCallback(s) \/ Notify(s)
    BY <2>2 DEF AddCount, NoCallback, LockCallback, Notify, senderLocal
  <2> QED
    BY <1>1, <2>1, <2>2 DEF SenderStep
<1>2. CASE DrainMore
  <2>1. queues # {}
    <3>1. count >= 1 /\ Cardinality(queues) = count + Cardinality(Uncounted)
      <4>1. Cardinality(queues) \in Nat /\ Cardinality(Uncounted) \in Nat
        BY MailboxAssumption, FS_Subset, FS_CardinalityType DEF TypeOK, Uncounted
      <4> QED
        BY <1>2, <4>1 DEF DrainMore, CountInv, CountAccounts, CountNeverWraps, TakenOut, TypeOK
    <3>2. Cardinality(Uncounted) \in Nat
      BY MailboxAssumption, FS_Subset, FS_CardinalityType DEF Uncounted
    <3> QED
      BY <3>1, <3>2, FS_EmptySet DEF TypeOK
  <2> QED
    BY <1>0, <1>2, <2>1 DEF DrainMore, loopLocal
<1>3. CASE ScanMiss
  BY <1>0, <1>3 DEF ScanMiss, loopLocal
<1>4. CASE ScanHit
  BY <1>0, <1>4 DEF ScanHit
<1>5. CASE SubCount \/ Handle
  BY <1>5 DEF SubCount, Handle, loopLocal
<1>6. CASE Start \/ SetCallback \/ Leave \/ Enter \/ Lock \/ Test
  BY <1>6 DEF Start, SetCallback, Leave, Enter, Lock, Test, loopLocal
<1>7. CASE Block \/ Wake(notified) \/ Wake(TRUE) \/ Break \/ Continue \/ DrainDone
  BY <1>7 DEF Block, Wake, Break, Continue, DrainDone, loopLocal
<1>8. CASE StopFlag \/ StopNotify \/ UNCHANGED vars
  BY <1>8 DEF StopFlag, StopNotify, stopLocal, vars
<1> QED
  BY <1>1, <1>2, <1>3, <1>4, <1>5, <1>6, <1>7, <1>8 DEF Next, LoopStep

LEMMA WakeStep == IInv /\ [Next]_vars => WakeInv'
<1> SUFFICES ASSUME IInv, [Next]_vars PROVE WakeInv'
  OBVIOUS
<1> USE MailboxAssumption DEF IInv, WakeInv, TypeOK, MutexInv
<1>1. ASSUME NEW s \in Senders, SenderStep(s) PROVE WakeInv'
  <2>1. CASE Emplace(s)
    BY <2>1 DEF Emplace, senderLocal
  <2>2. CASE AddCount(s)
    BY <2>2 DEF AddCount, senderLocal
  <2>3. CASE NoCallback(s)
    BY <2>3 DEF NoCallback, senderLocal
  <2>4. CASE LockCallback(s)
    BY <2>4 DEF LockCallback, senderLocal
  <2>5. CASE Notify(s)
    BY <2>5 DEF Notify, senderLocal
  <2> QED
    BY <1>1, <2>1, <2>2, <2>3, <2>4, <2>5 DEF SenderStep
<1>2. CASE Test
  BY <1>2 DEF Test, loopLocal, CountInv, CountNeverWraps
<1>3. CASE Block \/ Wake(notified) \/ Wake(TRUE)
  BY <1>3 DEF Block, Wake, loopLocal
<1>4. CASE Start \/ SetCallback \/ Leave \/ Enter \/ Lock
  BY <1>4 DEF Start, SetCallback, Leave, Enter, Lock, loopLocal
<1>5. CASE Break \/ Continue \/ DrainMore \/ DrainDone
  BY <1>5 DEF Break, Continue, DrainMore, DrainDone, loopLocal
<1>6. CASE ScanMiss \/ ScanHit \/ SubCount \/ Handle
  BY <1>6 DEF ScanMiss, ScanHit, SubCount, Handle, loopLocal
<1>7. CASE StopFlag \/ StopNotify \/ UNCHANGED vars
  BY <1>7 DEF StopFlag, StopNotify, stopLocal, vars
<1> QED
  BY <1>1, <1>2, <1>3, <1>4, <1>5, <1>6, <1>7 DEF Next, LoopStep

----------------------------------------------------------------------------
THEOREM Inductive == Spec => []IInv
<1>1. IInv /\ [Next]_vars => IInv'
  BY TypeStep, MutexStep, FreshStep, CountStep, ScanStep, WakeStep DEF IInv
<1> QED
  BY InitIInv, <1>1, PTL DEF Spec

(* Type correctness: the variables of the mailbox keep their types.        *)
THEOREM TypeCorrect == Spec => []TypeOK
<1>1. IInv => TypeOK
  BY DEF IInv
<1> QED
  BY Inductive, <1>1, PTL

(* total_message_count_ counts the queued messages, up to the steps under  *)
(* way, and never wraps below zero.                                        *)
THEOREM CounterCorrect == Spec => []CountAccounts
<1>1. IInv => CountAccounts
  BY DEF IInv, CountInv
<1> QED
  BY Inductive, <1>1, PTL

(* dequeue_input_message after has_input_message() returns a message, and  *)
(* the one of the highest priority among those queued when it began.       *)
THEOREM DequeueCorrect == Spec => []DequeueRight
<1>1. IInv => DequeueRight
  BY DEF IInv, ScanInv, DequeueRight
<1> QED
  BY Inductive, <1>1, PTL

(* The loop never sleeps on a counted message without a sender about to    *)
(* notify it.                                                              *)
THEOREM NoWakeupLost == Spec => []NoLostWakeup
<1>1. IInv => NoLostWakeup
  BY DEF IInv, WakeInv, NoLostWakeup
<1> QED
  BY Inductive, <1>1, PTL
=============================================================================
