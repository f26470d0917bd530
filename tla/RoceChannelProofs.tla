-------------------------- MODULE RoceChannelProofs --------------------------
(***************************************************************************)
(* Proofs about RoceChannel, for any number of messages, credits and queue *)
(* depths that RoceAssumption allows: credits come back, no sender is      *)
(* stranded, the queues suffice, and each message is delivered at most     *)
(* once and whole, also when the connection breaks at any moment.          *)
(***************************************************************************)
EXTENDS RoceChannel, FiniteSetTheorems, SequenceTheorems, TLAPS

Before(q, j, S) == Cardinality({i \in DOMAIN q : i < j /\ q[i] \in S})
From(q, j, S)   == Count(q, S) - Before(q, j, S)
In(q, w)        == \E i \in DOMAIN q : q[i] = w
Behind(q, u, v) == \A i, j \in DOMAIN q : q[i] = u /\ q[j] = v => j < i

Sent    == Of({"sent"})
Ready   == Of({"ready"})
Prep    == Of({"prepare"})
Writes  == Of({"write"})
Posted  == Of({"prepare", "write"})
ForSender   == Of({"prepare", "write", "ready", "error"})
ForReceiver == Of({"prepare", "write", "sent", "error"})

TypeOK ==
    /\ spc \in [Messages -> {"ready", "enqueue", "blocked", "post", "sent",
                             "reconnect", "dropped"}]
    /\ inflight \in 0..Credits
    /\ pendingSends \subseteq Messages /\ pendingReceives \subseteq Messages
    /\ closed \in BOOLEAN /\ broken \in BOOLEAN /\ missed \in BOOLEAN
    /\ sqp \in {"RTS", "ERR"} /\ known \in {"coming", "registered", "gone"}
    /\ toReceiver \in Seq(Posted) /\ unacked \in Seq(Posted) /\ toSender \in Seq(Ready)
    /\ scq \in Seq(ForSender) /\ rcq \in Seq(ForReceiver)
    /\ recvBuffers \in Nat
    /\ content \in [Messages -> {"empty", "full"}]
    /\ delivered \in Seq(Messages \X {"full"})

(* How the connection ends: a lost one is noticed by the hardware, then by *)
(* the side, and only then is the channel closed.                          *)
EndsInOrder ==
    /\ closed => sqp = "ERR"
    /\ sqp = "ERR" => broken /\ toReceiver = <<>> /\ unacked = <<>>
    /\ \A m \in Messages : At(scq, "error", m) # 0 => sqp = "ERR"
    /\ \A m \in Messages : At(rcq, "error", m) # 0 => broken
    /\ known = "gone" => broken

(* What was passed up.                                                     *)
Firsts(q) == {a[1] : a \in ToSet(q)}
Arrived   == Firsts(delivered)

(* A message that was not posted has left no trace.                        *)
Untouched(m) ==
    /\ \A k \in {"prepare", "write"} : /\ At(toReceiver, k, m) = 0 /\ At(unacked, k, m) = 0
                                      /\ At(scq, k, m) = 0 /\ At(rcq, k, m) = 0
    /\ At(toSender, "ready", m) = 0 /\ At(scq, "ready", m) = 0
    /\ m \notin pendingReceives /\ m \notin Arrived
NotSentUntouched == \A m \in Messages : spc[m] = "sent" \/ Untouched(m)

(* Who has a credit, and who has a next step on its way.                   *)
Holders ==
    /\ ~closed => inflight = Cardinality(pendingSends)
    /\ \A m \in pendingSends : spc[m] \in {"post", "sent"}
    /\ \A m \in Messages : spc[m] = "post" /\ ~closed => m \in pendingSends
OneToken ==
    \A m \in Messages :
        /\ Tokens(m) <= 1
        /\ Tokens(m) = 1 /\ ~closed => m \in pendingSends
        /\ m \in pendingSends /\ Intact => Tokens(m) = 1

(* All the next steps together.                                            *)
Posting == {m \in Messages : spc[m] = "post"}
InAllQueues ==
    Count(toReceiver, Prep) + Count(toReceiver, Writes)
      + Count(rcq, Prep) + Count(toSender, Ready)
      + Count(scq, Ready) + Count(scq, Writes) + Count(unacked, Writes)
AllTokens == InAllQueues + Cardinality(Posting)
TokensFit == AllTokens <= inflight

(* A message whose announcement has no completion yet is in flight: the    *)
(* completion of its write, which gives the credit back, comes later.      *)
Announced(m) ==
    At(toReceiver, "prepare", m) + At(unacked, "prepare", m) + At(scq, "prepare", m)
AnnouncedSet == {m \in Messages : Announced(m) = 1}
Announcements == Count(toReceiver, Prep) + Count(unacked, Prep) + Count(scq, Prep)
AnnouncedOnce ==
    /\ \A m \in Messages : Announced(m) <= 1
    /\ Announcements = Cardinality(AnnouncedSet)
    /\ ~closed => AnnouncedSet \subseteq pendingSends
    /\ Announcements <= Credits
InTurn(m) ==
    /\ Behind(scq, <<"write", m>>, <<"prepare", m>>)
    /\ Behind(unacked, <<"write", m>>, <<"prepare", m>>)
    /\ Behind(toReceiver, <<"write", m>>, <<"prepare", m>>)
    /\ At(scq, "write", m) # 0 =>
           At(unacked, "prepare", m) = 0 /\ At(toReceiver, "prepare", m) = 0
    /\ At(unacked, "write", m) # 0 => At(toReceiver, "prepare", m) = 0
WriteBehind == closed \/ \A m \in Messages : InTurn(m)

(* Cut the receiver's queue anywhere before a completion: what that was in *)
(* flight together with are the announcements before the cut and all of    *)
(* its kind behind the cut.                                                *)
SentCrowd(j) ==
    Count(toSender, Ready) + From(rcq, j, Sent) + Before(rcq, j, Prep)
WriteCrowd(j) ==
    Count(toSender, Ready) + Count(scq, Ready) + Count(toReceiver, Writes)
      + From(rcq, j, Writes) + Before(rcq, j, Prep)
Crowds ==
    \A j \in 1..Len(rcq) :
        /\ From(rcq, j, Sent) >= 1 => SentCrowd(j) <= Credits
        /\ From(rcq, j, Writes) >= 1 => WriteCrowd(j) <= Credits

BuffersKept == Intact => recvBuffers + Count(rcq, Posted) = RqDepth

(* Who was woken will take the credit.                                     *)
Waking == {m \in Messages : spc[m] = "enqueue"}
Woken == Blocked # {} => ~closed /\ inflight + Cardinality(Waking) >= Credits

(* What the receiver has of each message.                                  *)
ReceivedOnce ==
    \A m \in Messages :
        /\ m \in pendingReceives \/ m \in Arrived =>
               At(toReceiver, "prepare", m) = 0 /\ At(rcq, "prepare", m) = 0
        /\ m \in pendingReceives => m \notin Arrived
        /\ At(rcq, "write", m) # 0 => content[m] = "full"

IInv ==
    /\ TypeOK /\ EndsInOrder /\ NotSentUntouched /\ Holders /\ OneToken /\ TokensFit
    /\ AnnouncedOnce /\ WriteBehind /\ Crowds /\ BuffersKept /\ Woken /\ ReceivedOnce
----------------------------------------------------------------------------
(* Lemmas about places in queues.                                          *)

(* Places in a sequence are finitely many.                                 *)
LEMMA PlacesFinite ==
    ASSUME NEW T, NEW q \in Seq(T), NEW A, A \subseteq DOMAIN q
    PROVE  IsFiniteSet(A) /\ Cardinality(A) \in Nat /\ Cardinality(A) <= Len(q)
<1>1. DOMAIN q = 1..Len(q) /\ Len(q) \in Nat
  BY LenProperties
<1>2. IsFiniteSet(1..Len(q)) /\ Cardinality(1..Len(q)) = Len(q)
  <2>1. /\ IsFiniteSet(1..Len(q))
        /\ Cardinality(1..Len(q)) = IF 1 > Len(q) THEN 0 ELSE Len(q) - 1 + 1
    BY <1>1, FS_Interval
  <2> QED
    BY <1>1, <2>1
<1>3. IsFiniteSet(A) /\ Cardinality(A) <= Len(q)
  BY <1>1, <1>2, FS_Subset
<1> QED
  BY <1>3, FS_CardinalityType

(* Moving a set of places by one keeps its size.                           *)
LEMMA ShiftCardinality ==
    ASSUME NEW A, A \subseteq Int, IsFiniteSet(A), NEW B, B = {i + 1 : i \in A}
    PROVE  Cardinality(B) = Cardinality(A)
<1> DEFINE f == [i \in A |-> i + 1]
<1>1. f \in [A -> B]
  OBVIOUS
<1>2. \A a, b \in A : f[a] = f[b] => a = b
  OBVIOUS
<1>3. \A b \in B : \E a \in A : f[a] = b
  OBVIOUS
<1>4. f \in Bijection(A, B)
  BY <1>1, <1>2, <1>3 DEF Bijection, Injection, Surjection, IsInjective
<1>5. ExistsBijection(A, B)
  BY <1>4 DEF ExistsBijection
<1> QED
  BY <1>5, FS_Bijection

LEMMA CountType ==
    ASSUME NEW T, NEW q \in Seq(T), NEW S
    PROVE  Count(q, S) \in Nat /\ Count(q, S) <= Len(q)
BY PlacesFinite DEF Count

LEMMA CountEmpty ==
    ASSUME NEW S PROVE Count(<<>>, S) = 0
<1>1. {i \in DOMAIN <<>> : <<>>[i] \in S} = {}
  OBVIOUS
<1> QED
  BY <1>1, FS_EmptySet DEF Count

LEMMA CountAppend ==
    ASSUME NEW T, NEW q \in Seq(T), NEW w \in T, NEW S
    PROVE  Count(Append(q, w), S) = Count(q, S) + (IF w \in S THEN 1 ELSE 0)
<1> DEFINE A == {i \in DOMAIN q : q[i] \in S}
           n == Len(q) + 1
           B == {i \in DOMAIN Append(q, w) : Append(q, w)[i] \in S}
<1>1. IsFiniteSet(A) /\ Cardinality(A) \in Nat
  BY PlacesFinite
<1>2. /\ DOMAIN q = 1..Len(q) /\ Len(q) \in Nat
      /\ DOMAIN Append(q, w) = 1..n /\ Append(q, w)[n] = w
      /\ \A i \in 1..Len(q) : Append(q, w)[i] = q[i]
  OBVIOUS
<1>3. n \notin A
  BY <1>2
<1>6. Count(q, S) = Cardinality(A) /\ Count(Append(q, w), S) = Cardinality(B)
  BY DEF Count
<1>4. CASE w \in S
  <2>1. B = A \cup {n}
    BY <1>2, <1>4
  <2> HIDE DEF A, B, n
  <2> QED
    BY <2>1, <1>1, <1>3, <1>4, <1>6, FS_AddElement
<1>5. CASE w \notin S
  <2>1. B = A
    BY <1>2, <1>5
  <2> HIDE DEF A, B, n
  <2> QED
    BY <2>1, <1>1, <1>5, <1>6
<1> QED
  BY <1>4, <1>5

LEMMA CountTail ==
    ASSUME NEW T, NEW q \in Seq(T), q # <<>>, NEW S
    PROVE  Count(Tail(q), S) = Count(q, S) - (IF Head(q) \in S THEN 1 ELSE 0)
<1> DEFINE A == {i \in DOMAIN Tail(q) : Tail(q)[i] \in S}
           B == {i \in DOMAIN q : q[i] \in S}
           C == {i + 1 : i \in A}
<1>1. /\ DOMAIN q = 1..Len(q) /\ Len(q) \in Nat \ {0} /\ Head(q) = q[1]
      /\ Tail(q) \in Seq(T) /\ DOMAIN Tail(q) = 1..(Len(q) - 1)
      /\ \A i \in 1..(Len(q) - 1) : Tail(q)[i] = q[i + 1]
  OBVIOUS
<1>2. IsFiniteSet(A) /\ A \subseteq Int /\ IsFiniteSet(B) /\ Cardinality(B) \in Nat
  BY <1>1, PlacesFinite
<1>3. Cardinality(C) = Cardinality(A)
  BY <1>2, ShiftCardinality
<1>4. C = B \ {1}
  <2>1. \A i \in C : i \in B \ {1}
    BY <1>1
  <2>2. ASSUME NEW i \in B \ {1} PROVE i \in C
    <3>1. i - 1 \in A /\ i = (i - 1) + 1
      BY <1>1
    <3> QED
      BY <3>1
  <2> QED
    BY <2>1, <2>2
<1>5. 1 \in B <=> Head(q) \in S
  BY <1>1
<1>7. Count(q, S) = Cardinality(B) /\ Count(Tail(q), S) = Cardinality(A)
  BY DEF Count
<1> HIDE DEF A, B, C
<1>6. Cardinality(C) = IF 1 \in B THEN Cardinality(B) - 1 ELSE Cardinality(B)
  BY <1>2, <1>4, FS_RemoveElement
<1> QED
  BY <1>2, <1>3, <1>5, <1>6, <1>7

LEMMA CountNone ==
    ASSUME NEW T, NEW q \in Seq(T), NEW S
    PROVE  Count(q, S) = 0 <=> \A i \in DOMAIN q : q[i] \notin S
<1> DEFINE A == {i \in DOMAIN q : q[i] \in S}
<1>1. IsFiniteSet(A)
  BY PlacesFinite
<1>2. Count(q, S) = Cardinality(A)
  BY DEF Count
<1>3. A = {} <=> \A i \in DOMAIN q : q[i] \notin S
  OBVIOUS
<1> HIDE DEF A
<1> QED
  BY <1>1, <1>2, <1>3, FS_EmptySet

LEMMA CountAll ==
    ASSUME NEW T, NEW q \in Seq(T), NEW S, T \subseteq S
    PROVE  Count(q, S) = Len(q)
<1>1. DOMAIN q = 1..Len(q) /\ Len(q) \in Nat /\ \A i \in 1..Len(q) : q[i] \in T
  OBVIOUS
<1>2. {i \in DOMAIN q : q[i] \in S} = 1..Len(q)
  BY <1>1
<1>3. Cardinality(1..Len(q)) = IF 1 > Len(q) THEN 0 ELSE Len(q) - 1 + 1
  BY <1>1, FS_Interval
<1>4. Count(q, S) = Cardinality(1..Len(q))
  BY <1>2 DEF Count
<1> QED
  BY <1>1, <1>3, <1>4

LEMMA CountUnion ==
    ASSUME NEW T, NEW q \in Seq(T), NEW S, NEW U, S \cap U = {}
    PROVE  Count(q, S \cup U) = Count(q, S) + Count(q, U)
<1> DEFINE A == {i \in DOMAIN q : q[i] \in S}
           B == {i \in DOMAIN q : q[i] \in U}
           C == {i \in DOMAIN q : q[i] \in S \cup U}
<1>1. IsFiniteSet(A) /\ IsFiniteSet(B) /\ Cardinality(A) \in Nat /\ Cardinality(B) \in Nat
  BY PlacesFinite
<1>2. C = A \cup B /\ A \cap B = {}
  OBVIOUS
<1>3. Count(q, S \cup U) = Cardinality(C) /\ Count(q, S) = Cardinality(A) /\ Count(q, U) = Cardinality(B)
  BY DEF Count
<1> HIDE DEF A, B, C
<1>4. Cardinality(C) = Cardinality(A) + Cardinality(B) - Cardinality(A \cap B)
  BY <1>1, <1>2, FS_Union
<1>5. Cardinality(A \cap B) = 0
  BY <1>2, FS_EmptySet
<1> QED
  BY <1>1, <1>3, <1>4, <1>5

(* What lies before a place.                                               *)
LEMMA BeforeType ==
    ASSUME NEW T, NEW q \in Seq(T), NEW j, NEW S
    PROVE  Before(q, j, S) \in Nat /\ Before(q, j, S) <= Count(q, S)
<1> DEFINE B == {i \in DOMAIN q : i < j /\ q[i] \in S}
           C == {i \in DOMAIN q : q[i] \in S}
<1>1. IsFiniteSet(C) /\ Cardinality(B) \in Nat /\ B \subseteq C
  BY PlacesFinite
<1>2. Count(q, S) = Cardinality(C) /\ Before(q, j, S) = Cardinality(B)
  BY DEF Count, Before
<1> HIDE DEF B, C
<1> QED
  BY <1>1, <1>2, FS_Subset

LEMMA BeforeFirst ==
    ASSUME NEW T, NEW q \in Seq(T), NEW S
    PROVE  Before(q, 1, S) = 0
<1>1. {i \in DOMAIN q : i < 1 /\ q[i] \in S} = {}
  BY LenProperties
<1> QED
  BY <1>1, FS_EmptySet DEF Before

LEMMA BeforeAppend ==
    ASSUME NEW T, NEW q \in Seq(T), NEW w \in T, NEW j \in 1..(Len(q) + 1), NEW S
    PROVE  Before(Append(q, w), j, S) = Before(q, j, S)
<1>1. {i \in DOMAIN Append(q, w) : i < j /\ Append(q, w)[i] \in S}
         = {i \in DOMAIN q : i < j /\ q[i] \in S}
  <2>1. /\ DOMAIN q = 1..Len(q) /\ Len(q) \in Nat
        /\ DOMAIN Append(q, w) = 1..(Len(q) + 1)
        /\ \A i \in 1..Len(q) : Append(q, w)[i] = q[i]
    OBVIOUS
  <2> QED
    BY <2>1
<1> QED
  BY <1>1 DEF Before

LEMMA BeforeAll ==
    ASSUME NEW T, NEW q \in Seq(T), NEW S
    PROVE  Before(q, Len(q) + 1, S) = Count(q, S)
<1>1. {i \in DOMAIN q : i < Len(q) + 1 /\ q[i] \in S} = {i \in DOMAIN q : q[i] \in S}
  BY LenProperties
<1> QED
  BY <1>1 DEF Before, Count

LEMMA BeforeTail ==
    ASSUME NEW T, NEW q \in Seq(T), q # <<>>, NEW j \in 1..Len(q), NEW S
    PROVE  Before(q, j + 1, S) = Before(Tail(q), j, S) + (IF Head(q) \in S THEN 1 ELSE 0)
<1> DEFINE A == {i \in DOMAIN Tail(q) : i < j /\ Tail(q)[i] \in S}
           B == {i \in DOMAIN q : i < j + 1 /\ q[i] \in S}
           C == {i + 1 : i \in A}
<1>1. /\ DOMAIN q = 1..Len(q) /\ Len(q) \in Nat \ {0} /\ Head(q) = q[1]
      /\ Tail(q) \in Seq(T) /\ DOMAIN Tail(q) = 1..(Len(q) - 1)
      /\ \A i \in 1..(Len(q) - 1) : Tail(q)[i] = q[i + 1]
  OBVIOUS
<1>2. IsFiniteSet(A) /\ A \subseteq Int /\ IsFiniteSet(B) /\ Cardinality(B) \in Nat
  BY <1>1, PlacesFinite
<1>3. Cardinality(C) = Cardinality(A)
  BY <1>2, ShiftCardinality
<1>4. C = B \ {1}
  <2>1. \A i \in C : i \in B \ {1}
    BY <1>1
  <2>2. ASSUME NEW i \in B \ {1} PROVE i \in C
    <3>1. i - 1 \in A /\ i = (i - 1) + 1
      BY <1>1
    <3> QED
      BY <3>1
  <2> QED
    BY <2>1, <2>2
<1>5. 1 \in B <=> Head(q) \in S
  BY <1>1
<1>6. Before(q, j + 1, S) = Cardinality(B) /\ Before(Tail(q), j, S) = Cardinality(A)
  BY DEF Before
<1> HIDE DEF A, B, C
<1>7. Cardinality(C) = IF 1 \in B THEN Cardinality(B) - 1 ELSE Cardinality(B)
  BY <1>2, <1>4, FS_RemoveElement
<1> QED
  BY <1>2, <1>3, <1>5, <1>6, <1>7

(* Who is in a queue, and behind whom.                                     *)
LEMMA BehindAppend ==
    ASSUME NEW T, NEW q \in Seq(T), NEW w \in T, NEW u, NEW v,
           Behind(q, u, v), w = v => ~In(q, u), u # v
    PROVE  Behind(Append(q, w), u, v)
<1>1. /\ DOMAIN q = 1..Len(q) /\ Len(q) \in Nat
      /\ DOMAIN Append(q, w) = 1..(Len(q) + 1) /\ Append(q, w)[Len(q) + 1] = w
      /\ \A i \in 1..Len(q) : Append(q, w)[i] = q[i]
  OBVIOUS
<1> QED
  BY <1>1 DEF In, Behind

LEMMA BehindTail ==
    ASSUME NEW T, NEW q \in Seq(T), q # <<>>, NEW u, NEW v, Behind(q, u, v)
    PROVE  /\ Behind(Tail(q), u, v)
           /\ Head(q) = u => ~In(q, v)
<1>1. /\ DOMAIN q = 1..Len(q) /\ Len(q) \in Nat \ {0} /\ Head(q) = q[1]
      /\ Tail(q) \in Seq(T) /\ DOMAIN Tail(q) = 1..(Len(q) - 1)
      /\ \A i \in 1..(Len(q) - 1) : Tail(q)[i] = q[i + 1]
  OBVIOUS
<1>2. ASSUME NEW i \in DOMAIN Tail(q), NEW j \in DOMAIN Tail(q), Tail(q)[i] = u, Tail(q)[j] = v
      PROVE  j < i
  <2>1. i + 1 \in DOMAIN q /\ j + 1 \in DOMAIN q /\ q[i + 1] = u /\ q[j + 1] = v
    BY <1>1, <1>2
  <2>2. j + 1 < i + 1
    BY <2>1 DEF Behind
  <2> QED
    BY <1>1, <2>2
<1>3. ASSUME Head(q) = u, In(q, v) PROVE FALSE
  <2>1. PICK j \in DOMAIN q : q[j] = v
    BY <1>3 DEF In
  <2>2. j < 1
    BY <1>1, <1>3, <2>1 DEF Behind
  <2> QED
    BY <1>1, <2>2
<1> QED
  BY <1>2, <1>3 DEF Behind
(* What kinds there are.                                                   *)
LEMMA Kinds ==
    ASSUME NEW k, NEW m \in Messages
    PROVE  /\ <<k, m>> \in Prep <=> k = "prepare"
           /\ <<k, m>> \in Writes <=> k = "write"
           /\ <<k, m>> \in Sent <=> k = "sent"
           /\ <<k, m>> \in Ready <=> k = "ready"
           /\ <<k, m>> \in Posted <=> k \in {"prepare", "write"}
           /\ <<k, m>> \in ForSender <=> k \in {"prepare", "write", "ready", "error"}
           /\ <<k, m>> \in ForReceiver <=> k \in {"prepare", "write", "sent", "error"}
BY DEF Prep, Writes, Sent, Ready, Posted, ForSender, ForReceiver, Of

LEMMA AtType ==
    ASSUME NEW T, NEW q \in Seq(T), NEW k, NEW m
    PROVE  At(q, k, m) \in Nat /\ (In(q, <<k, m>>) <=> At(q, k, m) # 0)
<1>1. At(q, k, m) \in Nat
  BY CountType DEF At
<1>2. At(q, k, m) = 0 <=> \A i \in DOMAIN q : q[i] \notin {<<k, m>>}
  BY CountNone DEF At
<1> QED
  BY <1>1, <1>2 DEF In

(* What a queue has after it was given something, and after its head was   *)
(* taken.                                                                  *)
Put(q, k, m)    == Append(q, <<k, m>>)
Rest(q)         == Tail(q)
Starts(q, k, m) == q # <<>> /\ Head(q) = <<k, m>>

LEMMA Appended ==
    ASSUME NEW T, NEW q \in Seq(T), NEW k, NEW m \in Messages, <<k, m>> \in T
    PROVE  /\ Put(q, k, m) \in Seq(T)
           /\ k = "prepare" => Count(Put(q, k, m), Prep) = Count(q, Prep) + 1
           /\ k # "prepare" => Count(Put(q, k, m), Prep) = Count(q, Prep)
           /\ k = "write" => Count(Put(q, k, m), Writes) = Count(q, Writes) + 1
           /\ k # "write" => Count(Put(q, k, m), Writes) = Count(q, Writes)
           /\ k = "sent" => Count(Put(q, k, m), Sent) = Count(q, Sent) + 1
           /\ k # "sent" => Count(Put(q, k, m), Sent) = Count(q, Sent)
           /\ k = "ready" => Count(Put(q, k, m), Ready) = Count(q, Ready) + 1
           /\ k # "ready" => Count(Put(q, k, m), Ready) = Count(q, Ready)
<1>1. Put(q, k, m) \in Seq(T)
  BY DEF Put
<1>2. \A S : /\ <<k, m>> \in S => Count(Put(q, k, m), S) = Count(q, S) + 1
             /\ <<k, m>> \notin S => Count(Put(q, k, m), S) = Count(q, S)
  <2>1. \A S : Count(Put(q, k, m), S) = Count(q, S) + (IF <<k, m>> \in S THEN 1 ELSE 0)
    BY CountAppend DEF Put
  <2>2. \A S : Count(q, S) \in Nat
    BY CountType
  <2> QED
    BY <2>1, <2>2
<1>3. /\ k = "prepare" => Count(Put(q, k, m), Prep) = Count(q, Prep) + 1
      /\ k # "prepare" => Count(Put(q, k, m), Prep) = Count(q, Prep)
      /\ k = "write" => Count(Put(q, k, m), Writes) = Count(q, Writes) + 1
      /\ k # "write" => Count(Put(q, k, m), Writes) = Count(q, Writes)
      /\ k = "sent" => Count(Put(q, k, m), Sent) = Count(q, Sent) + 1
      /\ k # "sent" => Count(Put(q, k, m), Sent) = Count(q, Sent)
      /\ k = "ready" => Count(Put(q, k, m), Ready) = Count(q, Ready) + 1
      /\ k # "ready" => Count(Put(q, k, m), Ready) = Count(q, Ready)
  BY <1>2, Kinds
<1> QED
  BY <1>1, <1>3

LEMMA AppendedAt ==
    ASSUME NEW T, NEW q \in Seq(T), NEW k, NEW m \in Messages, <<k, m>> \in T
    PROVE  /\ At(Put(q, k, m), k, m) = At(q, k, m) + 1
           /\ At(q, k, m) \in Nat
           /\ \A l, n : l # k \/ n # m => At(Put(q, k, m), l, n) = At(q, l, n)
<1>1. \A S : /\ <<k, m>> \in S => Count(Put(q, k, m), S) = Count(q, S) + 1
             /\ <<k, m>> \notin S => Count(Put(q, k, m), S) = Count(q, S)
  <2>1. \A S : Count(Put(q, k, m), S) = Count(q, S) + (IF <<k, m>> \in S THEN 1 ELSE 0)
    BY CountAppend DEF Put
  <2>2. \A S : Count(q, S) \in Nat
    BY CountType
  <2> QED
    BY <2>1, <2>2
<1>2. \A l, n : l # k \/ n # m => At(Put(q, k, m), l, n) = At(q, l, n)
  BY <1>1 DEF At
<1>3. At(Put(q, k, m), k, m) = At(q, k, m) + 1
  BY <1>1 DEF At
<1> QED
  BY <1>2, <1>3, AtType

LEMMA Removed ==
    ASSUME NEW T, NEW q \in Seq(T), NEW k, NEW m \in Messages, Starts(q, k, m)
    PROVE  /\ Rest(q) \in Seq(T)
           /\ k = "prepare" => Count(Rest(q), Prep) = Count(q, Prep) - 1
           /\ k # "prepare" => Count(Rest(q), Prep) = Count(q, Prep)
           /\ k = "write" => Count(Rest(q), Writes) = Count(q, Writes) - 1
           /\ k # "write" => Count(Rest(q), Writes) = Count(q, Writes)
           /\ k = "sent" => Count(Rest(q), Sent) = Count(q, Sent) - 1
           /\ k # "sent" => Count(Rest(q), Sent) = Count(q, Sent)
           /\ k = "ready" => Count(Rest(q), Ready) = Count(q, Ready) - 1
           /\ k # "ready" => Count(Rest(q), Ready) = Count(q, Ready)
<1>1. Rest(q) \in Seq(T)
  BY DEF Rest, Starts
<1>2. \A S : /\ <<k, m>> \in S => Count(Rest(q), S) = Count(q, S) - 1
             /\ <<k, m>> \notin S => Count(Rest(q), S) = Count(q, S)
  <2>1. \A S : Count(Rest(q), S) = Count(q, S) - (IF <<k, m>> \in S THEN 1 ELSE 0)
    BY CountTail DEF Rest, Starts
  <2>2. \A S : Count(q, S) \in Nat
    BY CountType
  <2> QED
    BY <2>1, <2>2
<1>3. /\ k = "prepare" => Count(Rest(q), Prep) = Count(q, Prep) - 1
      /\ k # "prepare" => Count(Rest(q), Prep) = Count(q, Prep)
      /\ k = "write" => Count(Rest(q), Writes) = Count(q, Writes) - 1
      /\ k # "write" => Count(Rest(q), Writes) = Count(q, Writes)
      /\ k = "sent" => Count(Rest(q), Sent) = Count(q, Sent) - 1
      /\ k # "sent" => Count(Rest(q), Sent) = Count(q, Sent)
      /\ k = "ready" => Count(Rest(q), Ready) = Count(q, Ready) - 1
      /\ k # "ready" => Count(Rest(q), Ready) = Count(q, Ready)
  BY <1>2, Kinds
<1> QED
  BY <1>1, <1>3

LEMMA RemovedAt ==
    ASSUME NEW T, NEW q \in Seq(T), NEW k, NEW m \in Messages, Starts(q, k, m)
    PROVE  /\ At(Rest(q), k, m) = At(q, k, m) - 1
           /\ At(q, k, m) \in Nat
           /\ \A l, n : l # k \/ n # m => At(Rest(q), l, n) = At(q, l, n)
<1>1. \A S : /\ <<k, m>> \in S => Count(Rest(q), S) = Count(q, S) - 1
             /\ <<k, m>> \notin S => Count(Rest(q), S) = Count(q, S)
  <2>1. \A S : Count(Rest(q), S) = Count(q, S) - (IF <<k, m>> \in S THEN 1 ELSE 0)
    BY CountTail DEF Rest, Starts
  <2>2. \A S : Count(q, S) \in Nat
    BY CountType
  <2> QED
    BY <2>1, <2>2
<1>2. \A l, n : l # k \/ n # m => At(Rest(q), l, n) = At(q, l, n)
  BY <1>1 DEF At
<1>3. At(Rest(q), k, m) = At(q, k, m) - 1
  BY <1>1 DEF At
<1> QED
  BY <1>2, <1>3, AtType

LEMMA First ==
    ASSUME NEW T, NEW q \in Seq(T), NEW k, NEW m \in Messages, Starts(q, k, m)
    PROVE  /\ At(q, k, m) # 0
           /\ k = "prepare" => Count(q, Prep) # 0
           /\ k = "write" => Count(q, Writes) # 0
           /\ k = "ready" => Count(q, Ready) # 0
<1>1. 1 \in DOMAIN q /\ q[1] = <<k, m>>
  BY DEF Starts
<1>2. \A S : <<k, m>> \in S => Count(q, S) # 0
  BY <1>1, CountNone
<1>3. /\ k = "prepare" => Count(q, Prep) # 0
      /\ k = "write" => Count(q, Writes) # 0
      /\ k = "ready" => Count(q, Ready) # 0
  BY <1>2, Kinds
<1> QED
  BY <1>2, <1>3 DEF At

(* No announcement comes behind the write that it was for.                 *)
LEMMA BehindPut ==
    ASSUME NEW T, NEW q \in Seq(T), NEW k, NEW m \in Messages, <<k, m>> \in T, NEW n,
           Behind(q, <<"write", n>>, <<"prepare", n>>),
           k = "prepare" /\ n = m => ~In(q, <<"write", n>>)
    PROVE  Behind(Put(q, k, m), <<"write", n>>, <<"prepare", n>>)
<1>1. <<k, m>> = <<"prepare", n>> => ~In(q, <<"write", n>>)
  OBVIOUS
<1> QED
  BY <1>1, BehindAppend DEF Put

LEMMA BehindRest ==
    ASSUME NEW T, NEW q \in Seq(T), NEW k, NEW m, Starts(q, k, m), NEW n,
           Behind(q, <<"write", n>>, <<"prepare", n>>)
    PROVE  /\ Behind(Rest(q), <<"write", n>>, <<"prepare", n>>)
           /\ k = "write" /\ n = m => ~In(q, <<"prepare", n>>)
BY BehindTail DEF Rest, Starts

LEMMA Emptied ==
    ASSUME NEW S, NEW k, NEW m, NEW u, NEW v
    PROVE  Count(<<>>, S) = 0 /\ At(<<>>, k, m) = 0 /\ Behind(<<>>, u, v)
<1>1. Count(<<>>, S) = 0 /\ At(<<>>, k, m) = 0
  BY CountEmpty DEF At
<1>2. DOMAIN <<>> = {}
  OBVIOUS
<1> QED
  BY <1>1, <1>2 DEF Behind

(* The numbers that the invariants are about.                              *)
LEMMA FiniteMessages ==
    ASSUME NEW S, S \subseteq Messages
    PROVE  IsFiniteSet(S) /\ Cardinality(S) \in Nat
<1>1. IsFiniteSet(Messages)
  BY RoceAssumption, FS_Interval DEF Messages
<1> QED
  BY <1>1, FS_Subset, FS_CardinalityType

LEMMA Counts ==
    ASSUME TypeOK
    PROVE  /\ Count(toReceiver, Prep) \in Nat /\ Count(toReceiver, Writes) \in Nat
           /\ Count(unacked, Prep) \in Nat /\ Count(unacked, Writes) \in Nat
           /\ Count(scq, Prep) \in Nat /\ Count(scq, Writes) \in Nat /\ Count(scq, Ready) \in Nat
           /\ Count(rcq, Prep) \in Nat /\ Count(rcq, Writes) \in Nat /\ Count(rcq, Sent) \in Nat
           /\ Count(toSender, Ready) \in Nat /\ Cardinality(Posting) \in Nat
<1>1. /\ toReceiver \in Seq(Posted) /\ unacked \in Seq(Posted) /\ toSender \in Seq(Ready)
      /\ scq \in Seq(ForSender) /\ rcq \in Seq(ForReceiver)
  BY DEF TypeOK
<1>2. Cardinality(Posting) \in Nat
  BY FiniteMessages DEF Posting
<1> QED
  BY <1>1, <1>2, CountType

LEMMA Totals ==
    ASSUME TypeOK
    PROVE  InAllQueues \in Nat /\ AllTokens \in Nat
<1>1. InAllQueues \in Nat
  BY Counts DEF InAllQueues
<1> QED
  BY <1>1, Counts DEF AllTokens

LEMMA Lengths ==
    ASSUME TypeOK
    PROVE  /\ Len(toReceiver) = Count(toReceiver, Prep) + Count(toReceiver, Writes)
           /\ Len(unacked) = Count(unacked, Prep) + Count(unacked, Writes)
           /\ Count(scq, Posted) = Count(scq, Prep) + Count(scq, Writes)
           /\ Count(rcq, Posted) = Count(rcq, Prep) + Count(rcq, Writes)
           /\ Len(toSender) = Count(toSender, Ready)
<1>1. /\ toReceiver \in Seq(Posted) /\ unacked \in Seq(Posted) /\ toSender \in Seq(Ready)
      /\ scq \in Seq(ForSender) /\ rcq \in Seq(ForReceiver)
  BY DEF TypeOK
<1>2. Prep \cap Writes = {} /\ Prep \cup Writes = Posted
  BY DEF Prep, Writes, Posted, Of
<1>3. /\ Count(toReceiver, Posted) = Count(toReceiver, Prep) + Count(toReceiver, Writes)
      /\ Count(unacked, Posted) = Count(unacked, Prep) + Count(unacked, Writes)
      /\ Count(scq, Posted) = Count(scq, Prep) + Count(scq, Writes)
      /\ Count(rcq, Posted) = Count(rcq, Prep) + Count(rcq, Writes)
  BY <1>1, <1>2, CountUnion
<1>4. /\ Count(toReceiver, Posted) = Len(toReceiver) /\ Count(unacked, Posted) = Len(unacked)
      /\ Count(toSender, Ready) = Len(toSender)
  BY <1>1, CountAll
<1> QED
  BY <1>3, <1>4

LEMMA PostedSum ==
    ASSUME NEW q \in Seq(ForReceiver)
    PROVE  Count(q, Posted) = Count(q, Prep) + Count(q, Writes)
<1>1. Prep \cap Writes = {} /\ Prep \cup Writes = Posted
  BY DEF Prep, Writes, Posted, Of
<1> QED
  BY <1>1, CountUnion

(* The queues have room, and the receiver has buffers.                     *)
LEMMA Room ==
    ASSUME IInv
    PROVE  /\ SenderQueued + Cardinality(Posting) + Count(scq, Ready) <= SqDepth
           /\ ReceiverQueued + Count(rcq, Prep) <= SqDepth
           /\ Intact /\ toReceiver # <<>> => recvBuffers > 0
<1>1. /\ Credits \in Nat /\ SqDepth \in Nat /\ RqDepth \in Nat
      /\ 2 * Credits <= SqDepth /\ 2 * Credits <= RqDepth
  BY RoceAssumption
<1>2. TypeOK /\ TokensFit /\ AnnouncedOnce /\ Crowds /\ BuffersKept
  BY DEF IInv
<1>3. inflight \in Int /\ inflight <= Credits /\ recvBuffers \in Nat
  BY <1>1, <1>2 DEF TypeOK
<1>4. rcq \in Seq(ForReceiver) /\ toReceiver \in Seq(Posted)
  BY <1>2 DEF TypeOK
<1>5. AllTokens <= Credits
  BY <1>1, <1>2, <1>3, Counts DEF TokensFit, AllTokens, InAllQueues
<1>6. SenderQueued = Count(toReceiver, Prep) + Count(toReceiver, Writes)
          + (Count(unacked, Prep) + Count(unacked, Writes)) + (Count(scq, Prep) + Count(scq, Writes))
  BY <1>2, Lengths DEF SenderQueued, Posted
<1>7. ReceiverQueued = Count(toSender, Ready) + Count(rcq, Sent)
  BY <1>2, Lengths DEF ReceiverQueued, Sent
<1>8. SenderQueued + Cardinality(Posting) + Count(scq, Ready) <= SqDepth
  <2>1. Announcements <= Credits
    BY <1>2 DEF AnnouncedOnce
  <2> QED
    BY <1>1, <1>2, <1>5, <1>6, <2>1, Counts DEF AllTokens, InAllQueues, Announcements
<1>9. \A S : /\ Before(rcq, 1, S) = 0
             /\ Count(rcq, S) \in Nat
             /\ Count(rcq, S) >= 1 => 1 \in 1..Len(rcq)
  <2> SUFFICES ASSUME NEW S
               PROVE  /\ Before(rcq, 1, S) = 0
                      /\ Count(rcq, S) \in Nat
                      /\ Count(rcq, S) >= 1 => 1 \in 1..Len(rcq)
    OBVIOUS
  <2>1. Before(rcq, 1, S) = 0
    BY <1>4, BeforeFirst
  <2>2. Count(rcq, S) \in Nat /\ Count(rcq, S) <= Len(rcq) /\ Len(rcq) \in Nat
    BY <1>4, CountType
  <2> QED
    BY <2>1, <2>2
<1>10. ReceiverQueued + Count(rcq, Prep) <= SqDepth
  <2>1. CASE Count(rcq, Sent) = 0
    BY <1>1, <1>2, <1>5, <1>7, <2>1, Counts DEF AllTokens, InAllQueues
  <2>2. CASE Count(rcq, Sent) >= 1
    <3>1. From(rcq, 1, Sent) = Count(rcq, Sent) /\ Before(rcq, 1, Prep) = 0
      BY <1>9 DEF From
    <3>2. Count(toSender, Ready) + Count(rcq, Sent) + 0 <= Credits
      BY <1>2, <1>9, <2>2, <3>1 DEF Crowds, SentCrowd
    <3> QED
      BY <1>1, <1>2, <1>5, <1>7, <3>2, Counts DEF AllTokens, InAllQueues
  <2> QED
    BY <1>9, <2>1, <2>2
<1>11. ASSUME Intact, toReceiver # <<>> PROVE recvBuffers > 0
  <2>1. recvBuffers + (Count(rcq, Prep) + Count(rcq, Writes)) = RqDepth
    BY <1>2, <1>11, Lengths DEF BuffersKept
  <2>2. Count(toReceiver, Prep) + Count(toReceiver, Writes) >= 1
    <3>1. Len(toReceiver) >= 1
      BY <1>4, <1>11
    <3> QED
      BY <1>2, <3>1, Lengths
  <2>3. CASE Count(rcq, Writes) = 0
    BY <1>1, <1>2, <1>3, <1>5, <2>1, <2>2, <2>3, Counts DEF AllTokens, InAllQueues
  <2>4. CASE Count(rcq, Writes) >= 1
    <3>1. From(rcq, 1, Writes) = Count(rcq, Writes) /\ Before(rcq, 1, Prep) = 0
      BY <1>9 DEF From
    <3>2. Count(toSender, Ready) + Count(scq, Ready) + Count(toReceiver, Writes)
            + Count(rcq, Writes) + 0 <= Credits
      BY <1>2, <1>9, <2>4, <3>1 DEF Crowds, WriteCrowd
    <3> QED
      BY <1>1, <1>2, <1>3, <1>5, <2>1, <2>2, <3>2, Counts DEF AllTokens, InAllQueues
  <2> QED
    BY <1>9, <2>3, <2>4
<1> QED
  BY <1>8, <1>10, <1>11

(* The crowds when nothing reaches the receiver or leaves it, when it      *)
(* takes the head of its queue, and when something is added.               *)
InBuffers == Count(toSender, Ready) + Count(scq, Ready) + Count(toReceiver, Writes)

LEMMA CrowdsSame ==
    ASSUME TypeOK, TypeOK', Crowds, rcq' = rcq,
           Count(toSender, Ready)' <= Count(toSender, Ready),
           InBuffers' <= InBuffers
    PROVE  Crowds'
<1>1. /\ Credits \in Nat /\ Count(toSender, Ready) \in Nat /\ Count(toSender, Ready)' \in Nat
      /\ InBuffers \in Nat /\ InBuffers' \in Nat
  <2>1. Count(toSender, Ready) \in Nat /\ InBuffers \in Nat
    BY Counts DEF InBuffers
  <2>2. Count(toSender', Ready) \in Nat /\ Count(scq', Ready) \in Nat /\ Count(toReceiver', Writes) \in Nat
    BY CountType DEF TypeOK
  <2> QED
    BY <2>1, <2>2, RoceAssumption DEF InBuffers
<1> SUFFICES ASSUME NEW j \in 1..Len(rcq)
             PROVE  /\ From(rcq, j, Sent) >= 1 => SentCrowd(j)' <= Credits
                    /\ From(rcq, j, Writes) >= 1 => WriteCrowd(j)' <= Credits
  BY DEF Crowds, From
<1>2. /\ From(rcq, j, Sent) >= 1 => SentCrowd(j) <= Credits
      /\ From(rcq, j, Writes) >= 1 => WriteCrowd(j) <= Credits
  BY DEF Crowds
<1>3. rcq \in Seq(ForReceiver)
  BY DEF TypeOK
<1>4. /\ Before(rcq, j, Sent) \in Nat /\ Before(rcq, j, Writes) \in Nat
      /\ Before(rcq, j, Prep) \in Nat
      /\ Count(rcq, Sent) \in Nat /\ Count(rcq, Writes) \in Nat
  BY <1>3, BeforeType, CountType
<1>5. From(rcq, j, Sent) \in Int /\ From(rcq, j, Writes) \in Int
  BY <1>4 DEF From
<1>6. /\ SentCrowd(j)' = Count(toSender, Ready)' + From(rcq, j, Sent) + Before(rcq, j, Prep)
      /\ WriteCrowd(j)' = InBuffers' + From(rcq, j, Writes) + Before(rcq, j, Prep)
      /\ SentCrowd(j) = Count(toSender, Ready) + From(rcq, j, Sent) + Before(rcq, j, Prep)
      /\ WriteCrowd(j) = InBuffers + From(rcq, j, Writes) + Before(rcq, j, Prep)
  BY DEF SentCrowd, WriteCrowd, InBuffers, From
<1>7. ASSUME From(rcq, j, Sent) >= 1 PROVE SentCrowd(j)' <= Credits
  <2>1. Count(toSender, Ready) + From(rcq, j, Sent) + Before(rcq, j, Prep) <= Credits
    BY <1>2, <1>6, <1>7
  <2>2. Count(toSender, Ready)' + From(rcq, j, Sent) + Before(rcq, j, Prep) <= Credits
    BY <1>1, <1>4, <1>5, <2>1
  <2> QED
    BY <1>6, <2>2
<1>8. ASSUME From(rcq, j, Writes) >= 1 PROVE WriteCrowd(j)' <= Credits
  <2>1. InBuffers + From(rcq, j, Writes) + Before(rcq, j, Prep) <= Credits
    BY <1>2, <1>6, <1>8
  <2>2. InBuffers' + From(rcq, j, Writes) + Before(rcq, j, Prep) <= Credits
    BY <1>1, <1>4, <1>5, <2>1
  <2> QED
    BY <1>6, <2>2
<1> QED
  BY <1>7, <1>8

LEMMA Exchange ==
    ASSUME NEW a \in Nat, NEW b \in Nat, NEW s \in Nat, NEW f \in Nat, NEW p \in Nat, NEW c \in Nat,
           b + s <= a, a + f + p <= c
    PROVE  b + (f + s) + p <= c
OBVIOUS

LEMMA Part ==
    ASSUME NEW a \in Nat, NEW b \in Nat, NEW c \in Nat, NEW d \in Nat, NEW e \in Nat,
           NEW f \in Nat, NEW g \in Nat, NEW n \in Nat, a + b + c + d + e + f + g <= n
    PROVE  d + c <= n /\ d + e + b + c <= n
OBVIOUS

LEMMA CrowdsTail ==
    /\ TypeOK /\ TypeOK' /\ Crowds /\ rcq # <<>> /\ rcq' = Tail(rcq)
    /\ Count(toSender, Ready)' <= Count(toSender, Ready) + (IF Head(rcq) \in Prep THEN 1 ELSE 0)
    /\ InBuffers' <= InBuffers + (IF Head(rcq) \in Prep THEN 1 ELSE 0)
    => Crowds'
<1>0. SUFFICES ASSUME TypeOK, TypeOK', Crowds, rcq # <<>>, rcq' = Tail(rcq),
          Count(toSender, Ready)' <= Count(toSender, Ready) + (IF Head(rcq) \in Prep THEN 1 ELSE 0),
          InBuffers' <= InBuffers + (IF Head(rcq) \in Prep THEN 1 ELSE 0)
      PROVE  Crowds'
  OBVIOUS
<1> DEFINE q == Tail(rcq)
           d == IF Head(rcq) \in Prep THEN 1 ELSE 0
<1>1. /\ Credits \in Nat /\ Count(toSender, Ready) \in Nat /\ Count(toSender, Ready)' \in Nat
      /\ InBuffers \in Nat /\ InBuffers' \in Nat /\ d \in Nat
  <2>1. Count(toSender, Ready) \in Nat /\ InBuffers \in Nat
    BY <1>0, Counts DEF InBuffers
  <2>2. Count(toSender', Ready) \in Nat /\ Count(scq', Ready) \in Nat /\ Count(toReceiver', Writes) \in Nat
    BY <1>0, CountType DEF TypeOK
  <2> QED
    BY <2>1, <2>2, RoceAssumption DEF InBuffers
<1>2. rcq \in Seq(ForReceiver) /\ q \in Seq(ForReceiver) /\ Len(q) = Len(rcq) - 1 /\ Len(rcq) \in Nat
  BY <1>0 DEF TypeOK
<1> SUFFICES ASSUME NEW j \in 1..Len(q)
             PROVE  /\ From(q, j, Sent) >= 1 => SentCrowd(j)' <= Credits
                    /\ From(q, j, Writes) >= 1 => WriteCrowd(j)' <= Credits
  BY <1>0 DEF Crowds, From
<1>3. j \in 1..Len(rcq) /\ j + 1 \in 1..Len(rcq)
  BY <1>2
<1>4. \A S : /\ Before(rcq, j + 1, S) = Before(q, j, S) + (IF Head(rcq) \in S THEN 1 ELSE 0)
             /\ Count(q, S) = Count(rcq, S) - (IF Head(rcq) \in S THEN 1 ELSE 0)
             /\ Before(q, j, S) \in Nat /\ Count(q, S) \in Nat /\ Count(rcq, S) \in Nat
             /\ Before(rcq, j + 1, S) \in Nat
  <2>1. rcq # <<>>
    BY <1>0
  <2> QED
    BY <1>2, <1>3, <2>1, BeforeTail, CountTail, BeforeType, CountType
<1>5. /\ From(q, j, Sent) = From(rcq, j + 1, Sent) /\ From(q, j, Sent) \in Int
      /\ From(q, j, Writes) = From(rcq, j + 1, Writes) /\ From(q, j, Writes) \in Int
  <2> SUFFICES ASSUME NEW S PROVE From(q, j, S) = From(rcq, j + 1, S) /\ From(q, j, S) \in Int
    OBVIOUS
  <2>1. /\ Before(rcq, j + 1, S) = Before(q, j, S) + (IF Head(rcq) \in S THEN 1 ELSE 0)
        /\ Count(q, S) = Count(rcq, S) - (IF Head(rcq) \in S THEN 1 ELSE 0)
        /\ Before(q, j, S) \in Nat /\ Count(q, S) \in Nat /\ Count(rcq, S) \in Nat
    BY <1>4
  <2> QED
    BY <2>1 DEF From
<1>6. Before(rcq, j + 1, Prep) = Before(q, j, Prep) + d /\ Before(q, j, Prep) \in Nat
  BY <1>4
<1>7. /\ From(rcq, j + 1, Sent) >= 1 => SentCrowd(j + 1) <= Credits
      /\ From(rcq, j + 1, Writes) >= 1 => WriteCrowd(j + 1) <= Credits
  BY <1>0, <1>3 DEF Crowds
<1>8. /\ SentCrowd(j)' = Count(toSender, Ready)' + From(q, j, Sent) + Before(q, j, Prep)
      /\ WriteCrowd(j)' = InBuffers' + From(q, j, Writes) + Before(q, j, Prep)
      /\ SentCrowd(j + 1) = Count(toSender, Ready) + From(rcq, j + 1, Sent) + Before(rcq, j + 1, Prep)
      /\ WriteCrowd(j + 1) = InBuffers + From(rcq, j + 1, Writes) + Before(rcq, j + 1, Prep)
  BY <1>0 DEF SentCrowd, WriteCrowd, InBuffers, From
<1>9. Count(toSender, Ready)' <= Count(toSender, Ready) + d /\ InBuffers' <= InBuffers + d
  BY <1>0
<1> HIDE DEF q, d
<1>10. ASSUME From(q, j, Sent) >= 1 PROVE SentCrowd(j)' <= Credits
  <2>1. Count(toSender, Ready) + From(q, j, Sent) + (Before(q, j, Prep) + d) <= Credits
    BY <1>5, <1>6, <1>7, <1>8, <1>10
  <2>2. From(q, j, Sent) \in Int
    BY <1>5
  <2>3. Count(toSender, Ready)' + From(q, j, Sent) + Before(q, j, Prep) <= Credits
    BY <1>1, <1>6, <1>9, <2>1, <2>2
  <2> QED
    BY <1>8, <2>3
<1>11. ASSUME From(q, j, Writes) >= 1 PROVE WriteCrowd(j)' <= Credits
  <2>1. InBuffers + From(q, j, Writes) + (Before(q, j, Prep) + d) <= Credits
    BY <1>5, <1>6, <1>7, <1>8, <1>11
  <2>2. From(q, j, Writes) \in Int
    BY <1>5
  <2>3. InBuffers' + From(q, j, Writes) + Before(q, j, Prep) <= Credits
    BY <1>1, <1>6, <1>9, <2>1, <2>2
  <2> QED
    BY <1>8, <2>3
<1> QED
  BY <1>10, <1>11

LEMMA CrowdsAppend ==
    ASSUME NEW w \in ForReceiver
    PROVE  /\ TypeOK /\ TypeOK' /\ Crowds /\ AllTokens <= Credits /\ rcq' = Append(rcq, w)
           /\ Count(toSender, Ready)' + (IF w \in Sent THEN 1 ELSE 0) <= Count(toSender, Ready)
           /\ InBuffers' + (IF w \in Writes THEN 1 ELSE 0) <= InBuffers
           => Crowds'
<1>0. SUFFICES ASSUME TypeOK, TypeOK', Crowds, AllTokens <= Credits, rcq' = Append(rcq, w),
          Count(toSender, Ready)' + (IF w \in Sent THEN 1 ELSE 0) <= Count(toSender, Ready),
          InBuffers' + (IF w \in Writes THEN 1 ELSE 0) <= InBuffers
      PROVE  Crowds'
  OBVIOUS
<1> DEFINE q == Append(rcq, w)
           s == IF w \in Sent THEN 1 ELSE 0
           v == IF w \in Writes THEN 1 ELSE 0
<1>1. /\ Credits \in Nat /\ Count(toSender, Ready) \in Nat /\ Count(toSender, Ready)' \in Nat
      /\ InBuffers \in Nat /\ InBuffers' \in Nat /\ s \in Nat /\ v \in Nat
  <2>1. Count(toSender, Ready) \in Nat /\ InBuffers \in Nat
    BY <1>0, Counts DEF InBuffers
  <2>2. Count(toSender', Ready) \in Nat /\ Count(scq', Ready) \in Nat /\ Count(toReceiver', Writes) \in Nat
    BY <1>0, CountType DEF TypeOK
  <2> QED
    BY <2>1, <2>2, RoceAssumption DEF InBuffers
<1>2. rcq \in Seq(ForReceiver) /\ q \in Seq(ForReceiver) /\ Len(q) = Len(rcq) + 1 /\ Len(rcq) \in Nat
  BY <1>0 DEF TypeOK
<1> SUFFICES ASSUME NEW j \in 1..Len(q)
             PROVE  SentCrowd(j)' <= Credits /\ WriteCrowd(j)' <= Credits
  BY <1>0 DEF Crowds
<1>3. j \in 1..(Len(rcq) + 1)
  BY <1>2
<1>4. \A S : /\ Before(q, j, S) = Before(rcq, j, S)
             /\ Count(q, S) = Count(rcq, S) + (IF w \in S THEN 1 ELSE 0)
             /\ Before(rcq, j, S) \in Nat /\ Count(rcq, S) \in Nat
             /\ Before(rcq, j, S) <= Count(rcq, S)
  BY <1>2, <1>3, BeforeAppend, CountAppend, BeforeType, CountType
<1>5. /\ From(q, j, Sent) = From(rcq, j, Sent) + s /\ From(rcq, j, Sent) \in Nat
      /\ From(q, j, Writes) = From(rcq, j, Writes) + v /\ From(rcq, j, Writes) \in Nat
  BY <1>4 DEF From
<1>6. /\ Before(q, j, Prep) = Before(rcq, j, Prep) /\ Before(rcq, j, Prep) \in Nat
      /\ Before(rcq, j, Prep) <= Count(rcq, Prep) /\ Count(rcq, Prep) \in Nat
  BY <1>4
<1>7. /\ From(rcq, j, Sent) >= 1 => SentCrowd(j) <= Credits
      /\ From(rcq, j, Writes) >= 1 => WriteCrowd(j) <= Credits
  <2>1. CASE j \in 1..Len(rcq)
    BY <1>0, <2>1 DEF Crowds
  <2>2. CASE j = Len(rcq) + 1
    <3>1. From(rcq, j, Sent) = 0 /\ From(rcq, j, Writes) = 0
      BY <1>2, <1>4, <2>2, BeforeAll DEF From
    <3> QED
      BY <3>1
  <2> QED
    BY <1>2, <1>3, <2>1, <2>2
<1>8. /\ SentCrowd(j)' = Count(toSender, Ready)' + From(q, j, Sent) + Before(q, j, Prep)
      /\ WriteCrowd(j)' = InBuffers' + From(q, j, Writes) + Before(q, j, Prep)
      /\ SentCrowd(j) = Count(toSender, Ready) + From(rcq, j, Sent) + Before(rcq, j, Prep)
      /\ WriteCrowd(j) = InBuffers + From(rcq, j, Writes) + Before(rcq, j, Prep)
  BY <1>0 DEF SentCrowd, WriteCrowd, InBuffers, From
<1>9. Count(toSender, Ready)' + s <= Count(toSender, Ready) /\ InBuffers' + v <= InBuffers
  BY <1>0
<1>10. Count(toSender, Ready) + Count(rcq, Prep) <= Credits /\ InBuffers + Count(rcq, Prep) <= Credits
  <2>1. Credits \in Nat /\ TypeOK /\ InAllQueues + Cardinality(Posting) <= Credits
    BY <1>0, RoceAssumption DEF AllTokens
  <2>2. InAllQueues <= Credits
    <3>1. Cardinality(Posting) \in Nat
      BY FiniteMessages DEF Posting
    <3> QED
      BY <2>1, <3>1, Totals
  <2>3. /\ Count(toSender, Ready) + Count(rcq, Prep) <= Credits
        /\ Count(toSender, Ready) + Count(scq, Ready) + Count(toReceiver, Writes) + Count(rcq, Prep) <= Credits
    BY <2>1, <2>2, Counts, Part DEF InAllQueues
  <2> QED
    BY <2>3 DEF InBuffers
<1> HIDE DEF q, s, v
<1>11. SentCrowd(j)' <= Credits
  <2>1. Count(toSender, Ready) + From(rcq, j, Sent) + Before(rcq, j, Prep) <= Credits
    <3>1. CASE From(rcq, j, Sent) >= 1
      BY <1>7, <1>8, <3>1
    <3>2. CASE From(rcq, j, Sent) = 0
      BY <1>1, <1>6, <1>10, <3>2
    <3> QED
      BY <1>5, <3>1, <3>2
  <2>2. Count(toSender, Ready)' + (From(rcq, j, Sent) + s) + Before(rcq, j, Prep) <= Credits
    BY <1>1, <1>5, <1>6, <1>9, <2>1
  <2> QED
    BY <1>5, <1>6, <1>8, <2>2
<1>12. WriteCrowd(j)' <= Credits
  <2>1. InBuffers + From(rcq, j, Writes) + Before(rcq, j, Prep) <= Credits
    <3>1. CASE From(rcq, j, Writes) >= 1
      BY <1>7, <1>8, <3>1
    <3>2. CASE From(rcq, j, Writes) = 0
      BY <1>1, <1>6, <1>10, <3>2
    <3> QED
      BY <1>5, <3>1, <3>2
  <2>2. InBuffers' + (From(rcq, j, Writes) + v) + Before(rcq, j, Prep) <= Credits
    BY <1>1, <1>5, <1>6, <1>9, <2>1, Exchange
  <2> QED
    BY <1>5, <1>6, <1>8, <2>2
<1> QED
  BY <1>11, <1>12

----------------------------------------------------------------------------
(* Every step keeps the invariant.                                         *)

(* A part of the invariant whose variables a step leaves alone holds on.   *)
LEMMA Kept ==
    ASSUME IInv
    PROVE  /\ UNCHANGED <<closed, sqp, broken, known, toReceiver, unacked, scq, rcq>> => EndsInOrder'
           /\ UNCHANGED <<spc, toReceiver, unacked, scq, rcq, toSender, pendingReceives, delivered>>
                 => NotSentUntouched'
           /\ UNCHANGED <<spc, closed, inflight, pendingSends>> => Holders'
           /\ UNCHANGED <<spc, toReceiver, toSender, rcq, scq, unacked, closed, pendingSends, broken, missed>>
                 => OneToken'
           /\ UNCHANGED <<spc, toReceiver, toSender, rcq, scq, unacked, inflight>> => TokensFit'
           /\ UNCHANGED <<toReceiver, unacked, scq, closed, pendingSends>> => AnnouncedOnce'
           /\ UNCHANGED <<toReceiver, unacked, scq, closed>> => WriteBehind'
           /\ UNCHANGED <<toSender, scq, toReceiver, rcq>> => Crowds'
           /\ UNCHANGED <<broken, missed, recvBuffers, rcq>> => BuffersKept'
           /\ UNCHANGED <<spc, closed, inflight>> => Woken'
           /\ UNCHANGED <<pendingReceives, delivered, toReceiver, rcq, content>> => ReceivedOnce'
<1>1. /\ EndsInOrder /\ NotSentUntouched /\ Holders /\ OneToken /\ TokensFit /\ AnnouncedOnce
      /\ WriteBehind /\ Crowds /\ BuffersKept /\ Woken /\ ReceivedOnce
  BY DEF IInv
<1>2. UNCHANGED <<closed, sqp, broken, known, toReceiver, unacked, scq, rcq>> => EndsInOrder'
  BY <1>1 DEF EndsInOrder
<1>3. UNCHANGED <<spc, toReceiver, unacked, scq, rcq, toSender, pendingReceives, delivered>>
         => NotSentUntouched'
  BY <1>1 DEF NotSentUntouched, Untouched, Arrived
<1>4. UNCHANGED <<spc, closed, inflight, pendingSends>> => Holders'
  BY <1>1 DEF Holders
<1>5. UNCHANGED <<spc, toReceiver, toSender, rcq, scq, unacked, closed, pendingSends, broken, missed>>
         => OneToken'
  BY <1>1 DEF OneToken, Tokens, InQueues, Intact
<1>6. UNCHANGED <<spc, toReceiver, toSender, rcq, scq, unacked, inflight>> => TokensFit'
  BY <1>1 DEF TokensFit, AllTokens, InAllQueues, Posting
<1>7. UNCHANGED <<toReceiver, unacked, scq, closed, pendingSends>> => AnnouncedOnce'
  BY <1>1 DEF AnnouncedOnce, Announced, AnnouncedSet, Announcements
<1>8. UNCHANGED <<toReceiver, unacked, scq, closed>> => WriteBehind'
  BY <1>1 DEF WriteBehind, InTurn
<1>9. UNCHANGED <<toSender, scq, toReceiver, rcq>> => Crowds'
  BY <1>1 DEF Crowds, SentCrowd, WriteCrowd
<1>10. UNCHANGED <<broken, missed, recvBuffers, rcq>> => BuffersKept'
  BY <1>1 DEF BuffersKept, Intact
<1>11. UNCHANGED <<spc, closed, inflight>> => Woken'
  BY <1>1 DEF Woken, Blocked, Waking
<1>12. UNCHANGED <<pendingReceives, delivered, toReceiver, rcq, content>> => ReceivedOnce'
  BY <1>1 DEF ReceivedOnce, Arrived
<1> QED
  BY <1>2, <1>3, <1>4, <1>5, <1>6, <1>7, <1>8, <1>9, <1>10, <1>11, <1>12

(* Where the tokens of a message are.                                      *)
LEMMA TokenPlaces ==
    ASSUME TypeOK, NEW n \in Messages
    PROVE  /\ At(toReceiver, "prepare", n) \in Nat /\ At(toReceiver, "write", n) \in Nat
           /\ At(rcq, "prepare", n) \in Nat /\ At(toSender, "ready", n) \in Nat
           /\ At(scq, "ready", n) \in Nat /\ At(scq, "write", n) \in Nat
           /\ At(unacked, "write", n) \in Nat
           /\ At(unacked, "prepare", n) \in Nat /\ At(scq, "prepare", n) \in Nat
           /\ InQueues(n) \in Nat /\ Tokens(n) \in Nat /\ Announced(n) \in Nat
<1>1. /\ toReceiver \in Seq(Posted) /\ unacked \in Seq(Posted) /\ toSender \in Seq(Ready)
      /\ scq \in Seq(ForSender) /\ rcq \in Seq(ForReceiver)
  BY DEF TypeOK
<1>2. /\ At(toReceiver, "prepare", n) \in Nat /\ At(toReceiver, "write", n) \in Nat
      /\ At(rcq, "prepare", n) \in Nat /\ At(toSender, "ready", n) \in Nat
      /\ At(scq, "ready", n) \in Nat /\ At(scq, "write", n) \in Nat
      /\ At(unacked, "write", n) \in Nat
      /\ At(unacked, "prepare", n) \in Nat /\ At(scq, "prepare", n) \in Nat
  BY <1>1, AtType
<1> QED
  BY <1>2 DEF Tokens, InQueues, Announced

LEMMA NothingLess ==
    ASSUME NEW a \in Nat, NEW b \in Nat, NEW c \in Nat, NEW d \in Nat, NEW e \in Nat,
           NEW f \in Nat, NEW g \in Nat
    PROVE  LET sum == a + b + c + d + e + f + g IN a + c <= sum /\ e <= sum /\ f <= sum
OBVIOUS

LEMMA HasStep ==
    ASSUME TypeOK, NEW n \in Messages,
           At(scq, "ready", n) # 0 \/ At(scq, "write", n) # 0 \/ At(rcq, "prepare", n) # 0
    PROVE  InQueues(n) # 0
<1>1. /\ At(toReceiver, "prepare", n) + At(rcq, "prepare", n) <= InQueues(n) /\ At(scq, "ready", n) <= InQueues(n)
      /\ At(scq, "write", n) <= InQueues(n)
  BY TokenPlaces, NothingLess DEF InQueues
<1> QED
  BY <1>1, TokenPlaces

(* A thread that has nothing in flight moves on.                           *)
LEMMA MovesOn ==
    ASSUME IInv, NEW m \in Messages, spc[m] \in {"ready", "enqueue"},
           NEW s \in {"reconnect", "enqueue", "dropped", "blocked"},
           spc' = [spc EXCEPT ![m] = s],
           UNCHANGED <<inflight, pendingSends, toReceiver, elsewhere>>, Woken'
    PROVE  IInv'
<1>1. /\ TypeOK /\ NotSentUntouched /\ Holders /\ OneToken /\ TokensFit
      /\ spc \in [Messages -> {"ready", "enqueue", "blocked", "post", "sent",
                               "reconnect", "dropped"}]
  BY DEF IInv, TypeOK
<1>2. UNCHANGED <<inflight, pendingSends, toReceiver, closed, sqp, unacked, scq, toSender,
                  content, broken, known, pendingReceives, rcq, recvBuffers, delivered, missed>>
  BY DEF elsewhere, receiverVars
<1>3. (\A n \in Messages \ {m} : spc'[n] = spc[n]) /\ spc'[m] = s
  BY <1>1
<1>4. TypeOK'
  BY <1>1, <1>2 DEF TypeOK
<1>5. NotSentUntouched'
  BY <1>1, <1>2, <1>3 DEF NotSentUntouched, Untouched, Arrived
<1>6. Holders'
  BY <1>1, <1>2, <1>3 DEF Holders
<1>7. OneToken'
  BY <1>1, <1>2, <1>3 DEF OneToken, Tokens, InQueues, Intact
<1>8. TokensFit'
  <2>1. Posting' = Posting
    BY <1>2, <1>3 DEF Posting
  <2> QED
    BY <1>1, <1>2, <2>1 DEF TokensFit, AllTokens, InAllQueues
<1> QED
  BY <1>2, <1>4, <1>5, <1>6, <1>7, <1>8, Kept DEF IInv

(* How many threads were woken.                                            *)
LEMMA WakingType == Cardinality(Waking) \in Nat /\ IsFiniteSet(Waking)
BY FiniteMessages DEF Waking

LEMMA LookUpKeeps ==
    ASSUME IInv, NEW m \in Messages, LookUp(m)
    PROVE  IInv'
<1> DEFINE s == IF closed THEN "reconnect" ELSE IF sqp = "RTS" THEN "enqueue" ELSE "dropped"
<1>1. TypeOK /\ Woken
  BY DEF IInv
<1>2. /\ spc[m] = "ready" /\ s \in {"reconnect", "enqueue", "dropped"}
      /\ spc' = [spc EXCEPT ![m] = s]
      /\ UNCHANGED <<inflight, pendingSends, toReceiver, elsewhere>>
  BY DEF LookUp
<1>3. UNCHANGED closed
  BY <1>2 DEF elsewhere
<1> HIDE DEF s
<1>4. Woken'
  <2>1. Blocked' = Blocked /\ Waking \subseteq Waking'
    BY <1>1, <1>2 DEF Blocked, Waking, TypeOK
  <2>2. /\ IsFiniteSet(Waking') /\ Cardinality(Waking) \in Nat /\ Cardinality(Waking') \in Nat
        /\ Cardinality(Waking) <= Cardinality(Waking')
    <3>1. IsFiniteSet(Waking') /\ Cardinality(Waking) \in Nat /\ Cardinality(Waking') \in Nat
      BY FiniteMessages DEF Waking
    <3> QED
      BY <2>1, <3>1, FS_Subset
  <2>3. inflight \in Nat /\ Credits \in Nat
    BY <1>1, RoceAssumption DEF TypeOK
  <2> QED
    BY <1>1, <1>2, <1>3, <2>1, <2>2, <2>3 DEF Woken
<1> QED
  BY <1>2, <1>4, MovesOn

LEMMA TakeCreditKeeps ==
    ASSUME IInv, NEW m \in Messages, TakeCredit(m)
    PROVE  IInv'
<1>1. /\ TypeOK /\ NotSentUntouched /\ Holders /\ OneToken /\ TokensFit /\ AnnouncedOnce /\ Woken
      /\ inflight \in Nat /\ Credits \in Nat /\ pendingSends \subseteq Messages
      /\ spc \in [Messages -> {"ready", "enqueue", "blocked", "post", "sent",
                               "reconnect", "dropped"}]
  BY RoceAssumption DEF IInv, TypeOK
<1>2. /\ UNCHANGED <<toReceiver, elsewhere>> /\ spc[m] = "enqueue"
      /\ UNCHANGED <<toReceiver, closed, sqp, unacked, scq, toSender,
                     content, broken, known, pendingReceives, rcq, recvBuffers, delivered, missed>>
  BY DEF TakeCredit, elsewhere, receiverVars
<1>3. CASE closed
  <2>1. spc' = [spc EXCEPT ![m] = "dropped"] /\ UNCHANGED <<inflight, pendingSends>>
    BY <1>3 DEF TakeCredit
  <2>2. Woken'
    <3>1. Blocked = {}
      BY <1>1, <1>3 DEF Woken
    <3>2. Blocked' = {}
      BY <1>1, <2>1, <3>1 DEF Blocked
    <3> QED
      BY <3>2 DEF Woken
  <2> QED
    BY <1>2, <2>1, <2>2, MovesOn
<1>4. CASE ~closed /\ ~(inflight < Credits)
  <2>1. spc' = [spc EXCEPT ![m] = "blocked"] /\ UNCHANGED <<inflight, pendingSends>>
    BY <1>4 DEF TakeCredit
  <2>2. Woken'
    <3>1. Cardinality(Waking') \in Nat
      BY FiniteMessages DEF Waking
    <3>2. inflight + Cardinality(Waking') >= Credits
      BY <1>1, <1>4, <3>1
    <3> QED
      BY <1>2, <1>4, <2>1, <3>2 DEF Woken
  <2> QED
    BY <1>2, <2>1, <2>2, MovesOn
<1>5. CASE ~closed /\ inflight < Credits
  <2>1. /\ inflight' = inflight + 1 /\ pendingSends' = pendingSends \cup {m}
        /\ spc' = [spc EXCEPT ![m] = "post"]
    BY <1>5 DEF TakeCredit
  <2>2. (\A n \in Messages \ {m} : spc'[n] = spc[n]) /\ spc'[m] = "post"
    BY <1>1, <2>1
  <2>3. m \notin pendingSends /\ Tokens(m) = 0
    <3>1. m \notin pendingSends
      BY <1>1, <1>2 DEF Holders
    <3>2. Tokens(m) <= 1 /\ Tokens(m) # 1
      BY <1>1, <1>5, <3>1 DEF OneToken
    <3>3. Tokens(m) \in Nat
      BY <1>1, TokenPlaces
    <3> QED
      BY <3>1, <3>2, <3>3
  <2>4. TypeOK'
    BY <1>1, <1>2, <1>5, <2>1 DEF TypeOK
  <2>5. NotSentUntouched'
    BY <1>1, <1>2, <2>2 DEF NotSentUntouched, Untouched, Arrived
  <2>6. Holders'
    <3>1. inflight = Cardinality(pendingSends) /\ IsFiniteSet(pendingSends)
      BY <1>1, <1>5, FiniteMessages DEF Holders
    <3>2. inflight' = Cardinality(pendingSends')
      BY <2>1, <2>3, <3>1, FS_AddElement
    <3>3. \A n \in pendingSends' : spc'[n] \in {"post", "sent"}
      BY <1>1, <2>1, <2>2 DEF Holders
    <3>4. \A n \in Messages : spc'[n] = "post" /\ ~closed' => n \in pendingSends'
      BY <1>1, <1>2, <2>1, <2>2 DEF Holders
    <3> QED
      BY <3>2, <3>3, <3>4 DEF Holders
  <2>7. OneToken'
    <3>1. \A n \in Messages \ {m} : Tokens(n)' = Tokens(n)
      BY <1>2, <2>2 DEF Tokens, InQueues
    <3>2. Tokens(m)' = 1
      <4>1. Tokens(m)' = Tokens(m) + 1
        BY <1>1, <1>2, <2>2, TokenPlaces DEF Tokens, InQueues
      <4> QED
        BY <2>3, <4>1
    <3>3. \A n \in Messages \ {m} : n \in pendingSends' <=> n \in pendingSends
      BY <2>1
    <3> QED
      BY <1>1, <1>2, <2>1, <3>1, <3>2, <3>3 DEF OneToken, Intact
  <2>8. TokensFit'
    <3>1. Posting' = Posting \cup {m} /\ m \notin Posting
      BY <1>2, <2>2 DEF Posting
    <3>2. IsFiniteSet(Posting) /\ Cardinality(Posting) \in Nat
      BY FiniteMessages DEF Posting
    <3>3. Cardinality(Posting') = Cardinality(Posting) + 1
      BY <3>1, <3>2, FS_AddElement
    <3>4. AllTokens' = AllTokens + 1 /\ AllTokens \in Nat
      BY <1>1, <1>2, <3>3, Counts DEF AllTokens, InAllQueues
    <3> QED
      BY <1>1, <2>1, <3>4 DEF TokensFit
  <2>9. AnnouncedOnce'
    BY <1>1, <1>2, <2>1 DEF AnnouncedOnce, Announced, AnnouncedSet, Announcements
  <2>10. Woken'
    <3>1. Blocked' = Blocked /\ Waking' = Waking \ {m} /\ m \in Waking
      BY <1>2, <2>2 DEF Blocked, Waking
    <3>2. Cardinality(Waking') = Cardinality(Waking) - 1 /\ Cardinality(Waking) \in Nat
      BY <3>1, WakingType, FS_RemoveElement
    <3>3. Blocked # {} => inflight' + Cardinality(Waking') >= Credits
      BY <1>1, <2>1, <3>2 DEF Woken
    <3> QED
      BY <1>2, <1>5, <3>1, <3>3 DEF Woken
  <2> QED
    BY <1>2, <2>4, <2>5, <2>6, <2>7, <2>8, <2>9, <2>10, Kept DEF IInv
<1> QED
  BY <1>3, <1>4, <1>5

(* A message that has a token was sent.                                    *)
LEMMA TokenSent ==
    ASSUME IInv, NEW m \in Messages,
           \/ At(scq, "ready", m) # 0 \/ At(scq, "write", m) # 0 \/ At(scq, "prepare", m) # 0
           \/ At(rcq, "prepare", m) # 0 \/ At(rcq, "write", m) # 0
    PROVE  spc[m] = "sent"
BY DEF IInv, NotSentUntouched, Untouched

LEMMA QueuedType ==
    ASSUME TypeOK
    PROVE  SenderQueued \in Nat /\ ReceiverQueued \in Nat
<1>1. /\ Count(scq, Posted) \in Nat /\ Len(toReceiver) \in Nat /\ Len(unacked) \in Nat
      /\ Len(toSender) \in Nat /\ Count(rcq, Sent) \in Nat
  BY CountType DEF TypeOK
<1> QED
  BY <1>1 DEF SenderQueued, ReceiverQueued, Posted, Sent

LEMMA PostPrepareKeeps ==
    ASSUME IInv, NEW m \in Messages, PostPrepare(m)
    PROVE  IInv'
<1>0. TypeOK
  BY DEF IInv
<1>1. /\ TypeOK /\ EndsInOrder /\ NotSentUntouched /\ Holders /\ OneToken /\ TokensFit
      /\ AnnouncedOnce /\ WriteBehind /\ Crowds /\ Woken /\ ReceivedOnce
      /\ inflight \in Nat /\ Credits \in Nat /\ SqDepth \in Nat /\ pendingSends \subseteq Messages
      /\ inflight <= Credits
      /\ spc \in [Messages -> {"ready", "enqueue", "blocked", "post", "sent",
                               "reconnect", "dropped"}]
  BY RoceAssumption DEF IInv, TypeOK
<1>2. /\ UNCHANGED <<closed, sqp, unacked, scq, toSender, content, broken, known,
                     pendingReceives, rcq, recvBuffers, delivered, missed>>
      /\ spc[m] = "post" /\ spc' = [spc EXCEPT ![m] = "sent"]
  BY DEF PostPrepare, elsewhere, receiverVars
<1>3. (\A n \in Messages \ {m} : spc'[n] = spc[n]) /\ spc'[m] = "sent"
  BY <1>1, <1>2
<1>4. /\ Posting' = Posting \ {m}
      /\ Cardinality(Posting) \in Nat /\ Cardinality(Posting) >= 1
      /\ Cardinality(Posting') = Cardinality(Posting) - 1
  <2>1. Posting' = Posting \ {m} /\ m \in Posting
    BY <1>2, <1>3 DEF Posting
  <2>2. /\ IsFiniteSet(Posting) /\ Cardinality(Posting) \in Nat
        /\ Cardinality(Posting') \in Nat
    BY FiniteMessages DEF Posting
  <2>3. Cardinality(Posting') = Cardinality(Posting) - 1
    BY <2>1, <2>2, FS_RemoveElement
  <2> QED
    BY <2>1, <2>2, <2>3
<1>5. SenderQueued < SqDepth
  <2>1. SenderQueued + Cardinality(Posting) + Count(scq, Ready) <= SqDepth
    BY Room
  <2> QED
    BY <1>0, <1>1, <1>4, <2>1, Counts, QueuedType
<1>6. /\ UNCHANGED <<inflight, pendingSends>>
      /\ toReceiver' = IF sqp = "RTS" THEN Append(toReceiver, <<"prepare", m>>) ELSE toReceiver
  BY <1>5 DEF PostPrepare, PostToReceiver
<1>7. NotSentUntouched /\ Untouched(m)
  BY <1>1, <1>2 DEF NotSentUntouched
<1>8. Holders'
  BY <1>1, <1>2, <1>3, <1>6 DEF Holders
<1>9. Woken'
  BY <1>1, <1>2, <1>3, <1>6 DEF Woken, Blocked, Waking
<1>10. CASE sqp # "RTS"
  <2>1. toReceiver' = toReceiver
    BY <1>6, <1>10
  <2>2. broken
    BY <1>1, <1>10 DEF EndsInOrder, TypeOK
  <2>3. TypeOK'
    BY <1>1, <1>2, <1>6, <2>1 DEF TypeOK
  <2>4. NotSentUntouched'
    BY <1>2, <1>3, <1>7, <2>1 DEF NotSentUntouched, Untouched, Arrived
  <2>5. OneToken'
    <3>1. \A n \in Messages \ {m} : Tokens(n)' = Tokens(n)
      BY <1>2, <1>3, <2>1 DEF Tokens, InQueues
    <3>2. Tokens(m)' = Tokens(m) - 1
      <4>1. InQueues(m)' = InQueues(m) /\ InQueues(m) \in Nat
        BY <1>1, <1>2, <2>1, TokenPlaces DEF InQueues
      <4> QED
        BY <1>2, <1>3, <4>1 DEF Tokens
    <3>3. Tokens(m) \in Nat
      BY <1>1, TokenPlaces
    <3>4. Tokens(m) <= 1
      BY <1>1 DEF OneToken
    <3>5. Tokens(m)' <= 1 /\ Tokens(m)' # 1
      BY <3>2, <3>3, <3>4
    <3> QED
      BY <1>1, <1>2, <1>6, <2>2, <3>1, <3>5 DEF OneToken, Intact
  <2>6. TokensFit'
    <3>1. AllTokens' = AllTokens - 1 /\ AllTokens \in Nat
      <4>1. InAllQueues' = InAllQueues /\ InAllQueues \in Nat
        BY <1>1, <1>2, <2>1, Totals DEF InAllQueues
      <4> QED
        BY <1>4, <4>1 DEF AllTokens
    <3> QED
      BY <1>1, <1>6, <3>1 DEF TokensFit
  <2> QED
    BY <1>2, <1>6, <1>8, <1>9, <2>1, <2>3, <2>4, <2>5, <2>6, Kept DEF IInv
<1>11. CASE sqp = "RTS"
  <2>1. toReceiver' = Put(toReceiver, "prepare", m) /\ <<"prepare", m>> \in Posted
    BY <1>6, <1>11, Kinds DEF Put
  <2>0. toReceiver \in Seq(Posted) /\ toReceiver' \in Seq(Posted)
    BY <1>0, <2>1, Appended DEF TypeOK
  <2>2. /\ Count(toReceiver', Prep) = Count(toReceiver, Prep) + 1
        /\ Count(toReceiver', Writes) = Count(toReceiver, Writes)
        /\ \A l, n : l # "prepare" \/ n # m => At(toReceiver', l, n) = At(toReceiver, l, n)
        /\ At(toReceiver', "prepare", m) = At(toReceiver, "prepare", m) + 1
    BY <2>0, <2>1, Appended, AppendedAt
  <2>3. ~closed /\ m \in pendingSends
    BY <1>1, <1>2, <1>11 DEF EndsInOrder, Holders
  <2>4. /\ At(toReceiver, "prepare", m) = 0 /\ At(toReceiver, "write", m) = 0
        /\ At(unacked, "prepare", m) = 0 /\ At(unacked, "write", m) = 0
        /\ At(scq, "prepare", m) = 0 /\ At(scq, "write", m) = 0
        /\ m \notin pendingReceives /\ m \notin Arrived
    BY <1>7 DEF Untouched
  <2>5. /\ \A n \in Messages \ {m} : At(toReceiver', "prepare", n) = At(toReceiver, "prepare", n)
        /\ \A n \in Messages : At(toReceiver', "write", n) = At(toReceiver, "write", n)
        /\ At(toReceiver', "prepare", m) = 1
    BY <2>2, <2>4
  <2>6. TypeOK'
    BY <1>1, <1>2, <1>6, <2>0 DEF TypeOK
  <2>7. EndsInOrder'
    BY <1>1, <1>2, <1>11 DEF EndsInOrder
  <2>8. NotSentUntouched'
    BY <1>2, <1>3, <1>7, <2>5 DEF NotSentUntouched, Untouched, Arrived
  <2>9. OneToken'
    <3>1. \A n \in Messages \ {m} : Tokens(n)' = Tokens(n)
      BY <1>2, <1>3, <2>5 DEF Tokens, InQueues
    <3>2. Tokens(m)' = Tokens(m)
      <4>1. InQueues(m)' = InQueues(m) + 1 /\ InQueues(m) \in Nat
        BY <1>0, <1>2, <2>4, <2>5, TokenPlaces DEF InQueues
      <4> QED
        BY <1>2, <1>3, <4>1 DEF Tokens
    <3> QED
      BY <1>1, <1>2, <1>6, <3>1, <3>2 DEF OneToken, Intact
  <2>10. TokensFit'
    <3>1. InAllQueues' = InAllQueues + 1 /\ InAllQueues \in Nat
      BY <1>0, <1>2, <2>2, Counts, Totals DEF InAllQueues
    <3>2. AllTokens' = AllTokens
      BY <1>4, <3>1 DEF AllTokens
    <3> QED
      BY <1>1, <1>6, <3>2 DEF TokensFit
  <2>11. AnnouncedOnce'
    <3>1. \A n \in Messages \ {m} : Announced(n)' = Announced(n)
      BY <1>2, <2>5 DEF Announced
    <3>2. Announced(m) = 0 /\ Announced(m)' = 1
      BY <1>2, <2>4, <2>5 DEF Announced
    <3>3. AnnouncedSet' = AnnouncedSet \cup {m} /\ m \notin AnnouncedSet
      BY <3>1, <3>2 DEF AnnouncedSet
    <3>4. IsFiniteSet(AnnouncedSet) /\ Cardinality(AnnouncedSet) \in Nat
      BY FiniteMessages DEF AnnouncedSet
    <3>5. Cardinality(AnnouncedSet') = Cardinality(AnnouncedSet) + 1
      BY <3>3, <3>4, FS_AddElement
    <3>6. Announcements' = Announcements + 1
      BY <1>1, <1>2, <2>2, Counts DEF Announcements
    <3>7. AnnouncedSet' \subseteq pendingSends
      BY <1>1, <2>3, <3>3 DEF AnnouncedOnce
    <3>8. Cardinality(AnnouncedSet') <= Cardinality(pendingSends) /\ Cardinality(pendingSends) = inflight
      BY <1>1, <2>3, <3>7, FiniteMessages, FS_Subset DEF Holders
    <3>9. Announcements' = Cardinality(AnnouncedSet')
      BY <1>1, <3>4, <3>5, <3>6 DEF AnnouncedOnce
    <3>10. Announcements' <= Credits
      BY <1>1, <3>4, <3>5, <3>8, <3>9
    <3>11. \A n \in Messages : Announced(n)' <= 1
      BY <1>1, <3>1, <3>2 DEF AnnouncedOnce
    <3> QED
      BY <1>6, <3>7, <3>9, <3>10, <3>11 DEF AnnouncedOnce
  <2>12. WriteBehind'
    <3>1. \A n \in Messages : InTurn(n)
      BY <1>1, <2>3 DEF WriteBehind
    <3>2. ASSUME NEW n \in Messages PROVE Behind(toReceiver', <<"write", n>>, <<"prepare", n>>)
      <4>1. n = m => ~In(toReceiver, <<"write", n>>)
        BY <2>0, <2>4, AtType
      <4>2. Behind(toReceiver, <<"write", n>>, <<"prepare", n>>)
        BY <3>1 DEF InTurn
      <4> QED
        BY <2>0, <2>1, <4>1, <4>2, BehindPut
    <3>3. \A n \in Messages : InTurn(n)'
      BY <1>2, <2>4, <2>5, <3>1, <3>2 DEF InTurn
    <3> QED
      BY <3>3 DEF WriteBehind
  <2>13. Crowds'
    <3>1. InBuffers' = InBuffers /\ Count(toSender, Ready)' = Count(toSender, Ready)
      BY <1>2, <2>2 DEF InBuffers
    <3>2. InBuffers \in Nat /\ Count(toSender, Ready) \in Nat
      BY <1>1, Counts DEF InBuffers
    <3>3. InBuffers' <= InBuffers /\ Count(toSender, Ready)' <= Count(toSender, Ready)
      BY <3>1, <3>2
    <3> QED
      BY <1>1, <1>2, <2>6, <3>3, CrowdsSame
  <2>14. ReceivedOnce'
    BY <1>1, <1>2, <2>4, <2>5 DEF ReceivedOnce, Arrived
  <2> QED
    BY <1>2, <1>6, <1>8, <1>9, <2>6, <2>7, <2>8, <2>9, <2>10, <2>11, <2>12, <2>13, <2>14, Kept DEF IInv
<1> QED
  BY <1>10, <1>11

(* What a completion that the sender has taken changes in its queue.       *)
LEMMA SenderTakes ==
    ASSUME IInv, NEW k, NEW m \in Messages, Starts(scq, k, m), scq' = Rest(scq)
    PROVE  /\ scq' \in Seq(ForSender)
           /\ k = "prepare" => Count(scq', Prep) = Count(scq, Prep) - 1
           /\ k # "prepare" => Count(scq', Prep) = Count(scq, Prep)
           /\ k = "write" => Count(scq', Writes) = Count(scq, Writes) - 1
           /\ k # "write" => Count(scq', Writes) = Count(scq, Writes)
           /\ k = "ready" => Count(scq', Ready) = Count(scq, Ready) - 1
           /\ k # "ready" => Count(scq', Ready) = Count(scq, Ready)
           /\ At(scq', k, m) = At(scq, k, m) - 1
           /\ At(scq, k, m) \in Nat \ {0}
           /\ \A l, n : l # k \/ n # m => At(scq', l, n) = At(scq, l, n)
<1>1. scq \in Seq(ForSender)
  BY DEF IInv, TypeOK
<1>2. At(scq, k, m) # 0
  BY <1>1, First
<1> QED
  BY <1>1, <1>2, Removed, RemovedAt

(* When nothing but that changes in the queues.                            *)
LEMMA SenderTakesOnly ==
    ASSUME IInv, NEW k, NEW m \in Messages, Starts(scq, k, m), scq' = Rest(scq),
           UNCHANGED beforeSender, UNCHANGED toReceiver, closed' \in BOOLEAN, closed => closed'
    PROVE  /\ (closed' => sqp = "ERR") => EndsInOrder'
           /\ \A n \in Messages : Untouched(n) => Untouched(n)'
           /\ WriteBehind'
           /\ TypeOK' => Crowds'
           /\ BuffersKept' /\ ReceivedOnce'
<1>1. UNCHANGED <<sqp, unacked, toSender, content, broken, known, pendingReceives, rcq,
                  recvBuffers, delivered, missed, toReceiver>>
  BY DEF beforeSender, receiverVars
<1>2. TypeOK /\ EndsInOrder /\ WriteBehind /\ Crowds
  BY DEF IInv
<1>3. \A l, n : At(scq', l, n) # 0 => At(scq, l, n) # 0
  BY SenderTakes
<1>4. (closed' => sqp = "ERR") => EndsInOrder'
  BY <1>1, <1>2, <1>3 DEF EndsInOrder
<1>5. ASSUME NEW n \in Messages, Untouched(n) PROVE Untouched(n)'
  BY <1>1, <1>3, <1>5 DEF Untouched, Arrived
<1>6. WriteBehind'
  <2>1. CASE closed
    BY <2>1 DEF WriteBehind
  <2>2. CASE ~closed
    <3> SUFFICES ASSUME NEW n \in Messages PROVE InTurn(n)'
      BY DEF WriteBehind
    <3>1. InTurn(n)
      BY <1>2, <2>2 DEF WriteBehind
    <3>2. Behind(scq', <<"write", n>>, <<"prepare", n>>)
      <4>1. scq \in Seq(ForSender)
        BY <1>2 DEF TypeOK
      <4> QED
        BY <3>1, <4>1, BehindRest DEF InTurn
    <3> QED
      BY <1>1, <1>3, <3>1, <3>2 DEF InTurn
  <2> QED
    BY <2>1, <2>2
<1>7. ASSUME TypeOK' PROVE Crowds'
  <2>1. Count(scq', Ready) <= Count(scq, Ready)
    <3>1. Count(scq, Ready) \in Nat
      BY <1>2, Counts
    <3> QED
      BY <3>1, SenderTakes
  <2>2. /\ Count(toSender, Ready) \in Nat /\ Count(toReceiver, Writes) \in Nat
        /\ Count(scq, Ready) \in Nat /\ Count(scq', Ready) \in Nat
    BY <1>2, <1>7, Counts, CountType DEF TypeOK
  <2>3. InBuffers' <= InBuffers /\ Count(toSender, Ready)' <= Count(toSender, Ready)
    BY <1>1, <2>1, <2>2 DEF InBuffers
  <2> QED
    BY <1>1, <1>2, <1>7, <2>3, CrowdsSame
<1>8. BuffersKept' /\ ReceivedOnce'
  BY <1>1, Kept
<1> QED
  BY <1>4, <1>5, <1>6, <1>7, <1>8

LEMMA PrepareSentKeeps ==
    ASSUME IInv, NEW m \in Messages, PrepareSent(m)
    PROVE  IInv'
<1>0. TypeOK
  BY DEF IInv
<1>1. /\ EndsInOrder /\ NotSentUntouched /\ OneToken /\ TokensFit /\ AnnouncedOnce
      /\ inflight \in Nat /\ Credits \in Nat
  BY RoceAssumption DEF IInv, TypeOK
<1>2. /\ Starts(scq, "prepare", m) /\ scq' = Rest(scq)
      /\ UNCHANGED <<spc, inflight, pendingSends, closed, toReceiver>> /\ UNCHANGED beforeSender
  BY DEF PrepareSent, CompleteSend, Starts, Rest
<1>3. UNCHANGED <<sqp, unacked, toSender, content, broken, known, pendingReceives, rcq,
                  recvBuffers, delivered, missed>>
  BY <1>2 DEF beforeSender, receiverVars
<1>4. /\ Count(scq', Prep) = Count(scq, Prep) - 1
      /\ Count(scq', Writes) = Count(scq, Writes) /\ Count(scq', Ready) = Count(scq, Ready)
      /\ At(scq', "prepare", m) = At(scq, "prepare", m) - 1
      /\ At(scq, "prepare", m) \in Nat \ {0}
      /\ \A n \in Messages \ {m} : At(scq', "prepare", n) = At(scq, "prepare", n)
      /\ \A n \in Messages : /\ At(scq', "write", n) = At(scq, "write", n)
                             /\ At(scq', "ready", n) = At(scq, "ready", n)
  BY <1>2, SenderTakes
<1>5. TypeOK'
  BY <1>0, <1>2, <1>3, SenderTakes DEF TypeOK
<1>6. closed' \in BOOLEAN /\ (closed => closed')
  BY <1>2, <1>5 DEF TypeOK
<1>7. EndsInOrder' /\ WriteBehind' /\ Crowds' /\ BuffersKept' /\ ReceivedOnce'
  BY <1>1, <1>2, <1>5, <1>6, SenderTakesOnly DEF EndsInOrder
<1>8. NotSentUntouched'
  BY <1>1, <1>2, <1>6, SenderTakesOnly DEF NotSentUntouched
<1>9. OneToken'
  <2>1. \A n \in Messages : Tokens(n)' = Tokens(n)
    BY <1>2, <1>3, <1>4 DEF Tokens, InQueues
  <2> QED
    BY <1>1, <1>2, <1>3, <2>1 DEF OneToken, Intact
<1>10. TokensFit'
  BY <1>1, <1>2, <1>3, <1>4 DEF TokensFit, AllTokens, InAllQueues, Posting
<1>11. AnnouncedOnce'
  <2>1. \A n \in Messages \ {m} : Announced(n)' = Announced(n)
    BY <1>2, <1>3, <1>4 DEF Announced
  <2>2. Announced(m) = 1 /\ Announced(m)' = 0
    <3>1. Announced(m) <= 1
      BY <1>1 DEF AnnouncedOnce
    <3>2. /\ At(toReceiver, "prepare", m) \in Nat /\ At(unacked, "prepare", m) \in Nat
      BY <1>0, TokenPlaces
    <3> QED
      BY <1>2, <1>3, <1>4, <3>1, <3>2 DEF Announced
  <2>3. AnnouncedSet' = AnnouncedSet \ {m} /\ m \in AnnouncedSet
    BY <2>1, <2>2 DEF AnnouncedSet
  <2>4. IsFiniteSet(AnnouncedSet) /\ Cardinality(AnnouncedSet) \in Nat
    BY FiniteMessages DEF AnnouncedSet
  <2>5. Cardinality(AnnouncedSet') = Cardinality(AnnouncedSet) - 1
    BY <2>3, <2>4, FS_RemoveElement
  <2>6. Announcements' = Announcements - 1
    BY <1>0, <1>2, <1>3, <1>4, Counts DEF Announcements
  <2>7. \A n \in Messages : Announced(n)' <= 1
    BY <1>1, <2>1, <2>2 DEF AnnouncedOnce
  <2>8. ~closed => AnnouncedSet' \subseteq pendingSends
    BY <1>1, <2>3 DEF AnnouncedOnce
  <2>9. Announcements = Cardinality(AnnouncedSet) /\ Announcements <= Credits
    BY <1>1 DEF AnnouncedOnce
  <2>10. Announcements' = Cardinality(AnnouncedSet') /\ Announcements' <= Credits
    BY <1>1, <2>4, <2>5, <2>6, <2>9
  <2> QED
    BY <1>2, <2>7, <2>8, <2>10 DEF AnnouncedOnce
<1> QED
  BY <1>2, <1>5, <1>7, <1>8, <1>9, <1>10, <1>11, Kept DEF IInv

LEMMA WriteDoneKeeps ==
    ASSUME IInv, NEW m \in Messages, WriteDone(m)
    PROVE  IInv'
<1>0. TypeOK
  BY DEF IInv
<1>1. /\ EndsInOrder /\ NotSentUntouched /\ Holders /\ OneToken /\ TokensFit /\ AnnouncedOnce
      /\ WriteBehind /\ Woken
      /\ inflight \in Nat /\ Credits \in Nat /\ inflight <= Credits
  BY RoceAssumption DEF IInv, TypeOK
<1>2. /\ Starts(scq, "write", m) /\ scq' = Rest(scq)
      /\ UNCHANGED <<closed, toReceiver>> /\ UNCHANGED beforeSender
  BY DEF WriteDone, CompleteSend, Starts, Rest
<1>3. UNCHANGED <<sqp, unacked, toSender, content, broken, known, pendingReceives, rcq,
                  recvBuffers, delivered, missed>>
  BY <1>2 DEF beforeSender, receiverVars
<1>4. /\ Count(scq', Writes) = Count(scq, Writes) - 1
      /\ Count(scq', Prep) = Count(scq, Prep) /\ Count(scq', Ready) = Count(scq, Ready)
      /\ At(scq', "write", m) = At(scq, "write", m) - 1
      /\ At(scq, "write", m) \in Nat \ {0}
      /\ \A n \in Messages \ {m} : At(scq', "write", n) = At(scq, "write", n)
      /\ \A n \in Messages : /\ At(scq', "prepare", n) = At(scq, "prepare", n)
                             /\ At(scq', "ready", n) = At(scq, "ready", n)
  BY <1>2, SenderTakes
<1>5. closed' \in BOOLEAN /\ (closed => closed')
  BY <1>0, <1>2 DEF TypeOK
<1>6. /\ \A n \in Messages \ {m} : InQueues(n)' = InQueues(n)
      /\ InQueues(m)' = InQueues(m) - 1 /\ InQueues(m) \in Nat
      /\ InAllQueues' = InAllQueues - 1 /\ InAllQueues \in Nat
      /\ InQueues(m) # 0
  <2>1. \A n \in Messages \ {m} : InQueues(n)' = InQueues(n)
    BY <1>2, <1>3, <1>4 DEF InQueues
  <2>2. InQueues(m)' = InQueues(m) - 1
    BY <1>0, <1>2, <1>3, <1>4, TokenPlaces DEF InQueues
  <2>3. InAllQueues' = InAllQueues - 1
    BY <1>0, <1>2, <1>3, <1>4, Counts DEF InAllQueues
  <2>4. InQueues(m) # 0
    BY <1>0, <1>4, HasStep
  <2> QED
    BY <1>0, <2>1, <2>2, <2>3, <2>4, TokenPlaces, Totals
<1>7. EndsInOrder' /\ WriteBehind' /\ BuffersKept' /\ ReceivedOnce' /\ (TypeOK' => Crowds')
  BY <1>1, <1>2, <1>5, SenderTakesOnly DEF EndsInOrder
<1>8. CASE closed
  <2>1. UNCHANGED <<spc, inflight, pendingSends>>
    BY <1>8 DEF WriteDone
  <2>2. TypeOK'
    BY <1>0, <1>2, <1>3, <2>1, SenderTakes DEF TypeOK
  <2>3. NotSentUntouched'
    BY <1>1, <1>2, <1>5, <2>1, SenderTakesOnly DEF NotSentUntouched
  <2>4. OneToken'
    <3>1. broken
      BY <1>1, <1>8 DEF EndsInOrder
    <3>2. \A n \in Messages \ {m} : Tokens(n)' = Tokens(n)
      BY <1>6, <2>1 DEF Tokens
    <3>3. Tokens(m)' = Tokens(m) - 1 /\ Tokens(m) \in Nat
      BY <1>6, <2>1 DEF Tokens
    <3>4. Tokens(m) <= 1
      BY <1>1 DEF OneToken
    <3>5. Tokens(m)' <= 1
      BY <3>3, <3>4
    <3> QED
      BY <1>1, <1>2, <1>3, <1>8, <3>1, <3>2, <3>5 DEF OneToken, Intact
  <2>5. TokensFit'
    <3>1. Posting' = Posting /\ Cardinality(Posting) \in Nat
      BY <2>1, FiniteMessages DEF Posting
    <3>2. AllTokens' = AllTokens - 1 /\ AllTokens \in Nat
      BY <1>6, <3>1 DEF AllTokens
    <3> QED
      BY <1>1, <2>1, <3>2 DEF TokensFit
  <2>6. AnnouncedOnce'
    BY <1>1, <1>2, <1>3, <1>4, <2>1 DEF AnnouncedOnce, Announced, AnnouncedSet, Announcements
  <2> QED
    BY <1>2, <1>7, <2>1, <2>2, <2>3, <2>4, <2>5, <2>6, Kept DEF IInv
<1>9. CASE ~closed
  <2>1. inflight' = inflight - 1 /\ pendingSends' = pendingSends \ {m} /\ NotifyOne
    BY <1>9 DEF WriteDone
  <2>2. \A n \in Messages : spc'[n] = spc[n] \/ (spc[n] = "blocked" /\ spc'[n] = "enqueue")
    BY <1>0, <2>1 DEF NotifyOne, Blocked, TypeOK
  <2>3. Tokens(m) = 1 /\ Tokens(m)' = 0 /\ spc[m] # "post" /\ m \in pendingSends
    <3>1. Tokens(m) <= 1
      BY <1>1 DEF OneToken
    <3>2. spc[m] # "post" /\ spc'[m] # "post"
      BY <1>6, <2>2, <3>1 DEF Tokens
    <3>3. Tokens(m) = 1 /\ Tokens(m)' = 0
      BY <1>6, <3>1, <3>2 DEF Tokens
    <3> QED
      BY <1>1, <1>9, <3>2, <3>3 DEF OneToken
  <2>4. /\ inflight = Cardinality(pendingSends)
        /\ Cardinality(pendingSends') = Cardinality(pendingSends) - 1
        /\ Cardinality(pendingSends) \in Nat /\ Cardinality(pendingSends') \in Nat
    <3>1. pendingSends \subseteq Messages /\ pendingSends' \subseteq Messages
      BY <1>0, <2>1 DEF TypeOK
    <3>2. /\ IsFiniteSet(pendingSends)
          /\ Cardinality(pendingSends) \in Nat /\ Cardinality(pendingSends') \in Nat
      BY <3>1, FiniteMessages
    <3>3. Cardinality(pendingSends') = Cardinality(pendingSends) - 1
      BY <2>1, <2>3, <3>2, FS_RemoveElement
    <3> QED
      BY <1>1, <1>9, <3>2, <3>3 DEF Holders
  <2>5. inflight' \in 0..Credits
    BY <1>1, <2>1, <2>4
  <2>6. TypeOK'
    <3>1. scq' \in Seq(ForSender)
      BY <1>2, SenderTakes
    <3>2. spc' \in [Messages -> {"ready", "enqueue", "blocked", "post", "sent",
                                 "reconnect", "dropped"}]
      BY <1>0, <2>1 DEF TypeOK, NotifyOne
    <3> QED
      BY <1>0, <1>2, <1>3, <2>1, <2>5, <3>1, <3>2 DEF TypeOK
  <2>7. NotSentUntouched'
    <3>1. \A n \in Messages : Untouched(n) => Untouched(n)'
      BY <1>2, <1>5, SenderTakesOnly
    <3> QED
      BY <1>1, <2>2, <3>1 DEF NotSentUntouched
  <2>8. Holders'
    <3>1. inflight' = Cardinality(pendingSends')
      BY <2>1, <2>4
    <3>2. \A n \in pendingSends' : n \in Messages /\ spc'[n] \in {"post", "sent"}
      BY <1>0, <1>1, <2>1, <2>2 DEF Holders, TypeOK
    <3>3. \A n \in Messages : spc'[n] = "post" => n \in pendingSends'
      BY <1>1, <1>9, <2>1, <2>2, <2>3 DEF Holders
    <3> QED
      BY <3>1, <3>2, <3>3 DEF Holders
  <2>9. OneToken'
    <3>1. \A n \in Messages \ {m} : Tokens(n)' = Tokens(n)
      BY <1>6, <2>2 DEF Tokens
    <3>2. \A n \in Messages \ {m} : n \in pendingSends' <=> n \in pendingSends
      BY <2>1
    <3>3. m \notin pendingSends'
      BY <2>1
    <3> QED
      BY <1>1, <1>2, <1>3, <2>3, <3>1, <3>2, <3>3 DEF OneToken, Intact
  <2>10. TokensFit'
    <3>1. Posting' = Posting /\ Cardinality(Posting) \in Nat
      BY <2>2, FiniteMessages DEF Posting
    <3>2. AllTokens' = AllTokens - 1 /\ AllTokens \in Nat
      BY <1>6, <3>1 DEF AllTokens
    <3> QED
      BY <1>1, <2>1, <3>2 DEF TokensFit
  <2>11. AnnouncedOnce'
    <3>1. Announced(m) = 0
      <4>1. InTurn(m)
        BY <1>1, <1>9 DEF WriteBehind
      <4>2. At(unacked, "prepare", m) = 0 /\ At(toReceiver, "prepare", m) = 0
        BY <1>4, <4>1 DEF InTurn
      <4>3. At(scq, "prepare", m) = 0
        <5>1. scq \in Seq(ForSender)
          BY <1>0 DEF TypeOK
        <5>2. ~In(scq, <<"prepare", m>>)
          BY <1>2, <4>1, <5>1, BehindRest DEF InTurn
        <5> QED
          BY <5>1, <5>2, AtType
      <4> QED
        BY <4>2, <4>3 DEF Announced
    <3>2. \A n \in Messages : Announced(n)' = Announced(n)
      BY <1>2, <1>3, <1>4 DEF Announced
    <3>3. AnnouncedSet' = AnnouncedSet /\ m \notin AnnouncedSet /\ Announcements' = Announcements
      BY <1>2, <1>3, <1>4, <3>1, <3>2 DEF AnnouncedSet, Announcements
    <3> QED
      BY <1>1, <1>9, <2>1, <3>2, <3>3 DEF AnnouncedOnce
  <2>12. Woken'
    <3>1. CASE Blocked = {}
      <4>1. Blocked' = {}
        BY <2>1, <3>1 DEF NotifyOne, Blocked
      <4> QED
        BY <4>1 DEF Woken
    <3>2. CASE Blocked # {}
      <4>1. PICK n \in Blocked : spc' = [spc EXCEPT ![n] = "enqueue"]
        BY <2>1, <3>2 DEF NotifyOne
      <4>2. Waking' = Waking \cup {n} /\ n \notin Waking
        BY <1>0, <4>1 DEF Waking, Blocked, TypeOK
      <4>3. Cardinality(Waking') = Cardinality(Waking) + 1 /\ Cardinality(Waking) \in Nat
        BY <4>2, WakingType, FS_AddElement
      <4>4. inflight + Cardinality(Waking) >= Credits
        BY <1>1, <3>2 DEF Woken
      <4>5. inflight' + Cardinality(Waking') >= Credits
        BY <1>1, <2>1, <4>3, <4>4
      <4> QED
        BY <1>2, <1>9, <4>5 DEF Woken
    <3> QED
      BY <3>1, <3>2
  <2> QED
    BY <1>7, <2>6, <2>7, <2>8, <2>9, <2>10, <2>11, <2>12 DEF IInv
<1> QED
  BY <1>8, <1>9

LEMMA SenderCloseKeeps ==
    ASSUME IInv, NEW m \in Messages, SenderClose(m)
    PROVE  IInv'
<1>0. TypeOK
  BY DEF IInv
<1>1. EndsInOrder /\ NotSentUntouched /\ Holders /\ OneToken /\ TokensFit /\ AnnouncedOnce
  BY DEF IInv
<1>2. /\ Starts(scq, "error", m) /\ scq' = Rest(scq)
      /\ UNCHANGED <<inflight, toReceiver>> /\ UNCHANGED beforeSender
      /\ closed' = TRUE /\ pendingSends' = {}
      /\ spc' = [n \in Messages |-> IF spc[n] = "blocked" THEN "enqueue" ELSE spc[n]]
  BY DEF SenderClose, CompleteSend, Starts, Rest
<1>3. UNCHANGED <<sqp, unacked, toSender, content, broken, known, pendingReceives, rcq,
                  recvBuffers, delivered, missed>>
  BY <1>2 DEF beforeSender, receiverVars
<1>4. /\ Count(scq', Writes) = Count(scq, Writes)
      /\ Count(scq', Prep) = Count(scq, Prep) /\ Count(scq', Ready) = Count(scq, Ready)
      /\ At(scq, "error", m) # 0
      /\ \A n \in Messages : /\ At(scq', "prepare", n) = At(scq, "prepare", n)
                             /\ At(scq', "write", n) = At(scq, "write", n)
                             /\ At(scq', "ready", n) = At(scq, "ready", n)
  BY <1>2, SenderTakes
<1>5. \A n \in Messages : spc'[n] = spc[n] \/ (spc[n] = "blocked" /\ spc'[n] = "enqueue")
  BY <1>2
<1>6. sqp = "ERR" /\ broken
  BY <1>1, <1>4 DEF EndsInOrder
<1>7. TypeOK'
  BY <1>0, <1>2, <1>3, SenderTakes DEF TypeOK
<1>8. EndsInOrder' /\ WriteBehind' /\ BuffersKept' /\ ReceivedOnce' /\ Crowds'
  BY <1>2, <1>6, <1>7, SenderTakesOnly
<1>9. NotSentUntouched'
  <2>1. \A n \in Messages : Untouched(n) => Untouched(n)'
    BY <1>2, SenderTakesOnly
  <2> QED
    BY <1>1, <1>5, <2>1 DEF NotSentUntouched
<1>10. Holders'
  BY <1>2 DEF Holders
<1>11. OneToken'
  <2>1. \A n \in Messages : Tokens(n)' = Tokens(n)
    BY <1>2, <1>3, <1>4, <1>5 DEF Tokens, InQueues
  <2> QED
    BY <1>1, <1>2, <2>1 DEF OneToken
<1>12. TokensFit'
  <2>1. Posting' = Posting
    BY <1>5 DEF Posting
  <2> QED
    BY <1>1, <1>2, <1>3, <1>4, <2>1 DEF TokensFit, AllTokens, InAllQueues
<1>13. AnnouncedOnce'
  BY <1>1, <1>2, <1>3, <1>4 DEF AnnouncedOnce, Announced, AnnouncedSet, Announcements
<1>14. Woken'
  <2>1. Blocked' = {}
    BY <1>2 DEF Blocked
  <2> QED
    BY <2>1 DEF Woken
<1> QED
  BY <1>7, <1>8, <1>9, <1>10, <1>11, <1>12, <1>13, <1>14 DEF IInv

LEMMA WriteKeeps ==
    ASSUME IInv, NEW m \in Messages, Write(m)
    PROVE  IInv'
<1>0. TypeOK
  BY DEF IInv
<1>1. /\ EndsInOrder /\ NotSentUntouched /\ Holders /\ OneToken /\ TokensFit /\ AnnouncedOnce
      /\ WriteBehind /\ Crowds /\ ReceivedOnce /\ inflight \in Nat /\ SqDepth \in Nat
  BY RoceAssumption DEF IInv, TypeOK
<1>2. /\ Starts(scq, "ready", m) /\ scq' = Rest(scq)
      /\ UNCHANGED <<spc, inflight, pendingSends, closed>> /\ UNCHANGED beforeSender
  BY DEF Write, CompleteSend, Starts, Rest
<1>3. UNCHANGED <<sqp, unacked, toSender, content, broken, known, pendingReceives, rcq,
                  recvBuffers, delivered, missed>>
  BY <1>2 DEF beforeSender, receiverVars
<1>4. /\ Count(scq', Ready) = Count(scq, Ready) - 1
      /\ Count(scq', Prep) = Count(scq, Prep) /\ Count(scq', Writes) = Count(scq, Writes)
      /\ At(scq', "ready", m) = At(scq, "ready", m) - 1
      /\ At(scq, "ready", m) \in Nat \ {0}
      /\ \A n \in Messages \ {m} : At(scq', "ready", n) = At(scq, "ready", n)
      /\ \A n \in Messages : /\ At(scq', "prepare", n) = At(scq, "prepare", n)
                             /\ At(scq', "write", n) = At(scq, "write", n)
                             /\ At(scq', "error", n) = At(scq, "error", n)
  BY <1>2, SenderTakes
<1>5. spc[m] = "sent" /\ InQueues(m) # 0
  BY <1>0, <1>4, TokenSent, HasStep
<1>6. ~closed => m \in pendingSends
  <2>1. Tokens(m) <= 1
    BY <1>1 DEF OneToken
  <2>2. Tokens(m) = 1
    BY <1>0, <1>5, <2>1, TokenPlaces DEF Tokens
  <2> QED
    BY <1>1, <2>2 DEF OneToken
<1>7. SenderQueued < SqDepth
  <2>1. SenderQueued + Cardinality(Posting) + Count(scq, Ready) <= SqDepth
    BY Room
  <2>2. Count(scq, Ready) # 0
    BY <1>0, <1>2, First DEF TypeOK
  <2> QED
    BY <1>0, <1>1, <2>1, <2>2, Counts, QueuedType
<1>8. Holders' /\ Woken' /\ BuffersKept'
  BY <1>2, <1>3, Kept
<1>9. CASE closed \/ sqp # "RTS"
  <2>1. toReceiver' = toReceiver
    BY <1>9 DEF Write, PostToReceiver
  <2>2. broken
    BY <1>0, <1>1, <1>9 DEF EndsInOrder, TypeOK
  <2>3. TypeOK'
    BY <1>0, <1>2, <1>3, <2>1, SenderTakes DEF TypeOK
  <2>4. closed' \in BOOLEAN /\ (closed => closed')
    BY <1>2, <2>3 DEF TypeOK
  <2>5. EndsInOrder' /\ WriteBehind' /\ Crowds' /\ ReceivedOnce'
    BY <1>1, <1>2, <2>1, <2>3, <2>4, SenderTakesOnly DEF EndsInOrder
  <2>6. NotSentUntouched'
    BY <1>1, <1>2, <2>1, <2>4, SenderTakesOnly DEF NotSentUntouched
  <2>7. OneToken'
    <3>1. \A n \in Messages \ {m} : Tokens(n)' = Tokens(n)
      BY <1>2, <1>3, <1>4, <2>1 DEF Tokens, InQueues
    <3>2. InQueues(m)' = InQueues(m) - 1
      BY <1>0, <1>2, <1>3, <1>4, <2>1, TokenPlaces DEF InQueues
    <3>3. Tokens(m) <= 1
      BY <1>1 DEF OneToken
    <3>4. Tokens(m)' = 0
      BY <1>0, <1>2, <1>5, <3>2, <3>3, TokenPlaces DEF Tokens
    <3> QED
      BY <1>1, <1>2, <1>3, <2>2, <3>1, <3>4 DEF OneToken, Intact
  <2>8. TokensFit'
    <3>1. Posting' = Posting /\ Cardinality(Posting) \in Nat
      BY <1>2, FiniteMessages DEF Posting
    <3>2. InAllQueues' = InAllQueues - 1 /\ InAllQueues \in Nat
      BY <1>0, <1>2, <1>3, <1>4, <2>1, Counts, Totals DEF InAllQueues
    <3>3. AllTokens' = AllTokens - 1 /\ AllTokens \in Nat
      BY <3>1, <3>2 DEF AllTokens
    <3> QED
      BY <1>1, <1>2, <3>3 DEF TokensFit
  <2>9. AnnouncedOnce'
    BY <1>1, <1>2, <1>3, <1>4, <2>1 DEF AnnouncedOnce, Announced, AnnouncedSet, Announcements
  <2> QED
    BY <1>8, <2>3, <2>5, <2>6, <2>7, <2>8, <2>9 DEF IInv
<1>10. CASE ~closed /\ sqp = "RTS"
  <2>1. toReceiver' = Put(toReceiver, "write", m) /\ <<"write", m>> \in Posted
    BY <1>6, <1>7, <1>10, Kinds DEF Write, PostToReceiver, Put
  <2>2. toReceiver \in Seq(Posted) /\ toReceiver' \in Seq(Posted)
    BY <1>0, <2>1, Appended DEF TypeOK
  <2>3. /\ Count(toReceiver', Writes) = Count(toReceiver, Writes) + 1
        /\ Count(toReceiver', Prep) = Count(toReceiver, Prep)
        /\ At(toReceiver', "write", m) = At(toReceiver, "write", m) + 1
        /\ \A n \in Messages \ {m} : At(toReceiver', "write", n) = At(toReceiver, "write", n)
        /\ \A n \in Messages : At(toReceiver', "prepare", n) = At(toReceiver, "prepare", n)
    BY <2>1, <2>2, Appended, AppendedAt
  <2>4. TypeOK'
    BY <1>0, <1>2, <1>3, <2>2, SenderTakes DEF TypeOK
  <2>5. EndsInOrder'
    BY <1>1, <1>2, <1>3, <1>4, <1>10 DEF EndsInOrder
  <2>6. NotSentUntouched'
    <3> SUFFICES ASSUME NEW n \in Messages, spc[n] # "sent" PROVE Untouched(n)'
      BY <1>2 DEF NotSentUntouched
    <3>1. n # m /\ Untouched(n)
      BY <1>1, <1>5 DEF NotSentUntouched
    <3> QED
      BY <1>2, <1>3, <1>4, <2>3, <3>1 DEF Untouched, Arrived
  <2>7. OneToken'
    <3>1. \A n \in Messages \ {m} : Tokens(n)' = Tokens(n)
      BY <1>2, <1>3, <1>4, <2>3 DEF Tokens, InQueues
    <3>2. InQueues(m)' = InQueues(m)
      BY <1>0, <1>2, <1>3, <1>4, <2>3, TokenPlaces DEF InQueues
    <3>3. Tokens(m)' = Tokens(m)
      BY <1>2, <3>2 DEF Tokens
    <3> QED
      BY <1>1, <1>2, <1>3, <3>1, <3>3 DEF OneToken, Intact
  <2>8. TokensFit'
    <3>1. Posting' = Posting
      BY <1>2 DEF Posting
    <3>2. InAllQueues' = InAllQueues
      BY <1>0, <1>2, <1>3, <1>4, <2>3, Counts DEF InAllQueues
    <3> QED
      BY <1>1, <1>2, <3>1, <3>2 DEF TokensFit, AllTokens
  <2>9. AnnouncedOnce'
    BY <1>1, <1>2, <1>3, <1>4, <2>3 DEF AnnouncedOnce, Announced, AnnouncedSet, Announcements
  <2>10. WriteBehind'
    <3> SUFFICES ASSUME NEW n \in Messages PROVE InTurn(n)'
      BY DEF WriteBehind
    <3>1. InTurn(n)
      BY <1>1, <1>10 DEF WriteBehind
    <3>2. Behind(scq', <<"write", n>>, <<"prepare", n>>)
      <4>1. scq \in Seq(ForSender)
        BY <1>0 DEF TypeOK
      <4> QED
        BY <1>2, <3>1, <4>1, BehindRest DEF InTurn
    <3>3. Behind(toReceiver', <<"write", n>>, <<"prepare", n>>)
      BY <2>1, <2>2, <3>1, BehindPut DEF InTurn
    <3> QED
      BY <1>3, <1>4, <2>3, <3>1, <3>2, <3>3 DEF InTurn
  <2>11. Crowds'
    <3>1. InBuffers' = InBuffers /\ InBuffers \in Nat
      BY <1>0, <1>3, <1>4, <2>3, Counts DEF InBuffers
    <3>2. InBuffers' <= InBuffers /\ Count(toSender, Ready)' <= Count(toSender, Ready)
      BY <1>0, <1>3, <3>1, Counts
    <3> QED
      BY <1>0, <1>1, <1>3, <2>4, <3>2, CrowdsSame
  <2>12. ReceivedOnce'
    BY <1>1, <1>3, <2>3 DEF ReceivedOnce, Arrived
  <2> QED
    BY <1>8, <2>4, <2>5, <2>6, <2>7, <2>8, <2>9, <2>10, <2>11, <2>12 DEF IInv
<1> QED
  BY <1>9, <1>10

(* What was passed up, with one more.                                      *)
LEMMA ArrivedAppend ==
    ASSUME NEW T, NEW q \in Seq(T), NEW m, NEW c, <<m, c>> \in T
    PROVE  Firsts(Put(q, m, c)) = Firsts(q) \cup {m}
<1> DEFINE r == Put(q, m, c)
<1>1. /\ DOMAIN q = 1..Len(q) /\ Len(q) \in Nat
      /\ DOMAIN r = 1..(Len(q) + 1) /\ r[Len(q) + 1] = <<m, c>>
      /\ \A i \in 1..Len(q) : r[i] = q[i]
  BY DEF Put
<1> HIDE DEF r
<1>2. ToSet(r) = ToSet(q) \cup {<<m, c>>}
  BY <1>1 DEF ToSet
<1> QED
  BY <1>2 DEF r, Firsts

(* What a completion that the receiver has taken changes in its queue, and *)
(* when nothing but that changes for the sender and on the way to it.      *)
LEMMA ReceiverTakes ==
    ASSUME IInv, NEW k, NEW m \in Messages, Starts(rcq, k, m), rcq' = Rest(rcq)
    PROVE  /\ rcq' \in Seq(ForReceiver)
           /\ k = "prepare" => Count(rcq', Prep) = Count(rcq, Prep) - 1
           /\ k # "prepare" => Count(rcq', Prep) = Count(rcq, Prep)
           /\ k = "write" => Count(rcq', Writes) = Count(rcq, Writes) - 1
           /\ k # "write" => Count(rcq', Writes) = Count(rcq, Writes)
           /\ At(rcq', k, m) = At(rcq, k, m) - 1
           /\ At(rcq, k, m) \in Nat \ {0}
           /\ \A l, n : l # k \/ n # m => At(rcq', l, n) = At(rcq, l, n)
<1>1. rcq \in Seq(ForReceiver)
  BY DEF IInv, TypeOK
<1>2. At(rcq, k, m) # 0
  BY <1>1, First
<1> QED
  BY <1>1, <1>2, Removed, RemovedAt

LEMMA SenderKept ==
    ASSUME IInv, UNCHANGED beforeReceiver
    PROVE  Holders' /\ AnnouncedOnce' /\ WriteBehind' /\ Woken'
<1>1. UNCHANGED <<spc, inflight, pendingSends, closed, scq, toReceiver, unacked>>
  BY DEF beforeReceiver, senderVars
<1> QED
  BY <1>1, Kept

LEMMA ReceiverTakesOnly ==
    ASSUME IInv, NEW k, NEW m \in Messages, Starts(rcq, k, m), rcq' = Rest(rcq),
           UNCHANGED beforeReceiver, UNCHANGED toSender,
           missed' \in BOOLEAN, missed => missed', k = "prepare" => missed'
    PROVE  OneToken' /\ TokensFit' /\ (TypeOK' => Crowds')
<1>0. TypeOK
  BY DEF IInv
<1>1. OneToken /\ TokensFit /\ Crowds /\ inflight \in Nat
  BY <1>0 DEF IInv, TypeOK
<1>2. UNCHANGED <<spc, inflight, pendingSends, closed, scq, sqp, toReceiver, unacked, content,
                  broken, toSender>>
  BY DEF beforeReceiver, senderVars
<1>3. ASSUME k # "prepare" PROVE OneToken' /\ TokensFit'
  <2>1. /\ Count(rcq', Prep) = Count(rcq, Prep)
        /\ \A n \in Messages : At(rcq', "prepare", n) = At(rcq, "prepare", n)
    BY <1>3, ReceiverTakes
  <2>2. \A n \in Messages : Tokens(n)' = Tokens(n)
    BY <1>2, <2>1 DEF Tokens, InQueues
  <2>3. OneToken'
    BY <1>1, <1>2, <2>2 DEF OneToken, Intact
  <2>4. TokensFit'
    BY <1>1, <1>2, <2>1 DEF TokensFit, AllTokens, InAllQueues, Posting
  <2> QED
    BY <2>3, <2>4
<1>4. ASSUME k = "prepare" PROVE OneToken' /\ TokensFit'
  <2>1. /\ Count(rcq', Prep) = Count(rcq, Prep) - 1
        /\ At(rcq', "prepare", m) = At(rcq, "prepare", m) - 1
        /\ At(rcq, "prepare", m) \in Nat \ {0}
        /\ \A n \in Messages \ {m} : At(rcq', "prepare", n) = At(rcq, "prepare", n)
    BY <1>4, ReceiverTakes
  <2>2. \A n \in Messages \ {m} : Tokens(n)' = Tokens(n)
    BY <1>2, <2>1 DEF Tokens, InQueues
  <2>3. Tokens(m)' = 0
    <3>1. spc[m] = "sent" /\ InQueues(m) # 0
      BY <1>0, <2>1, TokenSent, HasStep
    <3>2. Tokens(m) <= 1
      BY <1>1 DEF OneToken
    <3>3. InQueues(m)' = InQueues(m) - 1
      BY <1>0, <1>2, <2>1, TokenPlaces DEF InQueues
    <3> QED
      BY <1>0, <1>2, <3>1, <3>2, <3>3, TokenPlaces DEF Tokens
  <2>4. OneToken'
    BY <1>1, <1>2, <1>4, <2>2, <2>3 DEF OneToken, Intact
  <2>5. TokensFit'
    <3>1. InAllQueues' = InAllQueues - 1 /\ InAllQueues \in Nat
      BY <1>0, <1>2, <2>1, Counts, Totals DEF InAllQueues
    <3>2. Posting' = Posting /\ Cardinality(Posting) \in Nat
      BY <1>2, FiniteMessages DEF Posting
    <3>3. AllTokens' = AllTokens - 1 /\ AllTokens \in Nat
      BY <3>1, <3>2 DEF AllTokens
    <3> QED
      BY <1>1, <1>2, <3>3 DEF TokensFit
  <2> QED
    BY <2>4, <2>5
<1>5. ASSUME TypeOK' PROVE Crowds'
  <2> DEFINE d == IF Head(rcq) \in Prep THEN 1 ELSE 0
  <2>1. InBuffers' = InBuffers /\ Count(toSender, Ready)' = Count(toSender, Ready)
    BY <1>2 DEF InBuffers
  <2>2. InBuffers \in Nat /\ Count(toSender, Ready) \in Nat /\ d \in {0, 1}
    BY <1>0, Counts DEF InBuffers
  <2> HIDE DEF d
  <2>3. InBuffers' <= InBuffers + d /\ Count(toSender, Ready)' <= Count(toSender, Ready) + d
    BY <2>1, <2>2
  <2>4. rcq # <<>> /\ rcq' = Tail(rcq)
    BY DEF Starts, Rest
  <2> QED
    BY <1>0, <1>1, <1>5, <2>3, <2>4, CrowdsTail DEF d
<1> QED
  BY <1>3, <1>4, <1>5

LEMMA UnknownQPKeeps ==
    ASSUME IInv, NEW m \in Messages, UnknownQP(m)
    PROVE  IInv'
<1>0. TypeOK
  BY DEF IInv
<1>1. EndsInOrder /\ NotSentUntouched /\ ReceivedOnce
  BY DEF IInv
<1>2. PICK k \in {"prepare", "write"} : CompleteReceive(k, m)
  BY DEF UnknownQP
<1>3. /\ Starts(rcq, k, m) /\ rcq' = Rest(rcq) /\ missed' = TRUE /\ UNCHANGED beforeReceiver
      /\ UNCHANGED <<known, pendingReceives, toSender, recvBuffers, delivered>>
  BY <1>2 DEF UnknownQP, CompleteReceive, Starts, Rest
<1>4. UNCHANGED <<spc, inflight, pendingSends, closed, scq, sqp, toReceiver, unacked, content, broken>>
  BY <1>3 DEF beforeReceiver, senderVars
<1>5. \A l, n : At(rcq', l, n) # 0 => At(rcq, l, n) # 0
  BY <1>3, ReceiverTakes
<1>6. TypeOK'
  BY <1>0, <1>3, <1>4, ReceiverTakes DEF TypeOK
<1>7. OneToken' /\ TokensFit' /\ Crowds'
  BY <1>3, <1>6, ReceiverTakesOnly
<1>8. Holders' /\ AnnouncedOnce' /\ WriteBehind' /\ Woken'
  BY <1>3, SenderKept
<1>9. EndsInOrder'
  BY <1>1, <1>3, <1>4, <1>5 DEF EndsInOrder
<1>10. NotSentUntouched'
  BY <1>1, <1>3, <1>4, <1>5 DEF NotSentUntouched, Untouched, Arrived
<1>11. BuffersKept'
  BY <1>3 DEF BuffersKept, Intact
<1>12. ReceivedOnce'
  BY <1>1, <1>3, <1>4, <1>5 DEF ReceivedOnce, Arrived
<1> QED
  BY <1>6, <1>7, <1>8, <1>9, <1>10, <1>11, <1>12 DEF IInv

LEMMA ReadySentKeeps ==
    ASSUME IInv, NEW m \in Messages, ReadySent(m)
    PROVE  IInv'
<1>0. TypeOK
  BY DEF IInv
<1>1. EndsInOrder /\ NotSentUntouched /\ BuffersKept /\ ReceivedOnce /\ missed \in BOOLEAN
  BY DEF IInv, TypeOK
<1>3. /\ Starts(rcq, "sent", m) /\ rcq' = Rest(rcq) /\ UNCHANGED beforeReceiver
      /\ UNCHANGED <<known, pendingReceives, toSender, recvBuffers, delivered, missed>>
  BY DEF ReadySent, CompleteReceive, Starts, Rest
<1>4. UNCHANGED <<spc, inflight, pendingSends, closed, scq, sqp, toReceiver, unacked, content, broken>>
  BY <1>3 DEF beforeReceiver, senderVars
<1>5. \A l, n : At(rcq', l, n) # 0 => At(rcq, l, n) # 0
  BY <1>3, ReceiverTakes
<1>6. TypeOK'
  BY <1>0, <1>3, <1>4, ReceiverTakes DEF TypeOK
<1>7. OneToken' /\ TokensFit' /\ Crowds'
  BY <1>1, <1>3, <1>6, ReceiverTakesOnly
<1>8. Holders' /\ AnnouncedOnce' /\ WriteBehind' /\ Woken'
  BY <1>3, SenderKept
<1>9. EndsInOrder'
  BY <1>1, <1>3, <1>4, <1>5 DEF EndsInOrder
<1>10. NotSentUntouched'
  BY <1>1, <1>3, <1>4, <1>5 DEF NotSentUntouched, Untouched, Arrived
<1>11. BuffersKept'
  <2>1. Count(rcq', Prep) = Count(rcq, Prep) /\ Count(rcq', Writes) = Count(rcq, Writes)
    BY <1>3, ReceiverTakes
  <2>2. Count(rcq', Posted) = Count(rcq, Posted)
    BY <1>0, <1>6, <2>1, PostedSum DEF TypeOK
  <2> QED
    BY <1>1, <1>3, <1>4, <2>2 DEF BuffersKept, Intact
<1>12. ReceivedOnce'
  BY <1>1, <1>3, <1>4, <1>5 DEF ReceivedOnce, Arrived
<1> QED
  BY <1>6, <1>7, <1>8, <1>9, <1>10, <1>11, <1>12 DEF IInv

LEMMA ReceiverCloseKeeps ==
    ASSUME IInv, NEW m \in Messages, ReceiverClose(m)
    PROVE  IInv'
<1>0. TypeOK
  BY DEF IInv
<1>1. EndsInOrder /\ NotSentUntouched /\ ReceivedOnce /\ missed \in BOOLEAN
  BY DEF IInv, TypeOK
<1>3. /\ Starts(rcq, "error", m) /\ rcq' = Rest(rcq) /\ UNCHANGED beforeReceiver
      /\ UNCHANGED <<toSender, recvBuffers, delivered, missed>>
      /\ known' \in {"coming", "registered", "gone"}
      /\ pendingReceives' \subseteq pendingReceives
  BY <1>0 DEF ReceiverClose, CompleteReceive, Starts, Rest, TypeOK
<1>4. UNCHANGED <<spc, inflight, pendingSends, closed, scq, sqp, toReceiver, unacked, content, broken>>
  BY <1>3 DEF beforeReceiver, senderVars
<1>5. /\ \A l, n : At(rcq', l, n) # 0 => At(rcq, l, n) # 0
      /\ At(rcq, "error", m) # 0
  BY <1>3, ReceiverTakes
<1>6. TypeOK'
  BY <1>0, <1>3, <1>4, ReceiverTakes DEF TypeOK
<1>7. OneToken' /\ TokensFit' /\ Crowds'
  BY <1>1, <1>3, <1>6, ReceiverTakesOnly
<1>8. Holders' /\ AnnouncedOnce' /\ WriteBehind' /\ Woken'
  BY <1>3, SenderKept
<1>9. broken
  BY <1>1, <1>5 DEF EndsInOrder
<1>10. EndsInOrder'
  BY <1>1, <1>3, <1>4, <1>5, <1>9 DEF EndsInOrder
<1>11. NotSentUntouched'
  BY <1>1, <1>3, <1>4, <1>5 DEF NotSentUntouched, Untouched, Arrived
<1>12. BuffersKept'
  BY <1>4, <1>9 DEF BuffersKept, Intact
<1>13. ReceivedOnce'
  BY <1>1, <1>3, <1>4, <1>5 DEF ReceivedOnce, Arrived
<1> QED
  BY <1>6, <1>7, <1>8, <1>10, <1>11, <1>12, <1>13 DEF IInv

LEMMA PassUpKeeps ==
    ASSUME IInv, NEW m \in Messages, PassUp(m)
    PROVE  IInv'
<1>0. TypeOK
  BY DEF IInv
<1>1. EndsInOrder /\ NotSentUntouched /\ BuffersKept /\ ReceivedOnce /\ missed \in BOOLEAN
  BY DEF IInv, TypeOK
<1>2. /\ Starts(rcq, "write", m) /\ rcq' = Rest(rcq) /\ UNCHANGED beforeReceiver
      /\ UNCHANGED <<known, toSender, missed>>
      /\ pendingReceives' = pendingReceives \ {m} /\ recvBuffers' = recvBuffers + 1
      /\ delivered' = IF m \in pendingReceives THEN Append(delivered, <<m, content[m]>>) ELSE delivered
  BY DEF PassUp, CompleteReceive, Starts, Rest
<1>3. UNCHANGED <<spc, inflight, pendingSends, closed, scq, sqp, toReceiver, unacked, content, broken>>
  BY <1>2 DEF beforeReceiver, senderVars
<1>4. /\ \A l, n : At(rcq', l, n) # 0 => At(rcq, l, n) # 0
      /\ At(rcq, "write", m) # 0
  BY <1>2, ReceiverTakes
<1>5. spc[m] = "sent" /\ content[m] = "full"
  BY <1>1, <1>4, TokenSent DEF ReceivedOnce
<1>6. /\ delivered' \in Seq(Messages \X {"full"})
      /\ Arrived' \subseteq Arrived \cup ({m} \cap pendingReceives)
  <2>1. delivered \in Seq(Messages \X {"full"})
    BY <1>0 DEF TypeOK
  <2>2. CASE m \in pendingReceives
    <3>1. delivered' = Put(delivered, m, "full")
      BY <1>2, <1>5, <2>2 DEF Put
    <3>2. <<m, "full">> \in Messages \X {"full"}
      OBVIOUS
    <3>3. delivered' \in Seq(Messages \X {"full"})
      BY <2>1, <3>1, <3>2 DEF Put
    <3>4. Arrived' = Arrived \cup {m}
      BY <2>1, <3>1, <3>2, ArrivedAppend DEF Arrived
    <3> QED
      BY <2>2, <3>3, <3>4
  <2>3. CASE m \notin pendingReceives
    BY <1>2, <2>1, <2>3 DEF Arrived
  <2> QED
    BY <2>2, <2>3
<1>7. TypeOK'
  BY <1>0, <1>2, <1>3, <1>6, ReceiverTakes DEF TypeOK
<1>8. OneToken' /\ TokensFit' /\ Crowds'
  BY <1>1, <1>2, <1>7, ReceiverTakesOnly
<1>9. Holders' /\ AnnouncedOnce' /\ WriteBehind' /\ Woken'
  BY <1>2, SenderKept
<1>10. EndsInOrder'
  BY <1>1, <1>2, <1>3, <1>4 DEF EndsInOrder
<1>11. NotSentUntouched'
  <2> SUFFICES ASSUME NEW n \in Messages, spc[n] # "sent" PROVE Untouched(n)'
    BY <1>3 DEF NotSentUntouched
  <2>1. n # m /\ Untouched(n)
    BY <1>1, <1>5 DEF NotSentUntouched
  <2> QED
    BY <1>2, <1>3, <1>4, <1>6, <2>1 DEF Untouched
<1>12. BuffersKept'
  <2>1. Count(rcq', Prep) = Count(rcq, Prep) /\ Count(rcq', Writes) = Count(rcq, Writes) - 1
    BY <1>2, ReceiverTakes
  <2>2. Count(rcq', Posted) = Count(rcq, Posted) - 1 /\ Count(rcq, Posted) \in Nat
    <3>1. /\ Count(rcq, Posted) = Count(rcq, Prep) + Count(rcq, Writes)
          /\ Count(rcq', Posted) = Count(rcq', Prep) + Count(rcq', Writes)
      BY <1>0, <1>7, PostedSum DEF TypeOK
    <3> QED
      BY <1>0, <2>1, <3>1, Counts
  <2>3. recvBuffers \in Nat
    BY <1>0 DEF TypeOK
  <2>4. recvBuffers' + Count(rcq', Posted) = recvBuffers + Count(rcq, Posted)
    BY <1>2, <2>2, <2>3
  <2> QED
    BY <1>1, <1>2, <1>3, <2>4 DEF BuffersKept, Intact
<1>13. ReceivedOnce'
  <2> SUFFICES ASSUME NEW n \in Messages
               PROVE  /\ n \in pendingReceives' \/ n \in Arrived' =>
                             At(toReceiver', "prepare", n) = 0 /\ At(rcq', "prepare", n) = 0
                      /\ n \in pendingReceives' => n \notin Arrived'
                      /\ At(rcq', "write", n) # 0 => content'[n] = "full"
    BY DEF ReceivedOnce
  <2>1. /\ n \in pendingReceives \/ n \in Arrived =>
               At(toReceiver, "prepare", n) = 0 /\ At(rcq, "prepare", n) = 0
        /\ n \in pendingReceives => n \notin Arrived
        /\ At(rcq, "write", n) # 0 => content[n] = "full"
    BY <1>1 DEF ReceivedOnce
  <2> QED
    BY <1>2, <1>3, <1>4, <1>6, <2>1
<1> QED
  BY <1>7, <1>8, <1>9, <1>10, <1>11, <1>12, <1>13 DEF IInv

LEMMA PrepareKeeps ==
    ASSUME IInv, NEW m \in Messages, Prepare(m)
    PROVE  IInv'
<1>0. TypeOK
  BY DEF IInv
<1>1. /\ EndsInOrder /\ NotSentUntouched /\ OneToken /\ TokensFit /\ Crowds /\ BuffersKept
      /\ ReceivedOnce /\ SqDepth \in Nat
  BY RoceAssumption DEF IInv
<1>2. /\ Starts(rcq, "prepare", m) /\ rcq' = Rest(rcq) /\ UNCHANGED beforeReceiver
      /\ UNCHANGED <<known, delivered, missed>> /\ recvBuffers' = recvBuffers + 1
  BY DEF Prepare, CompleteReceive, Starts, Rest
<1>3. UNCHANGED <<spc, inflight, pendingSends, closed, scq, sqp, toReceiver, unacked, content, broken>>
  BY <1>2 DEF beforeReceiver, senderVars
<1>4. /\ Count(rcq', Prep) = Count(rcq, Prep) - 1 /\ Count(rcq', Writes) = Count(rcq, Writes)
      /\ At(rcq', "prepare", m) = At(rcq, "prepare", m) - 1
      /\ At(rcq, "prepare", m) \in Nat \ {0}
      /\ \A n \in Messages \ {m} : At(rcq', "prepare", n) = At(rcq, "prepare", n)
      /\ \A n \in Messages : /\ At(rcq', "write", n) = At(rcq, "write", n)
                             /\ At(rcq', "error", n) = At(rcq, "error", n)
  BY <1>2, ReceiverTakes
<1>5. ReceiverQueued < SqDepth
  <2>1. ReceiverQueued + Count(rcq, Prep) <= SqDepth
    BY Room
  <2>2. Count(rcq, Prep) # 0
    BY <1>0, <1>2, First DEF TypeOK
  <2> QED
    BY <1>0, <1>1, <2>1, <2>2, Counts, QueuedType
<1>6. /\ pendingReceives' = pendingReceives \cup {m}
      /\ toSender' = Put(toSender, "ready", m) /\ <<"ready", m>> \in Ready
  BY <1>5, Kinds DEF Prepare, Put
<1>7. toSender \in Seq(Ready) /\ toSender' \in Seq(Ready)
  BY <1>0, <1>6, Appended DEF TypeOK
<1>8. /\ Count(toSender', Ready) = Count(toSender, Ready) + 1
      /\ At(toSender', "ready", m) = At(toSender, "ready", m) + 1
      /\ \A n \in Messages \ {m} : At(toSender', "ready", n) = At(toSender, "ready", n)
  BY <1>6, <1>7, Appended, AppendedAt
<1>9. spc[m] = "sent"
  BY <1>4, TokenSent
<1>10. TypeOK'
  BY <1>0, <1>2, <1>3, <1>6, <1>7, ReceiverTakes DEF TypeOK
<1>11. Holders' /\ AnnouncedOnce' /\ WriteBehind' /\ Woken'
  BY <1>2, SenderKept
<1>12. EndsInOrder'
  BY <1>1, <1>2, <1>3, <1>4 DEF EndsInOrder
<1>13. NotSentUntouched'
  <2> SUFFICES ASSUME NEW n \in Messages, spc[n] # "sent" PROVE Untouched(n)'
    BY <1>3 DEF NotSentUntouched
  <2>1. n # m /\ Untouched(n)
    BY <1>1, <1>9 DEF NotSentUntouched
  <2> QED
    BY <1>2, <1>3, <1>4, <1>6, <1>8, <2>1 DEF Untouched, Arrived
<1>14. OneToken'
  <2>1. \A n \in Messages \ {m} : Tokens(n)' = Tokens(n)
    BY <1>3, <1>4, <1>8 DEF Tokens, InQueues
  <2>2. InQueues(m)' = InQueues(m)
    BY <1>0, <1>3, <1>4, <1>8, TokenPlaces DEF InQueues
  <2>3. Tokens(m)' = Tokens(m)
    BY <1>3, <2>2 DEF Tokens
  <2> QED
    BY <1>1, <1>2, <1>3, <2>1, <2>3 DEF OneToken, Intact
<1>15. TokensFit'
  <2>1. InAllQueues' = InAllQueues
    BY <1>0, <1>3, <1>4, <1>8, Counts DEF InAllQueues
  <2> QED
    BY <1>1, <1>3, <2>1 DEF TokensFit, AllTokens, Posting
<1>16. Crowds'
  <2>1. Head(rcq) \in Prep /\ rcq # <<>> /\ rcq' = Tail(rcq)
    BY <1>2, Kinds DEF Starts, Rest
  <2>2. InBuffers' = InBuffers + 1 /\ InBuffers \in Nat
    BY <1>0, <1>3, <1>8, Counts DEF InBuffers
  <2>3. /\ Count(toSender, Ready)' <= Count(toSender, Ready) + 1
        /\ InBuffers' <= InBuffers + 1
    BY <1>0, <1>8, <2>2, Counts
  <2> QED
    BY <1>0, <1>1, <1>10, <2>1, <2>3, CrowdsTail
<1>17. BuffersKept'
  <2>1. Count(rcq', Posted) = Count(rcq, Posted) - 1 /\ Count(rcq, Posted) \in Nat
    <3>1. /\ Count(rcq, Posted) = Count(rcq, Prep) + Count(rcq, Writes)
          /\ Count(rcq', Posted) = Count(rcq', Prep) + Count(rcq', Writes)
      BY <1>0, <1>10, PostedSum DEF TypeOK
    <3> QED
      BY <1>0, <1>4, <3>1, Counts
  <2>2. recvBuffers \in Nat
    BY <1>0 DEF TypeOK
  <2>3. recvBuffers' + Count(rcq', Posted) = recvBuffers + Count(rcq, Posted)
    BY <1>2, <2>1, <2>2
  <2> QED
    BY <1>1, <1>2, <1>3, <2>3 DEF BuffersKept, Intact
<1>18. ReceivedOnce'
  <2>1. At(toReceiver, "prepare", m) = 0 /\ At(rcq, "prepare", m) = 1
    <3>1. Tokens(m) <= 1
      BY <1>1 DEF OneToken
    <3>2. InQueues(m) <= 1
      BY <1>0, <1>9, <3>1, TokenPlaces DEF Tokens
    <3>3. At(toReceiver, "prepare", m) + At(rcq, "prepare", m) <= InQueues(m)
      BY <1>0, TokenPlaces, NothingLess DEF InQueues
    <3> QED
      BY <1>0, <1>4, <3>2, <3>3, TokenPlaces
  <2>2. m \notin Arrived
    BY <1>1, <1>4 DEF ReceivedOnce
  <2>3. At(rcq', "prepare", m) = 0
    BY <1>4, <2>1
  <2> SUFFICES ASSUME NEW n \in Messages
               PROVE  /\ n \in pendingReceives' \/ n \in Arrived' =>
                             At(toReceiver', "prepare", n) = 0 /\ At(rcq', "prepare", n) = 0
                      /\ n \in pendingReceives' => n \notin Arrived'
                      /\ At(rcq', "write", n) # 0 => content'[n] = "full"
    BY DEF ReceivedOnce
  <2>4. /\ n \in pendingReceives \/ n \in Arrived =>
               At(toReceiver, "prepare", n) = 0 /\ At(rcq, "prepare", n) = 0
        /\ n \in pendingReceives => n \notin Arrived
        /\ At(rcq, "write", n) # 0 => content[n] = "full"
    BY <1>1 DEF ReceivedOnce
  <2>5. Arrived' = Arrived
    BY <1>2 DEF Arrived
  <2>6. n # m => At(rcq', "prepare", n) = At(rcq, "prepare", n)
    BY <1>4
  <2>7. At(rcq', "write", n) = At(rcq, "write", n)
    BY <1>4
  <2> QED
    BY <1>3, <1>6, <2>1, <2>2, <2>3, <2>4, <2>5, <2>6, <2>7
<1> QED
  BY <1>10, <1>11, <1>12, <1>13, <1>14, <1>15, <1>16, <1>17, <1>18 DEF IInv

LEMMA RegisterKeeps ==
    ASSUME IInv, Register
    PROVE  IInv'
<1>1. TypeOK /\ EndsInOrder
  BY DEF IInv
<1>2. UNCHANGED <<spc, inflight, pendingSends, closed, scq, sqp, toReceiver, unacked, content, broken,
                  pendingReceives, toSender, rcq, recvBuffers, delivered, missed>>
  BY DEF Register, beforeReceiver, senderVars
<1>3. TypeOK'
  BY <1>1, <1>2 DEF Register, TypeOK
<1>4. EndsInOrder'
  BY <1>1, <1>2 DEF Register, EndsInOrder
<1> QED
  BY <1>2, <1>3, <1>4, Kept DEF IInv

LEMMA BreakKeeps ==
    ASSUME IInv, Break
    PROVE  IInv'
<1>1. TypeOK /\ EndsInOrder /\ OneToken
  BY DEF IInv
<1>2. /\ UNCHANGED <<spc, inflight, pendingSends, closed, scq, sqp, toReceiver, unacked, content, known,
                     pendingReceives, toSender, rcq, recvBuffers, delivered, missed>>
      /\ broken'
  BY DEF Break, senderVars, receiverVars
<1>3. TypeOK'
  BY <1>1, <1>2 DEF TypeOK
<1>4. EndsInOrder'
  BY <1>1, <1>2 DEF EndsInOrder
<1>5. OneToken'
  BY <1>1, <1>2 DEF OneToken, Tokens, InQueues, Intact
<1>6. BuffersKept'
  BY <1>2 DEF BuffersKept, Intact
<1> QED
  BY <1>2, <1>3, <1>4, <1>5, <1>6, Kept DEF IInv

LEMMA TransferKeeps ==
    ASSUME IInv, Transfer
    PROVE  IInv'
<1>0. TypeOK
  BY DEF IInv
<1>1. /\ EndsInOrder /\ NotSentUntouched /\ OneToken /\ TokensFit /\ AnnouncedOnce
      /\ WriteBehind /\ Crowds /\ BuffersKept /\ ReceivedOnce
      /\ inflight \in Nat /\ inflight <= Credits /\ Credits \in Nat
  BY RoceAssumption DEF IInv, TypeOK
<1>2. PICK k \in {"prepare", "write"}, m \in Messages : Starts(toReceiver, k, m)
  <2>1. toReceiver \in Seq(Posted) /\ toReceiver # <<>>
    BY <1>0 DEF Transfer, TypeOK
  <2>2. Head(toReceiver) \in Posted
    BY <2>1
  <2> QED
    BY <2>1, <2>2 DEF Starts, Posted, Of
<1>3. /\ rcq' = Put(rcq, k, m) /\ unacked' = Put(unacked, k, m) /\ toReceiver' = Rest(toReceiver)
      /\ content' = IF k = "write" THEN [content EXCEPT ![m] = "full"] ELSE content
      /\ recvBuffers' = recvBuffers - 1 /\ recvBuffers > 0 /\ ~broken
  <2>1. Head(toReceiver) = <<k, m>>
    BY <1>2 DEF Starts
  <2>2. /\ rcq' = Append(rcq, Head(toReceiver)) /\ unacked' = Append(unacked, Head(toReceiver))
        /\ toReceiver' = Tail(toReceiver) /\ recvBuffers' = recvBuffers - 1 /\ recvBuffers > 0 /\ ~broken
    BY DEF Transfer
  <2>3. content' = IF k = "write" THEN [content EXCEPT ![m] = "full"] ELSE content
    <3>1. content' = IF Head(toReceiver)[1] = "write"
                       THEN [content EXCEPT ![Head(toReceiver)[2]] = "full"] ELSE content
      BY DEF Transfer
    <3>2. Head(toReceiver)[1] = k /\ Head(toReceiver)[2] = m
      BY <2>1
    <3> QED
      BY <3>1, <3>2, Zenon
  <2> QED
    BY <2>1, <2>2, <2>3 DEF Put, Rest
<1>4. UNCHANGED <<spc, inflight, pendingSends, closed, scq, sqp, toSender, broken, known,
                  pendingReceives, delivered, missed>>
  BY DEF Transfer, senderVars
<1>5. <<k, m>> \in Posted /\ <<k, m>> \in ForReceiver
  BY Kinds
<1>6. toReceiver \in Seq(Posted) /\ unacked \in Seq(Posted) /\ rcq \in Seq(ForReceiver)
  BY <1>0 DEF TypeOK
<1>7. toReceiver' \in Seq(Posted) /\ unacked' \in Seq(Posted) /\ rcq' \in Seq(ForReceiver)
  BY <1>2, <1>3, <1>5, <1>6, Appended, Removed
<1>8. /\ k = "prepare" => /\ Count(toReceiver', Prep) = Count(toReceiver, Prep) - 1
                          /\ Count(unacked', Prep) = Count(unacked, Prep) + 1
                          /\ Count(rcq', Prep) = Count(rcq, Prep) + 1
                          /\ Count(toReceiver', Writes) = Count(toReceiver, Writes)
                          /\ Count(unacked', Writes) = Count(unacked, Writes)
                          /\ Count(rcq', Writes) = Count(rcq, Writes)
      /\ k = "write" => /\ Count(toReceiver', Writes) = Count(toReceiver, Writes) - 1
                        /\ Count(unacked', Writes) = Count(unacked, Writes) + 1
                        /\ Count(rcq', Writes) = Count(rcq, Writes) + 1
                        /\ Count(toReceiver', Prep) = Count(toReceiver, Prep)
                        /\ Count(unacked', Prep) = Count(unacked, Prep)
                        /\ Count(rcq', Prep) = Count(rcq, Prep)
  BY <1>2, <1>3, <1>5, <1>6, Appended, Removed
<1>9. /\ At(toReceiver', k, m) = At(toReceiver, k, m) - 1 /\ At(toReceiver, k, m) \in Nat \ {0}
      /\ At(unacked', k, m) = At(unacked, k, m) + 1 /\ At(unacked, k, m) \in Nat
      /\ At(rcq', k, m) = At(rcq, k, m) + 1 /\ At(rcq, k, m) \in Nat
      /\ \A l, n : l # k \/ n # m => /\ At(toReceiver', l, n) = At(toReceiver, l, n)
                                     /\ At(unacked', l, n) = At(unacked, l, n)
                                     /\ At(rcq', l, n) = At(rcq, l, n)
  BY <1>2, <1>3, <1>5, <1>6, AppendedAt, RemovedAt, First
<1>10. spc[m] = "sent"
  BY <1>1, <1>9 DEF NotSentUntouched, Untouched
<1>11. sqp = "RTS" /\ ~closed
  BY <1>0, <1>1, <1>2 DEF EndsInOrder, TypeOK, Starts
<1>12. content' \in [Messages -> {"empty", "full"}] /\ recvBuffers' \in Nat
  BY <1>0, <1>3 DEF TypeOK
<1>13. TypeOK'
  BY <1>0, <1>4, <1>7, <1>12 DEF TypeOK
<1>14. EndsInOrder'
  BY <1>1, <1>4, <1>9, <1>11 DEF EndsInOrder
<1>15. NotSentUntouched'
  <2> SUFFICES ASSUME NEW n \in Messages, spc[n] # "sent" PROVE Untouched(n)'
    BY <1>4 DEF NotSentUntouched
  <2>1. n # m /\ Untouched(n)
    BY <1>1, <1>10 DEF NotSentUntouched
  <2> QED
    BY <1>4, <1>9, <2>1 DEF Untouched, Arrived
<1>16. Holders' /\ Woken'
  BY <1>4, Kept
<1>17. OneToken'
  <2>1. \A n \in Messages \ {m} : Tokens(n)' = Tokens(n)
    BY <1>4, <1>9 DEF Tokens, InQueues
  <2>2. InQueues(m)' = InQueues(m)
    <3>1. CASE k = "prepare"
      <4>1. /\ At(toReceiver', "prepare", m) = At(toReceiver, "prepare", m) - 1
            /\ At(rcq', "prepare", m) = At(rcq, "prepare", m) + 1
            /\ At(toReceiver', "write", m) = At(toReceiver, "write", m)
            /\ At(unacked', "write", m) = At(unacked, "write", m)
        BY <1>9, <3>1
      <4> QED
        BY <1>0, <1>4, <4>1, TokenPlaces DEF InQueues
    <3>2. CASE k = "write"
      <4>1. /\ At(toReceiver', "write", m) = At(toReceiver, "write", m) - 1
            /\ At(unacked', "write", m) = At(unacked, "write", m) + 1
            /\ At(toReceiver', "prepare", m) = At(toReceiver, "prepare", m)
            /\ At(rcq', "prepare", m) = At(rcq, "prepare", m)
        BY <1>9, <3>2
      <4>2. /\ At(toSender', "ready", m) = At(toSender, "ready", m)
            /\ At(scq', "ready", m) = At(scq, "ready", m) /\ At(scq', "write", m) = At(scq, "write", m)
        BY <1>4
      <4>3. /\ At(toReceiver, "prepare", m) \in Nat /\ At(toReceiver, "write", m) \in Nat
            /\ At(rcq, "prepare", m) \in Nat /\ At(toSender, "ready", m) \in Nat
            /\ At(scq, "ready", m) \in Nat /\ At(scq, "write", m) \in Nat
            /\ At(unacked, "write", m) \in Nat
        BY <1>0, TokenPlaces
      <4> QED
        BY <4>1, <4>2, <4>3 DEF InQueues
    <3> QED
      BY <3>1, <3>2
  <2>3. Tokens(m)' = Tokens(m)
    BY <1>4, <2>2 DEF Tokens
  <2> QED
    BY <1>1, <1>4, <2>1, <2>3 DEF OneToken, Intact
<1>18. TokensFit'
  <2>1. InAllQueues' = InAllQueues
    <3>1. CASE k = "prepare"
      BY <1>0, <1>4, <1>8, <3>1, Counts DEF InAllQueues
    <3>2. CASE k = "write"
      BY <1>0, <1>4, <1>8, <3>2, Counts DEF InAllQueues
    <3> QED
      BY <3>1, <3>2
  <2> QED
    BY <1>1, <1>4, <2>1 DEF TokensFit, AllTokens, Posting
<1>19. AnnouncedOnce'
  <2>1. Announcements' = Announcements
    BY <1>0, <1>4, <1>8, Counts DEF Announcements
  <2>2. \A n \in Messages \ {m} : Announced(n)' = Announced(n)
    BY <1>4, <1>9 DEF Announced
  <2>3. Announced(m)' = Announced(m)
    <3>1. CASE k = "prepare"
      BY <1>0, <1>4, <1>9, <3>1, TokenPlaces DEF Announced
    <3>2. CASE k = "write"
      BY <1>4, <1>9, <3>2 DEF Announced
    <3> QED
      BY <3>1, <3>2
  <2>4. AnnouncedSet' = AnnouncedSet
    BY <2>2, <2>3 DEF AnnouncedSet
  <2> QED
    BY <1>1, <1>4, <2>1, <2>2, <2>3, <2>4 DEF AnnouncedOnce
<1>20. WriteBehind'
  <2> SUFFICES ASSUME NEW n \in Messages PROVE InTurn(n)'
    BY DEF WriteBehind
  <2>1. InTurn(n) /\ InTurn(m)
    BY <1>1, <1>11 DEF WriteBehind
  <2>2. Behind(toReceiver', <<"write", n>>, <<"prepare", n>>)
    BY <1>2, <1>3, <1>6, <2>1, BehindRest DEF InTurn
  <2>3. Behind(unacked', <<"write", n>>, <<"prepare", n>>)
    <3>1. k = "prepare" /\ n = m => ~In(unacked, <<"write", n>>)
      BY <1>6, <1>9, <2>1, AtType DEF InTurn
    <3> QED
      BY <1>3, <1>5, <1>6, <2>1, <3>1, BehindPut DEF InTurn
  <2>4. k = "write" => At(toReceiver, "prepare", m) = 0
    BY <1>2, <1>6, <2>1, BehindRest, AtType DEF InTurn
  <2>5. ASSUME At(scq, "write", n) # 0
        PROVE  At(unacked', "prepare", n) = 0 /\ At(toReceiver', "prepare", n) = 0
    <3>1. At(unacked, "prepare", n) = 0 /\ At(toReceiver, "prepare", n) = 0
      BY <2>1, <2>5 DEF InTurn
    <3>2. k # "prepare" \/ n # m
      BY <1>9, <3>1
    <3> QED
      BY <1>9, <3>1, <3>2
  <2>6. ASSUME At(unacked', "write", n) # 0 PROVE At(toReceiver', "prepare", n) = 0
    <3>1. CASE k = "write" /\ n = m
      BY <1>9, <2>4, <3>1
    <3>2. CASE k # "write" \/ n # m
      <4>1. At(toReceiver, "prepare", n) = 0
        BY <1>9, <2>1, <2>6, <3>2 DEF InTurn
      <4>2. k # "prepare" \/ n # m
        BY <1>9, <4>1
      <4> QED
        BY <1>9, <4>1, <4>2
    <3> QED
      BY <3>1, <3>2
  <2> QED
    BY <1>4, <2>1, <2>2, <2>3, <2>5, <2>6 DEF InTurn
<1>21. Crowds'
  <2>1. <<k, m>> \notin Sent /\ (<<k, m>> \in Writes <=> k = "write")
    BY Kinds
  <2> DEFINE w == <<k, m>>
             s == IF w \in Sent THEN 1 ELSE 0
             v == IF w \in Writes THEN 1 ELSE 0
  <2>2. AllTokens <= Credits
    BY <1>0, <1>1, Totals DEF TokensFit
  <2>3. Count(toSender, Ready)' + s <= Count(toSender, Ready)
    BY <1>0, <1>4, <2>1, Counts
  <2>4. InBuffers' + v <= InBuffers
    <3>1. CASE k = "write"
      <4>1. v = 1
        BY <2>1, <3>1
      <4> HIDE DEF v
      <4> QED
        BY <1>0, <1>4, <1>8, <3>1, <4>1, Counts DEF InBuffers
    <3>2. CASE k = "prepare"
      <4>1. v = 0
        BY <2>1, <3>2
      <4> HIDE DEF v
      <4> QED
        BY <1>0, <1>4, <1>8, <3>2, <4>1, Counts DEF InBuffers
    <3> QED
      BY <3>1, <3>2
  <2>5. rcq' = Append(rcq, w)
    BY <1>3 DEF Put
  <2>6. w \in ForReceiver
    BY <1>5
  <2> HIDE DEF w
  <2> QED
    BY <1>0, <1>1, <1>13, <2>2, <2>3, <2>4, <2>5, <2>6, CrowdsAppend
<1>22. BuffersKept'
  <2>1. Count(rcq', Posted) = Count(rcq, Posted) + 1 /\ Count(rcq, Posted) \in Nat
    <3>1. /\ Count(rcq, Posted) = Count(rcq, Prep) + Count(rcq, Writes)
          /\ Count(rcq', Posted) = Count(rcq', Prep) + Count(rcq', Writes)
      BY <1>6, <1>7, PostedSum
    <3> QED
      BY <1>0, <1>8, <3>1, Counts
  <2>2. recvBuffers \in Nat
    BY <1>0 DEF TypeOK
  <2>3. recvBuffers' + Count(rcq', Posted) = recvBuffers + Count(rcq, Posted)
    BY <1>3, <2>1, <2>2
  <2> QED
    BY <1>1, <1>4, <2>3 DEF BuffersKept, Intact
<1>23. ReceivedOnce'
  <2> SUFFICES ASSUME NEW n \in Messages
               PROVE  /\ n \in pendingReceives' \/ n \in Arrived' =>
                             At(toReceiver', "prepare", n) = 0 /\ At(rcq', "prepare", n) = 0
                      /\ n \in pendingReceives' => n \notin Arrived'
                      /\ At(rcq', "write", n) # 0 => content'[n] = "full"
    BY DEF ReceivedOnce
  <2>1. /\ n \in pendingReceives \/ n \in Arrived =>
               At(toReceiver, "prepare", n) = 0 /\ At(rcq, "prepare", n) = 0
        /\ n \in pendingReceives => n \notin Arrived
        /\ At(rcq, "write", n) # 0 => content[n] = "full"
    BY <1>1 DEF ReceivedOnce
  <2>2. Arrived' = Arrived
    BY <1>4 DEF Arrived
  <2>3. /\ content[n] = "full" => content'[n] = "full"
        /\ k = "write" /\ n = m => content'[n] = "full"
    BY <1>0, <1>3 DEF TypeOK
  <2>4. At(toReceiver, "prepare", n) = 0 => k # "prepare" \/ n # m
    BY <1>9
  <2> QED
    BY <1>4, <1>9, <2>1, <2>2, <2>3, <2>4
<1> QED
  BY <1>13, <1>14, <1>15, <1>16, <1>17, <1>18, <1>19, <1>20, <1>21, <1>22, <1>23 DEF IInv

LEMMA AcknowledgeKeeps ==
    ASSUME IInv, Acknowledge
    PROVE  IInv'
<1>0. TypeOK
  BY DEF IInv
<1>1. /\ EndsInOrder /\ NotSentUntouched /\ OneToken /\ TokensFit /\ AnnouncedOnce
      /\ WriteBehind /\ Crowds
  BY DEF IInv
<1>2. PICK k \in {"prepare", "write"}, m \in Messages : Starts(unacked, k, m)
  <2>1. unacked \in Seq(Posted) /\ unacked # <<>>
    BY <1>0 DEF Acknowledge, TypeOK
  <2>2. Head(unacked) \in Posted
    BY <2>1
  <2> QED
    BY <2>1, <2>2 DEF Starts, Posted, Of
<1>3. scq' = Put(scq, k, m) /\ unacked' = Rest(unacked)
  <2>1. Head(unacked) = <<k, m>>
    BY <1>2 DEF Starts
  <2> QED
    BY <2>1 DEF Acknowledge, Put, Rest
<1>4. UNCHANGED <<spc, inflight, pendingSends, closed, sqp, toReceiver, toSender, content, broken,
                  known, pendingReceives, rcq, recvBuffers, delivered, missed>>
  BY DEF Acknowledge, receiverVars
<1>5. <<k, m>> \in Posted /\ <<k, m>> \in ForSender
  BY Kinds
<1>6. unacked \in Seq(Posted) /\ scq \in Seq(ForSender) /\ toReceiver \in Seq(Posted)
  BY <1>0 DEF TypeOK
<1>7. unacked' \in Seq(Posted) /\ scq' \in Seq(ForSender)
  BY <1>2, <1>3, <1>5, <1>6, Appended, Removed
<1>8. /\ k = "prepare" => /\ Count(unacked', Prep) = Count(unacked, Prep) - 1
                          /\ Count(scq', Prep) = Count(scq, Prep) + 1
                          /\ Count(unacked', Writes) = Count(unacked, Writes)
                          /\ Count(scq', Writes) = Count(scq, Writes)
      /\ k = "write" => /\ Count(unacked', Writes) = Count(unacked, Writes) - 1
                        /\ Count(scq', Writes) = Count(scq, Writes) + 1
                        /\ Count(unacked', Prep) = Count(unacked, Prep)
                        /\ Count(scq', Prep) = Count(scq, Prep)
      /\ Count(scq', Ready) = Count(scq, Ready)
  BY <1>2, <1>3, <1>5, <1>6, Appended, Removed
<1>9. /\ At(unacked', k, m) = At(unacked, k, m) - 1 /\ At(unacked, k, m) \in Nat \ {0}
      /\ At(scq', k, m) = At(scq, k, m) + 1 /\ At(scq, k, m) \in Nat
      /\ \A l, n : l # k \/ n # m => /\ At(unacked', l, n) = At(unacked, l, n)
                                     /\ At(scq', l, n) = At(scq, l, n)
  BY <1>2, <1>3, <1>5, <1>6, AppendedAt, RemovedAt, First
<1>10. spc[m] = "sent"
  BY <1>1, <1>9 DEF NotSentUntouched, Untouched
<1>11. sqp = "RTS" /\ ~closed
  BY <1>0, <1>1, <1>2 DEF EndsInOrder, TypeOK, Starts
<1>12. TypeOK'
  BY <1>0, <1>4, <1>7 DEF TypeOK
<1>13. EndsInOrder'
  BY <1>1, <1>4, <1>9, <1>11 DEF EndsInOrder
<1>14. NotSentUntouched'
  <2> SUFFICES ASSUME NEW n \in Messages, spc[n] # "sent" PROVE Untouched(n)'
    BY <1>4 DEF NotSentUntouched
  <2>1. n # m /\ Untouched(n)
    BY <1>1, <1>10 DEF NotSentUntouched
  <2> QED
    BY <1>4, <1>9, <2>1 DEF Untouched, Arrived
<1>15. OneToken'
  <2>1. \A n \in Messages \ {m} : Tokens(n)' = Tokens(n)
    BY <1>4, <1>9 DEF Tokens, InQueues
  <2>2. InQueues(m)' = InQueues(m)
    <3>1. CASE k = "prepare"
      BY <1>4, <1>9, <3>1 DEF InQueues
    <3>2. CASE k = "write"
      <4>1. /\ At(unacked', "write", m) = At(unacked, "write", m) - 1
            /\ At(scq', "write", m) = At(scq, "write", m) + 1
            /\ At(scq', "ready", m) = At(scq, "ready", m)
        BY <1>9, <3>2
      <4> QED
        BY <1>0, <1>4, <4>1, TokenPlaces DEF InQueues
    <3> QED
      BY <3>1, <3>2
  <2>3. Tokens(m)' = Tokens(m)
    BY <1>4, <2>2 DEF Tokens
  <2> QED
    BY <1>1, <1>4, <2>1, <2>3 DEF OneToken, Intact
<1>16. TokensFit'
  <2>1. InAllQueues' = InAllQueues
    <3>1. CASE k = "prepare"
      BY <1>4, <1>8, <3>1 DEF InAllQueues
    <3>2. CASE k = "write"
      BY <1>0, <1>4, <1>8, <3>2, Counts DEF InAllQueues
    <3> QED
      BY <3>1, <3>2
  <2> QED
    BY <1>1, <1>4, <2>1 DEF TokensFit, AllTokens, Posting
<1>17. AnnouncedOnce'
  <2>1. Announcements' = Announcements
    BY <1>0, <1>4, <1>8, Counts DEF Announcements
  <2>2. \A n \in Messages \ {m} : Announced(n)' = Announced(n)
    BY <1>4, <1>9 DEF Announced
  <2>3. Announced(m)' = Announced(m)
    <3>1. CASE k = "prepare"
      BY <1>0, <1>4, <1>9, <3>1, TokenPlaces DEF Announced
    <3>2. CASE k = "write"
      BY <1>4, <1>9, <3>2 DEF Announced
    <3> QED
      BY <3>1, <3>2
  <2>4. AnnouncedSet' = AnnouncedSet
    BY <2>2, <2>3 DEF AnnouncedSet
  <2> QED
    BY <1>1, <1>4, <2>1, <2>2, <2>3, <2>4 DEF AnnouncedOnce
<1>18. WriteBehind'
  <2> SUFFICES ASSUME NEW n \in Messages PROVE InTurn(n)'
    BY DEF WriteBehind
  <2>1. InTurn(n) /\ InTurn(m)
    BY <1>1, <1>11 DEF WriteBehind
  <2>2. Behind(unacked', <<"write", n>>, <<"prepare", n>>)
    BY <1>2, <1>3, <1>6, <2>1, BehindRest DEF InTurn
  <2>3. Behind(scq', <<"write", n>>, <<"prepare", n>>)
    <3>1. k = "prepare" /\ n = m => ~In(scq, <<"write", n>>)
      BY <1>6, <1>9, <2>1, AtType DEF InTurn
    <3> QED
      BY <1>3, <1>5, <1>6, <2>1, <3>1, BehindPut DEF InTurn
  <2>4. k = "write" => At(unacked, "prepare", m) = 0
    BY <1>2, <1>6, <2>1, BehindRest, AtType DEF InTurn
  <2>5. ASSUME At(scq', "write", n) # 0
        PROVE  At(unacked', "prepare", n) = 0 /\ At(toReceiver, "prepare", n) = 0
    <3>1. CASE k = "write" /\ n = m
      BY <1>9, <2>1, <2>4, <3>1 DEF InTurn
    <3>2. CASE k # "write" \/ n # m
      <4>1. At(unacked, "prepare", n) = 0 /\ At(toReceiver, "prepare", n) = 0
        BY <1>9, <2>1, <2>5, <3>2 DEF InTurn
      <4>2. k # "prepare" \/ n # m
        BY <1>9, <4>1
      <4> QED
        BY <1>9, <4>1, <4>2
    <3> QED
      BY <3>1, <3>2
  <2>6. ASSUME At(unacked', "write", n) # 0 PROVE At(toReceiver, "prepare", n) = 0
    <3>1. At(unacked, "write", n) # 0
      BY <1>9, <2>6
    <3> QED
      BY <2>1, <3>1 DEF InTurn
  <2> QED
    BY <1>4, <2>1, <2>2, <2>3, <2>5, <2>6 DEF InTurn
<1>19. Crowds'
  <2>1. InBuffers' = InBuffers /\ Count(toSender, Ready)' = Count(toSender, Ready)
    BY <1>4, <1>8 DEF InBuffers
  <2>2. InBuffers \in Nat /\ Count(toSender, Ready) \in Nat
    BY <1>0, Counts DEF InBuffers
  <2>3. InBuffers' <= InBuffers /\ Count(toSender, Ready)' <= Count(toSender, Ready)
    BY <2>1, <2>2
  <2> QED
    BY <1>0, <1>1, <1>4, <1>12, <2>3, CrowdsSame
<1> QED
  BY <1>4, <1>12, <1>13, <1>14, <1>15, <1>16, <1>17, <1>18, <1>19, Kept DEF IInv

LEMMA TransferBackKeeps ==
    ASSUME IInv, TransferBack
    PROVE  IInv'
<1>0. TypeOK
  BY DEF IInv
<1>1. /\ EndsInOrder /\ NotSentUntouched /\ OneToken /\ TokensFit /\ AnnouncedOnce
      /\ WriteBehind /\ Crowds /\ BuffersKept /\ ReceivedOnce
      /\ inflight \in Nat /\ inflight <= Credits /\ Credits \in Nat
  BY RoceAssumption DEF IInv, TypeOK
<1>2. PICK m \in Messages : Starts(toSender, "ready", m)
  <2>1. toSender \in Seq(Ready) /\ toSender # <<>>
    BY <1>0 DEF TransferBack, TypeOK
  <2>2. Head(toSender) \in Ready
    BY <2>1
  <2> QED
    BY <2>1, <2>2 DEF Starts, Ready, Of
<1>3. scq' = Put(scq, "ready", m) /\ rcq' = Put(rcq, "sent", m) /\ toSender' = Rest(toSender)
  <2>1. Head(toSender)[2] = m
    BY <1>2 DEF Starts
  <2> QED
    BY <2>1 DEF TransferBack, Put, Rest
<1>4. UNCHANGED <<spc, inflight, pendingSends, closed, sqp, toReceiver, unacked, content, broken,
                  known, pendingReceives, recvBuffers, delivered, missed>>
  BY DEF TransferBack
<1>5. <<"ready", m>> \in ForSender /\ <<"sent", m>> \in ForReceiver
  BY Kinds
<1>6. toSender \in Seq(Ready) /\ scq \in Seq(ForSender) /\ rcq \in Seq(ForReceiver)
  BY <1>0 DEF TypeOK
<1>7. toSender' \in Seq(Ready) /\ scq' \in Seq(ForSender) /\ rcq' \in Seq(ForReceiver)
  BY <1>2, <1>3, <1>5, <1>6, Appended, Removed
<1>8. /\ Count(toSender', Ready) = Count(toSender, Ready) - 1
      /\ Count(scq', Ready) = Count(scq, Ready) + 1
      /\ Count(scq', Prep) = Count(scq, Prep) /\ Count(scq', Writes) = Count(scq, Writes)
      /\ Count(rcq', Prep) = Count(rcq, Prep) /\ Count(rcq', Writes) = Count(rcq, Writes)
  BY <1>2, <1>3, <1>5, <1>6, Appended, Removed
<1>9. /\ At(toSender', "ready", m) = At(toSender, "ready", m) - 1
      /\ At(toSender, "ready", m) \in Nat \ {0}
      /\ At(scq', "ready", m) = At(scq, "ready", m) + 1 /\ At(scq, "ready", m) \in Nat
      /\ \A l, n : l # "ready" \/ n # m => /\ At(toSender', l, n) = At(toSender, l, n)
                                           /\ At(scq', l, n) = At(scq, l, n)
      /\ \A l, n : l # "sent" \/ n # m => At(rcq', l, n) = At(rcq, l, n)
  BY <1>2, <1>3, <1>5, <1>6, AppendedAt, RemovedAt, First
<1>10. /\ \A n \in Messages \ {m} : /\ At(toSender', "ready", n) = At(toSender, "ready", n)
                                    /\ At(scq', "ready", n) = At(scq, "ready", n)
       /\ \A n \in Messages : /\ At(scq', "prepare", n) = At(scq, "prepare", n)
                              /\ At(scq', "write", n) = At(scq, "write", n)
                              /\ At(scq', "error", n) = At(scq, "error", n)
                              /\ At(rcq', "prepare", n) = At(rcq, "prepare", n)
                              /\ At(rcq', "write", n) = At(rcq, "write", n)
                              /\ At(rcq', "error", n) = At(rcq, "error", n)
  BY <1>9
<1>11. spc[m] = "sent"
  BY <1>1, <1>9 DEF NotSentUntouched, Untouched
<1>12. TypeOK'
  BY <1>0, <1>4, <1>7 DEF TypeOK
<1>13. EndsInOrder'
  BY <1>1, <1>4, <1>10 DEF EndsInOrder
<1>14. NotSentUntouched'
  <2> SUFFICES ASSUME NEW n \in Messages, spc[n] # "sent" PROVE Untouched(n)'
    BY <1>4 DEF NotSentUntouched
  <2>1. n # m /\ Untouched(n)
    BY <1>1, <1>11 DEF NotSentUntouched
  <2> QED
    BY <1>4, <1>10, <2>1 DEF Untouched, Arrived
<1>15. OneToken'
  <2>1. \A n \in Messages \ {m} : Tokens(n)' = Tokens(n)
    BY <1>4, <1>10 DEF Tokens, InQueues
  <2>2. InQueues(m)' = InQueues(m)
    BY <1>0, <1>4, <1>9, <1>10, TokenPlaces DEF InQueues
  <2>3. Tokens(m)' = Tokens(m)
    BY <1>4, <2>2 DEF Tokens
  <2> QED
    BY <1>1, <1>4, <2>1, <2>3 DEF OneToken, Intact
<1>16. TokensFit'
  <2>1. InAllQueues' = InAllQueues
    BY <1>0, <1>4, <1>8, Counts DEF InAllQueues
  <2> QED
    BY <1>1, <1>4, <2>1 DEF TokensFit, AllTokens, Posting
<1>17. AnnouncedOnce'
  <2>1. Announcements' = Announcements
    BY <1>4, <1>8 DEF Announcements
  <2>2. \A n \in Messages : Announced(n)' = Announced(n)
    BY <1>4, <1>10 DEF Announced
  <2>3. AnnouncedSet' = AnnouncedSet
    BY <2>2 DEF AnnouncedSet
  <2> QED
    BY <1>1, <1>4, <2>1, <2>2, <2>3 DEF AnnouncedOnce
<1>18. WriteBehind'
  <2> SUFFICES ASSUME ~closed, NEW n \in Messages PROVE InTurn(n)'
    BY <1>4 DEF WriteBehind
  <2>1. InTurn(n)
    BY <1>1 DEF WriteBehind
  <2>2. Behind(scq', <<"write", n>>, <<"prepare", n>>)
    BY <1>3, <1>5, <1>6, <2>1, BehindPut DEF InTurn
  <2> QED
    BY <1>4, <1>10, <2>1, <2>2 DEF InTurn
<1>19. Crowds'
  <2> DEFINE w == <<"sent", m>>
             s == IF w \in Sent THEN 1 ELSE 0
             v == IF w \in Writes THEN 1 ELSE 0
  <2>1. s = 1 /\ v = 0 /\ w \in ForReceiver
    BY <1>5, Kinds
  <2>2. rcq' = Append(rcq, w)
    BY <1>3 DEF Put
  <2> HIDE DEF w
  <2>3. AllTokens <= Credits
    BY <1>0, <1>1, Totals DEF TokensFit
  <2>4. Count(toSender, Ready)' + s <= Count(toSender, Ready)
    <3> HIDE DEF s
    <3> QED
      BY <1>0, <1>8, <2>1, Counts
  <2>5. InBuffers' + v <= InBuffers
    <3> HIDE DEF v
    <3> QED
      BY <1>0, <1>4, <1>8, <2>1, Counts DEF InBuffers
  <2> QED
    BY <1>0, <1>1, <1>12, <2>1, <2>2, <2>3, <2>4, <2>5, CrowdsAppend
<1>20. BuffersKept'
  <2>1. Count(rcq', Posted) = Count(rcq, Posted)
    BY <1>6, <1>7, <1>8, PostedSum
  <2> QED
    BY <1>1, <1>4, <2>1 DEF BuffersKept, Intact
<1>21. ReceivedOnce'
  BY <1>1, <1>4, <1>10 DEF ReceivedOnce, Arrived
<1> QED
  BY <1>4, <1>12, <1>13, <1>14, <1>15, <1>16, <1>17, <1>18, <1>19, <1>20, <1>21, Kept DEF IInv

LEMMA OnlyOne ==
    ASSUME NEW S, IsFiniteSet(S), Cardinality(S) <= 1, NEW i \in S, NEW j \in S
    PROVE  i = j
<1>1. Cardinality(S) \in Nat /\ Cardinality(S) # 0
  BY FS_EmptySet, FS_CardinalityType
<1>2. Cardinality(S) = 1
  BY <1>1
<1>3. \E x : S = {x}
  BY <1>2, FS_Singleton, Zenon
<1> QED
  BY <1>3

(* Announcements that are in a queue once each, counted by message.        *)
LEMMA OnceEach ==
    ASSUME NEW T, NEW q \in Seq(T), \A n \in Messages : At(q, "prepare", n) <= 1
    PROVE  Count(q, Prep) = Cardinality({n \in Messages : At(q, "prepare", n) = 1})
<1> DEFINE A == {i \in DOMAIN q : q[i] \in Prep}
           B == {n \in Messages : At(q, "prepare", n) = 1}
           P(n) == {i \in DOMAIN q : q[i] \in {<<"prepare", n>>}}
           f == [i \in A |-> q[i][2]]
<1>1. \A n : IsFiniteSet(P(n)) /\ At(q, "prepare", n) = Cardinality(P(n)) /\ Cardinality(P(n)) \in Nat
  BY PlacesFinite DEF At, Count
<1>2. \A i \in A : f[i] \in Messages /\ i \in P(f[i])
  BY DEF Prep, Of
<1>3. \A n \in Messages : P(n) # {} => n \in B
  <2> SUFFICES ASSUME NEW n \in Messages, P(n) # {} PROVE Cardinality(P(n)) = 1
    BY <1>1
  <2>1. Cardinality(P(n)) # 0
    BY <1>1, FS_EmptySet
  <2> HIDE DEF P
  <2> QED
    BY <1>1, <2>1
<1>4. f \in [A -> B]
  BY <1>2, <1>3
<1>5. ASSUME NEW i \in A, NEW j \in A, f[i] = f[j] PROVE i = j
  <2> DEFINE n == f[i]
  <2>1. n \in Messages /\ i \in P(n) /\ j \in P(n)
    BY <1>2, <1>5
  <2>2. Cardinality(P(n)) <= 1
    BY <1>1, <2>1
  <2> HIDE DEF P, n
  <2> QED
    BY <1>1, <2>1, <2>2, OnlyOne
<1>6. ASSUME NEW n \in B PROVE \E i \in A : f[i] = n
  <2>1. P(n) # {}
    <3>1. Cardinality(P(n)) = 1
      BY <1>1
    <3> HIDE DEF P
    <3> QED
      BY <1>1, <3>1, FS_EmptySet
  <2>2. PICK i \in DOMAIN q : q[i] = <<"prepare", n>>
    BY <2>1
  <2>3. i \in A
    BY <2>2, Kinds
  <2> QED
    BY <2>2, <2>3
<1>7. f \in Bijection(A, B)
  BY <1>4, <1>5, <1>6 DEF Bijection, Injection, Surjection, IsInjective
<1>8. ExistsBijection(A, B) /\ IsFiniteSet(A)
  BY <1>7, PlacesFinite DEF ExistsBijection
<1>9. Count(q, Prep) = Cardinality(A)
  BY DEF Count
<1> HIDE DEF A, B
<1> QED
  BY <1>8, <1>9, FS_Bijection DEF B

(* When queues are emptied no message has more steps on its way.           *)
LEMMA FewerTokens ==
    ASSUME TypeOK, TypeOK', OneToken, TokensFit, broken',
           UNCHANGED <<spc, inflight, closed, pendingSends>>,
           \A n \in Messages : InQueues(n)' <= InQueues(n), InAllQueues' <= InAllQueues
    PROVE  OneToken' /\ TokensFit'
<1>0. /\ toReceiver' \in Seq(Posted) /\ unacked' \in Seq(Posted) /\ toSender' \in Seq(Ready)
      /\ scq' \in Seq(ForSender) /\ rcq' \in Seq(ForReceiver)
  BY DEF TypeOK
<1>1. \A n \in Messages : InQueues(n) \in Nat /\ InQueues(n)' \in Nat
  <2> SUFFICES ASSUME NEW n \in Messages PROVE InQueues(n)' \in Nat
    BY TokenPlaces
  <2>1. /\ At(toReceiver', "prepare", n) \in Nat /\ At(toReceiver', "write", n) \in Nat
        /\ At(rcq', "prepare", n) \in Nat /\ At(toSender', "ready", n) \in Nat
        /\ At(scq', "ready", n) \in Nat /\ At(scq', "write", n) \in Nat
        /\ At(unacked', "write", n) \in Nat
    BY <1>0, AtType
  <2> QED
    BY <2>1 DEF InQueues
<1>2. OneToken'
  <2> SUFFICES ASSUME NEW n \in Messages
               PROVE  Tokens(n)' <= 1 /\ (Tokens(n)' = 1 /\ ~closed => n \in pendingSends)
    BY DEF OneToken, Intact
  <2>1. Tokens(n) <= 1 /\ (Tokens(n) = 1 /\ ~closed => n \in pendingSends)
    BY DEF OneToken
  <2>2. Tokens(n)' <= Tokens(n) /\ Tokens(n)' \in Nat /\ Tokens(n) \in Nat
    BY <1>1 DEF Tokens
  <2> QED
    BY <2>1, <2>2
<1>3. TokensFit'
  <2>0. InAllQueues' \in Nat
    <3>1. /\ Count(toReceiver', Prep) \in Nat /\ Count(toReceiver', Writes) \in Nat
          /\ Count(rcq', Prep) \in Nat /\ Count(toSender', Ready) \in Nat
          /\ Count(scq', Ready) \in Nat /\ Count(scq', Writes) \in Nat
          /\ Count(unacked', Writes) \in Nat
      BY <1>0, CountType
    <3> QED
      BY <3>1 DEF InAllQueues
  <2>1. InAllQueues' + Cardinality(Posting) <= InAllQueues + Cardinality(Posting)
    <3>1. InAllQueues \in Nat /\ Cardinality(Posting) \in Nat
      BY Totals, Counts
    <3> QED
      BY <2>0, <3>1
  <2>2. InAllQueues + Cardinality(Posting) <= inflight /\ inflight \in Nat
        /\ InAllQueues + Cardinality(Posting) \in Nat
    BY Totals DEF TokensFit, AllTokens, TypeOK
  <2>3. InAllQueues' + Cardinality(Posting) \in Int
    BY <2>0, Counts
  <2>4. Posting' = Posting
    BY DEF Posting
  <2> QED
    BY <2>1, <2>2, <2>3, <2>4 DEF TokensFit, AllTokens
<1> QED
  BY <1>2, <1>3

LEMMA ReceiverFailsKeeps ==
    ASSUME IInv, ReceiverFails
    PROVE  IInv'
<1>0. TypeOK
  BY DEF IInv
<1>1. /\ EndsInOrder /\ NotSentUntouched /\ OneToken /\ TokensFit /\ Crowds /\ ReceivedOnce
      /\ inflight \in Nat /\ inflight <= Credits /\ Credits \in Nat
  BY RoceAssumption DEF IInv, TypeOK
<1>2. PICK m \in Messages : rcq' = Put(rcq, "error", m)
  <2>1. toSender \in Seq(Ready) /\ toSender # <<>>
    BY <1>0 DEF ReceiverFails, TypeOK
  <2>2. Head(toSender) \in Ready
    BY <2>1
  <2>3. Head(toSender)[2] \in Messages
    BY <2>2 DEF Ready, Of
  <2> QED
    BY <2>3 DEF ReceiverFails, Put
<1>3. /\ toSender' = <<>> /\ broken /\ UNCHANGED beforeReceiver
      /\ UNCHANGED <<known, pendingReceives, recvBuffers, delivered, missed>>
  BY DEF ReceiverFails, beforeReceiver
<1>4. UNCHANGED <<spc, inflight, pendingSends, closed, scq, sqp, toReceiver, unacked, content, broken>>
  BY <1>3 DEF beforeReceiver, senderVars
<1>5. <<"error", m>> \in ForReceiver
  BY Kinds
<1>6. rcq \in Seq(ForReceiver) /\ rcq' \in Seq(ForReceiver)
  BY <1>0, <1>2, <1>5, Appended DEF TypeOK
<1>7. Count(rcq', Prep) = Count(rcq, Prep) /\ Count(rcq', Writes) = Count(rcq, Writes)
  BY <1>2, <1>5, <1>6, Appended
<1>8. \A n \in Messages : At(rcq', "prepare", n) = At(rcq, "prepare", n)
                          /\ At(rcq', "write", n) = At(rcq, "write", n)
  BY <1>2, <1>5, <1>6, AppendedAt
<1>9. Count(toSender', Ready) = 0 /\ \A n : At(toSender', "ready", n) = 0
  BY <1>3, Emptied
<1>10. toSender' \in Seq(Ready)
  BY <1>3
<1>11. TypeOK'
  BY <1>0, <1>3, <1>4, <1>6, <1>10 DEF TypeOK
<1>12. EndsInOrder'
  BY <1>1, <1>3, <1>4 DEF EndsInOrder
<1>13. NotSentUntouched'
  <2> SUFFICES ASSUME NEW n \in Messages, spc[n] # "sent" PROVE Untouched(n)'
    BY <1>4 DEF NotSentUntouched
  <2>1. Untouched(n)
    BY <1>1 DEF NotSentUntouched
  <2> QED
    BY <1>3, <1>4, <1>8, <1>9, <2>1 DEF Untouched, Arrived
<1>14. Holders' /\ AnnouncedOnce' /\ WriteBehind' /\ Woken'
  BY <1>3, SenderKept
<1>15. OneToken' /\ TokensFit'
  <2>1. \A n \in Messages : InQueues(n)' <= InQueues(n)
    BY <1>0, <1>4, <1>8, <1>9, TokenPlaces DEF InQueues
  <2>2. InAllQueues' <= InAllQueues
    BY <1>0, <1>4, <1>7, <1>9, Counts DEF InAllQueues
  <2> QED
    BY <1>0, <1>1, <1>3, <1>4, <1>11, <2>1, <2>2, FewerTokens
<1>16. Crowds'
  <2> DEFINE w == <<"error", m>>
             s == IF w \in Sent THEN 1 ELSE 0
             v == IF w \in Writes THEN 1 ELSE 0
  <2>1. s = 0 /\ v = 0 /\ w \in ForReceiver
    BY <1>5, Kinds
  <2>2. rcq' = Append(rcq, w)
    BY <1>2 DEF Put
  <2> HIDE DEF w
  <2>3. AllTokens <= Credits
    BY <1>0, <1>1, Totals DEF TokensFit
  <2>4. Count(toSender, Ready)' + s <= Count(toSender, Ready)
    <3> HIDE DEF s
    <3> QED
      BY <1>0, <1>9, <2>1, Counts
  <2>5. InBuffers' + v <= InBuffers
    <3> HIDE DEF v
    <3> QED
      BY <1>0, <1>4, <1>9, <2>1, Counts DEF InBuffers
  <2> QED
    BY <1>0, <1>1, <1>11, <2>1, <2>2, <2>3, <2>4, <2>5, CrowdsAppend
<1>17. BuffersKept'
  BY <1>3, <1>4 DEF BuffersKept, Intact
<1>18. ReceivedOnce'
  BY <1>1, <1>3, <1>4, <1>8 DEF ReceivedOnce, Arrived
<1> QED
  BY <1>11, <1>12, <1>13, <1>14, <1>15, <1>16, <1>17, <1>18 DEF IInv

LEMMA SenderFailsKeeps ==
    ASSUME IInv, SenderFails
    PROVE  IInv'
<1>0. TypeOK
  BY DEF IInv
<1>1. /\ EndsInOrder /\ NotSentUntouched /\ OneToken /\ TokensFit /\ AnnouncedOnce
      /\ WriteBehind /\ Crowds /\ ReceivedOnce /\ Credits \in Nat
  BY RoceAssumption DEF IInv
<1>2. PICK m \in Messages : scq' = Put(scq, "error", m)
  <2>1. toReceiver \o unacked \in Seq(Posted) /\ toReceiver \o unacked # <<>>
    BY <1>0 DEF SenderFails, TypeOK
  <2>2. Head(toReceiver \o unacked) \in Posted
    BY <2>1
  <2>3. Head(toReceiver \o unacked)[2] \in Messages
    BY <2>2 DEF Posted, Of
  <2> QED
    BY <2>3 DEF SenderFails, Put
<1>3. toReceiver' = <<>> /\ unacked' = <<>> /\ broken /\ sqp = "RTS" /\ sqp' = "ERR"
  BY DEF SenderFails
<1>4. UNCHANGED <<spc, inflight, pendingSends, closed, toSender, content, broken,
                  known, pendingReceives, rcq, recvBuffers, delivered, missed>>
  BY DEF SenderFails, receiverVars
<1>5. <<"error", m>> \in ForSender
  BY Kinds
<1>6. scq \in Seq(ForSender) /\ scq' \in Seq(ForSender)
  BY <1>0, <1>2, <1>5, Appended DEF TypeOK
<1>7. /\ Count(scq', Prep) = Count(scq, Prep) /\ Count(scq', Writes) = Count(scq, Writes)
      /\ Count(scq', Ready) = Count(scq, Ready)
  BY <1>2, <1>5, <1>6, Appended
<1>8. \A n : /\ At(scq', "prepare", n) = At(scq, "prepare", n)
             /\ At(scq', "write", n) = At(scq, "write", n)
             /\ At(scq', "ready", n) = At(scq, "ready", n)
  BY <1>2, <1>5, <1>6, AppendedAt
<1>9. /\ \A S : Count(toReceiver', S) = 0 /\ Count(unacked', S) = 0
      /\ \A k, n : At(toReceiver', k, n) = 0 /\ At(unacked', k, n) = 0
      /\ \A u, v : Behind(toReceiver', u, v) /\ Behind(unacked', u, v)
  BY <1>3, Emptied
<1>10. toReceiver' \in Seq(Posted) /\ unacked' \in Seq(Posted)
  BY <1>3
<1>11. ~closed
  BY <1>1, <1>3 DEF EndsInOrder
<1>12. TypeOK'
  BY <1>0, <1>3, <1>4, <1>6, <1>10 DEF TypeOK
<1>13. EndsInOrder'
  BY <1>1, <1>3, <1>4 DEF EndsInOrder
<1>14. NotSentUntouched'
  <2> SUFFICES ASSUME NEW n \in Messages, spc[n] # "sent" PROVE Untouched(n)'
    BY <1>4 DEF NotSentUntouched
  <2>1. Untouched(n)
    BY <1>1 DEF NotSentUntouched
  <2> QED
    BY <1>4, <1>8, <1>9, <2>1 DEF Untouched, Arrived
<1>15. OneToken' /\ TokensFit'
  <2>1. \A n \in Messages : InQueues(n)' <= InQueues(n)
    <3> SUFFICES ASSUME NEW n \in Messages PROVE InQueues(n)' <= InQueues(n)
      OBVIOUS
    <3>1. /\ At(toReceiver', "prepare", n) = 0 /\ At(toReceiver', "write", n) = 0
          /\ At(unacked', "write", n) = 0
      BY <1>9
    <3> QED
      BY <1>0, <1>4, <1>8, <3>1, TokenPlaces DEF InQueues
  <2>2. InAllQueues' <= InAllQueues
    <3>1. Count(toReceiver', Prep) = 0 /\ Count(toReceiver', Writes) = 0 /\ Count(unacked', Writes) = 0
      BY <1>9
    <3> QED
      BY <1>0, <1>4, <1>7, <3>1, Counts DEF InAllQueues
  <2> QED
    BY <1>0, <1>1, <1>3, <1>4, <1>12, <2>1, <2>2, FewerTokens
<1>16. AnnouncedOnce'
  <2>1. \A n \in Messages : Announced(n)' = At(scq, "prepare", n) /\ At(scq, "prepare", n) <= Announced(n)
    <3> SUFFICES ASSUME NEW n \in Messages
                 PROVE  Announced(n)' = At(scq, "prepare", n) /\ At(scq, "prepare", n) <= Announced(n)
      OBVIOUS
    <3>1. At(toReceiver', "prepare", n) = 0 /\ At(unacked', "prepare", n) = 0
      BY <1>9
    <3> QED
      BY <1>0, <1>8, <3>1, TokenPlaces DEF Announced
  <2>2. \A n \in Messages : At(scq, "prepare", n) <= 1 /\ At(scq, "prepare", n) \in Nat /\ Announced(n) \in Nat
    BY <1>0, <1>1, <2>1, TokenPlaces DEF AnnouncedOnce
  <2>3. Announcements' = Count(scq, Prep) /\ Count(scq, Prep) <= Announcements /\ Announcements \in Nat
    <3>1. Count(toReceiver', Prep) = 0 /\ Count(unacked', Prep) = 0
      BY <1>9
    <3> QED
      BY <1>0, <1>7, <3>1, Counts DEF Announcements
  <2>4. AnnouncedSet' = {n \in Messages : At(scq, "prepare", n) = 1}
    BY <2>1 DEF AnnouncedSet
  <2>5. Announcements' = Cardinality(AnnouncedSet')
    BY <1>6, <2>2, <2>3, <2>4, OnceEach
  <2>6. AnnouncedSet' \subseteq AnnouncedSet
    <3> SUFFICES ASSUME NEW n \in Messages, At(scq, "prepare", n) = 1 PROVE Announced(n) = 1
      BY <2>4 DEF AnnouncedSet
    <3>1. Announced(n) <= 1 /\ 1 <= Announced(n) /\ Announced(n) \in Nat
      BY <1>1, <2>1, <2>2 DEF AnnouncedOnce
    <3> QED
      BY <3>1
  <2>7. Announcements' <= Credits
    BY <1>0, <1>1, <2>3, Counts DEF AnnouncedOnce
  <2> QED
    BY <1>1, <1>4, <2>1, <2>2, <2>5, <2>6, <2>7 DEF AnnouncedOnce
<1>17. WriteBehind'
  <2> SUFFICES ASSUME NEW n \in Messages PROVE InTurn(n)'
    BY DEF WriteBehind
  <2>1. InTurn(n)
    BY <1>1, <1>11 DEF WriteBehind
  <2>2. Behind(scq', <<"write", n>>, <<"prepare", n>>)
    BY <1>2, <1>5, <1>6, <2>1, BehindPut DEF InTurn
  <2> QED
    BY <1>9, <2>2 DEF InTurn
<1>18. Crowds'
  <2>1. /\ InBuffers' <= InBuffers
        /\ Count(toSender, Ready)' <= Count(toSender, Ready)
    <3>1. Count(toReceiver', Writes) = 0
      BY <1>9
    <3> QED
      BY <1>0, <1>4, <1>7, <3>1, Counts DEF InBuffers
  <2> QED
    BY <1>0, <1>1, <1>4, <1>12, <2>1, CrowdsSame
<1>19. BuffersKept'
  BY <1>3, <1>4 DEF BuffersKept, Intact
<1>20. ReceivedOnce'
  BY <1>1, <1>4, <1>9 DEF ReceivedOnce, Arrived
<1> QED
  BY <1>4, <1>12, <1>13, <1>14, <1>15, <1>16, <1>17, <1>18, <1>19, <1>20, Kept DEF IInv

LEMMA InitHolds == Init => IInv
<1> SUFFICES ASSUME Init PROVE IInv
  OBVIOUS
<1>1. /\ spc = [m \in Messages |-> "ready"] /\ inflight = 0 /\ pendingSends = {} /\ closed = FALSE
      /\ sqp = "RTS" /\ known = "coming" /\ pendingReceives = {} /\ recvBuffers = RqDepth
      /\ content = [m \in Messages |-> "empty"] /\ broken = FALSE /\ missed = FALSE
  BY DEF Init
<1>2. toReceiver = <<>> /\ unacked = <<>> /\ scq = <<>> /\ toSender = <<>> /\ rcq = <<>> /\ delivered = <<>>
  BY DEF Init
<1>3. /\ \A S : /\ Count(toReceiver, S) = 0 /\ Count(unacked, S) = 0 /\ Count(scq, S) = 0
                /\ Count(toSender, S) = 0 /\ Count(rcq, S) = 0
      /\ \A k, n : /\ At(toReceiver, k, n) = 0 /\ At(unacked, k, n) = 0 /\ At(scq, k, n) = 0
                   /\ At(toSender, k, n) = 0 /\ At(rcq, k, n) = 0
      /\ \A u, v : Behind(toReceiver, u, v) /\ Behind(unacked, u, v) /\ Behind(scq, u, v)
  BY <1>2, Emptied
<1>4. Arrived = {}
  <2>1. ToSet(delivered) = {}
    BY <1>2 DEF ToSet
  <2> QED
    BY <2>1 DEF Arrived, Firsts
<1>5. /\ Credits \in Nat \ {0} /\ RqDepth \in Nat
      /\ IsFiniteSet({}) /\ Cardinality({}) = 0
  BY RoceAssumption, FS_EmptySet
<1>6. TypeOK
  <2>1. /\ toReceiver \in Seq(Posted) /\ unacked \in Seq(Posted) /\ toSender \in Seq(Ready)
        /\ scq \in Seq(ForSender) /\ rcq \in Seq(ForReceiver) /\ delivered \in Seq(Messages \X {"full"})
    BY <1>2
  <2>2. /\ spc \in [Messages -> {"ready", "enqueue", "blocked", "post", "sent",
                               "reconnect", "dropped"}]
        /\ content \in [Messages -> {"empty", "full"}] /\ inflight \in 0..Credits
    BY <1>1, <1>5
  <2> QED
    BY <1>1, <1>5, <2>1, <2>2 DEF TypeOK
<1>7. EndsInOrder /\ NotSentUntouched /\ ReceivedOnce
  BY <1>1, <1>3, <1>4 DEF EndsInOrder, NotSentUntouched, Untouched, ReceivedOnce
<1>8. Holders /\ Woken
  BY <1>1, <1>5 DEF Holders, Woken, Blocked
<1>9. OneToken
  <2>1. \A m \in Messages : InQueues(m) = 0
    BY <1>3 DEF InQueues
  <2>2. \A m \in Messages : Tokens(m) = 0
    BY <1>1, <2>1 DEF Tokens
  <2> QED
    BY <1>1, <2>2 DEF OneToken
<1>10. TokensFit
  <2>1. Posting = {}
    BY <1>1 DEF Posting
  <2>2. InAllQueues = 0
    BY <1>3 DEF InAllQueues
  <2> QED
    BY <1>1, <1>5, <2>1, <2>2 DEF TokensFit, AllTokens
<1>11. AnnouncedOnce
  <2>1. \A m \in Messages : Announced(m) = 0
    BY <1>3 DEF Announced
  <2>2. AnnouncedSet = {}
    BY <2>1 DEF AnnouncedSet
  <2>3. Announcements = 0
    BY <1>3 DEF Announcements
  <2> QED
    BY <1>5, <2>1, <2>2, <2>3 DEF AnnouncedOnce
<1>12. WriteBehind
  BY <1>3 DEF WriteBehind, InTurn
<1>13. Crowds
  <2>1. Len(rcq) = 0
    BY <1>2
  <2> QED
    BY <2>1 DEF Crowds
<1>14. BuffersKept
  BY <1>1, <1>3, <1>5 DEF BuffersKept
<1> QED
  BY <1>6, <1>7, <1>8, <1>9, <1>10, <1>11, <1>12, <1>13, <1>14 DEF IInv

(* The invariant survives every step, with or without a lost connection.   *)
LEMMA NextKeeps == IInv /\ [Next]_vars => IInv'
<1> SUFFICES ASSUME IInv, [Next]_vars PROVE IInv'
  OBVIOUS
<1>1. ASSUME NEW m \in Messages, SendStep(m) PROVE IInv'
  BY <1>1, LookUpKeeps, TakeCreditKeeps, PostPrepareKeeps DEF SendStep
<1>2. CASE SenderPoll
  BY <1>2, PrepareSentKeeps, WriteDoneKeeps, WriteKeeps, SenderCloseKeeps DEF SenderPoll
<1>3. CASE ReceiverPoll
  BY <1>3, UnknownQPKeeps, PrepareKeeps, PassUpKeeps, ReadySentKeeps, ReceiverCloseKeeps
     DEF ReceiverPoll
<1>4. CASE Register
  BY <1>4, RegisterKeeps
<1>5. CASE Hardware
  BY <1>5, TransferKeeps, AcknowledgeKeeps, TransferBackKeeps, SenderFailsKeeps, ReceiverFailsKeeps
     DEF Hardware
<1>6. CASE Break
  BY <1>6, BreakKeeps
<1>7. CASE UNCHANGED vars
  <2>1. UNCHANGED <<spc, inflight, pendingSends, closed, scq, sqp, toReceiver, unacked, toSender,
                    content, broken, known, pendingReceives, rcq, recvBuffers, delivered, missed>>
    BY <1>7 DEF vars, senderVars, receiverVars
  <2>2. TypeOK'
    BY <2>1 DEF IInv, TypeOK
  <2> QED
    BY <2>1, <2>2, Kept DEF IInv
<1> QED
  BY <1>1, <1>2, <1>3, <1>4, <1>5, <1>6, <1>7 DEF Next

(* The invariant holds in every reachable state.                           *)
THEOREM InvariantHolds == Spec => []IInv
<1>1. Init => IInv
  BY InitHolds
<1>2. IInv /\ [Next]_vars => IInv'
  BY NextKeeps
<1> QED
  BY <1>1, <1>2, PTL DEF Spec

(* The variables of both channels have their types; in particular no more  *)
(* than Credits messages are in flight, and whatever was passed up is full.*)
THEOREM TypeCorrect == Spec => []TypeOK
<1>1. IInv => TypeOK
  BY DEF IInv
<1> QED
  BY <1>1, InvariantHolds, PTL

(* A credit taken by enqueue_send comes back: on an intact connection each *)
(* message in pending_sends has exactly one next step, in a queue of the   *)
(* two queue pairs or in its thread, and no other message has one.         *)
THEOREM CreditsReturn == Spec => []CreditsComeBack
<1>1. IInv => CreditsComeBack
  <2> SUFFICES ASSUME IInv, Intact
               PROVE  /\ inflight = Cardinality(pendingSends)
                      /\ \A m \in Messages : Tokens(m) = IF m \in pendingSends THEN 1 ELSE 0
    BY DEF CreditsComeBack
  <2>1. TypeOK /\ EndsInOrder /\ Holders /\ OneToken
    BY DEF IInv
  <2>2. ~closed
    BY <2>1 DEF EndsInOrder, Intact
  <2>3. ASSUME NEW m \in Messages
        PROVE  Tokens(m) = IF m \in pendingSends THEN 1 ELSE 0
    <3>1. /\ Tokens(m) <= 1 /\ (Tokens(m) = 1 => m \in pendingSends)
          /\ m \in pendingSends => Tokens(m) = 1
      BY <2>1, <2>2 DEF OneToken
    <3>2. Tokens(m) \in Nat
      BY <2>1, TokenPlaces
    <3> QED
      BY <3>1, <3>2
  <2> QED
    BY <2>1, <2>2, <2>3 DEF Holders
<1> QED
  BY <1>1, InvariantHolds, PTL

(* No thread waits on the condition variable of a channel that is closed,  *)
(* or while a credit is free and nobody was woken to take it.              *)
THEOREM NobodyStranded == Spec => []NoSenderStranded
<1>1. IInv => NoSenderStranded
  <2> SUFFICES ASSUME IInv, Blocked # {}
               PROVE  ~closed /\ (inflight = Credits \/ Waking # {})
    BY DEF NoSenderStranded, Waking
  <2>1. TypeOK /\ Woken
    BY DEF IInv
  <2>2. inflight \in Nat /\ inflight <= Credits /\ Credits \in Nat
    BY <2>1, RoceAssumption DEF TypeOK
  <2>3. ~closed /\ inflight + Cardinality(Waking) >= Credits
    BY <2>1 DEF Woken
  <2>4. Waking = {} => Cardinality(Waking) = 0
    BY FS_EmptySet
  <2> QED
    BY <2>2, <2>3, <2>4
<1> QED
  BY <1>1, InvariantHolds, PTL

(* Two posts for each credit always fit: neither send queue overflows, and *)
(* the receiver has a buffer for whatever the hardware brings.             *)
THEOREM QueuesAreDeepEnough == Spec => []QueuesSuffice
<1>1. IInv => QueuesSuffice
  BY Room DEF QueuesSuffice, Posting, Ready, Prep
<1> QED
  BY <1>1, InvariantHolds, PTL

----------------------------------------------------------------------------
(* The channel implements MessageDelivery.                                 *)

Called == {m \in Messages : spc[m] # "ready"}

LEMMA CalledGrows ==
    ASSUME NEW m \in Messages, LookUp(m), TypeOK
    PROVE  m \notin Called /\ Called' = Called \cup {m}
<1>1. spc[m] = "ready" /\ spc'[m] # "ready" /\ \A n \in Messages \ {m} : spc'[n] = spc[n]
  BY DEF LookUp, TypeOK
<1> QED
  BY <1>1 DEF Called

LEMMA CalledStays ==
    ASSUME TypeOK,
           \/ UNCHANGED spc
           \/ \E m \in Messages : TakeCredit(m) \/ PostPrepare(m)
           \/ NotifyOne
           \/ \E m \in Messages : SenderClose(m)
    PROVE  Called' = Called
<1>0. spc \in [Messages -> {"ready", "enqueue", "blocked", "post", "sent", "reconnect", "dropped"}]
  BY DEF TypeOK
<1>1. CASE UNCHANGED spc
  BY <1>1 DEF Called
<1>2. ASSUME NEW m \in Messages, TakeCredit(m) \/ PostPrepare(m) PROVE Called' = Called
  <2>1. spc[m] # "ready" /\ spc'[m] # "ready" /\ \A n \in Messages \ {m} : spc'[n] = spc[n]
    BY <1>0, <1>2 DEF TakeCredit, PostPrepare
  <2> QED
    BY <2>1 DEF Called
<1>3. CASE NotifyOne
  <2>1. \A n \in Messages : spc'[n] = "ready" <=> spc[n] = "ready"
    BY <1>0, <1>3 DEF NotifyOne, Blocked
  <2> QED
    BY <2>1 DEF Called
<1>4. ASSUME NEW m \in Messages, SenderClose(m) PROVE Called' = Called
  <2>1. \A n \in Messages : spc'[n] = "ready" <=> spc[n] = "ready"
    BY <1>0, <1>4 DEF SenderClose
  <2> QED
    BY <2>1 DEF Called
<1> QED
  BY <1>1, <1>2, <1>3, <1>4

LEMMA SenderPollStutters ==
    ASSUME IInv, SenderPoll
    PROVE  Called' = Called /\ UNCHANGED <<delivered, broken, missed>>
<1>1. PICK m \in Messages : PrepareSent(m) \/ WriteDone(m) \/ Write(m) \/ SenderClose(m)
  BY DEF SenderPoll
<1>2. UNCHANGED beforeSender
  BY <1>1 DEF PrepareSent, WriteDone, Write, SenderClose
<1>3. UNCHANGED <<delivered, broken, missed>>
  BY <1>2 DEF beforeSender, receiverVars
<1>4. UNCHANGED spc \/ NotifyOne \/ SenderClose(m)
  BY <1>1 DEF PrepareSent, WriteDone, Write
<1> QED
  BY <1>3, <1>4, CalledStays DEF IInv

LEMMA PassUpArrives ==
    ASSUME IInv, NEW m \in Messages, PassUp(m)
    PROVE  /\ Called' = Called /\ UNCHANGED <<broken, missed>>
           /\ \/ UNCHANGED delivered
              \/ /\ m \in Called /\ m \notin Arrived
                 /\ delivered' = Append(delivered, <<m, "full">>)
<1>1. /\ Starts(rcq, "write", m) /\ UNCHANGED beforeReceiver /\ UNCHANGED missed
      /\ delivered' = IF m \in pendingReceives THEN Append(delivered, <<m, content[m]>>) ELSE delivered
  BY DEF PassUp, CompleteReceive, Starts
<1>2. At(rcq, "write", m) # 0
  <2>1. rcq \in Seq(ForReceiver)
    BY DEF IInv, TypeOK
  <2> QED
    BY <1>1, <2>1, First
<1>3. spc[m] = "sent" /\ content[m] = "full" /\ (m \in pendingReceives => m \notin Arrived)
  BY <1>2, TokenSent DEF IInv, ReceivedOnce
<1>4. UNCHANGED <<spc, broken>>
  BY <1>1 DEF beforeReceiver, senderVars
<1> QED
  BY <1>1, <1>3, <1>4 DEF Called

(* A message is passed up at most once, and only when the write into its   *)
(* buffer is complete; losing the connection, or being announced before    *)
(* the receiver registered the queue pair, is the only way to lose it.     *)
THEOREM Implements == Spec => ImplementsDelivery
<1>1. Init => Delivery!Init
  <2> SUFFICES ASSUME Init PROVE Delivery!Init
    OBVIOUS
  <2>1. Called = {}
    BY DEF Init, Called
  <2> QED
    BY <2>1 DEF Init, Delivery!Init, Called
<1>2. IInv /\ [Next]_vars => [Delivery!Next]_Delivery!vars
  <2> SUFFICES ASSUME IInv, [Next]_vars PROVE [Delivery!Next]_Delivery!vars
    OBVIOUS
  <2>0. TypeOK
    BY DEF IInv
  <2>1. ASSUME Called' = Called, UNCHANGED <<delivered, broken, missed>>
        PROVE  UNCHANGED Delivery!vars
    BY <2>1 DEF Delivery!vars, Called
  <2>2. ASSUME Called' = Called, UNCHANGED delivered, broken' \/ missed'
        PROVE  Delivery!BecomeLossy
    BY <2>2 DEF Delivery!BecomeLossy, Called
  <2>3. ASSUME NEW m \in Messages, LookUp(m) PROVE Delivery!Send(m)
    <3>1. m \notin Called /\ Called' = Called \cup {m}
      BY <2>0, <2>3, CalledGrows
    <3>2. UNCHANGED <<delivered, broken, missed>>
      BY <2>3 DEF LookUp, elsewhere, receiverVars
    <3> QED
      BY <3>1, <3>2 DEF Delivery!Send, Called
  <2>4. ASSUME NEW m \in Messages, TakeCredit(m) \/ PostPrepare(m) PROVE UNCHANGED Delivery!vars
    <3>1. UNCHANGED <<delivered, broken, missed>>
      BY <2>4 DEF TakeCredit, PostPrepare, elsewhere, receiverVars
    <3> QED
      BY <2>0, <2>1, <2>4, <3>1, CalledStays
  <2>5. CASE SenderPoll
    BY <2>1, <2>5, SenderPollStutters
  <2>6. ASSUME NEW m \in Messages, PassUp(m) PROVE [Delivery!Next]_Delivery!vars
    <3>1. CASE UNCHANGED delivered
      BY <2>1, <2>6, <3>1, PassUpArrives
    <3>2. CASE delivered' # delivered
      <4>1. /\ m \in Called /\ m \notin Arrived /\ Called' = Called /\ UNCHANGED <<broken, missed>>
            /\ delivered' = Append(delivered, <<m, "full">>)
        BY <2>6, <3>2, PassUpArrives
      <4>2. m \notin Delivery!Arrived
        BY <4>1 DEF Arrived, Firsts, Delivery!Arrived, ToSet, Delivery!ToSet
      <4>3. Delivery!Arrive(m)
        BY <4>1, <4>2 DEF Delivery!Arrive, Called
      <4> QED
        BY <4>3 DEF Delivery!Next
    <3> QED
      BY <3>1, <3>2
  <2>7. ASSUME NEW m \in Messages, UnknownQP(m) PROVE Delivery!BecomeLossy
    <3>1. UNCHANGED spc /\ UNCHANGED delivered /\ missed'
      BY <2>7 DEF UnknownQP, beforeReceiver, senderVars
    <3> QED
      BY <2>0, <2>2, <3>1, CalledStays
  <2>8. ASSUME NEW m \in Messages, Prepare(m) \/ ReadySent(m) \/ ReceiverClose(m)
        PROVE  UNCHANGED Delivery!vars
    <3>1. UNCHANGED <<delivered, missed>> /\ UNCHANGED beforeReceiver
      BY <2>8 DEF Prepare, ReadySent, ReceiverClose
    <3>2. UNCHANGED spc /\ UNCHANGED broken
      BY <3>1 DEF beforeReceiver, senderVars
    <3> QED
      BY <2>0, <2>1, <3>1, <3>2, CalledStays
  <2>9. CASE Register
    <3>1. UNCHANGED spc /\ UNCHANGED <<delivered, broken, missed>>
      BY <2>9 DEF Register, beforeReceiver, senderVars
    <3> QED
      BY <2>0, <2>1, <3>1, CalledStays
  <2>10. CASE Hardware
    <3>1. UNCHANGED spc /\ UNCHANGED <<delivered, broken, missed>>
      BY <2>10 DEF Hardware, Transfer, Acknowledge, TransferBack, SenderFails, ReceiverFails,
                   senderVars, receiverVars
    <3> QED
      BY <2>0, <2>1, <3>1, CalledStays
  <2>11. CASE Break
    <3>1. UNCHANGED spc /\ UNCHANGED delivered /\ broken'
      BY <2>11 DEF Break, senderVars, receiverVars
    <3> QED
      BY <2>0, <2>2, <3>1, CalledStays DEF Delivery!Next
  <2>12. CASE UNCHANGED vars
    <3>1. UNCHANGED spc /\ UNCHANGED <<delivered, broken, missed>>
      BY <2>12 DEF vars, senderVars, receiverVars
    <3> QED
      BY <2>0, <2>1, <3>1, CalledStays
  <2>13. CASE \E m \in Messages : SendStep(m)
    <3>1. PICK m \in Messages : LookUp(m) \/ TakeCredit(m) \/ PostPrepare(m)
      BY <2>13 DEF SendStep
    <3> QED
      BY <2>3, <2>4, <3>1 DEF Delivery!Next
  <2>14. CASE ReceiverPoll
    <3>1. PICK m \in Messages :
             UnknownQP(m) \/ Prepare(m) \/ PassUp(m) \/ ReadySent(m) \/ ReceiverClose(m)
      BY <2>14 DEF ReceiverPoll
    <3> QED
      BY <2>6, <2>7, <2>8, <3>1 DEF Delivery!Next
  <2> QED
    BY <2>5, <2>9, <2>10, <2>11, <2>12, <2>13, <2>14 DEF Next, Delivery!Next
<1> QED
  BY <1>1, <1>2, InvariantHolds, PTL DEF Spec, ImplementsDelivery, Delivery!Spec
=============================================================================
