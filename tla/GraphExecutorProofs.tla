-------------------------- MODULE GraphExecutorProofs --------------------------
(***************************************************************************)
(* Proofs about the graph executor, for any graph and any layers: blocks   *)
(* of layers whose forward and backward agree on what is saved agree       *)
(* themselves (that the single layers agree is evaluated by the run of     *)
(* MCGraphExecutor); the packer never lets two buffers that live in the    *)
(* same step overlap; the solver, however it merges, keeps the graph and   *)
(* finds an order for the plans of the executor that fits it; the          *)
(* references that a pass counts are those that are still to be given      *)
(* back, so that nothing is missed and nothing left; and what the passes   *)
(* need in a step has been put apart by the plan, so that nothing that may *)
(* still be read is overwritten.                                           *)
(***************************************************************************)
EXTENDS GraphExecutor, FiniteSetTheorems, SequenceTheorems, TLAPS

----------------------------------------------------------------------------
(* Blocks of layers, however many they have and however deeply they are    *)
(* nested.                                                                 *)

(* Keys are paths and names, values tagged.                                *)
IsKey(key) == key = <<key[1], key[2]>> /\ key[1] \in Seq(Nat)
AreKeys(keys) == \A key \in keys : IsKey(key)
Values == {Out, Own, Sizes, Spoiled, NoMemory} \cup {In(k) : k \in Nat}

IsOp(op) ==
    /\ op = [saves |-> op.saves, always |-> op.always, reads |-> op.reads, scratch |-> op.scratch]
    /\ op.saves = [key \in DOMAIN op.saves |-> op.saves[key]]
    /\ op.reads = [key \in DOMAIN op.reads |-> op.reads[key]]

WellFormed(op) ==
    /\ IsOp(op)
    /\ AreKeys(DOMAIN op.saves)
    /\ AreKeys(DOMAIN op.reads)
    /\ \A key \in DOMAIN op.saves : op.saves[key] \in Values

(* A layer that a block can rely on.                                       *)
Good(op) == WellFormed(op) /\ BackwardFinds(op)

----------------------------------------------------------------------------
(* Keys of the parts of a block                                            *)

(* The key of a part gives back the number of the part and its own key.    *)
LEMMA InsideInner ==
    ASSUME NEW i \in Nat, NEW key, IsKey(key)
    PROVE  LET k == << <<i>> \o key[1], key[2] >>
           IN  IsKey(k) /\ Part(k) = i /\ Inner(k) = key
<1> DEFINE path == <<i>> \o key[1]
<1>1. key[1] \in Seq(Nat) /\ key = <<key[1], key[2]>>
  BY DEF IsKey
<1>2. path \in Seq(Nat) /\ Head(path) = i /\ Tail(path) = key[1]
  BY <1>1
<1> HIDE DEF path
<1>3. IsKey(<<path, key[2]>>)
  BY <1>1, <1>2 DEF IsKey
<1>4. Part(<<path, key[2]>>) = i /\ Inner(<<path, key[2]>>) = key
  BY <1>1, <1>2 DEF Part, Inner
<1> QED
  BY <1>3, <1>4 DEF path

(* A key is inside a part exactly if its own key is one of the part.       *)
LEMMA InsidePart ==
    ASSUME NEW i \in Nat, NEW keys, AreKeys(keys), NEW key \in Inside(i, keys)
    PROVE  IsKey(key) /\ Part(key) = i /\ Inner(key) \in keys
<1>1. PICK own \in keys : key = << <<i>> \o own[1], own[2] >>
  BY DEF Inside
<1> QED
  BY <1>1, InsideInner DEF AreKeys

----------------------------------------------------------------------------
(* Layers and blocks                                                       *)

TopKeys(keys) == \A key \in keys : key[1] = <<>>

(* A layer alone agrees with itself if its keys and types do.              *)
LEMMA OpGood ==
    ASSUME NEW saves, NEW reads, NEW scratch,
           DOMAIN reads \subseteq DOMAIN saves,
           \A name \in DOMAIN saves : saves[name] \in Values \ {Spoiled},
           \A name \in DOMAIN reads : reads[name] = TypeOf(saves[name])
    PROVE  /\ Good(Op(saves, reads, scratch))
           /\ TopKeys(DOMAIN Op(saves, reads, scratch).saves)
           /\ TopKeys(DOMAIN Op(saves, reads, scratch).reads)
<1> DEFINE op == Op(saves, reads, scratch)
<1>1. <<>> \in Seq(Nat)
  OBVIOUS
<1>2. /\ op.saves = AtTop(saves) /\ op.reads = AtTop(reads)
      /\ op = [saves |-> op.saves, always |-> op.always, reads |-> op.reads,
               scratch |-> op.scratch]
  BY DEF Op
<1>3. \A name \in DOMAIN saves : AtTop(saves)[<< <<>>, name >>] = saves[name]
  BY DEF AtTop
<1>4. \A name \in DOMAIN reads : AtTop(reads)[<< <<>>, name >>] = reads[name]
  BY DEF AtTop
<1>5. /\ DOMAIN AtTop(saves) = {<< <<>>, name >> : name \in DOMAIN saves}
      /\ DOMAIN AtTop(reads) = {<< <<>>, name >> : name \in DOMAIN reads}
  BY DEF AtTop
<1>6. TopKeys(DOMAIN op.saves) /\ TopKeys(DOMAIN op.reads)
  BY <1>2, <1>5 DEF TopKeys
<1>7. AreKeys(DOMAIN op.saves) /\ AreKeys(DOMAIN op.reads)
  <2>1. ASSUME NEW name PROVE IsKey(<< <<>>, name >>)
    BY <1>1 DEF IsKey
  <2> QED
    BY <2>1, <1>2, <1>5 DEF AreKeys
<1>8. \A key \in DOMAIN op.saves : op.saves[key] \in Values \ {Spoiled}
  BY <1>2, <1>3, <1>5
<1>9. BackwardFinds(op)
  <2> SUFFICES ASSUME NEW key \in DOMAIN op.reads
               PROVE  LooksUp(op, op.saves, key) /\ op.saves[key] # Spoiled
    BY DEF BackwardFinds
  <2>1. PICK name \in DOMAIN reads : key = << <<>>, name >>
    BY <1>2, <1>5
  <2>2. key \in DOMAIN op.saves
    BY <2>1, <1>2, <1>5
  <2>3. op.reads[key] = TypeOf(op.saves[key])
    BY <2>1, <1>2, <1>3, <1>4
  <2> QED
    BY <2>2, <2>3, <1>8 DEF LooksUp
<1>10. /\ op.saves = [key \in DOMAIN op.saves |-> op.saves[key]]
       /\ op.reads = [key \in DOMAIN op.reads |-> op.reads[key]]
  BY <1>2 DEF AtTop
<1>11. IsOp(op)
  BY <1>2, <1>10 DEF IsOp
<1> HIDE DEF op
<1>12. WellFormed(op)
  BY <1>7, <1>8, <1>11 DEF WellFormed
<1> QED
  BY <1>6, <1>9, <1>12 DEF op, Good

(* A part has tensors where it had tensors.                                *)
LEMMA PartGood ==
    ASSUME NEW op, Good(op), NEW first \in BOOLEAN, NEW last \in BOOLEAN
    PROVE  Good(PartOf(op, first, last))
<1> DEFINE part == PartOf(op, first, last)
<1>1. /\ part.reads = op.reads
      /\ DOMAIN part.saves = DOMAIN op.saves
      /\ part.saves = [key \in DOMAIN part.saves |-> part.saves[key]]
      /\ part = [saves |-> part.saves, always |-> part.always, reads |-> part.reads,
                 scratch |-> part.scratch]
  BY DEF PartOf, Good, WellFormed, IsOp
<1>2. ASSUME NEW key \in DOMAIN op.saves
      PROVE  \/ part.saves[key] = op.saves[key]
             \/ part.saves[key] = Own /\ (op.saves[key] = Out \/ op.saves[key][1] = "in")
  BY DEF PartOf, Good, WellFormed, IsOp
<1>3. ASSUME NEW value \in Values, value = Out \/ value[1] = "in"
      PROVE  TypeOf(value) = TypeOf(Own)
  BY <1>3 DEF Values, TypeOf, Out, Own, Sizes, Spoiled, NoMemory, In
<1>4. Own \in Values /\ Own # Spoiled
  BY DEF Values, Own, Spoiled
<1>5. ASSUME NEW key \in DOMAIN op.saves
      PROVE  /\ part.saves[key] \in Values
             /\ TypeOf(part.saves[key]) = TypeOf(op.saves[key])
             /\ op.saves[key] # Spoiled => part.saves[key] # Spoiled
  BY <1>2, <1>3, <1>4 DEF Good, WellFormed
<1> HIDE DEF part
<1>6. BackwardFinds(part)
  BY <1>1, <1>5 DEF BackwardFinds, Good, LooksUp
<1>7. part.reads = [key \in DOMAIN part.reads |-> part.reads[key]]
  BY <1>1 DEF Good, WellFormed, IsOp
<1>8. IsOp(part)
  BY <1>1, <1>7 DEF IsOp
<1>9. WellFormed(part)
  BY <1>1, <1>5, <1>8 DEF Good, WellFormed
<1> QED
  BY <1>6, <1>9 DEF part, Good

(* A block of layers that agree agrees.                                    *)
LEMMA BlockGood ==
    ASSUME NEW op, Good(op), TopKeys(DOMAIN op.saves), TopKeys(DOMAIN op.reads),
           NEW parts, DOMAIN parts \subseteq Nat, \A i \in DOMAIN parts : Good(parts[i])
    PROVE  Good(Block(op, parts))
<1> DEFINE saved == UNION {Inside(i, DOMAIN parts[i].saves) : i \in DOMAIN parts}
           read == UNION {Inside(i, DOMAIN parts[i].reads) : i \in DOMAIN parts}
           block == Block(op, parts)
<1>1. /\ block.saves = [key \in DOMAIN op.saves \cup saved |->
                           IF key \in saved THEN parts[Part(key)].saves[Inner(key)]
                           ELSE op.saves[key]]
      /\ block.reads = [key \in DOMAIN op.reads \cup read |->
                           IF key \in read THEN parts[Part(key)].reads[Inner(key)]
                           ELSE op.reads[key]]
      /\ block = [saves |-> block.saves, always |-> block.always, reads |-> block.reads,
                  scratch |-> block.scratch]
  BY DEF Block
<1>2. ASSUME NEW key \in saved
      PROVE  /\ IsKey(key) /\ key[1] # <<>>
             /\ Part(key) \in DOMAIN parts
             /\ Inner(key) \in DOMAIN parts[Part(key)].saves
  <2>1. PICK i \in DOMAIN parts : key \in Inside(i, DOMAIN parts[i].saves)
    OBVIOUS
  <2>2. AreKeys(DOMAIN parts[i].saves) /\ i \in Nat
    BY DEF Good, WellFormed
  <2>3. IsKey(key) /\ Part(key) = i /\ Inner(key) \in DOMAIN parts[i].saves
    BY <2>1, <2>2, InsidePart
  <2>4. PICK own \in DOMAIN parts[i].saves : key = << <<i>> \o own[1], own[2] >>
    BY <2>1 DEF Inside
  <2>5. own[1] \in Seq(Nat)
    BY <2>2 DEF AreKeys, IsKey
  <2>6. <<i>> \o own[1] # <<>>
    BY <2>2, <2>5
  <2> QED
    BY <2>3, <2>4, <2>6
<1>3. ASSUME NEW key \in read
      PROVE  /\ IsKey(key) /\ key[1] # <<>> /\ key \in saved
             /\ Part(key) \in DOMAIN parts
             /\ Inner(key) \in DOMAIN parts[Part(key)].reads
  <2>1. PICK i \in DOMAIN parts : key \in Inside(i, DOMAIN parts[i].reads)
    OBVIOUS
  <2>2. AreKeys(DOMAIN parts[i].reads) /\ i \in Nat
    BY DEF Good, WellFormed
  <2>3. Part(key) = i /\ Inner(key) \in DOMAIN parts[i].reads
    BY <2>1, <2>2, InsidePart
  <2>4. DOMAIN parts[i].reads \subseteq DOMAIN parts[i].saves
    BY DEF Good, BackwardFinds, LooksUp
  <2>5. key \in Inside(i, DOMAIN parts[i].saves)
    BY <2>1, <2>4 DEF Inside
  <2>6. key \in saved
    BY <2>5
  <2> QED
    BY <2>3, <2>6, <1>2
<1> HIDE DEF saved, read, block
<1>4. AreKeys(DOMAIN block.saves) /\ AreKeys(DOMAIN block.reads)
  BY <1>1, <1>2, <1>3 DEF Good, WellFormed, AreKeys
<1>5. ASSUME NEW key \in DOMAIN block.saves
      PROVE  block.saves[key] \in Values
  <2>1. CASE key \in saved
    <3>1. block.saves[key] = parts[Part(key)].saves[Inner(key)]
      BY <2>1, <1>1
    <3> QED
      BY <2>1, <3>1, <1>2 DEF Good, WellFormed
  <2>2. CASE key \notin saved
    <3>1. key \in DOMAIN op.saves /\ block.saves[key] = op.saves[key]
      BY <2>2, <1>1
    <3> QED
      BY <3>1 DEF Good, WellFormed
  <2> QED
    BY <2>1, <2>2
<1>6. BackwardFinds(block)
  <2> SUFFICES ASSUME NEW key \in DOMAIN block.reads
               PROVE  LooksUp(block, block.saves, key) /\ block.saves[key] # Spoiled
    BY DEF BackwardFinds
  <2>1. CASE key \in read
    <3> DEFINE part == parts[Part(key)]
    <3>1. LooksUp(part, part.saves, Inner(key)) /\ part.saves[Inner(key)] # Spoiled
      BY <2>1, <1>3 DEF Good, BackwardFinds
    <3>2. block.saves[key] = part.saves[Inner(key)] /\ block.reads[key] = part.reads[Inner(key)]
      BY <2>1, <1>1, <1>3
    <3> QED
      BY <2>1, <3>1, <3>2, <1>1, <1>3 DEF LooksUp
  <2>2. CASE key \notin read
    <3>1. key \in DOMAIN op.reads /\ key[1] = <<>>
      BY <2>2, <1>1 DEF TopKeys
    <3>2. LooksUp(op, op.saves, key) /\ op.saves[key] # Spoiled
      BY <3>1 DEF Good, BackwardFinds
    <3>3. key \notin saved
      BY <3>1, <1>2
    <3> QED
      BY <2>2, <3>1, <3>2, <3>3, <1>1 DEF LooksUp
  <2> QED
    BY <2>1, <2>2
<1>7. /\ block.saves = [key \in DOMAIN block.saves |-> block.saves[key]]
      /\ block.reads = [key \in DOMAIN block.reads |-> block.reads[key]]
  BY <1>1
<1>8. IsOp(block)
  BY <1>1, <1>7 DEF IsOp
<1>9. WellFormed(block)
  BY <1>4, <1>5, <1>8 DEF WellFormed
<1> QED
  BY <1>6, <1>9 DEF block, Good

(* An empty block, to which the parts are added.                           *)
LEMMA EmptyGood ==
    ASSUME NEW scratch
    PROVE  LET op == Op(Nothing, Nothing, scratch)
           IN  Good(op) /\ TopKeys(DOMAIN op.saves) /\ TopKeys(DOMAIN op.reads)
<1>1. DOMAIN Nothing = {}
  BY DEF Nothing
<1> QED
  BY <1>1, OpGood

(* SequentialOp: if every layer finds in backward what its forward saved,  *)
(* so does the sequence of them, under the keys "layer_i".                 *)
THEOREM SequentialFinds ==
    ASSUME NEW layers, DOMAIN layers \subseteq Nat, \A i \in DOMAIN layers : Good(layers[i])
    PROVE  Good(SequentialOp(layers))
<1> DEFINE parts == [i \in DOMAIN layers |-> PartOf(layers[i], i = 1, i = Len(layers))]
           op == Op(Nothing, Nothing, IF Len(layers) > 1 THEN Both ELSE {})
<1>1. \A i \in DOMAIN layers : Good(PartOf(layers[i], i = 1, i = Len(layers)))
  <2> SUFFICES ASSUME NEW i \in DOMAIN layers
               PROVE  Good(PartOf(layers[i], i = 1, i = Len(layers)))
    OBVIOUS
  <2> DEFINE first == i = 1
             last == i = Len(layers)
  <2>1. first \in BOOLEAN /\ last \in BOOLEAN
    OBVIOUS
  <2> HIDE DEF first, last
  <2>2. Good(PartOf(layers[i], first, last))
    BY <2>1, PartGood
  <2> QED
    BY <2>2 DEF first, last
<1>2. DOMAIN parts \subseteq Nat /\ \A i \in DOMAIN parts : Good(parts[i])
  BY <1>1
<1>3. Good(op) /\ TopKeys(DOMAIN op.saves) /\ TopKeys(DOMAIN op.reads)
  BY EmptyGood
<1>4. SequentialOp(layers) = Block(op, parts)
  BY DEF SequentialOp
<1> HIDE DEF op, parts
<1> QED
  BY <1>2, <1>3, <1>4, BlockGood

(* ResidualBlockOp with an activation: the paths, their sum and what the   *)
(* activation saves do not get into each other's way.                      *)
THEOREM ResidualFinds ==
    ASSUME NEW paths, Len(paths) \in Nat, NEW activation, Good(activation),
           \A i \in 1..Len(paths) : Good(paths[i])
    PROVE  Good(ResidualBlockOp(paths, activation))
<1> DEFINE sum == Op([pre_activation_0 |-> Own], Nothing, Both)
           op == [sum EXCEPT !.always = DOMAIN sum.saves]
           parts == [i \in 1..(Len(paths) + 1) |->
                        IF i > Len(paths) THEN PartOf(activation, FALSE, TRUE)
                        ELSE PartOf(paths[i], TRUE, FALSE)]
<1>1. Good(sum) /\ TopKeys(DOMAIN sum.saves) /\ TopKeys(DOMAIN sum.reads)
  <2> DEFINE saves == [pre_activation_0 |-> Own]
  <2>1. DOMAIN saves = {"pre_activation_0"} /\ saves["pre_activation_0"] = Own
    OBVIOUS
  <2>2. DOMAIN Nothing = {}
    BY DEF Nothing
  <2>3. Own \in Values \ {Spoiled}
    BY DEF Values, Own, Spoiled
  <2> HIDE DEF saves
  <2>4. LET o == Op(saves, Nothing, Both)
        IN  Good(o) /\ TopKeys(DOMAIN o.saves) /\ TopKeys(DOMAIN o.reads)
    BY <2>1, <2>2, <2>3, OpGood
  <2> QED
    BY <2>4 DEF saves
<1> HIDE DEF sum
<1>2. op.saves = sum.saves /\ op.reads = sum.reads /\ IsOp(op)
  BY <1>1 DEF Good, WellFormed, IsOp
<1> HIDE DEF op
<1>3. Good(op) /\ TopKeys(DOMAIN op.saves) /\ TopKeys(DOMAIN op.reads)
  <2>1. WellFormed(op)
    BY <1>1, <1>2 DEF Good, WellFormed
  <2>2. BackwardFinds(op)
    BY <1>1, <1>2 DEF Good, BackwardFinds, LooksUp
  <2> QED
    BY <1>1, <1>2, <2>1, <2>2 DEF Good
<1>4. /\ Good(PartOf(activation, FALSE, TRUE))
      /\ \A i \in 1..Len(paths) : Good(PartOf(paths[i], TRUE, FALSE))
  BY PartGood
<1>5. DOMAIN parts \subseteq Nat /\ \A i \in DOMAIN parts : Good(parts[i])
  <2>1. DOMAIN parts = 1..(Len(paths) + 1)
    OBVIOUS
  <2>2. ASSUME NEW i \in 1..(Len(paths) + 1) PROVE Good(parts[i])
    <3>1. CASE i > Len(paths)
      BY <3>1, <1>4
    <3>2. CASE ~(i > Len(paths))
      <4>1. i \in 1..Len(paths)
        BY <3>2
      <4> QED
        BY <3>2, <4>1, <1>4
    <3> QED
      BY <3>1, <3>2
  <2>3. 1..(Len(paths) + 1) \subseteq Nat
    OBVIOUS
  <2> HIDE DEF parts
  <2> QED
    BY <2>1, <2>2, <2>3
<1>6. ResidualBlockOp(paths, activation) = Block(op, parts)
  BY DEF ResidualBlockOp, op, sum
<1> HIDE DEF parts
<1> QED
  BY <1>3, <1>5, <1>6, BlockGood

(* ResidualBlockOp without an activation, where the sum is written over    *)
(* the output of the main path: the block agrees if backward of the main   *)
(* path does not look its own output up again.                             *)
THEOREM PlainResidualFinds ==
    ASSUME NEW paths, DOMAIN paths \subseteq Nat, \A i \in DOMAIN paths : Good(paths[i]),
           \A key \in DOMAIN paths[1].reads : paths[1].saves[key] # Out
    PROVE  Good(PlainResidualBlockOp(paths))
<1> DEFINE main == paths[1]
           part == SpoiledOutput(main)
           parts == [i \in DOMAIN paths |-> IF i = 1 THEN part ELSE PartOf(paths[i], TRUE, FALSE)]
           op == Op(Nothing, Nothing, Both)
<1>1. ASSUME 1 \in DOMAIN paths PROVE Good(part)
  <2>1. Good(main)
    BY <1>1
  <2>2. /\ part.reads = main.reads
        /\ DOMAIN part.saves = DOMAIN main.saves
        /\ part.saves = [key \in DOMAIN part.saves |-> part.saves[key]]
        /\ part = [saves |-> part.saves, always |-> part.always, reads |-> part.reads,
                   scratch |-> part.scratch]
        /\ \A key \in DOMAIN main.saves :
               part.saves[key] = IF main.saves[key] = Out THEN Spoiled ELSE main.saves[key]
    BY <2>1 DEF SpoiledOutput, Good, WellFormed, IsOp
  <2>3. Spoiled \in Values
    BY DEF Values
  <2>4. \A key \in DOMAIN main.reads :
            key \in DOMAIN main.saves /\ main.saves[key] # Out
    BY <2>1 DEF Good, BackwardFinds, LooksUp
  <2> HIDE DEF part, main
  <2>5. BackwardFinds(part)
    BY <2>1, <2>2, <2>4 DEF BackwardFinds, LooksUp, Good
  <2>6. part.reads = [key \in DOMAIN part.reads |-> part.reads[key]]
    BY <2>1, <2>2 DEF Good, WellFormed, IsOp
  <2>7. IsOp(part)
    BY <2>2, <2>6 DEF IsOp
  <2>8. WellFormed(part)
    BY <2>1, <2>2, <2>3, <2>7 DEF Good, WellFormed
  <2> QED
    BY <2>5, <2>8 DEF Good
<1>2. \A i \in DOMAIN paths : Good(PartOf(paths[i], TRUE, FALSE))
  BY PartGood
<1>3. DOMAIN parts \subseteq Nat /\ \A i \in DOMAIN parts : Good(parts[i])
  BY <1>1, <1>2
<1>4. Good(op) /\ TopKeys(DOMAIN op.saves) /\ TopKeys(DOMAIN op.reads)
  BY EmptyGood
<1>5. PlainResidualBlockOp(paths) = Block(op, parts)
  BY DEF PlainResidualBlockOp
<1> HIDE DEF op, parts
<1> QED
  BY <1>3, <1>4, <1>5, BlockGood

(* The condition is needed: a main path that ends in a ReLU, which saves   *)
(* its output, looks up a sum that has been written over it.               *)
THEOREM PlainResidualSpoils == ~BackwardFinds(PlainResidualBlockOp(<<ReLUOp>>))
<1> DEFINE part == SpoiledOutput(ReLUOp)
           parts == [i \in DOMAIN <<ReLUOp>> |->
                        IF i = 1 THEN SpoiledOutput(<<ReLUOp>>[1])
                        ELSE PartOf(<<ReLUOp>>[i], TRUE, FALSE)]
           own == << <<>>, "output" >>
           key == << <<1>>, "output" >>
           block == PlainResidualBlockOp(<<ReLUOp>>)
           saved == UNION {Inside(i, DOMAIN parts[i].saves) : i \in DOMAIN parts}
           read == UNION {Inside(i, DOMAIN parts[i].reads) : i \in DOMAIN parts}
<1>1. /\ own \in DOMAIN ReLUOp.saves /\ ReLUOp.saves[own] = Out
      /\ own \in DOMAIN ReLUOp.reads
  BY DEF ReLUOp, Op, AtTop
<1>2. own \in DOMAIN part.saves /\ part.saves[own] = Spoiled /\ own \in DOMAIN part.reads
  BY <1>1 DEF SpoiledOutput, ReLUOp, Op
<1>3. DOMAIN parts = {1} /\ parts[1] = part
  OBVIOUS
<1> HIDE DEF part
<1>4. /\ key \in Inside(1, DOMAIN part.saves) /\ key \in Inside(1, DOMAIN part.reads)
      /\ Part(key) = 1 /\ Inner(key) = own
  <2>1. << <<1>> \o own[1], own[2] >> = key /\ IsKey(own)
    BY DEF IsKey
  <2> HIDE DEF own, key
  <2>2. Part(key) = 1 /\ Inner(key) = own
    BY <2>1, InsideInner
  <2> QED
    BY <2>1, <2>2, <1>2 DEF Inside
<1> HIDE DEF parts, own, key
<1>5. key \in saved /\ key \in read
  BY <1>3, <1>4
<1>6. block.saves[key] = parts[1].saves[own] /\ key \in DOMAIN block.reads
  <2> DEFINE op == Op(Nothing, Nothing, Both)
  <2>1. block = Block(op, parts)
    BY DEF PlainResidualBlockOp, parts
  <2> HIDE DEF op, block
  <2>2. /\ block.saves = [k \in DOMAIN op.saves \cup saved |->
                             IF k \in saved THEN parts[Part(k)].saves[Inner(k)]
                             ELSE op.saves[k]]
        /\ DOMAIN block.reads = DOMAIN op.reads \cup read
    BY <2>1 DEF Block
  <2> QED
    BY <2>2, <1>4, <1>5
<1> QED
  BY <1>2, <1>3, <1>6 DEF BackwardFinds

----------------------------------------------------------------------------
(* Finite sets and steps.                                                  *)

LEMMA SubsetInduction ==
    ASSUME NEW S, IsFiniteSet(S), NEW G,
           \A T \in SUBSET S : (\A x \in T : T \ {x} \in G) => T \in G
    PROVE  \A T \in SUBSET S : T \in G
<1> SUFFICES ASSUME NEW U \in SUBSET S, U \notin G PROVE FALSE
  OBVIOUS
<1> DEFINE Bad == {T \in SUBSET S : T \notin G}
<1>1. FiniteSubsetsOf(S) = SUBSET S
  BY FS_FiniteSubsetsOfFinite
<1>2. IsWellFoundedOn(StrictSubsetOrdering(S), SUBSET S)
  <2>1. IsWellFoundedOn(StrictSubsetOrdering(S), FiniteSubsetsOf(S))
    BY FS_StrictSubsetOrderingWellFounded
  <2> QED
    BY <1>1, <2>1
<1>3. Bad \subseteq SUBSET S /\ Bad # {}
  OBVIOUS
<1>4. PICK T \in Bad : \A V \in Bad : ~(<<V, T>> \in StrictSubsetOrdering(S))
  <2> HIDE DEF Bad
  <2> QED
    BY <1>2, <1>3, WFMin
<1>5. ASSUME NEW x \in T PROVE T \ {x} \in G
  <2>1. T \ {x} \in SUBSET S /\ T \ {x} # T
    OBVIOUS
  <2>2. <<T \ {x}, T>> \in StrictSubsetOrdering(S)
    BY <2>1 DEF StrictSubsetOrdering
  <2> QED
    BY <1>4, <2>1, <2>2
<1> QED
  BY <1>5

(* Of finitely many numbers one is the lowest and one the highest.         *)
LEMMA Extremes ==
    ASSUME NEW S, IsFiniteSet(S), NEW f \in [S -> Int], S # {}
    PROVE  /\ \E m \in S : \A n \in S : f[m] <= f[n]
           /\ \E m \in S : \A n \in S : f[n] <= f[m]
<1> DEFINE G == {T \in SUBSET S : T # {} => /\ \E m \in T : \A n \in T : f[m] <= f[n]
                                            /\ \E m \in T : \A n \in T : f[n] <= f[m]}
<1>1. ASSUME NEW T \in SUBSET S, \A x \in T : T \ {x} \in G PROVE T \in G
  <2> SUFFICES ASSUME NEW x \in T
               PROVE  /\ \E m \in T : \A n \in T : f[m] <= f[n]
                      /\ \E m \in T : \A n \in T : f[n] <= f[m]
    OBVIOUS
  <2>1. CASE T = {x}
    <3>1. f[x] <= f[x]
      OBVIOUS
    <3> QED
      BY <2>1, <3>1
  <2>2. CASE T \ {x} # {}
    <3>1. T \ {x} \in G
      BY <1>1
    <3>2. PICK low \in T \ {x} : \A n \in T \ {x} : f[low] <= f[n]
      BY <2>2, <3>1
    <3>3. PICK high \in T \ {x} : \A n \in T \ {x} : f[n] <= f[high]
      BY <2>2, <3>1
    <3>4. \A n \in T : f[n] \in Int
      OBVIOUS
    <3>5. \E m \in T : \A n \in T : f[m] <= f[n]
      <4>1. CASE f[low] <= f[x]
        BY <3>2, <4>1
      <4>2. CASE f[x] <= f[low]
        BY <3>2, <3>4, <4>2
      <4> QED
        BY <3>4, <4>1, <4>2
    <3>6. \E m \in T : \A n \in T : f[n] <= f[m]
      <4>1. CASE f[x] <= f[high]
        BY <3>3, <4>1
      <4>2. CASE f[high] <= f[x]
        BY <3>3, <3>4, <4>2
      <4> QED
        BY <3>4, <4>1, <4>2
    <3> QED
      BY <3>5, <3>6
  <2> QED
    BY <2>1, <2>2
<1>2. \A T \in SUBSET S : T \in G
  <2> HIDE DEF G
  <2> QED
    BY <1>1, SubsetInduction
<1> QED
  BY <1>2

LEMMA LowestOf ==
    ASSUME NEW S, IsFiniteSet(S), S \subseteq Int, S # {}
    PROVE  /\ \E m \in S : \A n \in S : m <= n
           /\ \E m \in S : \A n \in S : n <= m
<1>1. PICK f : f = [x \in S |-> x]
  OBVIOUS
<1>2. f \in [S -> Int] /\ \A x \in S : f[x] = x
  BY <1>1
<1>3. /\ \E m \in S : \A n \in S : f[m] <= f[n]
      /\ \E m \in S : \A n \in S : f[n] <= f[m]
  BY <1>2, Extremes
<1> QED
  BY <1>2, <1>3

LEMMA Steps ==
    ASSUME NEW n \in Nat, NEW G, 0 \in G, \A i \in 0..(n - 1) : i \in G => i + 1 \in G
    PROVE  \A i \in 0..n : i \in G
<1> SUFFICES ASSUME NEW b \in 0..n, b \notin G PROVE FALSE
  OBVIOUS
<1>1. PICK Bad : Bad = {i \in 0..n : i \notin G}
  OBVIOUS
<1>2. IsFiniteSet(Bad) /\ Bad \subseteq Int /\ Bad # {}
  <2>1. IsFiniteSet(0..n)
    BY FS_Interval
  <2>2. Bad \in SUBSET (0..n) /\ Bad # {}
    BY <1>1
  <2>3. IsFiniteSet(Bad)
    BY <2>1, <2>2, FS_Subset
  <2> QED
    BY <2>2, <2>3
<1>3. PICK m \in Bad : \A i \in Bad : m <= i
  BY <1>2, LowestOf
<1>4. m \in 1..n /\ m - 1 \in 0..(n - 1) /\ m - 1 \notin Bad /\ (m - 1) + 1 = m
  BY <1>1, <1>3
<1> QED
  BY <1>1, <1>3, <1>4

----------------------------------------------------------------------------
(* The packer.                                                             *)
(* The code falls back to offset 0 when no candidate is free.  That would  *)
(* overlap; it does not come to that, because the highest end of what has  *)
(* been placed is a candidate and free.  That there is a highest one is    *)
(* the part of the invariant that NoOverlap needs.                         *)

Sized(a) == a.size \in Nat \ {0} /\ a.start \in Nat /\ a.end \in Nat

TodoSized == IsFiniteSet(todo) /\ \E iids : todo \subseteq Allocations(iids)

PlacedSized == \A p \in placed : Sized(p) /\ p.offset \in Nat

Topped == \E top \in Candidates : \A c \in Candidates : c <= top

PackInv == TodoSized /\ PlacedSized /\ Topped /\ NoOverlap

----------------------------------------------------------------------------

LEMMA CandidatesAreOffsets ==
    ASSUME PlacedSized
    PROVE  Candidates \subseteq Nat
  BY DEF PlacedSized, Sized, Candidates

(* The highest candidate is free for every allocation.                     *)
LEMMA SomeOffsetIsFree ==
    ASSUME PlacedSized, Topped, NEW a, Sized(a)
    PROVE  Free(a) # {}
<1>1. PICK top \in Candidates : \A c \in Candidates : c <= top
  BY DEF Topped
<1>2. ASSUME NEW p \in Concurrent(a)
      PROVE  ~(top < p.offset + p.size /\ top + a.size > p.offset)
  <2>1. p \in placed
    BY <1>2 DEF Concurrent
  <2>2. p.offset + p.size \in Candidates
    BY <2>1 DEF Candidates
  <2>3. top \in Nat /\ p.offset + p.size \in Nat
    BY <2>2, CandidatesAreOffsets
  <2>. QED
    BY <1>1, <2>2, <2>3
<1>3. top \in Free(a)
  BY <1>2 DEF Free
<1>. QED
  BY <1>3

(* Of what is left there is a largest.                                     *)
LEMMA LargestOfTodo ==
    ASSUME TodoSized, todo # {}
    PROVE  /\ Largest(todo) \in todo /\ Sized(Largest(todo))
           /\ TodoSized' \/ todo' # todo \ {Largest(todo)}
<1>1. PICK iids : todo \subseteq Allocations(iids)
  BY DEF TodoSized
<1>2. \A a \in todo : Sized(a)
  BY <1>1 DEF Allocations, Sized
<1>3. PICK f : f = [a \in todo |-> a.size]
  OBVIOUS
<1>4. f \in [todo -> Int] /\ \A a \in todo : f[a] = a.size /\ a.size \in Nat
  BY <1>2, <1>3 DEF Sized
<1>5. PICK a \in todo : \A b \in todo : f[b] <= f[a]
  BY <1>4, Extremes DEF TodoSized
<1>6. \A b \in todo : a.size >= b.size
  BY <1>4, <1>5
<1>7. Largest(todo) \in todo
  BY <1>6 DEF Largest
<1>8. ASSUME todo' = todo \ {Largest(todo)} PROVE TodoSized'
  <2>1. IsFiniteSet(todo')
    BY <1>8, FS_Subset DEF TodoSized
  <2>2. todo' \subseteq Allocations(iids)
    BY <1>1, <1>8
  <2> QED
    BY <2>1, <2>2 DEF TodoSized
<1> QED
  BY <1>2, <1>7, <1>8

(* So the one that is chosen is free.                                      *)
LEMMA BestOffsetIsFree ==
    ASSUME PlacedSized, Topped, NEW a, Sized(a), NEW c, BestOffset(a, c)
    PROVE  c \in Free(a)
  BY SomeOffsetIsFree DEF BestOffset

(* What is put at a free offset is apart from all that is placed.          *)
LEMMA FreeIsApart ==
    ASSUME PlacedSized, NEW a, Sized(a), NEW c \in Free(a),
           NEW q, q.size = a.size, q.start = a.start, q.end = a.end, q.offset = c,
           NEW p \in placed
    PROVE  Apart(p, q) /\ Apart(q, p)
<1>1. Sized(p) /\ p.offset \in Nat
  BY DEF PlacedSized
<1>2. c \in Nat
  BY CandidatesAreOffsets DEF Free
<1>3. SUFFICES ASSUME \E s \in p.start..p.end : s \in q.start..q.end
               PROVE  p.offset + p.size <= q.offset \/ q.offset + q.size <= p.offset
  BY DEF Apart
<1>4. a.start <= p.end /\ a.end >= p.start
  BY <1>1, <1>3 DEF Sized
<1>5. p \in Concurrent(a)
  BY <1>4 DEF Concurrent
<1>6. ~(c < p.offset + p.size /\ c + a.size > p.offset)
  BY <1>5 DEF Free
<1>. QED
  BY <1>1, <1>2, <1>6 DEF Sized

----------------------------------------------------------------------------

LEMMA PackInvInit == PackInit => PackInv
<1>. SUFFICES ASSUME PackInit
              PROVE  PackInv
  OBVIOUS
<1>1. TodoSized /\ PlacedSized /\ NoOverlap
  BY DEF PackInit, TodoSized, PlacedSized, NoOverlap
<1>2. Candidates = {0}
  BY DEF PackInit, Candidates
<1>3. Topped
  BY <1>2 DEF Topped
<1>. QED
  BY <1>1, <1>3 DEF PackInv

LEMMA PackInvStep == PackInv /\ [PlaceNext]_packerVars => PackInv'
<1>. SUFFICES ASSUME PackInv, [PlaceNext]_packerVars
              PROVE  PackInv'
  OBVIOUS
<1>1. CASE UNCHANGED packerVars
  BY <1>1 DEF packerVars, PackInv, TodoSized, PlacedSized, Topped, Candidates, NoOverlap
<1>2. CASE PlaceNext
  <2>1. PICK a : a = Largest(todo)
    OBVIOUS
  <2>2. Sized(a) /\ TodoSized'
    BY <1>2, <2>1, LargestOfTodo DEF PackInv, PlaceNext
  <2>3. Sized(a)
    BY <2>2
  <2>4. PICK c \in Candidates :
            /\ BestOffset(a, c)
            /\ placed' = placed \cup {[iid |-> a.iid, size |-> a.size, start |-> a.start,
                                       end |-> a.end, offset |-> c]}
    BY <1>2, <2>1 DEF PlaceNext
  <2>. DEFINE q == [iid |-> a.iid, size |-> a.size, start |-> a.start,
                    end |-> a.end, offset |-> c]
  <2>5. placed' = placed \cup {q}
    BY <2>4
  <2>6. c \in Nat
    BY CandidatesAreOffsets DEF PackInv
  <2>7. q.size = a.size /\ q.start = a.start /\ q.end = a.end /\ q.offset = c
    OBVIOUS
  <2>. HIDE DEF q
  <2>8. TodoSized'
    BY <2>2
  <2>9. PlacedSized'
    BY <2>3, <2>5, <2>6, <2>7 DEF PackInv, PlacedSized, Sized
  <2>10. Topped'
    <3>1. Candidates' = Candidates \cup {c + a.size}
      BY <2>5, <2>7 DEF Candidates
    <3>2. PICK top \in Candidates : \A d \in Candidates : d <= top
      BY DEF PackInv, Topped
    <3>3. top \in Nat /\ c + a.size \in Nat /\ Candidates \subseteq Nat
      BY <2>3, <2>6, CandidatesAreOffsets DEF PackInv, Sized
    <3>4. CASE c + a.size <= top
      BY <3>1, <3>2, <3>4 DEF Topped
    <3>5. CASE ~(c + a.size <= top)
      <4>1. \A d \in Candidates' : d <= c + a.size
        BY <3>1, <3>2, <3>3, <3>5
      <4>. QED
        BY <3>1, <4>1 DEF Topped
    <3>. QED
      BY <3>4, <3>5
  <2>11. NoOverlap'
    <3>1. c \in Free(a)
      BY <2>3, <2>4, BestOffsetIsFree DEF PackInv
    <3>2. \A p \in placed : Apart(p, q) /\ Apart(q, p)
      BY <2>3, <2>7, <3>1, FreeIsApart DEF PackInv
    <3>3. \A r, s \in placed' : r # s => Apart(r, s)
      BY <2>5, <3>2 DEF PackInv, NoOverlap
    <3>. QED
      BY <3>3 DEF NoOverlap, Apart
  <2>. QED
    BY <2>8, <2>9, <2>10, <2>11 DEF PackInv
<1>. QED
  BY <1>1, <1>2

(* No two allocations that live in the same step share memory, and what    *)
(* has been placed stays typed (memory_packer.cpp:22-123).                 *)
THEOREM PackedApart == PackSpec => []NoOverlap
<1>1. PackInv => NoOverlap
  BY DEF PackInv
<1>. QED
  BY <1>1, PackInvInit, PackInvStep, PTL DEF PackSpec

(* The fallback to offset 0 (memory_packer.cpp:94-96) is never taken: an   *)
(* offset that is free exists for every allocation still to be placed.     *)
NeverFallsBack == todo # {} => Free(Largest(todo)) # {}

THEOREM OffsetFound == PackSpec => []NeverFallsBack
<1>1. PackInv => NeverFallsBack
  <2>. SUFFICES ASSUME PackInv, todo # {}
                PROVE  Free(Largest(todo)) # {}
    BY DEF NeverFallsBack
  <2>1. Sized(Largest(todo))
    BY LargestOfTodo DEF PackInv
  <2>. QED
    BY <2>1, SomeOffsetIsFree DEF PackInv
<1>. QED
  BY <1>1, PackInvInit, PackInvStep, PTL DEF PackSpec

----------------------------------------------------------------------------
(* The queue that the solver begins with.                                  *)

LEMMA CountTo == ASSUME NEW n \in Nat PROVE IsFiniteSet(1..n) /\ Cardinality(1..n) = n
<1>1. n \in Int /\ 1 \in Int
  OBVIOUS
<1>2. IsFiniteSet(1..n) /\ Cardinality(1..n) = IF 1 > n THEN 0 ELSE n - 1 + 1
  BY <1>1, FS_Interval
<1> QED
  BY <1>2

LEMMA AscendingExists ==
    ASSUME NEW S, IsFiniteSet(S), S \subseteq Int
    PROVE  \E q \in [1..Cardinality(S) -> S] : \A i, j \in DOMAIN q : i < j => q[i] < q[j]
<1> DEFINE Sorted(q, T) == /\ q \in [1..Cardinality(T) -> T]
                           /\ \A i, j \in 1..Cardinality(T) : i < j => q[i] < q[j]
           G == {T \in SUBSET S : \E q : Sorted(q, T)}
<1>1. ASSUME NEW T \in SUBSET S, \A x \in T : T \ {x} \in G PROVE T \in G
  <2>1. IsFiniteSet(T) /\ T \subseteq Int
    BY FS_Subset
  <2>2. CASE T = {}
    <3>1. Cardinality(T) = 0 /\ 1..0 = {}
      BY <2>2, FS_EmptySet
    <3>2. Sorted([i \in {} |-> i], T)
      BY <2>2, <3>1
    <3> QED
      BY <3>2
  <2>3. CASE T # {}
    <3>1. PICK x \in T : \A n \in T : n <= x
      BY <2>1, <2>3, LowestOf
    <3>2. PICK R : R = T \ {x}
      OBVIOUS
    <3>3. PICK q : Sorted(q, R)
      BY <1>1, <3>2
    <3>4. PICK k : k = Cardinality(R)
      OBVIOUS
    <3>5. k \in Nat /\ Cardinality(T) = k + 1
      <4>1. Cardinality(T) \in Nat /\ Cardinality(R) \in Nat
        BY <2>1, <3>2, FS_RemoveElement, FS_CardinalityType
      <4>2. Cardinality(R) = Cardinality(T) - 1
        BY <2>1, <3>1, <3>2, FS_RemoveElement
      <4> QED
        BY <3>4, <4>1, <4>2
    <3>6. PICK p : p = [i \in 1..(k + 1) |-> IF i <= k THEN q[i] ELSE x]
      OBVIOUS
    <3>7. \A i \in 1..k : q[i] \in R /\ p[i] = q[i] /\ q[i] \in T /\ q[i] < x
      <4>1. \A i \in 1..k : q[i] \in R /\ p[i] = q[i]
        BY <3>3, <3>4, <3>5, <3>6
      <4>2. \A r \in R : r \in T /\ r < x
        BY <2>1, <3>1, <3>2
      <4> QED
        BY <4>1, <4>2
    <3>8. p[k + 1] = x
      BY <3>5, <3>6
    <3>9. p \in [1..(k + 1) -> T]
      <4>1. \A i \in 1..(k + 1) : p[i] \in T
        <5> TAKE i \in 1..(k + 1)
        <5>1. i \in 1..k \/ i = k + 1
          BY <3>5
        <5> QED
          BY <3>7, <3>8, <5>1
      <4> QED
        BY <3>6, <4>1
    <3>10. \A i, j \in 1..(k + 1) : i < j => p[i] < p[j]
      <4> TAKE i, j \in 1..(k + 1)
      <4> HAVE i < j
      <4>1. i \in 1..k /\ (j \in 1..k \/ j = k + 1)
        BY <3>5
      <4>2. CASE j \in 1..k
        BY <3>3, <3>4, <3>7, <4>1, <4>2
      <4>3. CASE j = k + 1
        BY <3>7, <3>8, <4>1, <4>3
      <4> QED
        BY <4>1, <4>2, <4>3
    <3>11. Sorted(p, T)
      BY <3>5, <3>9, <3>10
    <3> QED
      BY <3>11
  <2> QED
    BY <2>2, <2>3
<1>2. \A T \in SUBSET S : T \in G
  <2> HIDE DEF G
  <2> QED
    BY <1>1, SubsetInduction
<1>3. PICK q : Sorted(q, S)
  BY <1>2
<1> QED
  BY <1>3

LEMMA AscendingIn ==
    ASSUME NEW S, IsFiniteSet(S), S \subseteq Int
    PROVE  Ascending(S) \in Seq(S)
<1>1. Ascending(S) \in [1..Cardinality(S) -> S]
  BY AscendingExists DEF Ascending
<1>2. Cardinality(S) \in Nat
  BY FS_CardinalityType
<1> QED
  BY <1>1, <1>2

Queued(q, deps, n) ==
    q = [i \in 0..n |-> IF i = 0 THEN Ascending(Roots(deps)) ELSE Unlocked(deps, q[i - 1], i)]

LEMMA QueueExists == ASSUME NEW deps, NEW n \in Nat PROVE \E q : Queued(q, deps, n)
<1> DEFINE G == {k \in Nat : \E q : Queued(q, deps, k)}
<1>1. 0 \in G
  <2>1. PICK q : q = [i \in 0..0 |-> Ascending(Roots(deps))]
    OBVIOUS
  <2>2. Queued(q, deps, 0)
    BY <2>1 DEF Queued
  <2> QED
    BY <2>2
<1>2. ASSUME NEW k \in 0..(n - 1), k \in G PROVE k + 1 \in G
  <2>1. PICK q : Queued(q, deps, k)
    BY <1>2
  <2>2. PICK p : p = [i \in 0..(k + 1) |-> IF i <= k THEN q[i] ELSE Unlocked(deps, q[k], k + 1)]
    OBVIOUS
  <2>3. \A i \in 0..k : p[i] = q[i]
    BY <2>2
  <2>4. \A i \in 0..(k + 1) :
            p[i] = IF i = 0 THEN Ascending(Roots(deps)) ELSE Unlocked(deps, p[i - 1], i)
    <3> TAKE i \in 0..(k + 1)
    <3>1. CASE i = k + 1
      <4>1. i # 0 /\ i - 1 = k /\ k \in 0..k
        BY <3>1
      <4> QED
        BY <2>2, <2>3, <3>1, <4>1
    <3>2. CASE i # k + 1
      <4>1. i \in 0..k /\ (i # 0 => i - 1 \in 0..k)
        BY <3>2
      <4>2. q[i] = IF i = 0 THEN Ascending(Roots(deps)) ELSE Unlocked(deps, q[i - 1], i)
        BY <2>1, <4>1 DEF Queued
      <4> QED
        BY <2>3, <4>1, <4>2
    <3> QED
      BY <3>1, <3>2
  <2>5. Queued(p, deps, k + 1)
    BY <2>2, <2>4 DEF Queued
  <2> QED
    BY <2>5
<1>3. \A i \in 0..n : i \in G
  <2> HIDE DEF G
  <2> QED
    BY <1>1, <1>2, Steps
<1> QED
  BY <1>3

LEMMA QueueOfEdges ==
    ASSUME NEW deps, IsFiniteSet(DOMAIN deps), DOMAIN deps \subseteq Int
    PROVE  TopologicalOrder(deps) \in Seq(DOMAIN deps)
<1>1. PICK n : n = Cardinality(DOMAIN deps)
  OBVIOUS
<1>2. n \in Nat
  BY <1>1, FS_CardinalityType
<1> DEFINE queue[i \in 0..n] == IF i = 0 THEN Ascending(Roots(deps))
                                ELSE Unlocked(deps, queue[i - 1], i)
<1>3. TopologicalOrder(deps) = queue[n]
  BY <1>1 DEF TopologicalOrder
<1>4. Queued(queue, deps, n)
  BY <1>2, QueueExists DEF Queued
<1> HIDE DEF queue
<1>5. \A T \in SUBSET DOMAIN deps : Ascending(T) \in Seq(DOMAIN deps)
  <2> TAKE T \in SUBSET DOMAIN deps
  <2>1. IsFiniteSet(T) /\ T \subseteq Int
    BY FS_Subset
  <2>2. Ascending(T) \in Seq(T)
    BY <2>1, AscendingIn
  <2> QED
    BY <2>2, SeqMonotonic
<1> DEFINE G == {i \in 0..n : queue[i] \in Seq(DOMAIN deps)}
<1>6. 0 \in G
  <2>1. Roots(deps) \in SUBSET DOMAIN deps
    BY DEF Roots
  <2>2. queue[0] = Ascending(Roots(deps))
    BY <1>2, <1>4 DEF Queued
  <2> QED
    BY <1>2, <1>5, <2>1, <2>2
<1>7. ASSUME NEW i \in 0..(n - 1), i \in G PROVE i + 1 \in G
  <2>1. i + 1 \in 0..n /\ i + 1 # 0 /\ (i + 1) - 1 = i
    BY <1>2
  <2>2. queue[i + 1] = Unlocked(deps, queue[i], i + 1)
    BY <1>4, <2>1 DEF Queued
  <2>3. PICK T \in SUBSET DOMAIN deps : Unlocked(deps, queue[i], i + 1) = queue[i] \o Ascending(T)
    BY DEF Unlocked
  <2>4. queue[i] \in Seq(DOMAIN deps) /\ Ascending(T) \in Seq(DOMAIN deps)
    BY <1>5, <1>7
  <2>5. queue[i] \o Ascending(T) \in Seq(DOMAIN deps)
    BY <2>4
  <2> QED
    BY <2>1, <2>2, <2>3, <2>5
<1>8. \A i \in 0..n : i \in G
  <2> HIDE DEF G
  <2> QED
    BY <1>2, <1>6, <1>7, Steps
<1> QED
  BY <1>2, <1>3, <1>8
----------------------------------------------------------------------------
(* What holds while the macros are merged.                                 *)

Holds(m) == Range(quotient.macros[m].edges)
Linked(n, m) == \E d \in Holds(n), e \in Holds(m) : Precedes(d, e)

WorkOK ==
    /\ Len(work.edges) \in Nat /\ Edges = 1..Len(work.edges)
    /\ \A e \in Edges : ~Precedes(e, e)

QuotientType ==
    /\ IsFiniteSet(Ids) /\ Ids \subseteq Nat
    /\ DOMAIN quotient.deps = Ids /\ DOMAIN quotient.dependents = Ids
    /\ \A m \in Ids : /\ quotient.macros[m].edges \in Seq(Edges)
                      /\ quotient.macros[m].a \in Int /\ quotient.macros[m].b \in Int
                      /\ quotient.deps[m] \subseteq Ids /\ quotient.dependents[m] \subseteq Ids
                      /\ quotient.macros[m].edges = <<>> <=> m = VirtualJoin

(* Every layer is in one macro, after those of the same that it needs.     *)
Partition ==
    /\ \A e \in Edges : \E m \in Ids : e \in Holds(m)
    /\ \A m, n \in Ids : \A e \in Holds(m) : e \in Holds(n) => m = n
Within(m) ==
    \A i, j \in DOMAIN quotient.macros[m].edges :
        Precedes(quotient.macros[m].edges[i], quotient.macros[m].edges[j]) => i < j
Once(m) ==
    \A i, j \in DOMAIN quotient.macros[m].edges :
        quotient.macros[m].edges[i] = quotient.macros[m].edges[j] => i = j

Mirror == \A m, n \in Ids : m \in quotient.deps[n] <=> n \in quotient.dependents[m]
Uncircular == \A S \in SUBSET Ids : S # {} => \E m \in S : quotient.deps[m] \cap S = {}
DepsOfLayers ==
    \A m \in Ids \ {VirtualJoin} : \A n \in Ids :
        n \in quotient.deps[m] <=> n # m /\ Linked(n, m)

QInv ==
    /\ WorkOK /\ QuotientType /\ Partition /\ (\A m \in Ids : Within(m) /\ Once(m))
    /\ Mirror /\ Uncircular /\ DepsOfLayers

(* A macro can be merged with one that it alone needs, or that needs it    *)
(* alone, the virtual join only with the former.                           *)
Mergeable(p, c) ==
    /\ p \in Ids /\ c \in Ids /\ p \in quotient.deps[c]
    /\ \/ quotient.deps[c] = {p}
       \/ quotient.dependents[p] = {c} /\ c # VirtualJoin

LEMMA FreshIsNew ==
    ASSUME QInv, Ids # {}
    PROVE  Fresh \in Nat /\ Fresh # VirtualJoin /\ Fresh \notin Ids
<1>1. PICK S : S = Ids \cup Edges
  OBVIOUS
<1>2. IsFiniteSet(S) /\ S \subseteq Int /\ S \subseteq Nat /\ S # {}
  <2>1. IsFiniteSet(Edges) /\ Edges \subseteq Nat
    BY FS_Interval DEF QInv, WorkOK
  <2>2. IsFiniteSet(Ids) /\ Ids \subseteq Nat
    BY DEF QInv, QuotientType
  <2>3. IsFiniteSet(S)
    BY <1>1, <2>1, <2>2, FS_Union
  <2> QED
    BY <1>1, <2>1, <2>2, <2>3
<1>3. \E m \in S : \A n \in S : n <= m
  BY <1>2, LowestOf
<1>4. PICK top : top = CHOOSE m \in S : \A n \in S : n <= m
  OBVIOUS
<1>5. top \in S /\ \A n \in S : n <= top
  BY <1>3, <1>4
<1>6. Fresh = 1 + top
  BY <1>1, <1>4 DEF Fresh
<1> QED
  BY <1>1, <1>2, <1>5, <1>6 DEF VirtualJoin

LEMMA ParentFacts ==
    ASSUME QInv, NEW p, NEW c, Mergeable(p, c)
    PROVE  /\ p # c /\ p # VirtualJoin
           /\ c \notin quotient.deps[p] /\ p \notin quotient.deps[p] /\ c \notin quotient.deps[c]
<1>1. p \in Ids /\ c \in Ids /\ p \in quotient.deps[c]
  BY DEF Mergeable
<1>2. \A m \in Ids : m \notin quotient.deps[m]
  <2> TAKE m \in Ids
  <2>1. {m} \in SUBSET Ids /\ {m} # {}
    OBVIOUS
  <2>2. \E x \in {m} : quotient.deps[x] \cap {m} = {}
    BY <2>1 DEF QInv, Uncircular
  <2> QED
    BY <2>2
<1>3. c \notin quotient.deps[p]
  <2>1. {p, c} \in SUBSET Ids /\ {p, c} # {}
    BY <1>1
  <2>2. \E x \in {p, c} : quotient.deps[x] \cap {p, c} = {}
    BY <2>1 DEF QInv, Uncircular
  <2> QED
    BY <1>1, <2>2
<1>4. p # VirtualJoin
  <2>1. CASE c = VirtualJoin
    BY <1>1, <1>2, <2>1
  <2>2. CASE c # VirtualJoin
    <3>1. Linked(p, c)
      BY <1>1, <2>2 DEF QInv, DepsOfLayers
    <3>2. Holds(p) # {}
      BY <3>1 DEF Linked
    <3>3. p = VirtualJoin => quotient.macros[p].edges = <<>>
      BY <1>1 DEF QInv, QuotientType
    <3> QED
      BY <3>2, <3>3 DEF Holds, Range
  <2> QED
    BY <2>1, <2>2
<1> QED
  BY <1>1, <1>2, <1>3, <1>4

(* What a merge makes of the macros ...                                    *)
LEMMA MergedMacros ==
    ASSUME QInv, NEW p, NEW c, Mergeable(p, c), Merge(p, c), NEW F, F = Fresh
    PROVE  /\ F \in Nat /\ F # VirtualJoin /\ F \notin Ids
           /\ Ids' = (Ids \ {p, c}) \cup {F}
           /\ DOMAIN quotient'.deps = Ids' /\ DOMAIN quotient'.dependents = Ids'
           /\ quotient'.macros[F].edges = quotient.macros[p].edges \o quotient.macros[c].edges
           /\ quotient'.macros[F].a \in Int /\ quotient'.macros[F].b \in Int
           /\ \A m \in Ids \ {p, c} : quotient'.macros[m] = quotient.macros[m]
<1>1. p \in Ids /\ c \in Ids
  BY DEF Mergeable
<1>2. F \in Nat /\ F # VirtualJoin /\ F \notin Ids
  BY <1>1, FreshIsNew
<1>3. PICK ids : ids = (Ids \ {p, c}) \cup {F}
  OBVIOUS
<1>3a. PICK joined : joined = quotient.macros[p].edges \o quotient.macros[c].edges
  OBVIOUS
<1>4. PICK both : both = [edges |-> joined,
                 a |-> IF quotient.macros[p].a > quotient.macros[p].b + quotient.macros[c].a
                       THEN quotient.macros[p].a ELSE quotient.macros[p].b + quotient.macros[c].a,
                 b |-> quotient.macros[p].b + quotient.macros[c].b]
  OBVIOUS
<1>5. /\ quotient'.macros = [m \in ids |-> IF m = F THEN both ELSE quotient.macros[m]]
      /\ DOMAIN quotient'.deps = ids /\ DOMAIN quotient'.dependents = ids
  BY <1>3, <1>3a, <1>4 DEF Merge
<1>6. Ids' = ids
  BY <1>5 DEF Ids
<1>7. both.a \in Int /\ both.b \in Int
  <2>1. /\ quotient.macros[p].a \in Int /\ quotient.macros[p].b \in Int
        /\ quotient.macros[c].a \in Int /\ quotient.macros[c].b \in Int
    BY <1>1 DEF QInv, QuotientType
  <2> QED
    BY <1>4, <2>1
<1>8. \A m \in Ids \ {p, c} : m \in ids /\ m # F
  BY <1>2, <1>3
<1>9. quotient'.macros[F] = both
  BY <1>3, <1>5
<1>10. quotient'.macros[F].a \in Int /\ quotient'.macros[F].b \in Int
  BY <1>7, <1>9
<1>11. quotient'.macros[F].edges = quotient.macros[p].edges \o quotient.macros[c].edges
  <2>1. both.edges = joined
    BY <1>4
  <2> QED
    BY <1>3a, <1>9, <2>1
<1>12. \A m \in Ids \ {p, c} : quotient'.macros[m] = quotient.macros[m]
  BY <1>5, <1>8
<1>13. Ids' = (Ids \ {p, c}) \cup {F}
  BY <1>3, <1>6
<1>14. DOMAIN quotient'.deps = Ids' /\ DOMAIN quotient'.dependents = Ids'
  BY <1>5, <1>6
<1> QED
  BY <1>2, <1>10, <1>11, <1>12, <1>13, <1>14

(* ... and of who needs whom.                                              *)
LEMMA MergedDeps ==
    ASSUME QInv, NEW p, NEW c, Mergeable(p, c), Merge(p, c), NEW F, F = Fresh
    PROVE  /\ quotient'.deps[F] = quotient.deps[p] \cup (quotient.deps[c] \ {p})
           /\ quotient'.dependents[F] = (quotient.dependents[p] \ {c}) \cup quotient.dependents[c]
           /\ \A m \in Ids \ {p, c} :
                 /\ quotient'.deps[m] = IF p \in quotient.deps[m] \/ c \in quotient.deps[m]
                                        THEN (quotient.deps[m] \ {p, c}) \cup {F}
                                        ELSE quotient.deps[m]
                 /\ quotient'.dependents[m] =
                        IF p \in quotient.dependents[m] \/ c \in quotient.dependents[m]
                        THEN (quotient.dependents[m] \ {p, c}) \cup {F}
                        ELSE quotient.dependents[m]
<1>1. p \in Ids /\ c \in Ids
  BY DEF Mergeable
<1>2. F \notin Ids
  BY <1>1, FreshIsNew
<1>3. PICK ids : ids = (Ids \ {p, c}) \cup {F}
  OBVIOUS
<1>4. PICK above : above = quotient.deps[p] \cup (quotient.deps[c] \ {p})
  OBVIOUS
<1>5. PICK below : below = (quotient.dependents[p] \ {c}) \cup quotient.dependents[c]
  OBVIOUS
<1>6. /\ quotient'.deps = [m \in ids |-> IF m = F THEN above
                              ELSE IF m \in below THEN (quotient.deps[m] \ {p, c}) \cup {F}
                              ELSE quotient.deps[m]]
      /\ quotient'.dependents = [m \in ids |-> IF m = F THEN below
                              ELSE IF m \in above THEN (quotient.dependents[m] \ {p, c}) \cup {F}
                              ELSE quotient.dependents[m]]
  BY <1>3, <1>4, <1>5 DEF Merge
<1>7. \A m \in Ids \ {p, c} : m \in ids /\ m # F
  BY <1>2, <1>3
<1>8. \A m \in Ids \ {p, c} : /\ m \in below <=> p \in quotient.deps[m] \/ c \in quotient.deps[m]
                              /\ m \in above <=> p \in quotient.dependents[m] \/ c \in quotient.dependents[m]
  BY <1>1, <1>4, <1>5 DEF QInv, Mirror
<1>9. quotient'.deps[F] = above /\ quotient'.dependents[F] = below
  BY <1>3, <1>6
<1>10. ASSUME NEW m \in Ids \ {p, c}
       PROVE  /\ quotient'.deps[m] = IF p \in quotient.deps[m] \/ c \in quotient.deps[m]
                                      THEN (quotient.deps[m] \ {p, c}) \cup {F}
                                      ELSE quotient.deps[m]
              /\ quotient'.dependents[m] =
                     IF p \in quotient.dependents[m] \/ c \in quotient.dependents[m]
                     THEN (quotient.dependents[m] \ {p, c}) \cup {F}
                     ELSE quotient.dependents[m]
  <2>1. m \in ids /\ m # F
    BY <1>7
  <2>2. /\ quotient'.deps[m] = IF m \in below THEN (quotient.deps[m] \ {p, c}) \cup {F}
                               ELSE quotient.deps[m]
        /\ quotient'.dependents[m] = IF m \in above THEN (quotient.dependents[m] \ {p, c}) \cup {F}
                                     ELSE quotient.dependents[m]
    BY <1>6, <2>1
  <2>3. /\ m \in below <=> p \in quotient.deps[m] \/ c \in quotient.deps[m]
        /\ m \in above <=> p \in quotient.dependents[m] \/ c \in quotient.dependents[m]
    BY <1>8
  <2>4. quotient'.deps[m] = IF p \in quotient.deps[m] \/ c \in quotient.deps[m]
                            THEN (quotient.deps[m] \ {p, c}) \cup {F} ELSE quotient.deps[m]
    <3>1. CASE m \in below
      BY <2>2, <2>3, <3>1
    <3>2. CASE m \notin below
      BY <2>2, <2>3, <3>2
    <3> QED
      BY <3>1, <3>2
  <2>5. quotient'.dependents[m] =
            IF p \in quotient.dependents[m] \/ c \in quotient.dependents[m]
            THEN (quotient.dependents[m] \ {p, c}) \cup {F} ELSE quotient.dependents[m]
    <3>1. CASE m \in above
      BY <2>2, <2>3, <3>1
    <3>2. CASE m \notin above
      BY <2>2, <2>3, <3>2
    <3> QED
      BY <3>1, <3>2
  <2> QED
    BY <2>4, <2>5
<1> QED
  BY <1>4, <1>5, <1>9, <1>10

LEMMA MergedDepsOnly ==
    ASSUME QInv, NEW p, NEW c, Mergeable(p, c), Merge(p, c), NEW F, F = Fresh
    PROVE  \A m \in Ids \ {p, c} :
               quotient'.deps[m] = IF p \in quotient.deps[m] \/ c \in quotient.deps[m]
                                   THEN (quotient.deps[m] \ {p, c}) \cup {F} ELSE quotient.deps[m]
<1>1. \A m \in Ids \ {p, c} :
                 /\ quotient'.deps[m] = IF p \in quotient.deps[m] \/ c \in quotient.deps[m]
                                        THEN (quotient.deps[m] \ {p, c}) \cup {F}
                                        ELSE quotient.deps[m]
                 /\ quotient'.dependents[m] =
                        IF p \in quotient.dependents[m] \/ c \in quotient.dependents[m]
                        THEN (quotient.dependents[m] \ {p, c}) \cup {F}
                        ELSE quotient.dependents[m]
  BY MergedDeps
<1> QED
  BY <1>1, Zenon

(* The layers of a merged macro.                                           *)
LEMMA MergedHolds ==
    ASSUME QInv, NEW p, NEW c, Mergeable(p, c), Merge(p, c), UNCHANGED work, NEW F, F = Fresh
    PROVE  /\ quotient'.macros[F].edges \in Seq(Edges) /\ quotient'.macros[F].edges # <<>>
           /\ Range(quotient'.macros[F].edges) = Holds(p) \cup Holds(c)
           /\ \A i, j \in DOMAIN quotient'.macros[F].edges :
                  /\ Precedes(quotient'.macros[F].edges[i], quotient'.macros[F].edges[j]) => i < j
                  /\ quotient'.macros[F].edges[i] = quotient'.macros[F].edges[j] => i = j
<1>1. p \in Ids /\ c \in Ids /\ p # c /\ p # VirtualJoin /\ c \notin quotient.deps[p]
  BY ParentFacts DEF Mergeable
<1>2. PICK s : s = quotient.macros[p].edges
  OBVIOUS
<1>3. PICK t : t = quotient.macros[c].edges
  OBVIOUS
<1>4. quotient'.macros[F].edges = s \o t
  BY <1>2, <1>3, MergedMacros
<1>5. s \in Seq(Edges) /\ t \in Seq(Edges) /\ s # <<>>
  BY <1>1, <1>2, <1>3 DEF QInv, QuotientType
<1>6. /\ s \o t \in Seq(Edges) /\ Len(s \o t) = Len(s) + Len(t)
      /\ \A i \in 1..(Len(s) + Len(t)) :
             (s \o t)[i] = IF i <= Len(s) THEN s[i] ELSE t[i - Len(s)]
  BY <1>5, ConcatProperties
<1>7. /\ Len(s) \in Nat /\ Len(t) \in Nat /\ DOMAIN s = 1..Len(s) /\ DOMAIN t = 1..Len(t)
      /\ DOMAIN (s \o t) = 1..(Len(s) + Len(t)) /\ Len(s) # 0
  BY <1>5, <1>6, LenProperties
<1>8. PICK q : q = s \o t
  OBVIOUS
<1>9. \A i \in DOMAIN q : \/ i \in DOMAIN s /\ q[i] = s[i]
                          \/ i - Len(s) \in DOMAIN t /\ q[i] = t[i - Len(s)] /\ i > Len(s)
  <2> TAKE i \in DOMAIN q
  <2>1. i \in 1..(Len(s) + Len(t)) /\ q[i] = IF i <= Len(s) THEN s[i] ELSE t[i - Len(s)]
    BY <1>6, <1>7, <1>8
  <2> QED
    BY <1>7, <2>1
<1>10. \A i \in DOMAIN s : i \in DOMAIN q /\ q[i] = s[i]
  BY <1>6, <1>7, <1>8
<1>11. \A i \in DOMAIN t : i + Len(s) \in DOMAIN q /\ q[i + Len(s)] = t[i]
  <2> TAKE i \in DOMAIN t
  <2>1. i + Len(s) \in 1..(Len(s) + Len(t)) /\ ~(i + Len(s) <= Len(s)) /\ (i + Len(s)) - Len(s) = i
    BY <1>7
  <2> QED
    BY <1>6, <1>7, <1>8, <2>1
<1>12. Range(q) = Range(s) \cup Range(t)
  BY <1>9, <1>10, <1>11 DEF Range
<1>13. ASSUME NEW i \in DOMAIN t, NEW j \in DOMAIN s PROVE ~Precedes(t[i], s[j])
  <2>1. t[i] \in Holds(c) /\ s[j] \in Holds(p)
    BY <1>2, <1>3 DEF Holds, Range
  <2>2. ~Linked(c, p)
    BY <1>1 DEF QInv, DepsOfLayers
  <2> QED
    BY <2>1, <2>2 DEF Linked
<1>14. \A i, j \in DOMAIN s : Precedes(s[i], s[j]) => i < j
  BY <1>1, <1>2 DEF QInv, Within
<1>15. \A i, j \in DOMAIN t : Precedes(t[i], t[j]) => i < j
  BY <1>1, <1>3 DEF QInv, Within
<1>16. \A i, j \in DOMAIN q : Precedes(q[i], q[j]) => i < j
  <2> TAKE i, j \in DOMAIN q
  <2> HAVE Precedes(q[i], q[j])
  <2>1. i \in Int /\ j \in Int
    BY <1>7, <1>8
  <2>2. CASE i \in DOMAIN s /\ q[i] = s[i]
    <3>1. CASE j \in DOMAIN s /\ q[j] = s[j]
      BY <2>2, <3>1, <1>14
    <3>2. CASE j > Len(s)
      BY <1>7, <2>1, <2>2, <3>2
    <3> QED
      BY <1>9, <3>1, <3>2
  <2>3. CASE i - Len(s) \in DOMAIN t /\ q[i] = t[i - Len(s)] /\ i > Len(s)
    <3>1. CASE j \in DOMAIN s /\ q[j] = s[j]
      BY <2>3, <3>1, <1>13
    <3>2. CASE j - Len(s) \in DOMAIN t /\ q[j] = t[j - Len(s)]
      <4>1. i - Len(s) < j - Len(s)
        BY <2>3, <3>2, <1>15
      <4> QED
        BY <1>7, <2>1, <4>1
    <3> QED
      BY <1>9, <3>1, <3>2
  <2> QED
    BY <1>9, <2>2, <2>3
<1>18. \A i \in DOMAIN s, j \in DOMAIN t : s[i] # t[j]
  <2> TAKE i \in DOMAIN s, j \in DOMAIN t
  <2>1. s[i] \in Holds(p) /\ t[j] \in Holds(c)
    BY <1>2, <1>3 DEF Holds, Range
  <2> QED
    BY <1>1, <2>1 DEF QInv, Partition
<1>19. \A i, j \in DOMAIN s : s[i] = s[j] => i = j
  BY <1>1, <1>2 DEF QInv, Once
<1>20. \A i, j \in DOMAIN t : t[i] = t[j] => i = j
  BY <1>1, <1>3 DEF QInv, Once
<1>21. \A i, j \in DOMAIN q : q[i] = q[j] => i = j
  <2> TAKE i, j \in DOMAIN q
  <2> HAVE q[i] = q[j]
  <2>1. i \in Int /\ j \in Int
    BY <1>7, <1>8
  <2>2. CASE i \in DOMAIN s /\ q[i] = s[i]
    <3>1. j \in DOMAIN s /\ q[j] = s[j]
      BY <1>9, <1>18, <2>2
    <3> QED
      BY <1>19, <2>2, <3>1
  <2>3. CASE i - Len(s) \in DOMAIN t /\ q[i] = t[i - Len(s)]
    <3>1. j - Len(s) \in DOMAIN t /\ q[j] = t[j - Len(s)]
      BY <1>9, <1>18, <2>3
    <3>2. i - Len(s) = j - Len(s)
      BY <1>20, <2>3, <3>1
    <3> QED
      BY <1>7, <2>1, <3>2
  <2> QED
    BY <1>9, <2>2, <2>3
<1>17. q # <<>>
  BY <1>5, <1>6, <1>7, <1>8
<1>22. quotient'.macros[F].edges = q /\ q \in Seq(Edges)
  BY <1>4, <1>6, <1>8
<1>23. Range(q) = Holds(p) \cup Holds(c)
  BY <1>2, <1>3, <1>12 DEF Holds
<1> QED
  BY <1>16, <1>17, <1>21, <1>22, <1>23

(* The order of the macros stays without circles.                          *)
LEMMA MergedUncircular ==
    ASSUME QInv, NEW p, NEW c, Mergeable(p, c), Merge(p, c), NEW F, F = Fresh
    PROVE  \A S \in SUBSET Ids' : S # {} => \E m \in S : quotient'.deps[m] \cap S = {}
<1>1. p \in Ids /\ c \in Ids /\ p # c /\ p \in quotient.deps[c] /\ c \notin quotient.deps[p]
  BY ParentFacts DEF Mergeable
<1>2. F \notin Ids /\ Ids' = (Ids \ {p, c}) \cup {F}
  BY MergedMacros
<1>3. \A m \in Ids : quotient.deps[m] \subseteq Ids
  BY DEF QInv, QuotientType
<1>4. \A T \in SUBSET Ids : T # {} => \E m \in T : quotient.deps[m] \cap T = {}
  BY DEF QInv, Uncircular
<1>5. quotient'.deps[F] = quotient.deps[p] \cup (quotient.deps[c] \ {p})
  BY MergedDeps
<1>6. \A m \in Ids \ {p, c} :
          quotient'.deps[m] = IF p \in quotient.deps[m] \/ c \in quotient.deps[m]
                              THEN (quotient.deps[m] \ {p, c}) \cup {F} ELSE quotient.deps[m]
  BY MergedDepsOnly
<1>7. SUFFICES ASSUME NEW S \in SUBSET Ids', S # {}
               PROVE  \E m \in S : quotient'.deps[m] \cap S = {}
  OBVIOUS
<1>8. CASE F \notin S
  <2>1. S \in SUBSET Ids /\ S \subseteq Ids \ {p, c}
    BY <1>2, <1>8
  <2>2. PICK m \in S : quotient.deps[m] \cap S = {}
    BY <1>4, <1>7, <2>1
  <2>3. quotient'.deps[m] \subseteq quotient.deps[m] \cup {F}
    BY <1>6, <2>1
  <2> QED
    BY <1>8, <2>2, <2>3
<1>9. CASE F \in S
  <2>1. PICK R : R = S \ {F}
    OBVIOUS
  <2>2. R \subseteq Ids \ {p, c} /\ S = R \cup {F}
    BY <1>2, <1>9, <2>1
  <2>3. PICK T : T = R \cup {p, c}
    OBVIOUS
  <2>4. T \in SUBSET Ids /\ T # {}
    BY <1>1, <2>2, <2>3
  <2>5. PICK x \in T : quotient.deps[x] \cap T = {}
    BY <1>4, <2>4
  <2>6. ASSUME NEW y \in R, p \notin quotient.deps[y], c \notin quotient.deps[y],
               quotient.deps[y] \cap R = {}
        PROVE  \E m \in S : quotient'.deps[m] \cap S = {}
    <3>1. quotient'.deps[y] = quotient.deps[y] /\ quotient.deps[y] \subseteq Ids
      BY <1>3, <1>6, <2>2, <2>6
    <3>2. quotient'.deps[y] \cap S = {}
      BY <1>2, <2>2, <2>6, <3>1
    <3> QED
      BY <2>2, <3>2
  <2>7. CASE x \in R
    BY <2>3, <2>5, <2>6, <2>7
  <2>8. CASE x = c
    BY <1>1, <2>3, <2>5, <2>8
  <2>9. CASE x = p
    <3>1. quotient.deps[p] \cap R = {} /\ p \notin quotient.deps[p]
      BY <2>3, <2>5, <2>9
    <3>2. ASSUME quotient.deps[c] \cap R = {} PROVE quotient'.deps[F] \cap S = {}
      <4>1. quotient.deps[p] \subseteq Ids /\ quotient.deps[c] \subseteq Ids
        BY <1>1, <1>3
      <4> QED
        BY <1>2, <1>5, <2>2, <3>1, <3>2, <4>1
    <3>3. CASE quotient.deps[c] = {p}
      <4>1. quotient.deps[c] \cap R = {}
        BY <2>2, <3>3
      <4> QED
        BY <1>9, <3>2, <4>1
    <3>4. CASE quotient.dependents[p] = {c}
      <4>1. PICK U : U = R \cup {c}
        OBVIOUS
      <4>2. U \in SUBSET Ids /\ U # {}
        BY <1>1, <2>2, <4>1
      <4>3. PICK y \in U : quotient.deps[y] \cap U = {}
        BY <1>4, <4>2
      <4>4. CASE y = c
        <5>1. quotient.deps[c] \cap R = {}
          BY <4>1, <4>3, <4>4
        <5> QED
          BY <1>9, <3>2, <5>1
      <4>5. CASE y # c
        <5>1. y \in R /\ y \in Ids /\ c \notin quotient.deps[y] /\ quotient.deps[y] \cap R = {}
          BY <2>2, <4>1, <4>3, <4>5
        <5>2. p \notin quotient.deps[y]
          BY <1>1, <3>4, <4>5, <5>1 DEF QInv, Mirror
        <5> QED
          BY <2>6, <5>1, <5>2
      <4> QED
        BY <4>4, <4>5
    <3> QED
      BY <3>3, <3>4 DEF Mergeable
  <2> QED
    BY <2>3, <2>7, <2>8, <2>9
<1> QED
  BY <1>8, <1>9

LEMMA MergedMirror ==
    ASSUME QInv, NEW p, NEW c, Mergeable(p, c), Merge(p, c), NEW F, F = Fresh
    PROVE  /\ \A m \in Ids' : quotient'.deps[m] \subseteq Ids' /\ quotient'.dependents[m] \subseteq Ids'
           /\ \A m, n \in Ids' : m \in quotient'.deps[n] <=> n \in quotient'.dependents[m]
<1>1. /\ p \in Ids /\ c \in Ids /\ p # c /\ p \in quotient.deps[c]
      /\ c \notin quotient.deps[p] /\ p \notin quotient.deps[p] /\ c \notin quotient.deps[c]
  BY ParentFacts DEF Mergeable
<1>2. F \notin Ids /\ Ids' = (Ids \ {p, c}) \cup {F}
  BY MergedMacros
<1>3. \A m \in Ids : quotient.deps[m] \subseteq Ids /\ quotient.dependents[m] \subseteq Ids
  BY DEF QInv, QuotientType
<1>4. \A m, n \in Ids : m \in quotient.deps[n] <=> n \in quotient.dependents[m]
  BY DEF QInv, Mirror
<1>5. /\ quotient'.deps[F] = quotient.deps[p] \cup (quotient.deps[c] \ {p})
      /\ quotient'.dependents[F] = (quotient.dependents[p] \ {c}) \cup quotient.dependents[c]
  BY MergedDeps
<1>6. \A m \in Ids \ {p, c} :
          /\ quotient'.deps[m] = IF p \in quotient.deps[m] \/ c \in quotient.deps[m]
                                 THEN (quotient.deps[m] \ {p, c}) \cup {F} ELSE quotient.deps[m]
          /\ quotient'.dependents[m] =
                 IF p \in quotient.dependents[m] \/ c \in quotient.dependents[m]
                 THEN (quotient.dependents[m] \ {p, c}) \cup {F} ELSE quotient.dependents[m]
  BY MergedDeps
<1>7. /\ p \notin quotient.dependents[p] /\ c \notin quotient.dependents[c]
      /\ p \notin quotient.dependents[c]
  BY <1>1, <1>4
<1>8. /\ quotient'.deps[F] \subseteq Ids \ {p, c} /\ quotient'.dependents[F] \subseteq Ids \ {p, c}
  BY <1>1, <1>3, <1>5, <1>7
<1>9. ASSUME NEW m \in Ids \ {p, c}
      PROVE  /\ \A n \in Ids \ {p, c} : /\ n \in quotient'.deps[m] <=> n \in quotient.deps[m]
                                        /\ n \in quotient'.dependents[m] <=> n \in quotient.dependents[m]
             /\ F \in quotient'.deps[m] <=> p \in quotient.deps[m] \/ c \in quotient.deps[m]
             /\ F \in quotient'.dependents[m] <=>
                    p \in quotient.dependents[m] \/ c \in quotient.dependents[m]
             /\ quotient'.deps[m] \subseteq Ids' /\ quotient'.dependents[m] \subseteq Ids'
  <2>1. quotient.deps[m] \subseteq Ids /\ quotient.dependents[m] \subseteq Ids
    BY <1>3
  <2>2. /\ quotient'.deps[m] = IF p \in quotient.deps[m] \/ c \in quotient.deps[m]
                                 THEN (quotient.deps[m] \ {p, c}) \cup {F} ELSE quotient.deps[m]
        /\ quotient'.dependents[m] =
                 IF p \in quotient.dependents[m] \/ c \in quotient.dependents[m]
                 THEN (quotient.dependents[m] \ {p, c}) \cup {F} ELSE quotient.dependents[m]
    BY <1>6
  <2> QED
    BY <1>2, <2>1, <2>2
<1>10. \A m \in Ids' : quotient'.deps[m] \subseteq Ids' /\ quotient'.dependents[m] \subseteq Ids'
  <2> TAKE m \in Ids'
  <2>1. m = F \/ m \in Ids \ {p, c}
    BY <1>2
  <2> QED
    BY <1>2, <1>8, <1>9, <2>1
<1>11. \A m, n \in Ids' : m \in quotient'.deps[n] <=> n \in quotient'.dependents[m]
  <2> TAKE m, n \in Ids'
  <2>1. (m = F \/ m \in Ids \ {p, c}) /\ (n = F \/ n \in Ids \ {p, c})
    BY <1>2
  <2>2. CASE m = F /\ n = F
    BY <1>2, <1>8, <2>2
  <2>3. CASE m = F /\ n \in Ids \ {p, c}
    <3>1. m \in quotient'.deps[n] <=> p \in quotient.deps[n] \/ c \in quotient.deps[n]
      BY <1>9, <2>3
    <3>2. n \in quotient'.dependents[m] <=> n \in quotient.dependents[p] \/ n \in quotient.dependents[c]
      BY <1>5, <2>3
    <3> QED
      BY <1>1, <1>4, <2>3, <3>1, <3>2
  <2>4. CASE m \in Ids \ {p, c} /\ n = F
    <3>1. n \in quotient'.dependents[m] <=> p \in quotient.dependents[m] \/ c \in quotient.dependents[m]
      BY <1>9, <2>4
    <3>2. m \in quotient'.deps[n] <=> m \in quotient.deps[p] \/ m \in quotient.deps[c]
      BY <1>5, <2>4
    <3> QED
      BY <1>1, <1>4, <2>4, <3>1, <3>2
  <2>5. CASE m \in Ids \ {p, c} /\ n \in Ids \ {p, c}
    <3>1. m \in quotient'.deps[n] <=> m \in quotient.deps[n]
      BY <1>9, <2>5
    <3>2. n \in quotient'.dependents[m] <=> n \in quotient.dependents[m]
      BY <1>9, <2>5
    <3> QED
      BY <1>4, <2>5, <3>1, <3>2
  <2> QED
    BY <2>1, <2>2, <2>3, <2>4, <2>5
<1> QED
  BY <1>10, <1>11

LEMMA HoldsAfter ==
    ASSUME QInv, NEW p, NEW c, Mergeable(p, c), Merge(p, c), UNCHANGED work, NEW F, F = Fresh
    PROVE  /\ Holds(F)' = Holds(p) \cup Holds(c)
           /\ \A m \in Ids \ {p, c} : Holds(m)' = Holds(m)
           /\ \A d, e : Precedes(d, e)' <=> Precedes(d, e)
<1>1. Range(quotient'.macros[F].edges) = Holds(p) \cup Holds(c)
  BY MergedHolds
<1>2. \A m \in Ids \ {p, c} : quotient'.macros[m] = quotient.macros[m]
  BY MergedMacros
<1> QED
  BY <1>1, <1>2 DEF Holds, Precedes

LEMMA MergedPartition ==
    ASSUME QInv, NEW p, NEW c, Mergeable(p, c), Merge(p, c), UNCHANGED work, NEW F, F = Fresh
    PROVE  Partition'
<1>1. p \in Ids /\ c \in Ids
  BY DEF Mergeable
<1>2. F \notin Ids /\ Ids' = (Ids \ {p, c}) \cup {F}
  BY MergedMacros
<1>3. Holds(F)' = Holds(p) \cup Holds(c) /\ \A m \in Ids \ {p, c} : Holds(m)' = Holds(m)
  BY HoldsAfter
<1>4. Edges' = Edges
  BY DEF Edges
<1>5. \A e \in Edges : \E m \in Ids : e \in Holds(m)
  BY DEF QInv, Partition
<1>6. \A m, n \in Ids : \A e \in Holds(m) : e \in Holds(n) => m = n
  BY DEF QInv, Partition
<1>7. ASSUME NEW e \in Edges' PROVE \E m \in Ids' : e \in Holds(m)'
  <2>1. PICK m \in Ids : e \in Holds(m)
    BY <1>4, <1>5
  <2>2. CASE m \in {p, c}
    BY <1>2, <1>3, <2>1, <2>2
  <2>3. CASE m \notin {p, c}
    BY <1>2, <1>3, <2>1, <2>3
  <2> QED
    BY <2>2, <2>3
<1>8. ASSUME NEW m \in Ids', NEW n \in Ids', NEW e \in Holds(m)', e \in Holds(n)'
      PROVE  m = n
  <2>1. CASE m = F /\ n = F
    BY <2>1
  <2>2. CASE m = F /\ n # F
    <3>1. n \in Ids \ {p, c} /\ e \in Holds(n)
      BY <1>2, <1>3, <1>8, <2>2
    <3>2. e \in Holds(p) \/ e \in Holds(c)
      BY <1>3, <1>8, <2>2
    <3> QED
      BY <1>1, <1>6, <3>1, <3>2
  <2>3. CASE m # F /\ n = F
    <3>1. m \in Ids \ {p, c} /\ e \in Holds(m)
      BY <1>2, <1>3, <1>8, <2>3
    <3>2. e \in Holds(p) \/ e \in Holds(c)
      BY <1>3, <1>8, <2>3
    <3> QED
      BY <1>1, <1>6, <3>1, <3>2
  <2>4. CASE m # F /\ n # F
    <3>1. m \in Ids /\ n \in Ids /\ e \in Holds(m) /\ e \in Holds(n)
      BY <1>2, <1>3, <1>8, <2>4
    <3> QED
      BY <1>6, <3>1
  <2> QED
    BY <2>1, <2>2, <2>3, <2>4
<1> QED
  BY <1>7, <1>8 DEF Partition

LEMMA MergedDepsOfLayers ==
    ASSUME QInv, NEW p, NEW c, Mergeable(p, c), Merge(p, c), UNCHANGED work, NEW F, F = Fresh
    PROVE  DepsOfLayers'
<1>1. p \in Ids /\ c \in Ids /\ p # c /\ p # VirtualJoin /\ p \in quotient.deps[c]
  BY ParentFacts DEF Mergeable
<1>2. F \notin Ids /\ Ids' = (Ids \ {p, c}) \cup {F}
  BY MergedMacros
<1>3. /\ Holds(F)' = Holds(p) \cup Holds(c) /\ \A m \in Ids \ {p, c} : Holds(m)' = Holds(m)
      /\ \A d, e : Precedes(d, e)' <=> Precedes(d, e)
  BY HoldsAfter
<1>4. \A m \in Ids \ {VirtualJoin} : \A n \in Ids :
          n \in quotient.deps[m] <=> n # m /\ Linked(n, m)
  BY DEF QInv, DepsOfLayers
<1>5. quotient'.deps[F] = quotient.deps[p] \cup (quotient.deps[c] \ {p})
  BY MergedDeps
<1>6. \A m \in Ids \ {p, c} :
          quotient'.deps[m] = IF p \in quotient.deps[m] \/ c \in quotient.deps[m]
                              THEN (quotient.deps[m] \ {p, c}) \cup {F} ELSE quotient.deps[m]
  BY MergedDepsOnly
<1>7. \A m \in Ids : quotient.deps[m] \subseteq Ids
  BY DEF QInv, QuotientType
<1>8. c = VirtualJoin => quotient.deps[c] = {p} /\ Holds(c) = {}
  <2>1. c = VirtualJoin => quotient.deps[c] = {p}
    BY DEF Mergeable
  <2>2. c = VirtualJoin => quotient.macros[c].edges = <<>>
    BY <1>1 DEF QInv, QuotientType
  <2> QED
    BY <2>1, <2>2 DEF Holds, Range
<1>9. \A n \in Ids \ {p, c} : n \in quotient.deps[c] <=> Linked(n, c)
  <2> TAKE n \in Ids \ {p, c}
  <2>1. CASE c = VirtualJoin
    <3>1. ~Linked(n, c) /\ n \notin quotient.deps[c]
      BY <1>8, <2>1 DEF Linked
    <3> QED
      BY <3>1
  <2>2. CASE c # VirtualJoin
    BY <1>1, <1>4, <2>2
  <2> QED
    BY <2>1, <2>2
<1>10. \A n \in Ids \ {p, c} : n \in quotient.deps[p] <=> Linked(n, p)
  BY <1>1, <1>4
<1>11. SUFFICES ASSUME NEW m \in Ids', m # VirtualJoin, NEW n \in Ids'
                PROVE  n \in quotient'.deps[m] <=> n # m /\ Linked(n, m)'
  BY DEF DepsOfLayers
<1>12. CASE m = F /\ n = F
  <2>1. F \notin quotient'.deps[F]
    BY <1>1, <1>2, <1>5, <1>7
  <2> QED
    BY <1>12, <2>1
<1>13. CASE m = F /\ n # F
  <2>1. n \in Ids \ {p, c}
    BY <1>2, <1>13
  <2>2. n \in quotient'.deps[m] <=> Linked(n, p) \/ Linked(n, c)
    BY <1>5, <1>9, <1>10, <1>13, <2>1
  <2>3. Linked(n, m)' <=> Linked(n, p) \/ Linked(n, c)
    BY <1>3, <1>13, <2>1 DEF Linked
  <2> QED
    BY <1>13, <2>2, <2>3
<1>14. CASE m # F /\ n = F
  <2>1. m \in Ids \ {p, c}
    BY <1>2, <1>14
  <2>2. F \notin quotient.deps[m]
    BY <1>2, <1>7, <2>1
  <2>3. n \in quotient'.deps[m] <=> p \in quotient.deps[m] \/ c \in quotient.deps[m]
    BY <1>6, <1>14, <2>1, <2>2
  <2>4. n \in quotient'.deps[m] <=> Linked(p, m) \/ Linked(c, m)
    BY <1>1, <1>4, <1>11, <2>1, <2>3
  <2>5. Linked(n, m)' <=> Linked(p, m) \/ Linked(c, m)
    BY <1>3, <1>14, <2>1 DEF Linked
  <2> QED
    BY <1>14, <2>4, <2>5
<1>15. CASE m # F /\ n # F
  <2>1. m \in Ids \ {p, c} /\ n \in Ids \ {p, c}
    BY <1>2, <1>15
  <2>2. n \in quotient'.deps[m] <=> n \in quotient.deps[m]
    BY <1>6, <1>15, <2>1
  <2>3. Linked(n, m)' <=> Linked(n, m)
    BY <1>3, <2>1 DEF Linked
  <2> QED
    BY <1>4, <1>11, <2>1, <2>2, <2>3
<1> QED
  BY <1>12, <1>13, <1>14, <1>15

(* Merging keeps all of it.                                                *)
LEMMA MergeKeeps ==
    ASSUME QInv, NEW p, NEW c, Mergeable(p, c), Merge(p, c), UNCHANGED work, NEW F, F = Fresh
    PROVE  QInv' /\ F \in Ids' /\ F # VirtualJoin /\ Ids' = (Ids \ {p, c}) \cup {F}
<1>1. /\ F \in Nat /\ F # VirtualJoin /\ Ids' = (Ids \ {p, c}) \cup {F}
      /\ DOMAIN quotient'.deps = Ids' /\ DOMAIN quotient'.dependents = Ids'
      /\ quotient'.macros[F].a \in Int /\ quotient'.macros[F].b \in Int
      /\ \A m \in Ids \ {p, c} : quotient'.macros[m] = quotient.macros[m]
  BY MergedMacros
<1>2. /\ quotient'.macros[F].edges \in Seq(Edges) /\ quotient'.macros[F].edges # <<>>
      /\ \A i, j \in DOMAIN quotient'.macros[F].edges :
             /\ Precedes(quotient'.macros[F].edges[i], quotient'.macros[F].edges[j]) => i < j
             /\ quotient'.macros[F].edges[i] = quotient'.macros[F].edges[j] => i = j
  BY MergedHolds
<1>3. Edges' = Edges /\ \A d, e : Precedes(d, e)' <=> Precedes(d, e)
  BY DEF Edges, Precedes
<1>4. WorkOK'
  <2>1. WorkOK
    BY DEF QInv
  <2> QED
    BY <1>3, <2>1 DEF WorkOK
<1>5. /\ \A m \in Ids' : quotient'.deps[m] \subseteq Ids' /\ quotient'.dependents[m] \subseteq Ids'
      /\ \A m, n \in Ids' : m \in quotient'.deps[n] <=> n \in quotient'.dependents[m]
  BY MergedMirror
<1>6. QuotientType'
  <2>1. IsFiniteSet(Ids) /\ Ids \subseteq Nat
    BY DEF QInv, QuotientType
  <2>2. IsFiniteSet(Ids') /\ Ids' \subseteq Nat
    <3>1. IsFiniteSet(Ids \ {p, c})
      BY <2>1, FS_Subset
    <3>2. IsFiniteSet((Ids \ {p, c}) \cup {F})
      BY <3>1, FS_AddElement
    <3> QED
      BY <1>1, <2>1, <3>2
  <2>3. ASSUME NEW m \in Ids'
        PROVE  /\ quotient'.macros[m].edges \in Seq(Edges)
               /\ quotient'.macros[m].a \in Int /\ quotient'.macros[m].b \in Int
               /\ quotient'.macros[m].edges = <<>> <=> m = VirtualJoin
    <3>1. CASE m = F
      BY <1>1, <1>2, <3>1
    <3>2. CASE m # F
      <4>1. m \in Ids /\ quotient'.macros[m] = quotient.macros[m]
        BY <1>1, <3>2
      <4>2. /\ quotient.macros[m].edges \in Seq(Edges)
            /\ quotient.macros[m].a \in Int /\ quotient.macros[m].b \in Int
            /\ quotient.macros[m].edges = <<>> <=> m = VirtualJoin
        BY <4>1 DEF QInv, QuotientType
      <4> QED
        BY <4>1, <4>2
    <3> QED
      BY <3>1, <3>2
  <2> QED
    BY <1>1, <1>3, <1>5, <2>2, <2>3 DEF QuotientType
<1>7. (\A m \in Ids : Within(m) /\ Once(m))'
  <2> SUFFICES ASSUME NEW m \in Ids' PROVE Within(m)' /\ Once(m)'
    OBVIOUS
  <2>1. CASE m = F
    BY <1>2, <1>3, <2>1 DEF Within, Once
  <2>2. CASE m # F
    <3>1. m \in Ids /\ quotient'.macros[m] = quotient.macros[m]
      BY <1>1, <2>2
    <3>2. Within(m) /\ Once(m)
      BY <3>1 DEF QInv
    <3> QED
      BY <1>3, <3>1, <3>2 DEF Within, Once
  <2> QED
    BY <2>1, <2>2
<1>8. Uncircular'
  <2>1. \A S \in SUBSET Ids' : S # {} => \E m \in S : quotient'.deps[m] \cap S = {}
    BY MergedUncircular
  <2> QED
    BY <2>1 DEF Uncircular
<1>9. Mirror'
  BY <1>5 DEF Mirror
<1>10. Partition' /\ DepsOfLayers'
  BY MergedPartition, MergedDepsOfLayers
<1> QED
  BY <1>1, <1>4, <1>6, <1>7, <1>8, <1>9, <1>10 DEF QInv

----------------------------------------------------------------------------
(* What the solver starts with: a macro for each edge.                     *)

(* Some layer of each set needs none of the others.                        *)
CircleFree(edges) ==
    \A S \in SUBSET DOMAIN edges : S # {} =>
        \E e \in S : \A d \in S : Range(edges[d].writes) \cap Range(edges[e].reads) = {}

LEMMA Started ==
    ASSUME NEW edges, NEW cached, NEW profile, NEW n \in Nat, DOMAIN edges = 1..n, Len(edges) = n,
           CircleFree(edges), \A e \in 1..n : profile[e][1] \in Int /\ profile[e][2] \in Int,
           StartSolver(edges, cached, profile)
    PROVE  QInv' /\ pending' \in Seq(Nat \ {VirtualJoin})
<1>1. PICK es : es = DOMAIN edges
  OBVIOUS
<1>2. PICK deps : deps = [e \in es |-> {d \in es : Range(edges[d].writes) \cap Range(edges[e].reads) # {}}]
  OBVIOUS
<1>3. PICK dependents : dependents = [d \in es |-> {e \in es : d \in deps[e]}]
  OBVIOUS
<1>4. PICK ends : ends = {e \in es : dependents[e] = {}}
  OBVIOUS
<1>5. PICK macros : macros = [e \in es |-> [edges |-> <<e>>, a |-> profile[e][1], b |-> profile[e][2]]]
  OBVIOUS
<1>6. PICK ids : ids = {VirtualJoin} \cup es
  OBVIOUS
<1>7. PICK virtual : virtual = [edges |-> <<>>, a |-> 0, b |-> Unbounded]
  OBVIOUS
<1>8. /\ work' = [edges |-> edges, cached |-> cached]
      /\ quotient' =
             IF Cardinality(ends) <= 1
             THEN [macros |-> macros, deps |-> deps, dependents |-> dependents]
             ELSE [macros |-> [m \in ids |-> IF m \in es THEN macros[m] ELSE virtual],
                   deps |-> [m \in ids |-> IF m \in es THEN deps[m] ELSE ends],
                   dependents |-> [m \in ids |-> IF m \notin es THEN {}
                                                 ELSE IF m \in ends THEN {VirtualJoin}
                                                 ELSE dependents[m]]]
      /\ pending' = TopologicalOrder(deps)
  BY <1>1, <1>2, <1>3, <1>4, <1>5, <1>6, <1>7 DEF StartSolver
<1>9. /\ Edges' = es /\ es = 1..n /\ IsFiniteSet(es) /\ es \subseteq Nat \ {VirtualJoin}
      /\ IsFiniteSet(ids) /\ ids \subseteq Nat /\ VirtualJoin \notin es
  <2>1. Edges' = es
    BY <1>1, <1>8 DEF Edges
  <2>2. IsFiniteSet(1..n)
    BY FS_Interval
  <2>3. 0 \in Nat /\ 0 \notin 1..n /\ 1..n \subseteq Nat
    OBVIOUS
  <2>4. IsFiniteSet(ids)
    <3>1. IsFiniteSet(es \cup {VirtualJoin})
      BY <1>1, <2>2, FS_AddElement
    <3>2. ids = es \cup {VirtualJoin}
      BY <1>6
    <3> QED
      BY <3>1, <3>2
  <2> QED
    BY <1>1, <1>6, <2>1, <2>2, <2>3, <2>4 DEF VirtualJoin
<1>10. \A d, e \in es : Precedes(d, e)' <=> d \in deps[e]
  BY <1>1, <1>2, <1>8 DEF Precedes
<1>11. \A e \in es : deps[e] \subseteq es /\ dependents[e] \subseteq es /\ DOMAIN deps = es /\ DOMAIN dependents = es
  BY <1>2, <1>3
<1>12. \A S \in SUBSET es : S # {} => \E e \in S : deps[e] \cap S = {}
  <2> TAKE S \in SUBSET es
  <2> HAVE S # {}
  <2>1. PICK e \in S : \A d \in S : Range(edges[d].writes) \cap Range(edges[e].reads) = {}
    BY <1>1 DEF CircleFree
  <2>2. \A d \in S : d \notin deps[e]
    BY <1>2, <2>1
  <2> QED
    BY <2>2
<1>13. \A e \in es : e \notin deps[e]
  <2> TAKE e \in es
  <2>1. {e} \in SUBSET es /\ {e} # {}
    OBVIOUS
  <2> QED
    BY <1>12, <2>1
<1>14. WorkOK'
  <2>1. Len(work'.edges) = n /\ work'.edges = edges
    BY <1>8
  <2>2. \A e \in es : ~Precedes(e, e)'
    BY <1>10, <1>13
  <2> QED
    BY <1>9, <2>1, <2>2 DEF WorkOK
<1>15. \A d, e \in es : d \in deps[e] <=> e \in dependents[d]
  BY <1>3
<1>16. \A e \in es : /\ macros[e].edges = <<e>> /\ macros[e].edges \in Seq(es) /\ macros[e].edges # <<>>
                     /\ macros[e].a \in Int /\ macros[e].b \in Int
  <2> TAKE e \in es
  <2>1. macros[e] = [edges |-> <<e>>, a |-> profile[e][1], b |-> profile[e][2]]
    BY <1>5
  <2>2. macros[e].edges = <<e>> /\ macros[e].a = profile[e][1] /\ macros[e].b = profile[e][2]
    BY <2>1
  <2>3. <<e>> \in Seq(es) /\ <<e>> # <<>>
    OBVIOUS
  <2> QED
    BY <1>1, <2>2, <2>3
<1>17. DOMAIN macros = es
  BY <1>5
<1>18. ASSUME Cardinality(ends) <= 1 PROVE QInv'
  <2>1. quotient'.macros = macros /\ quotient'.deps = deps /\ quotient'.dependents = dependents /\ Ids' = es
    BY <1>8, <1>17, <1>18 DEF Ids
  <2>2. \A e \in es : Holds(e)' = {e}
    BY <1>16, <2>1 DEF Holds, Range
  <2>3. QuotientType'
    <3>1. DOMAIN quotient'.deps = es /\ DOMAIN quotient'.dependents = es
      BY <1>2, <1>3, <2>1
    <3>2. ASSUME NEW m \in es
          PROVE  /\ quotient'.macros[m].edges \in Seq(es)
                 /\ quotient'.macros[m].a \in Int /\ quotient'.macros[m].b \in Int
                 /\ quotient'.deps[m] \subseteq es /\ quotient'.dependents[m] \subseteq es
                 /\ quotient'.macros[m].edges = <<>> <=> m = VirtualJoin
      BY <1>9, <1>11, <1>16, <2>1
    <3> QED
      BY <1>9, <2>1, <3>1, <3>2 DEF QuotientType
  <2>4. Partition'
    BY <1>9, <2>1, <2>2 DEF Partition
  <2>5. (\A m \in Ids : Within(m) /\ Once(m))'
    BY <1>10, <1>13, <1>16, <2>1 DEF Within, Once
  <2>6. Mirror'
    BY <1>15, <2>1 DEF Mirror
  <2>7. Uncircular'
    BY <1>12, <2>1 DEF Uncircular
  <2>8. DepsOfLayers'
    BY <1>10, <1>13, <2>1, <2>2 DEF DepsOfLayers, Linked
  <2> QED
    BY <1>14, <2>3, <2>4, <2>5, <2>6, <2>7, <2>8 DEF QInv
<1>19. ASSUME ~(Cardinality(ends) <= 1) PROVE QInv'
  <2>1. /\ quotient'.macros = [m \in ids |-> IF m \in es THEN macros[m] ELSE virtual]
        /\ quotient'.deps = [m \in ids |-> IF m \in es THEN deps[m] ELSE ends]
        /\ quotient'.dependents = [m \in ids |-> IF m \notin es THEN {}
                                                 ELSE IF m \in ends THEN {VirtualJoin}
                                                 ELSE dependents[m]]
    BY <1>8, <1>19
  <2>2. Ids' = ids /\ DOMAIN quotient'.deps = ids /\ DOMAIN quotient'.dependents = ids
    BY <2>1 DEF Ids
  <2>3. /\ \A e \in es : /\ quotient'.macros[e] = macros[e] /\ quotient'.deps[e] = deps[e]
                        /\ quotient'.dependents[e] = IF e \in ends THEN {VirtualJoin} ELSE dependents[e]
        /\ quotient'.macros[VirtualJoin] = virtual /\ quotient'.deps[VirtualJoin] = ends
        /\ quotient'.dependents[VirtualJoin] = {}
    BY <1>6, <1>9, <2>1
  <2>4. virtual.edges = <<>> /\ virtual.edges \in Seq(es) /\ virtual.a \in Int /\ virtual.b \in Int
    BY <1>7 DEF Unbounded
  <2>5. \A e \in es : Holds(e)' = {e}
    BY <1>16, <2>3 DEF Holds, Range
  <2>6. Holds(VirtualJoin)' = {}
    BY <2>3, <2>4 DEF Holds, Range
  <2>7. \A m \in ids : m \in es \/ m = VirtualJoin
    BY <1>6
  <2>8. QuotientType'
    <3>1. ASSUME NEW m \in ids
          PROVE  /\ quotient'.macros[m].edges \in Seq(es)
                 /\ quotient'.macros[m].a \in Int /\ quotient'.macros[m].b \in Int
                 /\ quotient'.deps[m] \subseteq ids /\ quotient'.dependents[m] \subseteq ids
                 /\ quotient'.macros[m].edges = <<>> <=> m = VirtualJoin
      <4>1. ends \subseteq ids
        BY <1>4, <1>6
      <4>2. CASE m = VirtualJoin
        BY <2>3, <2>4, <4>1, <4>2
      <4>3. CASE m \in es
        BY <1>6, <1>9, <1>11, <1>16, <2>3, <4>3
      <4> QED
        BY <2>7, <4>2, <4>3
    <3> QED
      BY <1>9, <2>2, <3>1 DEF QuotientType
  <2>9. Partition'
    <3>1. \A e \in es : \E m \in ids : e \in Holds(m)'
      BY <1>6, <2>5
    <3>2. \A m \in ids : \A e \in Holds(m)' : m = e
      BY <2>5, <2>6, <2>7
    <3> QED
      BY <1>9, <2>2, <3>1, <3>2 DEF Partition
  <2>10. (\A m \in Ids : Within(m) /\ Once(m))'
    <3>1. \A e \in es : Within(e)' /\ Once(e)'
      BY <1>10, <1>13, <1>16, <2>3 DEF Within, Once
    <3>2. Within(VirtualJoin)' /\ Once(VirtualJoin)'
      BY <2>3, <2>4 DEF Within, Once
    <3> QED
      BY <2>2, <2>7, <3>1, <3>2
  <2>11. Mirror'
    <3>1. ASSUME NEW d \in ids, NEW e \in ids
          PROVE  d \in quotient'.deps[e] <=> e \in quotient'.dependents[d]
      <4>1. CASE d \in es /\ e \in es
        <5>1. d \in ends => e \notin dependents[d] /\ e # VirtualJoin
          BY <1>4, <1>9, <4>1
        <5> QED
          BY <1>15, <2>3, <4>1, <5>1
      <4>2. CASE d = VirtualJoin
        <5>1. VirtualJoin \notin ends /\ \A m \in es : VirtualJoin \notin deps[m]
          BY <1>4, <1>9, <1>11
        <5> QED
          BY <2>3, <2>7, <4>2, <5>1
      <4>3. CASE d \in es /\ e = VirtualJoin
        <5>1. VirtualJoin \notin dependents[d]
          BY <1>9, <1>11, <4>3
        <5> QED
          BY <2>3, <4>3, <5>1
      <4> QED
        BY <2>7, <4>1, <4>2, <4>3
    <3> QED
      BY <2>2, <3>1 DEF Mirror
  <2>12. Uncircular'
    <3>1. ASSUME NEW S \in SUBSET ids, S # {} PROVE \E m \in S : quotient'.deps[m] \cap S = {}
      <4>1. CASE S = {VirtualJoin}
        <5>1. VirtualJoin \notin ends
          BY <1>4, <1>9
        <5> QED
          BY <2>3, <4>1, <5>1
      <4>2. CASE S # {VirtualJoin}
        <5>1. PICK R : R = S \ {VirtualJoin}
          OBVIOUS
        <5>2. R \in SUBSET es /\ R # {}
          BY <2>7, <3>1, <4>2, <5>1
        <5>3. PICK m \in R : deps[m] \cap R = {}
          BY <1>12, <5>2
        <5>4. m \in es /\ VirtualJoin \notin deps[m] /\ quotient'.deps[m] = deps[m]
          BY <1>9, <1>11, <2>3, <5>2
        <5> QED
          BY <5>1, <5>3, <5>4
      <4> QED
        BY <4>1, <4>2
    <3> QED
      BY <2>2, <3>1 DEF Uncircular
  <2>13. DepsOfLayers'
    <3>1. ASSUME NEW m \in es, NEW k \in ids
          PROVE  k \in quotient'.deps[m] <=> k # m /\ Linked(k, m)'
      <4>1. CASE k \in es
        <5>1. Linked(k, m)' <=> k \in deps[m]
          BY <1>10, <2>5, <4>1 DEF Linked
        <5> QED
          BY <1>13, <2>3, <5>1
      <4>2. CASE k = VirtualJoin
        <5>1. ~Linked(k, m)' /\ k \notin deps[m]
          BY <1>9, <1>11, <2>6, <4>2 DEF Linked
        <5> QED
          BY <2>3, <5>1
      <4> QED
        BY <2>7, <4>1, <4>2
    <3> QED
      BY <1>6, <2>2, <3>1 DEF DepsOfLayers
  <2> QED
    BY <1>14, <2>8, <2>9, <2>10, <2>11, <2>12, <2>13 DEF QInv
<1>20. pending' \in Seq(Nat \ {VirtualJoin})
  <2>1. DOMAIN deps = es
    BY <1>2
  <2>2. IsFiniteSet(DOMAIN deps) /\ DOMAIN deps \subseteq Int
    BY <1>9, <2>1
  <2>3. TopologicalOrder(deps) \in Seq(DOMAIN deps)
    BY <2>2, QueueOfEdges
  <2>4. TopologicalOrder(deps) \in Seq(Nat \ {VirtualJoin})
    BY <1>9, <2>1, <2>3, SeqMonotonic
  <2> QED
    BY <1>8, <2>4
<1> QED
  BY <1>18, <1>19, <1>20

----------------------------------------------------------------------------
(* The solver's own state.                                                 *)

Ordered ==
    /\ order \in Seq(Edges)
    /\ \A m \in Ids : Holds(m) \subseteq Range(order) \/ Holds(m) \cap Range(order) = {}
    /\ \A e \in Range(order), d \in Edges : Precedes(d, e) => d \in Range(order)
    /\ \A i, j \in DOMAIN order : /\ Precedes(order[i], order[j]) => i < j
                                  /\ order[i] = order[j] => i = j

Guided ==
    /\ stage \in {"merging", "virtual", "ordering"}
    /\ pending \in Seq(Nat \ {VirtualJoin})
    /\ branch = [join |-> branch.join, todo |-> branch.todo, at |-> branch.at,
                 merged |-> branch.merged]
    /\ branch.at # None => branch.at \in Ids
    /\ Preparing /\ (branch.at = None \/ branch.merged = "no") => branch.join \in Ids
    /\ branch.at # None /\ branch.merged # "no" => branch.at # VirtualJoin
    /\ stage = "merging" => branch.join # VirtualJoin
    /\ stage = "ordering" => VirtualJoin \notin Ids /\ branch = NoBranch
    /\ stage # "ordering" => order = <<>>

SolverInv == stage # "idle" => QInv /\ Guided /\ Ordered

LEMMA FirstIn ==
    ASSUME NEW S, IsFiniteSet(S), S \subseteq Int, S # {}
    PROVE  First(S) \in S
<1>1. \E m \in S : \A n \in S : m <= n
  BY LowestOf
<1> QED
  BY <1>1 DEF First

LEMMA RanksOf ==
    ASSUME QInv, NEW m \in Ids
    PROVE  Rank(m)[1] \in {0, 1} /\ Rank(m)[2] \in Int
<1>1. quotient.macros[m].a \in Int /\ quotient.macros[m].b \in Int
  BY DEF QInv, QuotientType
<1> QED
  BY <1>1 DEF Rank

LEMMA ExtremesIn ==
    ASSUME QInv, NEW S \in SUBSET Ids, S # {}
    PROVE  Lowest(S) \in S /\ Highest(S) \in S
<1>1. IsFiniteSet(S) /\ S \subseteq Int
  <2>1. IsFiniteSet(Ids) /\ Ids \subseteq Nat
    BY DEF QInv, QuotientType
  <2>2. IsFiniteSet(S)
    BY <2>1, FS_Subset
  <2> QED
    BY <2>1, <2>2
<1>2. \A m \in S : Rank(m)[1] \in {0, 1} /\ Rank(m)[2] \in Int
  BY RanksOf
<1>3. \A T \in SUBSET S : T # {} => /\ \E m \in T : \A n \in T : Rank(m)[2] <= Rank(n)[2]
                                    /\ \E m \in T : \A n \in T : Rank(n)[2] <= Rank(m)[2]
  <2> TAKE T \in SUBSET S
  <2> HAVE T # {}
  <2>1. IsFiniteSet(T)
    BY <1>1, FS_Subset
  <2>2. PICK f : f = [m \in T |-> Rank(m)[2]]
    OBVIOUS
  <2>3. f \in [T -> Int] /\ \A m \in T : f[m] = Rank(m)[2]
    BY <1>2, <2>2
  <2>4. /\ \E m \in T : \A n \in T : f[m] <= f[n]
        /\ \E m \in T : \A n \in T : f[n] <= f[m]
    BY <2>1, <2>3, Extremes
  <2> QED
    BY <2>3, <2>4
<1>4. PICK zero : zero = {m \in S : Rank(m)[1] = 0}
  OBVIOUS
<1>5. PICK one : one = {m \in S : Rank(m)[1] = 1}
  OBVIOUS
<1>6. \E m \in S : \A n \in S : ~Less(n, m)
  <2>1. CASE zero # {}
    <3>1. PICK m \in zero : \A n \in zero : Rank(m)[2] <= Rank(n)[2]
      BY <1>3, <1>4, <2>1
    <3>2. \A n \in S : ~Less(n, m)
      BY <1>2, <1>4, <3>1 DEF Less
    <3> QED
      BY <1>4, <3>2
  <2>2. CASE zero = {}
    <3>1. PICK m \in S : \A n \in S : Rank(m)[2] <= Rank(n)[2]
      BY <1>3
    <3>2. \A n \in S : ~Less(n, m)
      BY <1>2, <1>4, <2>2, <3>1 DEF Less
    <3> QED
      BY <3>2
  <2> QED
    BY <2>1, <2>2
<1>7. \E m \in S : \A n \in S : ~Less(m, n)
  <2>1. CASE one # {}
    <3>1. PICK m \in one : \A n \in one : Rank(n)[2] <= Rank(m)[2]
      BY <1>3, <1>5, <2>1
    <3>2. \A n \in S : ~Less(m, n)
      BY <1>2, <1>5, <3>1 DEF Less
    <3> QED
      BY <1>5, <3>2
  <2>2. CASE one = {}
    <3>1. PICK m \in S : \A n \in S : Rank(n)[2] <= Rank(m)[2]
      BY <1>3
    <3>2. \A n \in S : ~Less(m, n)
      BY <1>2, <1>5, <2>2, <3>1 DEF Less
    <3> QED
      BY <3>2
  <2> QED
    BY <2>1, <2>2
<1>8. PICK low : low = {m \in S : \A n \in S : ~Less(n, m)}
  OBVIOUS
<1>9. PICK high : high = {m \in S : \A n \in S : ~Less(m, n)}
  OBVIOUS
<1>10. low \in SUBSET S /\ low # {} /\ high \in SUBSET S /\ high # {}
  BY <1>6, <1>7, <1>8, <1>9
<1>11. First(low) \in low /\ First(high) \in high
  <2>1. IsFiniteSet(low) /\ IsFiniteSet(high) /\ low \subseteq Int /\ high \subseteq Int
    BY <1>1, <1>10, FS_Subset
  <2> QED
    BY <1>10, <2>1, FirstIn
<1> QED
  BY <1>8, <1>9, <1>10, <1>11 DEF Lowest, Highest

(* Steps that merge nothing.                                               *)
LEMMA QuotientKept == ASSUME QInv, UNCHANGED <<work, quotient>> PROVE QInv' /\ Ids' = Ids
<1>1. Ids' = Ids /\ Edges' = Edges /\ \A d, e : Precedes(d, e)' <=> Precedes(d, e)
  BY DEF Ids, Edges, Precedes
<1>2. \A m : Holds(m)' = Holds(m)
  BY DEF Holds
<1>3. WorkOK'
  BY <1>1 DEF QInv, WorkOK
<1>4. QuotientType'
  BY <1>1 DEF QInv, QuotientType
<1>5. Partition'
  BY <1>1, <1>2 DEF QInv, Partition
<1>6. (\A m \in Ids : Within(m) /\ Once(m))'
  BY <1>1 DEF QInv, Within, Once
<1>7. Mirror' /\ Uncircular'
  BY <1>1 DEF QInv, Mirror, Uncircular
<1>8. DepsOfLayers'
  BY <1>1, <1>2 DEF QInv, DepsOfLayers, Linked
<1> QED
  BY <1>1, <1>3, <1>4, <1>5, <1>6, <1>7, <1>8 DEF QInv

LEMMA NothingOrdered == ASSUME order' = <<>> PROVE Ordered'
<1>1. order' \in Seq(Edges') /\ Range(order') = {} /\ DOMAIN order' = {}
  BY DEF Range
<1> QED
  BY <1>1 DEF Ordered

LEMMA MergeStep ==
    ASSUME QInv, NEW p, NEW c, Mergeable(p, c), Merge(p, c), UNCHANGED <<work, order>>, order = <<>>
    PROVE  /\ QInv' /\ Ordered' /\ order' = <<>>
           /\ Fresh \in Nat /\ Fresh # VirtualJoin /\ Fresh # None
           /\ Fresh \in Ids' /\ Ids' = (Ids \ {p, c}) \cup {Fresh}
<1>1. Ordered'
  BY NothingOrdered
<1>2. Ids # {}
  BY DEF Mergeable
<1>3. Fresh \in Nat /\ Fresh # VirtualJoin
  BY <1>2, FreshIsNew
<1>4. Fresh # None
  BY <1>3 DEF None
<1>5. PICK F : F = Fresh
  OBVIOUS
<1>6. QInv' /\ F \in Ids' /\ F # VirtualJoin /\ Ids' = (Ids \ {p, c}) \cup {F}
  BY <1>5, MergeKeeps
<1> QED
  BY <1>1, <1>3, <1>4, <1>5, <1>6

LEMMA FollowingIsMergeable ==
    ASSUME QInv, NEW m \in Ids, FollowsParent(m)
    PROVE  Mergeable(Parent(m), m)
<1>1. PICK p \in quotient.deps[m] : quotient.deps[m] = {p}
  BY DEF FollowsParent
<1>2. Parent(m) = p /\ p \in Ids
  BY <1>1 DEF Parent, QInv, QuotientType
<1> QED
  BY <1>1, <1>2 DEF Mergeable

LEMMA BranchIsMergeable ==
    ASSUME QInv, NEW m \in Ids, Branches(m) # {}
    PROVE  Mergeable(m, Lowest(Branches(m)))
<1>1. Branches(m) \in SUBSET Ids
  BY DEF Branches, QInv, QuotientType
<1>2. PICK c : c = Lowest(Branches(m))
  OBVIOUS
<1>3. c \in Branches(m)
  BY <1>1, <1>2, ExtremesIn
<1>4. c \in Ids /\ c \in quotient.dependents[m] /\ Cardinality(quotient.deps[c]) = 1
  BY <1>1, <1>3 DEF Branches
<1>5. m \in quotient.deps[c]
  BY <1>4 DEF QInv, Mirror
<1>6. quotient.deps[c] = {m}
  <2>1. quotient.deps[c] \in SUBSET Ids /\ IsFiniteSet(Ids)
    BY <1>4 DEF QInv, QuotientType
  <2>2. IsFiniteSet(quotient.deps[c])
    BY <2>1, FS_Subset
  <2>3. \E x : quotient.deps[c] = {x}
    BY <1>4, <2>2, FS_Singleton
  <2> QED
    BY <1>5, <2>3
<1> QED
  BY <1>2, <1>4, <1>5, <1>6 DEF Mergeable

LEMMA JoinIsMergeable ==
    ASSUME QInv, NEW m \in Ids, m # VirtualJoin, JoinParents(m) # {}
    PROVE  Mergeable(Highest(JoinParents(m)), m)
<1>1. JoinParents(m) \in SUBSET Ids
  BY DEF JoinParents, QInv, QuotientType
<1>2. PICK p : p = Highest(JoinParents(m))
  OBVIOUS
<1>3. p \in JoinParents(m)
  BY <1>1, <1>2, ExtremesIn
<1>4. p \in Ids /\ p \in quotient.deps[m] /\ quotient.dependents[p] = {m}
  BY <1>1, <1>3 DEF JoinParents
<1> QED
  BY <1>2, <1>4 DEF Mergeable

----------------------------------------------------------------------------
(* The steps of the solver.                                                *)

LEMMA OrderedKept == ASSUME Ordered, UNCHANGED <<work, quotient, order>> PROVE Ordered'
<1>1. Ids' = Ids /\ Edges' = Edges /\ \A d, e : Precedes(d, e)' <=> Precedes(d, e)
  BY DEF Ids, Edges, Precedes
<1>2. \A m : Holds(m)' = Holds(m)
  BY DEF Holds
<1> QED
  BY <1>1, <1>2 DEF Ordered

LEMMA PassOverKeeps == ASSUME SolverInv, stage # "idle", PassOver PROVE SolverInv'
<1>1. QInv' /\ Ids' = Ids /\ Ordered'
  BY QuotientKept, OrderedKept DEF SolverInv, PassOver
<1>2. Guided'
  <2>1. pending \in Seq(Nat \ {VirtualJoin}) /\ pending # <<>> /\ pending' = Tail(pending)
    BY DEF SolverInv, Guided, PassOver, Looking
  <2>2. pending' \in Seq(Nat \ {VirtualJoin})
    BY <2>1
  <2>3. UNCHANGED <<branch, stage, order>>
    BY DEF PassOver
  <2> QED
    BY <1>1, <2>2, <2>3 DEF SolverInv, Guided, Preparing
<1> QED
  BY <1>1, <1>2 DEF SolverInv

LEMMA MergeLinearKeeps == ASSUME SolverInv, stage # "idle", MergeLinear PROVE SolverInv'
<1>1. /\ QInv /\ stage = "merging" /\ branch = NoBranch /\ order = <<>> /\ Current \in Ids
      /\ FollowsParent(Current) /\ Merge(Parent(Current), Current)
      /\ UNCHANGED <<work, branch, stage, order>>
  BY DEF SolverInv, Guided, MergeLinear, Looking
<1>2. Mergeable(Parent(Current), Current)
  BY <1>1, FollowingIsMergeable
<1>3. QInv' /\ Ordered' /\ Fresh \in Nat /\ Fresh # VirtualJoin /\ order' = <<>>
  BY <1>1, <1>2, MergeStep
<1>4. pending' \in Seq(Nat \ {VirtualJoin})
  <2>1. pending \in Seq(Nat \ {VirtualJoin}) /\ pending # <<>> /\ pending' = <<Fresh>> \o Tail(pending)
    BY DEF SolverInv, Guided, MergeLinear, Looking
  <2>2. Tail(pending) \in Seq(Nat \ {VirtualJoin}) /\ <<Fresh>> \in Seq(Nat \ {VirtualJoin})
    BY <1>3, <2>1
  <2> QED
    BY <2>1, <2>2
<1>5. Guided'
  BY <1>1, <1>3, <1>4 DEF Guided, Preparing, NoBranch, None, VirtualJoin
<1> QED
  BY <1>3, <1>5 DEF SolverInv

LEMMA PrepareJoinKeeps == ASSUME SolverInv, stage # "idle", PrepareJoin PROVE SolverInv'
<1>1. QInv' /\ Ids' = Ids /\ Ordered'
  BY QuotientKept, OrderedKept DEF SolverInv, PrepareJoin
<1>2. /\ pending \in Seq(Nat \ {VirtualJoin}) /\ pending # <<>> /\ pending' = Tail(pending)
      /\ stage = "merging" /\ order = <<>> /\ Current \in Ids /\ UNCHANGED <<stage, order>>
  BY DEF SolverInv, Guided, PrepareJoin, Looking
<1>3. pending' \in Seq(Nat \ {VirtualJoin}) /\ Current # VirtualJoin
  BY <1>2 DEF Current
<1>4. PICK todo0 : todo0 = BranchingAncestors(Current)
  OBVIOUS
<1>5. branch' = [join |-> Current, todo |-> todo0, at |-> None, merged |-> "no"]
  BY <1>4 DEF PrepareJoin, Prepare
<1>6. Guided'
  BY <1>1, <1>2, <1>3, <1>5 DEF Guided, Preparing, NoBranch
<1> QED
  BY <1>1, <1>6 DEF SolverInv

LEMMA NextAncestorKeeps == ASSUME SolverInv, stage # "idle", NextAncestor PROVE SolverInv'
<1>1. QInv' /\ Ids' = Ids /\ Ordered'
  BY QuotientKept, OrderedKept DEF SolverInv, NextAncestor
<1>2. Guided /\ UNCHANGED <<pending, stage, order>> /\ branch.at = None /\ Preparing
  BY DEF SolverInv, NextAncestor
<1>3. PICK at : at = IF Head(branch.todo) \in Ids THEN Head(branch.todo) ELSE None
  OBVIOUS
<1>4. PICK rest : rest = Tail(branch.todo)
  OBVIOUS
<1>5. branch' = [join |-> branch.join, todo |-> rest, at |-> at, merged |-> "no"]
  BY <1>2, <1>3, <1>4 DEF NextAncestor, Guided
<1>6. at = None \/ at \in Ids
  BY <1>3
<1>7. branch.join \in Ids /\ stage # "ordering"
  BY <1>2 DEF Guided, Preparing
<1>8. Guided'
  BY <1>1, <1>2, <1>5, <1>6, <1>7 DEF Guided, Preparing
<1> QED
  BY <1>1, <1>8 DEF SolverInv

LEMMA MergeAt ==
    ASSUME SolverInv, stage # "idle", Preparing, NEW p, NEW c, Mergeable(p, c), Merge(p, c),
           NEW how \in {"branch", "upward"}, branch' = [branch EXCEPT !.at = Fresh, !.merged = how],
           UNCHANGED <<work, pending, stage, order>>
    PROVE  SolverInv'
<1>1. QInv /\ Guided /\ stage # "ordering" /\ order = <<>>
  BY DEF SolverInv, Guided, Preparing
<1>2. QInv' /\ Ordered' /\ Fresh \in Ids' /\ Fresh # VirtualJoin /\ Fresh # None /\ order' = <<>>
  BY <1>1, MergeStep
<1>3. PICK F : F = Fresh
  OBVIOUS
<1>4. branch' = [join |-> branch.join, todo |-> branch.todo, at |-> F, merged |-> how]
  BY <1>1, <1>3 DEF Guided
<1>5. Guided'
  BY <1>1, <1>2, <1>3, <1>4 DEF Guided, Preparing
<1> QED
  BY <1>2, <1>5 DEF SolverInv

LEMMA MergeBranchKeeps == ASSUME SolverInv, stage # "idle", MergeBranch PROVE SolverInv'
<1>1. QInv /\ branch.at \in Ids /\ Branches(branch.at) # {}
  BY DEF SolverInv, Guided, MergeBranch
<1>2. PICK p : p = branch.at
  OBVIOUS
<1>3. PICK c : c = Lowest(Branches(branch.at))
  OBVIOUS
<1>4. Mergeable(p, c)
  BY <1>1, <1>2, <1>3, BranchIsMergeable
<1>5. Merge(p, c) /\ Preparing /\ UNCHANGED <<work, pending, stage, order>>
      /\ branch' = [branch EXCEPT !.at = Fresh, !.merged = "branch"]
  BY <1>2, <1>3 DEF MergeBranch
<1> QED
  BY <1>4, <1>5, MergeAt

LEMMA MergeUpwardKeeps == ASSUME SolverInv, stage # "idle", MergeUpward PROVE SolverInv'
<1>1. QInv /\ branch.at \in Ids /\ FollowsParent(branch.at)
  BY DEF SolverInv, Guided, MergeUpward, BranchesMerged
<1>2. PICK p : p = Parent(branch.at)
  OBVIOUS
<1>3. PICK c : c = branch.at
  OBVIOUS
<1>4. Mergeable(p, c)
  BY <1>1, <1>2, <1>3, FollowingIsMergeable
<1>5. Merge(p, c) /\ Preparing /\ UNCHANGED <<work, pending, stage, order>>
      /\ branch' = [branch EXCEPT !.at = Fresh, !.merged = "upward"]
  BY <1>2, <1>3 DEF MergeUpward
<1> QED
  BY <1>4, <1>5, MergeAt

LEMMA EndBranchKeeps == ASSUME SolverInv, stage # "idle", EndBranch PROVE SolverInv'
<1>1. QInv' /\ Ids' = Ids /\ Ordered'
  BY QuotientKept, OrderedKept DEF SolverInv, EndBranch
<1>2. Guided /\ UNCHANGED <<stage, order>> /\ branch.at # None /\ Preparing /\ QInv
  BY DEF SolverInv, EndBranch, BranchesMerged
<1>3. stage # "ordering" /\ order = <<>>
  BY <1>2 DEF Guided, Preparing
<1>4. CASE branch.join \in Ids
  <2>1. branch' = [branch EXCEPT !.at = None] /\ pending' = pending
    BY <1>4 DEF EndBranch
  <2>2. branch' = [join |-> branch.join, todo |-> branch.todo, at |-> None, merged |-> branch.merged]
    BY <1>2, <2>1 DEF Guided
  <2>3. Guided'
    BY <1>1, <1>2, <1>3, <1>4, <2>1, <2>2 DEF Guided
  <2> QED
    BY <1>1, <2>3 DEF SolverInv
<1>5. CASE branch.join \notin Ids
  <2>1. branch' = NoBranch /\ pending' = <<branch.at>> \o pending
    BY <1>5 DEF EndBranch
  <2>2. branch.at \in Ids /\ branch.at # VirtualJoin /\ Ids \subseteq Nat
    BY <1>2, <1>5 DEF Guided, QInv, QuotientType
  <2>3. pending' \in Seq(Nat \ {VirtualJoin})
    <3>1. pending \in Seq(Nat \ {VirtualJoin}) /\ <<branch.at>> \in Seq(Nat \ {VirtualJoin})
      BY <1>2, <2>2 DEF Guided
    <3> QED
      BY <2>1, <3>1
  <2>4. Guided'
    BY <1>1, <1>2, <1>3, <2>1, <2>3 DEF Guided, Preparing, NoBranch, None, VirtualJoin
  <2> QED
    BY <1>1, <2>4 DEF SolverInv
<1> QED
  BY <1>4, <1>5

LEMMA MergeJoinKeeps == ASSUME SolverInv, stage # "idle", MergeJoin PROVE SolverInv'
<1>1. /\ QInv /\ Guided /\ Ordered /\ stage = "merging" /\ order = <<>> /\ branch' = NoBranch
      /\ UNCHANGED <<work, stage, order>> /\ branch.join \in Ids /\ branch.join # VirtualJoin
  BY DEF SolverInv, Guided, MergeJoin, BranchesPrepared
<1>2. CASE JoinParents(branch.join) = {}
  <2>1. UNCHANGED <<quotient, pending>>
    BY <1>2 DEF MergeJoin
  <2>2. QInv' /\ Ids' = Ids /\ Ordered'
    BY <1>1, <2>1, QuotientKept, OrderedKept
  <2>3. Guided'
    BY <1>1, <2>1, <2>2 DEF Guided, Preparing, NoBranch, None, VirtualJoin
  <2> QED
    BY <2>2, <2>3 DEF SolverInv
<1>3. CASE JoinParents(branch.join) # {}
  <2>1. PICK p : p = Highest(JoinParents(branch.join))
    OBVIOUS
  <2>2. PICK c : c = branch.join
    OBVIOUS
  <2>3. Mergeable(p, c)
    BY <1>1, <1>3, <2>1, <2>2, JoinIsMergeable
  <2>4. Merge(p, c) /\ pending' = <<Fresh>> \o pending
    BY <1>3, <2>1, <2>2 DEF MergeJoin
  <2>5. QInv' /\ Ordered' /\ Fresh \in Nat /\ Fresh # VirtualJoin /\ order' = <<>>
    BY <1>1, <2>3, <2>4, MergeStep
  <2>6. pending' \in Seq(Nat \ {VirtualJoin})
    <3>1. pending \in Seq(Nat \ {VirtualJoin}) /\ <<Fresh>> \in Seq(Nat \ {VirtualJoin})
      BY <1>1, <2>5 DEF Guided
    <3> QED
      BY <2>4, <3>1
  <2>7. Guided'
    BY <1>1, <2>5, <2>6 DEF Guided, Preparing, NoBranch, None, VirtualJoin
  <2> QED
    BY <2>5, <2>7 DEF SolverInv
<1> QED
  BY <1>2, <1>3

LEMMA PrepareVirtualKeeps == ASSUME SolverInv, stage # "idle", PrepareVirtual PROVE SolverInv'
<1>1. QInv' /\ Ids' = Ids /\ Ordered'
  BY QuotientKept, OrderedKept DEF SolverInv, PrepareVirtual
<1>2. Guided /\ order = <<>> /\ branch = NoBranch /\ stage' = "virtual" /\ UNCHANGED <<pending, order>>
  BY DEF SolverInv, Guided, PrepareVirtual
<1>3. CASE VirtualJoin \in Ids
  <2>1. PICK todo0 : todo0 = BranchingAncestors(VirtualJoin)
    OBVIOUS
  <2>2. branch' = [join |-> VirtualJoin, todo |-> todo0, at |-> None, merged |-> "no"]
    BY <1>3, <2>1 DEF PrepareVirtual, Prepare
  <2>3. Guided'
    BY <1>1, <1>2, <1>3, <2>2 DEF Guided
  <2> QED
    BY <1>1, <2>3 DEF SolverInv
<1>4. CASE VirtualJoin \notin Ids
  <2>1. branch' = NoBranch
    BY <1>2, <1>4 DEF PrepareVirtual
  <2>2. Guided'
    BY <1>1, <1>2, <2>1 DEF Guided, Preparing, NoBranch, None
  <2> QED
    BY <1>1, <2>2 DEF SolverInv
<1> QED
  BY <1>3, <1>4

LEMMA RemoveVirtualKeeps == ASSUME SolverInv, stage # "idle", RemoveVirtual PROVE SolverInv'
<1>1. /\ QInv /\ Guided /\ order = <<>> /\ branch' = NoBranch /\ stage' = "ordering"
      /\ UNCHANGED <<work, pending, order>>
  BY DEF SolverInv, Guided, RemoveVirtual
<1>2. PICK R : R = Ids \ {VirtualJoin}
  OBVIOUS
<1>3. /\ quotient'.macros = [m \in R |-> quotient.macros[m]]
      /\ quotient'.deps = [m \in R |-> quotient.deps[m]]
      /\ quotient'.dependents = [m \in R |-> quotient.dependents[m] \ {VirtualJoin}]
  BY <1>2 DEF RemoveVirtual, Without
<1>4. Ids' = R /\ DOMAIN quotient'.deps = R /\ DOMAIN quotient'.dependents = R
  BY <1>3 DEF Ids
<1>5. \A m \in R : /\ quotient'.macros[m] = quotient.macros[m] /\ quotient'.deps[m] = quotient.deps[m]
                   /\ quotient'.dependents[m] = quotient.dependents[m] \ {VirtualJoin}
  BY <1>3
<1>6. Edges' = Edges /\ \A d, e : Precedes(d, e)' <=> Precedes(d, e)
  BY <1>1 DEF Edges, Precedes
<1>7. \A m \in R : Holds(m)' = Holds(m)
  BY <1>5 DEF Holds
<1>8. VirtualJoin \in Ids => Holds(VirtualJoin) = {}
  <2>1. VirtualJoin \in Ids => quotient.macros[VirtualJoin].edges = <<>>
    BY <1>1 DEF QInv, QuotientType
  <2> QED
    BY <2>1 DEF Holds, Range
<1>9. \A m \in R : VirtualJoin \notin quotient.deps[m]
  <2> TAKE m \in R
  <2>1. ASSUME VirtualJoin \in quotient.deps[m] PROVE FALSE
    <3>1. VirtualJoin \in Ids
      BY <1>1, <1>2, <2>1 DEF QInv, QuotientType
    <3>2. Linked(VirtualJoin, m)
      BY <1>1, <1>2, <2>1, <3>1 DEF QInv, DepsOfLayers
    <3> QED
      BY <1>8, <3>1, <3>2 DEF Linked
  <2> QED
    BY <2>1
<1>10. WorkOK'
  BY <1>1, <1>6 DEF QInv, WorkOK
<1>11. QuotientType'
  <2>1. IsFiniteSet(Ids) /\ Ids \subseteq Nat
    BY <1>1 DEF QInv, QuotientType
  <2>2. IsFiniteSet(R) /\ R \subseteq Nat
    BY <1>2, <2>1, FS_Subset
  <2>3. ASSUME NEW m \in R
        PROVE  /\ quotient'.macros[m].edges \in Seq(Edges)
               /\ quotient'.macros[m].a \in Int /\ quotient'.macros[m].b \in Int
               /\ quotient'.deps[m] \subseteq R /\ quotient'.dependents[m] \subseteq R
               /\ quotient'.macros[m].edges = <<>> <=> m = VirtualJoin
    <3>1. /\ quotient.macros[m].edges \in Seq(Edges)
          /\ quotient.macros[m].a \in Int /\ quotient.macros[m].b \in Int
          /\ quotient.deps[m] \subseteq Ids /\ quotient.dependents[m] \subseteq Ids
          /\ quotient.macros[m].edges = <<>> <=> m = VirtualJoin
      BY <1>1, <1>2 DEF QInv, QuotientType
    <3>2. quotient.deps[m] \subseteq R
      BY <1>2, <1>9, <3>1
    <3>3. quotient.dependents[m] \ {VirtualJoin} \subseteq R
      BY <1>2, <3>1
    <3> QED
      BY <1>5, <3>1, <3>2, <3>3
  <2> QED
    BY <1>4, <1>6, <2>2, <2>3 DEF QuotientType
<1>12. Partition'
  <2>1. \A e \in Edges : \E m \in R : e \in Holds(m)
    <3> TAKE e \in Edges
    <3>1. PICK m \in Ids : e \in Holds(m)
      BY <1>1 DEF QInv, Partition
    <3> QED
      BY <1>2, <1>8, <3>1
  <2>2. \A m, n \in R : \A e \in Holds(m) : e \in Holds(n) => m = n
    BY <1>1, <1>2 DEF QInv, Partition
  <2> QED
    BY <1>4, <1>6, <1>7, <2>1, <2>2 DEF Partition
<1>13. (\A m \in Ids : Within(m) /\ Once(m))'
  <2>1. \A m \in R : Within(m) /\ Once(m)
    BY <1>1, <1>2 DEF QInv
  <2> QED
    BY <1>4, <1>5, <1>6, <2>1 DEF Within, Once
<1>14. Mirror'
  <2>1. \A m, n \in R : m \in quotient.deps[n] <=> n \in quotient.dependents[m]
    BY <1>1, <1>2 DEF QInv, Mirror
  <2>2. \A n \in R : n # VirtualJoin
    BY <1>2
  <2> QED
    BY <1>4, <1>5, <2>1, <2>2 DEF Mirror
<1>15. Uncircular'
  <2>1. \A S \in SUBSET R : S # {} => \E m \in S : quotient.deps[m] \cap S = {}
    BY <1>1, <1>2 DEF QInv, Uncircular
  <2>2. \A S \in SUBSET R : S # {} => \E m \in S : quotient'.deps[m] \cap S = {}
    <3> TAKE S \in SUBSET R
    <3> HAVE S # {}
    <3>1. PICK m \in S : quotient.deps[m] \cap S = {}
      BY <2>1
    <3> QED
      BY <1>5, <3>1
  <2> QED
    BY <1>4, <2>2 DEF Uncircular
<1>16. DepsOfLayers'
  <2>1. \A m, n \in R : n \in quotient.deps[m] <=> n # m /\ Linked(n, m)
    BY <1>1, <1>2 DEF QInv, DepsOfLayers
  <2>2. \A m, n \in R : Linked(n, m)' <=> Linked(n, m)
    BY <1>6, <1>7 DEF Linked
  <2> QED
    BY <1>4, <1>5, <2>1, <2>2 DEF DepsOfLayers
<1>17. QInv'
  BY <1>10, <1>11, <1>12, <1>13, <1>14, <1>15, <1>16 DEF QInv
<1>18. Ordered'
  BY <1>1, NothingOrdered
<1>19. Guided'
  <2>1. VirtualJoin \notin Ids'
    BY <1>2, <1>4
  <2> QED
    BY <1>1, <2>1 DEF Guided, Preparing, NoBranch, None, VirtualJoin
<1> QED
  BY <1>17, <1>18, <1>19 DEF SolverInv

(* A macro has been executed when its layers are in the order.             *)
LEMMA WhoIsExecuted ==
    ASSUME QInv, Ordered, VirtualJoin \notin Ids, NEW m \in Ids
    PROVE  /\ m \in Executed => Holds(m) \subseteq Range(order)
           /\ m \notin Executed => Holds(m) \cap Range(order) = {}
<1>1. PICK s : s = quotient.macros[m].edges
  OBVIOUS
<1>2. s \in Seq(Edges) /\ s # <<>>
  BY <1>1 DEF QInv, QuotientType
<1>3. 1 \in DOMAIN s
  <2>1. Len(s) \in Nat /\ DOMAIN s = 1..Len(s) /\ Len(s) # 0
    BY <1>2, EmptySeq, LenProperties
  <2> QED
    BY <2>1
<1>4. s[1] \in Holds(m)
  BY <1>1, <1>3 DEF Holds, Range
<1>5. Holds(m) \subseteq Range(order) \/ Holds(m) \cap Range(order) = {}
  BY DEF Ordered
<1>6. m \in Executed <=> s[1] \in Range(order)
  BY <1>1 DEF Executed
<1> QED
  BY <1>4, <1>5, <1>6

(* As long as layers are missing a macro can be executed.                  *)
LEMMA SomeReady ==
    ASSUME QInv, Ordered, VirtualJoin \notin Ids, Len(order) < Len(work.edges)
    PROVE  Ready # {}
<1>1. PICK n : n = Len(work.edges)
  OBVIOUS
<1>2. n \in Nat /\ Edges = 1..n
  BY <1>1 DEF QInv, WorkOK
<1>3. PICK e \in Edges : e \notin Range(order)
  <2>1. SUFFICES ASSUME Edges \subseteq Range(order) PROVE FALSE
    OBVIOUS
  <2>2. order \in Seq(Edges)
    BY DEF Ordered
  <2>3. Len(order) \in Nat /\ DOMAIN order = 1..Len(order)
    BY <2>2, LenProperties
  <2>4. PICK k : k = Len(order)
    OBVIOUS
  <2>5. order \in [1..k -> Edges] /\ \A d \in Edges : \E i \in 1..k : order[i] = d
    BY <2>1, <2>2, <2>3, <2>4 DEF Range
  <2>6. order \in Surjection(1..k, Edges)
    BY <2>5 DEF Surjection
  <2>7. IsFiniteSet(1..k) /\ Cardinality(1..k) = k /\ Cardinality(1..n) = n
    BY <1>2, <2>3, <2>4, CountTo
  <2>8. Cardinality(Edges) <= Cardinality(1..k)
    BY <2>6, <2>7, FS_Surjection
  <2> QED
    BY <1>1, <1>2, <2>3, <2>4, <2>7, <2>8
<1>4. PICK S : S = Ids \ Executed
  OBVIOUS
<1>5. S \in SUBSET Ids /\ S # {}
  <2>1. PICK m \in Ids : e \in Holds(m)
    BY DEF QInv, Partition
  <2>2. m \notin Executed
    BY <1>3, <2>1, WhoIsExecuted
  <2> QED
    BY <1>4, <2>1, <2>2
<1>6. PICK m \in S : quotient.deps[m] \cap S = {}
  BY <1>5 DEF QInv, Uncircular
<1>7. quotient.deps[m] \subseteq Executed
  <2>1. quotient.deps[m] \subseteq Ids
    BY <1>5 DEF QInv, QuotientType
  <2> QED
    BY <1>4, <1>6, <2>1
<1> QED
  BY <1>4, <1>6, <1>7 DEF Ready

LEMMA Emitted ==
    ASSUME QInv, Ordered, VirtualJoin \notin Ids, NEW m \in Ready,
           order' = order \o quotient.macros[m].edges, UNCHANGED <<work, quotient>>
    PROVE  Ordered'
<1>1. m \in Ids /\ m \notin Executed /\ quotient.deps[m] \subseteq Executed
  BY DEF Ready
<1>2. PICK t : t = quotient.macros[m].edges
  OBVIOUS
<1>3. PICK s : s = order
  OBVIOUS
<1>4. PICK q : q = s \o t
  OBVIOUS
<1>5. s \in Seq(Edges) /\ t \in Seq(Edges)
  BY <1>1, <1>2, <1>3 DEF QInv, QuotientType, Ordered
<1>6. /\ q \in Seq(Edges) /\ Len(q) = Len(s) + Len(t)
      /\ \A i \in 1..(Len(s) + Len(t)) : q[i] = IF i <= Len(s) THEN s[i] ELSE t[i - Len(s)]
  BY <1>4, <1>5, ConcatProperties
<1>7. /\ Len(s) \in Nat /\ Len(t) \in Nat /\ DOMAIN s = 1..Len(s) /\ DOMAIN t = 1..Len(t)
      /\ DOMAIN q = 1..(Len(s) + Len(t))
  BY <1>5, <1>6, LenProperties
<1>8. \A i \in DOMAIN q : \/ i \in DOMAIN s /\ q[i] = s[i]
                          \/ i - Len(s) \in DOMAIN t /\ q[i] = t[i - Len(s)] /\ i > Len(s)
  <2> TAKE i \in DOMAIN q
  <2>1. i \in 1..(Len(s) + Len(t)) /\ q[i] = IF i <= Len(s) THEN s[i] ELSE t[i - Len(s)]
    BY <1>6, <1>7
  <2> QED
    BY <1>7, <2>1
<1>9. \A i \in DOMAIN s : i \in DOMAIN q /\ q[i] = s[i]
  BY <1>6, <1>7
<1>10. \A i \in DOMAIN t : i + Len(s) \in DOMAIN q /\ q[i + Len(s)] = t[i]
  <2> TAKE i \in DOMAIN t
  <2>1. i + Len(s) \in 1..(Len(s) + Len(t)) /\ ~(i + Len(s) <= Len(s)) /\ (i + Len(s)) - Len(s) = i
    BY <1>7
  <2> QED
    BY <1>6, <1>7, <2>1
<1>11. Range(q) = Range(s) \cup Holds(m)
  BY <1>2, <1>8, <1>9, <1>10 DEF Range, Holds
<1>12. Holds(m) \cap Range(s) = {}
  BY <1>1, <1>3, WhoIsExecuted
<1>13. \A d \in Edges, e \in Range(s) : Precedes(d, e) => d \in Range(s)
  BY <1>3 DEF Ordered
<1>14. \A n \in Ids : Holds(n) \subseteq Edges
  <2> TAKE n \in Ids
  <2>1. quotient.macros[n].edges \in Seq(Edges)
    BY DEF QInv, QuotientType
  <2> QED
    BY <2>1, RangeOfSeq DEF Holds
<1>15. \A n \in Ids : Holds(n) \subseteq Range(q) \/ Holds(n) \cap Range(q) = {}
  <2> TAKE n \in Ids
  <2>1. CASE n = m
    BY <1>11, <2>1
  <2>2. CASE n # m
    <3>1. Holds(n) \cap Holds(m) = {}
      BY <1>1, <2>2 DEF QInv, Partition
    <3>2. Holds(n) \subseteq Range(s) \/ Holds(n) \cap Range(s) = {}
      BY <1>3 DEF Ordered
    <3> QED
      BY <1>11, <3>1, <3>2
  <2> QED
    BY <2>1, <2>2
<1>16. \A e \in Range(q), d \in Edges : Precedes(d, e) => d \in Range(q)
  <2> TAKE e \in Range(q), d \in Edges
  <2> HAVE Precedes(d, e)
  <2>1. CASE e \in Range(s)
    BY <1>11, <1>13, <2>1
  <2>2. CASE e \in Holds(m)
    <3>1. PICK n \in Ids : d \in Holds(n)
      BY DEF QInv, Partition
    <3>2. CASE n = m
      BY <1>11, <3>1, <3>2
    <3>3. CASE n # m
      <4>1. Linked(n, m)
        BY <2>2, <3>1 DEF Linked
      <4>2. n \in Executed
        BY <1>1, <3>3, <4>1 DEF QInv, DepsOfLayers
      <4>3. Holds(n) \subseteq Range(s)
        BY <1>3, <4>2, WhoIsExecuted
      <4> QED
        BY <1>11, <3>1, <4>3
    <3> QED
      BY <3>2, <3>3
  <2> QED
    BY <1>11, <2>1, <2>2
<1>17. /\ \A i \in DOMAIN s : s[i] \in Range(s)
       /\ \A i \in DOMAIN t : t[i] \in Holds(m) /\ t[i] \in Edges
  BY <1>1, <1>2, <1>14 DEF Range, Holds
<1>18. /\ \A i, j \in DOMAIN s : (Precedes(s[i], s[j]) => i < j) /\ (s[i] = s[j] => i = j)
       /\ \A i, j \in DOMAIN t : (Precedes(t[i], t[j]) => i < j) /\ (t[i] = t[j] => i = j)
  <2>1. \A i, j \in DOMAIN s : (Precedes(s[i], s[j]) => i < j) /\ (s[i] = s[j] => i = j)
    BY <1>3 DEF Ordered
  <2>2. Within(m) /\ Once(m)
    BY <1>1 DEF QInv
  <2>3. \A i, j \in DOMAIN t : (Precedes(t[i], t[j]) => i < j) /\ (t[i] = t[j] => i = j)
    BY <1>2, <2>2 DEF Within, Once
  <2> QED
    BY <2>1, <2>3
<1>19. \A i, j \in DOMAIN q : (Precedes(q[i], q[j]) => i < j) /\ (q[i] = q[j] => i = j)
  <2> TAKE i, j \in DOMAIN q
  <2>1. i \in Int /\ j \in Int
    BY <1>7
  <2>2. CASE i \in DOMAIN s /\ q[i] = s[i] /\ j \in DOMAIN s /\ q[j] = s[j]
    BY <1>18, <2>2
  <2>3. CASE i \in DOMAIN s /\ q[i] = s[i] /\ j - Len(s) \in DOMAIN t /\ q[j] = t[j - Len(s)] /\ j > Len(s)
    <3>1. q[i] # q[j]
      BY <1>12, <1>17, <2>3
    <3>2. i < j
      BY <1>7, <2>1, <2>3
    <3> QED
      BY <3>1, <3>2
  <2>4. CASE i - Len(s) \in DOMAIN t /\ q[i] = t[i - Len(s)] /\ j \in DOMAIN s /\ q[j] = s[j]
    <3>1. q[i] \in Holds(m) /\ q[j] \in Range(s) /\ q[i] \in Edges
      BY <1>17, <2>4
    <3>2. q[i] # q[j] /\ ~Precedes(q[i], q[j])
      BY <1>12, <1>13, <3>1
    <3> QED
      BY <3>2
  <2>5. CASE /\ i - Len(s) \in DOMAIN t /\ q[i] = t[i - Len(s)]
             /\ j - Len(s) \in DOMAIN t /\ q[j] = t[j - Len(s)]
    <3>1. /\ Precedes(q[i], q[j]) => i - Len(s) < j - Len(s)
          /\ q[i] = q[j] => i - Len(s) = j - Len(s)
      BY <1>18, <2>5
    <3> QED
      BY <1>7, <2>1, <3>1
  <2> QED
    BY <1>8, <2>2, <2>3, <2>4, <2>5
<1>20. Ids' = Ids /\ Edges' = Edges /\ (\A d, e : Precedes(d, e)' <=> Precedes(d, e)) /\ order' = q
  BY <1>2, <1>3, <1>4 DEF Ids, Edges, Precedes
<1>21. \A n : Holds(n)' = Holds(n)
  BY DEF Holds
<1> QED
  BY <1>6, <1>15, <1>16, <1>19, <1>20, <1>21 DEF Ordered

LEMMA EmitKeeps == ASSUME SolverInv, stage # "idle", Emit PROVE SolverInv'
<1>1. /\ QInv /\ Guided /\ Ordered /\ stage = "ordering" /\ VirtualJoin \notin Ids
      /\ Len(order) < Len(work.edges) /\ UNCHANGED <<work, quotient, pending, branch>>
  BY DEF SolverInv, Guided, Emit
<1>2. Ready # {}
  BY <1>1, SomeReady
<1>3. PICK m \in Ready : order' = order \o quotient.macros[m].edges /\ stage' = stage
  BY <1>2 DEF Emit
<1>4. Ordered'
  BY <1>1, <1>3, Emitted
<1>5. QInv' /\ Ids' = Ids
  BY <1>1, QuotientKept
<1>6. Guided'
  BY <1>1, <1>3, <1>5 DEF Guided, Preparing
<1> QED
  BY <1>4, <1>5, <1>6 DEF SolverInv

LEMMA SolverStepKeeps == ASSUME SolverInv, stage # "idle", SolverStep PROVE SolverInv' /\ stage' # "idle"
<1>1. SolverInv'
  BY PassOverKeeps, MergeLinearKeeps, PrepareJoinKeeps, NextAncestorKeeps, MergeBranchKeeps,
     MergeUpwardKeeps, EndBranchKeeps, MergeJoinKeeps, PrepareVirtualKeeps, RemoveVirtualKeeps,
     EmitKeeps DEF SolverStep
<1>2. stage' \in {stage, "virtual", "ordering", "unresolved"}
  BY DEF SolverStep, PassOver, MergeLinear, PrepareJoin, NextAncestor, MergeBranch, MergeUpward,
         EndBranch, MergeJoin, PrepareVirtual, RemoveVirtual, Emit
<1> QED
  BY <1>1, <1>2

LEMMA SolverOrders == ASSUME SolverInv PROVE MacrosOrdered
<1>1. SUFFICES ASSUME stage # "idle", QInv, Guided
               PROVE  MacrosOrdered
  BY DEF SolverInv, MacrosOrdered
<1>2. stage # "unresolved"
  BY <1>1 DEF Guided
<1>3. ASSUME NEW e \in Edges
      PROVE  Cardinality({m \in Ids : e \in Range(quotient.macros[m].edges)}) = 1
  <2>1. PICK m \in Ids : e \in Holds(m)
    BY <1>1 DEF QInv, Partition
  <2>2. {n \in Ids : e \in Range(quotient.macros[n].edges)} = {m}
    BY <1>1, <2>1 DEF QInv, Partition, Holds
  <2>3. Cardinality({m}) = 1
    BY FS_Singleton
  <2> QED
    BY <2>2, <2>3
<1>4. \A m \in Ids : \A i, j \in DOMAIN quotient.macros[m].edges :
          Precedes(quotient.macros[m].edges[i], quotient.macros[m].edges[j]) => i < j
  BY <1>1 DEF QInv, Within
<1>5. ASSUME NEW m \in Ids \ {VirtualJoin}
      PROVE  quotient.deps[m] = {n \in Ids \ {m} : \E d \in Range(quotient.macros[n].edges),
                                  e \in Range(quotient.macros[m].edges) : Precedes(d, e)}
  <2>1. quotient.deps[m] \subseteq Ids
    BY <1>1 DEF QInv, QuotientType
  <2>2. \A n \in Ids : n \in quotient.deps[m] <=> n # m /\ Linked(n, m)
    BY <1>1 DEF QInv, DepsOfLayers
  <2> QED
    BY <2>1, <2>2 DEF Linked, Holds
<1>6. \A m, n \in Ids : m \in quotient.deps[n] <=> n \in quotient.dependents[m]
  BY <1>1 DEF QInv, Mirror
<1>7. \A S \in SUBSET Ids : S # {} => \E m \in S : quotient.deps[m] \cap S = {}
  BY <1>1 DEF QInv, Uncircular
<1> QED
  BY <1>2, <1>3, <1>4, <1>5, <1>6, <1>7 DEF MacrosOrdered

----------------------------------------------------------------------------
(* The orders that the executor gets from the solver.                      *)

(* A sequence of all layers, each once and after those that it needs.      *)
Arranges(s, edges) ==
    /\ s \in Seq(DOMAIN edges) /\ Len(s) = Len(edges)
    /\ \A e \in DOMAIN edges : \E i \in DOMAIN s : s[i] = e
    /\ \A i, j \in DOMAIN s :
           /\ s[i] = s[j] => i = j
           /\ Range(edges[s[i]].writes) \cap Range(edges[s[j]].reads) # {} => i < j

LEMMA SolvedArranges ==
    ASSUME QInv, Ordered, Len(order) = Len(work.edges)
    PROVE  Arranges(order, work.edges)
<1>1. PICK n : n = Len(work.edges)
  OBVIOUS
<1>2. n \in Nat /\ Edges = 1..n /\ order \in Seq(Edges) /\ Len(order) = n
  BY <1>1 DEF QInv, WorkOK, Ordered
<1>3. order \in [1..n -> Edges] /\ DOMAIN order = 1..n
  BY <1>2, LenProperties
<1>4. \A i, j \in 1..n : order[i] = order[j] => i = j
  BY <1>3 DEF Ordered
<1>5. order \in Injection(1..n, Edges)
  BY <1>3, <1>4 DEF Injection, IsInjective
<1>6. IsFiniteSet(Edges) /\ Cardinality(1..n) = Cardinality(Edges)
  BY <1>2, CountTo
<1>7. order \in Surjection(1..n, Edges)
  BY <1>5, <1>6, FS_Injection
<1>8. \A e \in Edges : \E i \in 1..n : order[i] = e
  BY <1>7 DEF Surjection
<1>9. \A i, j \in DOMAIN order :
          Range(work.edges[order[i]].writes) \cap Range(work.edges[order[j]].reads) # {} => i < j
  BY DEF Ordered, Precedes
<1> QED
  BY <1>1, <1>2, <1>3, <1>4, <1>8, <1>9 DEF Arranges, Edges

Forwards == Oriented("reads", "writes")
Backwards == Oriented("writes", "reads")

LEMMA GraphFacts ==
    ASSUME graph \in Graphs
    PROVE  /\ Len(graph.edges) \in Nat /\ Layers = 1..Len(graph.edges)
           /\ \A d, e \in Layers : Range(Writes(d)) \cap Range(Reads(e)) # {} => d < e
<1>1. graph.edges \in Seq([reads : Seq(STRING), writes : Seq(STRING), op : DOMAIN Ops])
  BY GraphsAssumption
<1>2. Len(graph.edges) \in Nat /\ DOMAIN graph.edges = 1..Len(graph.edges)
  BY <1>1, LenProperties
<1> QED
  BY <1>2, GraphsAssumption DEF Layers, Writes, Reads

LEMMA OrientedFacts ==
    ASSUME graph \in Graphs
    PROVE  /\ DOMAIN Forwards = Layers /\ Len(Forwards) = Len(graph.edges)
           /\ DOMAIN Backwards = Layers /\ Len(Backwards) = Len(graph.edges)
           /\ \A e \in Layers : Forwards[e].reads = Reads(e) /\ Forwards[e].writes = Writes(e)
           /\ \A e \in Layers : Backwards[e].reads = Writes(e) /\ Backwards[e].writes = Reads(e)
<1>1. PICK n : n = Len(graph.edges)
  OBVIOUS
<1>2. n \in Nat /\ Layers = 1..n
  BY <1>1, GraphFacts
<1>3. /\ Forwards = [e \in 1..n |-> [reads |-> graph.edges[e].reads, writes |-> graph.edges[e].writes]]
      /\ Backwards = [e \in 1..n |-> [reads |-> graph.edges[e].writes, writes |-> graph.edges[e].reads]]
  BY <1>2 DEF Forwards, Backwards, Oriented
<1>4. DOMAIN Forwards = 1..n /\ DOMAIN Backwards = 1..n
  BY <1>3
<1>5. Len(Forwards) = n /\ Len(Backwards) = n
  BY <1>2, <1>4
<1>6. \A e \in 1..n : Forwards[e].reads = Reads(e) /\ Forwards[e].writes = Writes(e)
  BY <1>3 DEF Reads, Writes
<1>7. \A e \in 1..n : Backwards[e].reads = Writes(e) /\ Backwards[e].writes = Reads(e)
  BY <1>3 DEF Reads, Writes
<1> QED
  BY <1>1, <1>2, <1>4, <1>5, <1>6, <1>7

LEMMA GraphCircleFree ==
    ASSUME graph \in Graphs
    PROVE  CircleFree(Forwards) /\ CircleFree(Backwards)
<1>1. DOMAIN Forwards = Layers /\ DOMAIN Backwards = Layers
  BY OrientedFacts
<1>2. \A d, e \in Layers : Range(Writes(d)) \cap Range(Reads(e)) # {} => d < e
  BY GraphFacts
<1>3. IsFiniteSet(Layers) /\ Layers \subseteq Int
  <2>1. Len(graph.edges) \in Nat /\ Layers = 1..Len(graph.edges)
    BY GraphFacts
  <2> QED
    BY <2>1, CountTo
<1>4. ASSUME NEW S \in SUBSET Layers, S # {}
      PROVE  /\ \E e \in S : \A d \in S : Range(Writes(d)) \cap Range(Reads(e)) = {}
             /\ \E e \in S : \A d \in S : Range(Reads(d)) \cap Range(Writes(e)) = {}
  <2>1. IsFiniteSet(S) /\ S \subseteq Int
    BY <1>3, FS_Subset
  <2>2. PICK low \in S : \A d \in S : low <= d
    BY <1>4, <2>1, LowestOf
  <2>3. PICK high \in S : \A d \in S : d <= high
    BY <1>4, <2>1, LowestOf
  <2>4. \A d \in S : ~(d < low) /\ ~(high < d)
    BY <2>1, <2>2, <2>3
  <2>5. \A d \in S : Range(Writes(d)) \cap Range(Reads(low)) = {}
    BY <1>2, <2>4
  <2>6. \A d \in S : Range(Reads(d)) \cap Range(Writes(high)) = {}
    BY <1>2, <2>4
  <2> QED
    BY <2>5, <2>6
<1>5. CircleFree(Forwards)
  <2>1. \A e \in Layers : Forwards[e].reads = Reads(e) /\ Forwards[e].writes = Writes(e)
    BY OrientedFacts
  <2>2. ASSUME NEW S \in SUBSET Layers, S # {}
        PROVE  \E e \in S : \A d \in S : Range(Forwards[d].writes) \cap Range(Forwards[e].reads) = {}
    <3>1. PICK e \in S : \A d \in S : Range(Writes(d)) \cap Range(Reads(e)) = {}
      BY <1>4, <2>2
    <3> QED
      BY <2>1, <3>1
  <2> QED
    BY <1>1, <2>2 DEF CircleFree
<1>6. CircleFree(Backwards)
  <2>1. \A e \in Layers : Backwards[e].reads = Writes(e) /\ Backwards[e].writes = Reads(e)
    BY OrientedFacts
  <2>2. ASSUME NEW S \in SUBSET Layers, S # {}
        PROVE  \E e \in S : \A d \in S : Range(Backwards[d].writes) \cap Range(Backwards[e].reads) = {}
    <3>1. PICK e \in S : \A d \in S : Range(Reads(d)) \cap Range(Writes(e)) = {}
      BY <1>4, <2>2
    <3> QED
      BY <2>1, <3>1
  <2> QED
    BY <1>1, <2>2 DEF CircleFree
<1> QED
  BY <1>5, <1>6

(* The solver has been started, in either direction.                       *)
LEMMA SolverStarts ==
    ASSUME graph \in Graphs, NEW edges \in {Forwards, Backwards}, NEW cached,
           NEW profile \in [Layers -> Profiles], StartSolver(edges, cached, profile)
    PROVE  SolverInv' /\ stage' # "idle" /\ work'.edges = edges
<1>1. PICK n : n = Len(graph.edges)
  OBVIOUS
<1>2. n \in Nat /\ Layers = 1..n
  BY <1>1, GraphFacts
<1>3. DOMAIN edges = 1..n /\ Len(edges) = n
  BY <1>1, <1>2, OrientedFacts
<1>4. CircleFree(edges)
  BY GraphCircleFree
<1>5. \A e \in 1..n : profile[e][1] \in Int /\ profile[e][2] \in Int
  BY <1>2, GraphsAssumption
<1>6. QInv' /\ pending' \in Seq(Nat \ {VirtualJoin})
  BY <1>2, <1>3, <1>4, <1>5, Started
<1>7. branch' = NoBranch /\ stage' = "merging" /\ order' = <<>> /\ work'.edges = edges
  BY DEF StartSolver
<1>8. Ordered'
  BY <1>7, NothingOrdered
<1>9. Guided'
  BY <1>6, <1>7 DEF Guided, Preparing, NoBranch, None, VirtualJoin
<1> QED
  BY <1>6, <1>7, <1>8, <1>9 DEF SolverInv

----------------------------------------------------------------------------
(* The executor and its plans.                                             *)

(* The orders of a plan: every layer once, forward after the layers whose  *)
(* nodes it reads and, in training, backward after those that give it the  *)
(* gradients of the nodes it wrote.                                        *)
OrdersFit(plan, trains) ==
    /\ Arranges(plan.forward, Forwards)
    /\ IF trains THEN Arranges(plan.backward, Backwards) ELSE plan.backward = <<>>

Solving == {"forward order", "backward order"}
Finished == {"tracing", "packing"}

PlanInv ==
    /\ graph \in Graphs /\ training \in BOOLEAN
    /\ SolverInv
    /\ (stage # "idle") <=> (phase \in Solving)
    /\ phase = "forward order" => work.edges = Forwards
    /\ phase = "backward order" =>
           /\ work.edges = Backwards /\ training
           /\ Arranges(building.forward, Forwards)
    /\ building = [forward |-> building.forward, backward |-> building.backward]
    /\ IF phase \in Finished THEN OrdersFit(building, training) ELSE building.backward = <<>>
    /\ DOMAIN plans \subseteq BOOLEAN
    /\ \A trains \in DOMAIN plans : OrdersFit(plans[trains], trains)

LEMMA GraphKept == ASSUME UNCHANGED graph PROVE Forwards' = Forwards /\ Backwards' = Backwards
<1> QED
  BY DEF Forwards, Backwards, Oriented, Layers

LEMMA PlansKept ==
    ASSUME PlanInv, UNCHANGED <<graph, plans>>
    PROVE  /\ graph' \in Graphs /\ DOMAIN plans' \subseteq BOOLEAN
           /\ (\A trains \in DOMAIN plans : OrdersFit(plans[trains], trains))'
<1>1. Forwards' = Forwards /\ Backwards' = Backwards
  BY GraphKept
<1> QED
  BY <1>1 DEF PlanInv, OrdersFit

LEMMA SolverUntouched == ASSUME SolverInv, UNCHANGED solverVars PROVE SolverInv'
<1>1. CASE stage = "idle"
  BY <1>1 DEF SolverInv, solverVars
<1>2. CASE stage # "idle"
  <2>1. QInv /\ Guided /\ Ordered
    BY <1>2 DEF SolverInv
  <2>2. QInv' /\ Ids' = Ids
    BY <2>1, QuotientKept DEF solverVars
  <2>3. Ordered'
    BY <2>1, OrderedKept DEF solverVars
  <2>4. Guided'
    BY <2>1, <2>2 DEF Guided, Preparing, solverVars
  <2> QED
    BY <2>2, <2>3, <2>4 DEF SolverInv
<1> QED
  BY <1>1, <1>2

(* What happens outside of the building of a plan leaves the plans alone.  *)
LEMMA OutsidePlans ==
    ASSUME PlanInv, UNCHANGED <<graph, solverVars, plans, building>>, training' \in BOOLEAN,
           phase \notin Solving \cup Finished, phase' \notin Solving \cup Finished
    PROVE  PlanInv'
<1>1. SolverInv'
  BY SolverUntouched DEF PlanInv
<1>2. /\ graph' \in Graphs /\ DOMAIN plans' \subseteq BOOLEAN
      /\ (\A trains \in DOMAIN plans : OrdersFit(plans[trains], trains))'
  BY PlansKept
<1>3. stage' = "idle" /\ building' = building /\ building.backward = <<>>
  BY DEF PlanInv, solverVars
<1> QED
  BY <1>1, <1>2, <1>3 DEF PlanInv, Solving, Finished

LEMMA StartPlanKeeps == ASSUME PlanInv, StartPlan PROVE PlanInv'
<1>1. PICK cached : \E profile \in [Layers -> Profiles] : StartSolver(Forwards, cached, profile)
  <2>1. PICK cached : cached = {n \in Nodes : \E e \in Writers(n) :
                                  training' /\ Data(n) \in TensorsAt(e, Does(e).saves)}
    OBVIOUS
  <2>2. \E profile \in [Layers -> Profiles] : StartSolver(Forwards, cached, profile)
    BY <2>1 DEF StartPlan, SolveForward, Forwards
  <2> QED
    BY <2>2
<1>2. UNCHANGED <<graph, plans, building>> /\ training' \in BOOLEAN
      /\ phase = "idle" /\ phase' = "forward order"
  BY DEF StartPlan, planVars
<1>3. graph \in Graphs
  BY DEF PlanInv
<1>4. SolverInv' /\ stage' # "idle" /\ work'.edges = Forwards
  <2>1. PICK profile \in [Layers -> Profiles] : StartSolver(Forwards, cached, profile)
    BY <1>1
  <2> QED
    BY <1>3, <2>1, SolverStarts
<1>5. /\ graph' \in Graphs /\ DOMAIN plans' \subseteq BOOLEAN
      /\ (\A trains \in DOMAIN plans : OrdersFit(plans[trains], trains))'
  BY <1>2, PlansKept
<1>6. Forwards' = Forwards
  BY <1>2, GraphKept
<1> QED
  BY <1>2, <1>4, <1>5, <1>6 DEF PlanInv, Solving, Finished

LEMMA SolveKeeps == ASSUME PlanInv, Solve PROVE PlanInv'
<1>1. /\ UNCHANGED <<graph, plans, building, training, phase>> /\ SolverStep
      /\ phase \in Solving
  BY DEF Solve, planVars, Solving
<1>2. SolverInv' /\ stage' # "idle"
  BY <1>1, SolverStepKeeps DEF PlanInv
<1>3. work' = work
  BY <1>1 DEF SolverStep, PassOver, MergeLinear, PrepareJoin, NextAncestor, MergeBranch,
              MergeUpward, EndBranch, MergeJoin, PrepareVirtual, RemoveVirtual, Emit
<1>4. /\ graph' \in Graphs /\ DOMAIN plans' \subseteq BOOLEAN
      /\ (\A trains \in DOMAIN plans : OrdersFit(plans[trains], trains))'
  BY <1>1, PlansKept
<1>5. Forwards' = Forwards /\ Backwards' = Backwards
  BY <1>1, GraphKept
<1>6. phase \notin Finished
  BY <1>1 DEF Solving, Finished
<1> QED
  BY <1>1, <1>2, <1>3, <1>4, <1>5, <1>6 DEF PlanInv

(* What the solver has found fits the graph.                               *)
LEMMA OrderFits ==
    ASSUME PlanInv, Solved
    PROVE  /\ phase = "forward order" => Arranges(order, Forwards)
           /\ phase = "backward order" => Arranges(order, Backwards)
<1>1. QInv /\ Ordered /\ Len(order) = Len(work.edges)
  BY DEF PlanInv, SolverInv, Solved
<1>2. Arranges(order, work.edges)
  BY <1>1, SolvedArranges
<1> QED
  BY <1>2 DEF PlanInv

LEMMA ForwardOrderKeeps == ASSUME PlanInv, ForwardOrderFound PROVE PlanInv'
<1>1. /\ UNCHANGED <<graph, plans, training>> /\ phase = "forward order"
      /\ building' = [building EXCEPT !.forward = order]
  BY DEF ForwardOrderFound
<1>2. building = [forward |-> building.forward, backward |-> <<>>]
  BY <1>1 DEF PlanInv, Finished
<1>3. building' = [forward |-> order, backward |-> <<>>]
  <2>1. PICK before : before = building.forward
    OBVIOUS
  <2>2. building = [forward |-> before, backward |-> <<>>]
    BY <1>2, <2>1
  <2> QED
    BY <1>1, <2>2
<1>4. Arranges(order, Forwards)
  BY <1>1, OrderFits DEF ForwardOrderFound
<1>5. /\ graph' \in Graphs /\ DOMAIN plans' \subseteq BOOLEAN
      /\ (\A trains \in DOMAIN plans : OrdersFit(plans[trains], trains))'
  BY <1>1, PlansKept
<1>6. Forwards' = Forwards /\ Backwards' = Backwards
  BY <1>1, GraphKept
<1>7. CASE training
  <2>1. phase' = "backward order" /\ SolveBackward
    BY <1>7 DEF ForwardOrderFound
  <2>2. PICK profile \in [Layers -> Profiles] : StartSolver(Backwards, {}, profile)
    BY <2>1 DEF SolveBackward, Backwards
  <2>3. SolverInv' /\ stage' # "idle" /\ work'.edges = Backwards
    <3>1. graph \in Graphs
      BY DEF PlanInv
    <3> QED
      BY <2>2, <3>1, SolverStarts
  <2>4. phase' \notin Finished /\ phase' \in Solving /\ phase' # "forward order"
    BY <2>1 DEF Finished, Solving
  <2>5. building'.forward = order /\ building'.backward = <<>>
    BY <1>3
  <2>6. training'
    BY <1>1, <1>7
  <2>7. training' \in BOOLEAN
    BY <1>1 DEF PlanInv
  <2> QED
    BY <1>3, <1>4, <1>5, <1>6, <2>3, <2>4, <2>5, <2>6, <2>7 DEF PlanInv
<1>8. CASE ~training
  <2>1. phase' = "tracing" /\ SolverDone
    BY <1>8 DEF ForwardOrderFound
  <2>2. stage' = "idle" /\ SolverInv'
    BY <2>1 DEF SolverDone, SolverInv
  <2>3. phase' \in Finished /\ phase' \notin Solving /\ phase' # "forward order"
        /\ phase' # "backward order"
    BY <2>1 DEF Finished, Solving
  <2>4. building'.forward = order /\ building'.backward = <<>>
    BY <1>3
  <2>5. ~training' /\ training' \in BOOLEAN
    BY <1>1, <1>8 DEF PlanInv
  <2>6. OrdersFit(building, training)'
    BY <1>4, <1>6, <2>4, <2>5 DEF OrdersFit
  <2> QED
    BY <1>3, <1>5, <2>2, <2>3, <2>4, <2>5, <2>6 DEF PlanInv
<1> QED
  BY <1>7, <1>8

LEMMA BackwardOrderKeeps == ASSUME PlanInv, BackwardOrderFound PROVE PlanInv'
<1>1. /\ UNCHANGED <<graph, plans, training>> /\ phase = "backward order"
      /\ building' = [building EXCEPT !.backward = order]
      /\ phase' = "tracing" /\ SolverDone
  BY DEF BackwardOrderFound
<1>2. building = [forward |-> building.forward, backward |-> <<>>]
      /\ training /\ Arranges(building.forward, Forwards)
  BY <1>1 DEF PlanInv, Finished
<1>3. building' = [forward |-> building.forward, backward |-> order]
  BY <1>1, <1>2
<1>4. Arranges(order, Backwards)
  BY <1>1, OrderFits DEF BackwardOrderFound
<1>5. /\ graph' \in Graphs /\ DOMAIN plans' \subseteq BOOLEAN
      /\ (\A trains \in DOMAIN plans : OrdersFit(plans[trains], trains))'
  BY <1>1, PlansKept
<1>6. Forwards' = Forwards /\ Backwards' = Backwards
  BY <1>1, GraphKept
<1>7. stage' = "idle" /\ SolverInv'
  BY <1>1 DEF SolverDone, SolverInv
<1>8. phase' \in Finished /\ phase' \notin Solving /\ phase' # "forward order"
      /\ phase' # "backward order"
  BY <1>1 DEF Finished, Solving
<1>9. building'.forward = building.forward /\ building'.backward = order
  BY <1>3
<1>10. training' /\ training' \in BOOLEAN
  BY <1>1, <1>2 DEF PlanInv
<1>11. OrdersFit(building, training)'
  BY <1>2, <1>4, <1>6, <1>9, <1>10 DEF OrdersFit
<1> QED
  BY <1>3, <1>5, <1>7, <1>8, <1>9, <1>10, <1>11 DEF PlanInv

(* The trace and the packing leave the orders alone.                       *)
LEMMA FinishedKeeps ==
    ASSUME PlanInv, UNCHANGED <<graph, solverVars, training, plans, building>>,
           phase \in Finished, phase' \in Finished
    PROVE  PlanInv'
<1>1. SolverInv' /\ stage' = stage
  BY SolverUntouched DEF PlanInv, solverVars
<1>2. /\ graph' \in Graphs /\ DOMAIN plans' \subseteq BOOLEAN
      /\ (\A trains \in DOMAIN plans : OrdersFit(plans[trains], trains))'
  BY PlansKept
<1>3. Forwards' = Forwards /\ Backwards' = Backwards
  BY GraphKept
<1>4. OrdersFit(building, training)'
  BY <1>3 DEF PlanInv, OrdersFit
<1>5. phase \notin Solving /\ phase' \notin Solving
  BY DEF Solving, Finished
<1>6. phase' # "forward order" /\ phase' # "backward order"
  BY <1>5 DEF Solving
<1> QED
  BY <1>1, <1>2, <1>4, <1>5, <1>6 DEF PlanInv

LEMMA PlanBuiltKeeps == ASSUME PlanInv, PlanBuilt PROVE PlanInv'
<1>1. /\ UNCHANGED <<graph, solverVars, training>> /\ phase = "packing" /\ phase' = "forward"
      /\ building' = [forward |-> <<>>, backward |-> <<>>]
      /\ DOMAIN plans' = DOMAIN plans \cup {training}
      /\ \A t \in DOMAIN plans \ {training} : plans'[t] = plans[t]
      /\ plans'[training].forward = building.forward
      /\ plans'[training].backward = building.backward
  BY DEF PlanBuilt, BeginForward
<1>2. SolverInv' /\ stage' = stage
  BY <1>1, SolverUntouched DEF PlanInv, solverVars
<1>3. Forwards' = Forwards /\ Backwards' = Backwards
  BY <1>1, GraphKept
<1>4. OrdersFit(building, training)
  BY <1>1 DEF PlanInv, Finished
<1>5. ASSUME NEW t \in DOMAIN plans' PROVE OrdersFit(plans[t], t)'
  <2>1. CASE t = training
    BY <1>1, <1>3, <1>4, <2>1 DEF OrdersFit
  <2>2. CASE t # training
    <3>1. t \in DOMAIN plans /\ plans'[t] = plans[t]
      BY <1>1, <1>5, <2>2
    <3> QED
      BY <1>3, <3>1 DEF PlanInv, OrdersFit
  <2> QED
    BY <2>1, <2>2
<1>6. building'.backward = <<>> /\ building' = [forward |-> building'.forward, backward |-> building'.backward]
  BY <1>1
<1> QED
  BY <1>1, <1>2, <1>5, <1>6 DEF PlanInv, Solving, Finished

LEMMA PlanInit == Init => PlanInv
<1> SUFFICES ASSUME Init PROVE PlanInv
  OBVIOUS
<1>1. DOMAIN plans = {} /\ stage = "idle" /\ phase = "idle" /\ graph \in Graphs /\ training = FALSE
      /\ building = [forward |-> <<>>, backward |-> <<>>]
  BY DEF Init, Empty, SolverIdle
<1> QED
  BY <1>1 DEF PlanInv, SolverInv, Solving, Finished

LEMMA PlanStep == PlanInv /\ [Next]_vars => PlanInv'
<1> SUFFICES ASSUME PlanInv, [Next]_vars PROVE PlanInv'
  OBVIOUS
<1>1. CASE StartPlan
  BY <1>1, StartPlanKeeps
<1>2. CASE Solve
  BY <1>2, SolveKeeps
<1>3. CASE ForwardOrderFound
  BY <1>3, ForwardOrderKeeps
<1>4. CASE BackwardOrderFound
  BY <1>4, BackwardOrderKeeps
<1>5. CASE TraceBuffers
  BY <1>5, FinishedKeeps DEF TraceBuffers, planVars, Finished
<1>6. CASE Pack
  BY <1>6, FinishedKeeps DEF Pack, planVars, Finished
<1>7. CASE PlanBuilt
  BY <1>7, PlanBuiltKeeps
<1>8. CASE CallForward
  <2>1. training' \in BOOLEAN
    BY <1>8 DEF CallForward, PlanInv
  <2> QED
    BY <1>8, <2>1, OutsidePlans DEF CallForward, BeginForward, planVars, Solving, Finished
<1>9. training \in BOOLEAN
  BY DEF PlanInv
<1>10. CASE ForwardLayer
  BY <1>9, <1>10, OutsidePlans
     DEF ForwardLayer, Running, Fail, passVars, planVars, Solving, Finished
<1>11. CASE StoreForward \/ ReturnOutputs \/ DropOutputs
  BY <1>9, <1>11, OutsidePlans
     DEF StoreForward, ReturnOutputs, DropOutputs, passVars, planVars, Solving, Finished
<1>12. CASE BackwardLayer
  BY <1>9, <1>12, OutsidePlans
     DEF BackwardLayer, Running, Fail, passVars, planVars, Solving, Finished
<1>13. CASE BeginBackward \/ StoreBackward \/ DropAll
  BY <1>9, <1>13, OutsidePlans
     DEF BeginBackward, StoreBackward, DropAll, passVars, planVars, Solving, Finished
<1>14. CASE ReturnGradients
  BY <1>9, <1>14, OutsidePlans
     DEF ReturnGradients, Fail, passVars, planVars, Solving, Finished
<1>15. CASE UNCHANGED vars
  <2>1. UNCHANGED <<graph, training, phase, solverVars, work, stage, plans, building>>
    BY <1>15 DEF vars, planVars, solverVars
  <2>2. SolverInv'
    BY <2>1, SolverUntouched DEF PlanInv
  <2>3. /\ graph' \in Graphs /\ DOMAIN plans' \subseteq BOOLEAN
        /\ (\A trains \in DOMAIN plans : OrdersFit(plans[trains], trains))'
    BY <2>1, PlansKept
  <2>4. Forwards' = Forwards /\ Backwards' = Backwards
    BY <2>1, GraphKept
  <2> QED
    BY <2>1, <2>2, <2>3, <2>4 DEF PlanInv, OrdersFit
<1> QED
  BY <1>1, <1>2, <1>3, <1>4, <1>5, <1>6, <1>7, <1>8, <1>10, <1>11, <1>12, <1>13, <1>14, <1>15
     DEF Next, Build, Forward, Backward

(* The solver keeps the graph that it orders, whatever the graph and what  *)
(* the profiling measures, and always finds an order.                      *)
THEOREM SolverKeepsTheGraph == Spec => []MacrosOrdered
<1>1. PlanInv => MacrosOrdered
  BY SolverOrders DEF PlanInv
<1> QED
  BY <1>1, PlanInit, PlanStep, PTL DEF Spec

(* The orders of every plan that is kept run each layer once, and after    *)
(* those it depends on, forward and, in a plan for training, backward.     *)
THEOREM PlansFitTheGraph == Spec => [](\A trains \in DOMAIN plans : OrdersFit(plans[trains], trains))
<1>1. PlanInv => \A trains \in DOMAIN plans : OrdersFit(plans[trains], trains)
  BY DEF PlanInv
<1> QED
  BY <1>1, PlanInit, PlanStep, PTL DEF Spec

----------------------------------------------------------------------------
(* The passes: the references are counted right.                           *)

(* The layers of the pass that have run, and those that have begun.        *)
Reached(s, p) == {s[i] : i \in 1..(p - 1)}
Stored == Reached(Pass, position)
Begun == Stored \cup (IF using = {} THEN {} ELSE {Layer})

(* The reads of a node by layers outside of S; the layers outside of S,    *)
(* and the caller, that will take its gradient; what S has added to it.    *)
Unread(n, S) == Cardinality({slot \in ReadersOf(n) : slot[1] \notin S})
Takers(n, S) == Cardinality(Writers(n) \ S) + (IF n \in graph.inputs THEN 1 ELSE 0)
Parts(n, S) ==
    Cardinality({slot \in ReadersOf(n) : slot[1] \in S}) + (IF n \in graph.outputs THEN 1 ELSE 0)

DataCounted ==
    /\ DOMAIN data \subseteq Nodes
    /\ \A n \in DOMAIN data : data[n] = [tensor |-> data[n].tensor, refs |-> Unread(n, Begun)]
    /\ \A n \in Nodes \ DOMAIN data :
           (n \in graph.inputs \/ \E e \in Stored : n \in Range(Writes(e))) => Unread(n, Begun) = 0

GradsCounted ==
    /\ DOMAIN grads \subseteq Nodes
    /\ \A n \in DOMAIN grads :
           grads[n] = [tensor |-> grads[n].tensor, refs |-> Takers(n, Begun),
                       parts |-> Parts(n, Stored)]
    /\ \A n \in Nodes \ DOMAIN grads :
           (n \in graph.outputs \/ \E slot \in ReadersOf(n) : slot[1] \in Stored)
               => Takers(n, Begun) = 0

Saves(S) == \A e \in S : e \in DOMAIN residuals /\ residuals[e] = Residual(e)

ResidualsKept ==
    /\ DOMAIN residuals \subseteq Layers
    /\ residuals = [e \in DOMAIN residuals |-> residuals[e]]
    /\ phase = "forward" => Saves(Stored)
    /\ phase = "computed" => Saves(Layers)
    /\ phase = "backward" => DOMAIN residuals = Layers \ Stored /\ Saves(DOMAIN residuals)
    /\ phase = "differentiated" => residuals = Empty

InPlace ==
    /\ phase # "failed"
    /\ phase \in {"forward", "computed", "backward", "differentiated"} => training \in DOMAIN plans
    /\ phase \in {"backward", "differentiated"} => training
    /\ IF phase \in {"forward", "backward"}
       THEN /\ position \in 1..(Len(Pass) + 1)
            /\ using # {} => position <= Len(Pass)
       ELSE using = {}

PassInv ==
    /\ WellBuilt /\ InPlace
    /\ TRUE \in DOMAIN plans \/ (training /\ phase \in Solving \cup Finished) => Trainable
    /\ IF phase = "forward" THEN DataCounted ELSE data = Empty
    /\ IF phase = "backward" THEN GradsCounted ELSE grads = Empty
    /\ ResidualsKept

----------------------------------------------------------------------------
(* Graphs and how often their nodes are used.                              *)

LEMMA EdgeFacts ==
    ASSUME graph \in Graphs
    PROVE  /\ IsFiniteSet(Layers)
           /\ \A e \in Layers : /\ Reads(e) \in Seq(STRING) /\ Writes(e) \in Seq(STRING)
                                /\ graph.edges[e].op \in DOMAIN Ops
                                /\ IsFiniteSet(DOMAIN Reads(e)) /\ IsFiniteSet(DOMAIN Writes(e))
<1>1. graph.edges \in Seq([reads : Seq(STRING), writes : Seq(STRING), op : DOMAIN Ops])
  BY GraphsAssumption
<1>2. Len(graph.edges) \in Nat /\ Layers = 1..Len(graph.edges)
  BY GraphFacts
<1>3. IsFiniteSet(Layers)
  BY <1>2, CountTo
<1>4. ASSUME NEW e \in Layers
      PROVE  /\ Reads(e) \in Seq(STRING) /\ Writes(e) \in Seq(STRING)
             /\ graph.edges[e].op \in DOMAIN Ops
  <2>1. graph.edges[e] \in [reads : Seq(STRING), writes : Seq(STRING), op : DOMAIN Ops]
    BY <1>1, <1>2, ElementOfSeq
  <2> QED
    BY <2>1 DEF Reads, Writes
<1>5. ASSUME NEW s \in Seq(STRING) PROVE IsFiniteSet(DOMAIN s)
  <2>1. Len(s) \in Nat /\ DOMAIN s = 1..Len(s)
    BY LenProperties
  <2> QED
    BY <2>1, CountTo
<1> QED
  BY <1>3, <1>4, <1>5

LEMMA SlotsFinite ==
    ASSUME graph \in Graphs
    PROVE  IsFiniteSet(Slots) /\ \A n : IsFiniteSet(ReadersOf(n))
<1> DEFINE Own1(e) == {e} \X DOMAIN Reads(e)
           All == {Own1(e) : e \in Layers}
           f == [e \in Layers |-> Own1(e)]
<1>1. IsFiniteSet(All)
  <2>1. f \in Surjection(Layers, All)
    BY DEF Surjection
  <2>2. IsFiniteSet(Layers)
    BY EdgeFacts
  <2> HIDE DEF f, All
  <2> QED
    BY <2>1, <2>2, FS_Surjection
<1>2. \A T \in All : IsFiniteSet(T)
  <2>1. ASSUME NEW e \in Layers PROVE IsFiniteSet(Own1(e))
    BY EdgeFacts, FS_Singleton, FS_Product
  <2> QED
    BY <2>1
<1>3. Slots = UNION All
  BY DEF Slots
<1>4. IsFiniteSet(Slots)
  <2> HIDE DEF All
  <2> QED
    BY <1>1, <1>2, <1>3, FS_UNION
<1>5. ASSUME NEW n PROVE IsFiniteSet(ReadersOf(n))
  <2>1. ReadersOf(n) \subseteq Slots
    BY DEF ReadersOf
  <2> QED
    BY <1>4, <2>1, FS_Subset
<1> QED
  BY <1>4, <1>5

SlotsIn(n, S) == {slot \in ReadersOf(n) : slot[1] \in S}

LEMMA ReadsCounted ==
    ASSUME graph \in Graphs, NEW n, NEW e \in Layers
    PROVE  /\ IsFiniteSet(SlotsIn(n, {e}))
           /\ Cardinality(SlotsIn(n, {e})) = Occurrences(n, Reads(e))
           /\ Occurrences(n, Reads(e)) \in Nat
           /\ n \in Range(Reads(e)) => Occurrences(n, Reads(e)) > 0
<1> DEFINE places == {k \in DOMAIN Reads(e) : Reads(e)[k] = n}
           f == [k \in places |-> <<e, k>>]
<1>1. IsFiniteSet(places) /\ Cardinality(places) \in Nat
  <2>1. IsFiniteSet(DOMAIN Reads(e)) /\ places \subseteq DOMAIN Reads(e)
    BY EdgeFacts
  <2> HIDE DEF places
  <2> QED
    BY <2>1, FS_Subset, FS_CardinalityType
<1>2. SlotsIn(n, {e}) = {<<e, k>> : k \in places}
  BY DEF SlotsIn, ReadersOf, Slots
<1>3. f \in Bijection(places, SlotsIn(n, {e}))
  BY <1>2 DEF Bijection, Injection, Surjection, IsInjective
<1>4. IsFiniteSet(SlotsIn(n, {e})) /\ Cardinality(SlotsIn(n, {e})) = Cardinality(places)
  <2> HIDE DEF f, places
  <2> QED
    BY <1>1, <1>3, FS_Bijection DEF ExistsBijection
<1>5. ASSUME n \in Range(Reads(e)) PROVE places # {}
  BY <1>5 DEF Range
<1>6. places # {} => Cardinality(places) > 0
  <2> HIDE DEF places
  <2> QED
    BY <1>1, FS_EmptySet
<1> QED
  BY <1>1, <1>4, <1>5, <1>6 DEF Occurrences

(* Running one more layer.                                                 *)
LEMMA OneMore ==
    ASSUME graph \in Graphs, NEW n, NEW S, NEW e \in Layers \ S
    PROVE  /\ Unread(n, S) \in Nat /\ Occurrences(n, Reads(e)) \in Nat
           /\ Unread(n, S \cup {e}) = Unread(n, S) - Occurrences(n, Reads(e))
           /\ Unread(n, S \cup {e}) \in Nat
           /\ Parts(n, S \cup {e}) = Parts(n, S) + Occurrences(n, Reads(e))
<1>1. PICK A : A = SlotsIn(n, {e})
  OBVIOUS
<1>2. IsFiniteSet(A) /\ Cardinality(A) = Occurrences(n, Reads(e)) /\ Cardinality(A) \in Nat
  BY <1>1, ReadsCounted
<1>3. IsFiniteSet(ReadersOf(n))
  BY SlotsFinite
<1>4. PICK U, V : /\ U = {slot \in ReadersOf(n) : slot[1] \notin S}
                  /\ V = {slot \in ReadersOf(n) : slot[1] \notin S \cup {e}}
  OBVIOUS
<1>5. U = V \cup A /\ V \cap A = {} /\ U \subseteq ReadersOf(n) /\ V \subseteq ReadersOf(n)
  BY <1>1, <1>4 DEF SlotsIn
<1>6. /\ IsFiniteSet(U) /\ IsFiniteSet(V)
      /\ Cardinality(U) \in Nat /\ Cardinality(V) \in Nat
  BY <1>3, <1>5, FS_Subset, FS_CardinalityType
<1>7. Cardinality(U) = Cardinality(V) + Cardinality(A)
  <2>1. Cardinality(V \cup A) = Cardinality(V) + Cardinality(A) - Cardinality(V \cap A)
    BY <1>2, <1>6, FS_Union
  <2>2. Cardinality(V \cap A) = 0
    BY <1>5, FS_EmptySet
  <2> QED
    BY <1>2, <1>5, <1>6, <2>1, <2>2
<1>8. PICK X, Y : /\ X = {slot \in ReadersOf(n) : slot[1] \in S}
                  /\ Y = {slot \in ReadersOf(n) : slot[1] \in S \cup {e}}
  OBVIOUS
<1>9. Y = X \cup A /\ X \cap A = {} /\ X \subseteq ReadersOf(n)
  BY <1>1, <1>8 DEF SlotsIn
<1>10. IsFiniteSet(X) /\ Cardinality(X) \in Nat
  BY <1>3, <1>9, FS_Subset, FS_CardinalityType
<1>11. Cardinality(Y) = Cardinality(X) + Cardinality(A)
  <2>1. Cardinality(X \cup A) = Cardinality(X) + Cardinality(A) - Cardinality(X \cap A)
    BY <1>2, <1>10, FS_Union
  <2>2. Cardinality(X \cap A) = 0
    BY <1>9, FS_EmptySet
  <2> QED
    BY <1>2, <1>9, <1>10, <2>1, <2>2
<1>12. PICK extra : extra = (IF n \in graph.outputs THEN 1 ELSE 0)
  OBVIOUS
<1>13. Parts(n, S \cup {e}) = Cardinality(Y) + extra /\ Parts(n, S) = Cardinality(X) + extra
  BY <1>8, <1>12 DEF Parts
<1>14. Unread(n, S) = Cardinality(U) /\ Unread(n, S \cup {e}) = Cardinality(V)
  BY <1>4 DEF Unread
<1>15. extra \in Nat
  BY <1>12
<1> QED
  BY <1>2, <1>6, <1>7, <1>10, <1>11, <1>13, <1>14, <1>15

(* A node is written once, by one layer.                                   *)
LEMMA WrittenOnce ==
    ASSUME graph \in Graphs, WellBuilt, NEW n, NEW e \in Layers
    PROVE  /\ Occurrences(n, Writes(e)) = IF n \in Range(Writes(e)) THEN 1 ELSE 0
           /\ n \in Range(Writes(e)) => Writers(n) = {e} /\ n \notin graph.inputs
<1>1. \A d \in Layers : \A k \in DOMAIN Writes(d), l \in DOMAIN Writes(e) :
          Writes(d)[k] = Writes(e)[l] => d = e /\ k = l
  BY DEF WellBuilt, Layers, Writes
<1>2. n \in Range(Writes(e)) => n \notin graph.inputs
  BY DEF WellBuilt, Layers, Writes
<1>3. CASE n \in Range(Writes(e))
  <2>1. PICK k \in DOMAIN Writes(e) : Writes(e)[k] = n
    BY <1>3 DEF Range
  <2>2. {l \in DOMAIN Writes(e) : Writes(e)[l] = n} = {k}
    BY <1>1, <2>1
  <2>3. Writers(n) = {e}
    <3>1. \A d \in Layers : n \in Range(Writes(d)) => d = e
      BY <1>1, <2>1 DEF Range
    <3> QED
      BY <1>3, <3>1 DEF Writers
  <2> QED
    BY <1>2, <1>3, <2>2, <2>3, FS_Singleton DEF Occurrences
<1>4. CASE n \notin Range(Writes(e))
  <2>1. {l \in DOMAIN Writes(e) : Writes(e)[l] = n} = {}
    BY <1>4 DEF Range
  <2> QED
    BY <1>4, <2>1, FS_EmptySet DEF Occurrences
<1> QED
  BY <1>3, <1>4

LEMMA NodeFacts ==
    ASSUME graph \in Graphs, WellBuilt
    PROVE  /\ \A e \in Layers : /\ Range(Reads(e)) \subseteq Nodes /\ Range(Writes(e)) \subseteq Nodes
                                /\ Range(Writes(e)) # {}
           /\ \A n \in Nodes \ graph.inputs : \E e \in Layers : n \in Range(Writes(e))
           /\ graph.inputs \subseteq Nodes /\ graph.outputs \subseteq Nodes
           /\ graph.inputs \cap graph.outputs = {}
<1> DEFINE written == UNION {Range(graph.edges[e].writes) : e \in DOMAIN graph.edges}
<1>1. /\ graph.inputs \cup written = Nodes
      /\ graph.inputs \cap written = {} /\ graph.outputs \subseteq written
  BY DEF WellBuilt, Nodes
<1>2. \A e \in Layers : Range(Writes(e)) \subseteq written
  BY DEF Layers, Writes
<1>3. \A n \in written : \E e \in Layers : n \in Range(Writes(e))
  BY DEF Layers, Writes
<1>4. ASSUME NEW e \in Layers PROVE Range(Writes(e)) # {} /\ Range(Reads(e)) \subseteq Nodes
  <2>1. Writes(e) # <<>> /\ Range(Reads(e)) \subseteq Nodes
    BY DEF WellBuilt, Layers, Writes, Reads, Nodes
  <2>2. Writes(e) \in Seq(STRING)
    BY EdgeFacts
  <2>3. 1 \in DOMAIN Writes(e)
    BY <2>1, <2>2
  <2> QED
    BY <2>1, <2>3 DEF Range
<1> HIDE DEF written
<1> QED
  BY <1>1, <1>2, <1>3, <1>4

LEMMA TakersOf ==
    ASSUME graph \in Graphs, WellBuilt, NEW n \in Nodes, NEW S
    PROVE  /\ n \in graph.inputs => Takers(n, S) = 1 /\ Writers(n) = {}
           /\ \A e \in Layers : n \in Range(Writes(e)) =>
                  Takers(n, S) = IF e \in S THEN 0 ELSE 1
<1>1. CASE n \in graph.inputs
  <2>1. \A e \in Layers : n \notin Range(Writes(e))
    BY <1>1, WrittenOnce
  <2>2. Writers(n) = {} /\ Writers(n) \ S = {}
    BY <2>1 DEF Writers
  <2>3. Cardinality(Writers(n) \ S) = 0
    BY <2>2, FS_EmptySet
  <2> QED
    BY <1>1, <2>1, <2>2, <2>3 DEF Takers
<1>2. ASSUME NEW e \in Layers, n \in Range(Writes(e))
      PROVE  n \notin graph.inputs /\ Takers(n, S) = IF e \in S THEN 0 ELSE 1
  <2>1. Writers(n) = {e} /\ n \notin graph.inputs
    BY <1>2, WrittenOnce
  <2>2. CASE e \in S
    <3>1. Writers(n) \ S = {}
      BY <2>1, <2>2
    <3> QED
      BY <2>1, <2>2, <3>1, FS_EmptySet DEF Takers
  <2>3. CASE e \notin S
    <3>1. Writers(n) \ S = {e}
      BY <2>1, <2>3
    <3> QED
      BY <2>1, <2>3, <3>1, FS_Singleton DEF Takers
  <2> QED
    BY <2>1, <2>2, <2>3
<1> QED
  BY <1>1, <1>2

(* How far a pass has come in the order of its plan.                       *)
LEMMA Arranged ==
    ASSUME NEW edges, NEW s, Arranges(s, edges), NEW p \in 1..(Len(s) + 1),
           NEW S, S = Reached(s, p)
    PROVE  /\ S \subseteq DOMAIN edges
           /\ p > Len(s) => S = DOMAIN edges
           /\ p <= Len(s) =>
                  /\ s[p] \in DOMAIN edges \ S
                  /\ Reached(s, p + 1) = S \cup {s[p]}
                  /\ \A d \in DOMAIN edges :
                         /\ Range(edges[d].writes) \cap Range(edges[s[p]].reads) # {} => d \in S
                         /\ Range(edges[s[p]].writes) \cap Range(edges[d].reads) # {}
                                => d \notin S \cup {s[p]}
<1>1. s \in Seq(DOMAIN edges)
  BY DEF Arranges
<1>2. PICK n : n = Len(s)
  OBVIOUS
<1>3. n \in Nat /\ DOMAIN s = 1..n /\ \A i \in 1..n : s[i] \in DOMAIN edges
  BY <1>1, <1>2, LenProperties
<1>4. p \in 1..(n + 1) /\ 1..(p - 1) \subseteq 1..n /\ (p + 1) - 1 = p
  BY <1>2, <1>3
<1>5. S \subseteq DOMAIN edges
  BY <1>3, <1>4 DEF Reached
<1>6. \A e \in DOMAIN edges : \E i \in 1..n : s[i] = e
  BY <1>3 DEF Arranges
<1>7. \A i, j \in 1..n : /\ s[i] = s[j] => i = j
                         /\ Range(edges[s[i]].writes) \cap Range(edges[s[j]].reads) # {} => i < j
  BY <1>3 DEF Arranges
<1>8. ASSUME p > n PROVE S = DOMAIN edges
  <2>1. p - 1 = n
    BY <1>3, <1>4, <1>8
  <2> QED
    BY <1>5, <1>6, <2>1 DEF Reached
<1>9. ASSUME p <= n
      PROVE  /\ s[p] \in DOMAIN edges \ S
             /\ Reached(s, p + 1) = S \cup {s[p]}
             /\ \A d \in DOMAIN edges :
                    /\ Range(edges[d].writes) \cap Range(edges[s[p]].reads) # {} => d \in S
                    /\ Range(edges[s[p]].writes) \cap Range(edges[d].reads) # {}
                           => d \notin S \cup {s[p]}
  <2>1. p \in 1..n /\ 1..p = 1..(p - 1) \cup {p}
    BY <1>3, <1>4, <1>9
  <2>2. s[p] \in DOMAIN edges
    BY <1>3, <2>1
  <2>3. \A i \in 1..(p - 1) : i \in 1..n /\ i < p /\ s[i] # s[p]
    BY <1>3, <1>4, <1>7, <2>1
  <2>4. s[p] \notin S
    BY <2>3 DEF Reached
  <2>5. Reached(s, p + 1) = S \cup {s[p]}
    BY <1>4, <2>1 DEF Reached
  <2>6. ASSUME NEW d \in DOMAIN edges
        PROVE  /\ Range(edges[d].writes) \cap Range(edges[s[p]].reads) # {} => d \in S
               /\ Range(edges[s[p]].writes) \cap Range(edges[d].reads) # {}
                      => d \notin S \cup {s[p]}
    <3>1. PICK i \in 1..n : s[i] = d
      BY <1>6
    <3>2. /\ Range(edges[d].writes) \cap Range(edges[s[p]].reads) # {} => i < p
          /\ Range(edges[s[p]].writes) \cap Range(edges[d].reads) # {} => p < i
      BY <1>7, <2>1, <3>1
    <3>3. i < p => i \in 1..(p - 1)
      BY <1>3, <2>1
    <3>4. ASSUME p < i PROVE d \notin S \cup {s[p]}
      <4>1. \A j \in 1..p : j \in 1..n /\ j # i
        BY <1>3, <2>1, <3>4
      <4>2. \A j \in 1..p : s[j] # d
        BY <1>7, <3>1, <4>1
      <4> QED
        BY <2>1, <4>2 DEF Reached
    <3> QED
      BY <3>1, <3>2, <3>3, <3>4 DEF Reached
  <2> QED
    BY <1>4, <2>2, <2>4, <2>5, <2>6
<1> QED
  BY <1>2, <1>5, <1>8, <1>9

----------------------------------------------------------------------------
(* Where a pass is.                                                        *)

LEMMA InForward ==
    ASSUME PlanInv, PassInv, phase = "forward"
    PROVE  /\ Stored \subseteq Layers /\ (position > Len(Pass) => Stored = Layers)
           /\ position <= Len(Pass) =>
                  /\ Layer \in Layers \ Stored
                  /\ Reached(Pass, position + 1) = Stored \cup {Layer}
                  /\ \A d \in Layers :
                         /\ Range(Writes(d)) \cap Range(Reads(Layer)) # {} => d \in Stored
                         /\ Range(Writes(Layer)) \cap Range(Reads(d)) # {}
                                => d \notin Stored \cup {Layer}
           /\ position \in Nat /\ Len(Pass) \in Nat
<1>1. training \in DOMAIN plans /\ position \in 1..(Len(Pass) + 1)
  BY DEF PassInv, InPlace
<1>2. Arranges(Pass, Forwards)
  BY <1>1 DEF PlanInv, OrdersFit, Pass, Plan
<1>3. graph \in Graphs
  BY DEF PlanInv
<1>4. PICK S : S = Reached(Pass, position)
  OBVIOUS
<1>5. S = Stored
  BY <1>4 DEF Stored
<1>6. Len(Pass) \in Nat
  BY <1>2, LenProperties DEF Arranges
<1>7. /\ S \subseteq DOMAIN Forwards
      /\ position > Len(Pass) => S = DOMAIN Forwards
      /\ position <= Len(Pass) =>
             /\ Pass[position] \in DOMAIN Forwards \ S
             /\ Reached(Pass, position + 1) = S \cup {Pass[position]}
             /\ \A d \in DOMAIN Forwards :
                    /\ Range(Forwards[d].writes) \cap Range(Forwards[Pass[position]].reads) # {} => d \in S
                    /\ Range(Forwards[Pass[position]].writes) \cap Range(Forwards[d].reads) # {}
                           => d \notin S \cup {Pass[position]}
  BY <1>1, <1>2, <1>4, Arranged
<1>8. /\ DOMAIN Forwards = Layers
      /\ \A e \in Layers : Forwards[e].reads = Reads(e) /\ Forwards[e].writes = Writes(e)
  BY <1>3, OrientedFacts
<1>9. Layer = Pass[position] /\ position \in Nat
  BY <1>1 DEF Layer
<1>10. ASSUME position <= Len(Pass)
       PROVE  /\ Layer \in Layers \ Stored
              /\ Reached(Pass, position + 1) = Stored \cup {Layer}
  BY <1>5, <1>7, <1>8, <1>9, <1>10
<1>11. ASSUME position <= Len(Pass), NEW d \in Layers
       PROVE  /\ Range(Writes(d)) \cap Range(Reads(Layer)) # {} => d \in Stored
              /\ Range(Writes(Layer)) \cap Range(Reads(d)) # {} => d \notin Stored \cup {Layer}
  BY <1>5, <1>7, <1>8, <1>9, <1>10, <1>11
<1> QED
  BY <1>5, <1>6, <1>7, <1>8, <1>9, <1>10, <1>11

LEMMA InBackward ==
    ASSUME PlanInv, PassInv, phase = "backward"
    PROVE  /\ Stored \subseteq Layers /\ (position > Len(Pass) => Stored = Layers)
           /\ position <= Len(Pass) =>
                  /\ Layer \in Layers \ Stored
                  /\ Reached(Pass, position + 1) = Stored \cup {Layer}
                  /\ \A d \in Layers :
                         /\ Range(Reads(d)) \cap Range(Writes(Layer)) # {} => d \in Stored
                         /\ Range(Reads(Layer)) \cap Range(Writes(d)) # {}
                                => d \notin Stored \cup {Layer}
           /\ position \in Nat /\ Len(Pass) \in Nat
<1>1. training \in DOMAIN plans /\ training /\ position \in 1..(Len(Pass) + 1)
  BY DEF PassInv, InPlace
<1>2. Arranges(Pass, Backwards)
  BY <1>1 DEF PlanInv, OrdersFit, Pass, Plan
<1>3. graph \in Graphs
  BY DEF PlanInv
<1>4. PICK S : S = Reached(Pass, position)
  OBVIOUS
<1>5. S = Stored
  BY <1>4 DEF Stored
<1>6. Len(Pass) \in Nat
  BY <1>2, LenProperties DEF Arranges
<1>7. /\ S \subseteq DOMAIN Backwards
      /\ position > Len(Pass) => S = DOMAIN Backwards
      /\ position <= Len(Pass) =>
             /\ Pass[position] \in DOMAIN Backwards \ S
             /\ Reached(Pass, position + 1) = S \cup {Pass[position]}
             /\ \A d \in DOMAIN Backwards :
                    /\ Range(Backwards[d].writes) \cap Range(Backwards[Pass[position]].reads) # {} => d \in S
                    /\ Range(Backwards[Pass[position]].writes) \cap Range(Backwards[d].reads) # {}
                           => d \notin S \cup {Pass[position]}
  BY <1>1, <1>2, <1>4, Arranged
<1>8. /\ DOMAIN Backwards = Layers
      /\ \A e \in Layers : Backwards[e].reads = Writes(e) /\ Backwards[e].writes = Reads(e)
  BY <1>3, OrientedFacts
<1>9. Layer = Pass[position] /\ position \in Nat
  BY <1>1 DEF Layer
<1>10. ASSUME position <= Len(Pass)
       PROVE  /\ Layer \in Layers \ Stored
              /\ Reached(Pass, position + 1) = Stored \cup {Layer}
  BY <1>5, <1>7, <1>8, <1>9, <1>10
<1>11. ASSUME position <= Len(Pass), NEW d \in Layers
       PROVE  /\ Range(Reads(d)) \cap Range(Writes(Layer)) # {} => d \in Stored
              /\ Range(Reads(Layer)) \cap Range(Writes(d)) # {} => d \notin Stored \cup {Layer}
  BY <1>5, <1>7, <1>8, <1>9, <1>10, <1>11
<1> QED
  BY <1>5, <1>6, <1>7, <1>8, <1>9, <1>10, <1>11

(* Giving back references that are there.                                  *)
LEMMA ReleasedData ==
    ASSUME NEW map, NEW times,
           \A n \in DOMAIN map :
               /\ map[n] = [tensor |-> map[n].tensor, refs |-> map[n].refs]
               /\ map[n].refs \in Nat /\ times[n] \in Nat /\ times[n] <= map[n].refs,
           NEW after, after = Released(map, times)
    PROVE  /\ DOMAIN after \subseteq DOMAIN map
           /\ \A n \in DOMAIN after :
                  after[n] = [tensor |-> map[n].tensor, refs |-> map[n].refs - times[n]]
           /\ \A n \in DOMAIN map \ DOMAIN after : map[n].refs - times[n] = 0
<1>1. DOMAIN after = {n \in DOMAIN map : map[n].refs = 0 \/ map[n].refs > times[n]}
  BY DEF Released
<1>2. ASSUME NEW n \in DOMAIN after
      PROVE  after[n] = [tensor |-> map[n].tensor, refs |-> map[n].refs - times[n]]
  <2>1. n \in DOMAIN map
    BY <1>1
  <2>2. after[n] = IF map[n].refs = 0 THEN map[n]
                   ELSE [map[n] EXCEPT !.refs = map[n].refs - times[n]]
    BY <1>1 DEF Released
  <2>3. PICK t, r : t = map[n].tensor /\ r = map[n].refs
    OBVIOUS
  <2>4. map[n] = [tensor |-> t, refs |-> r] /\ r \in Nat /\ times[n] \in Nat /\ times[n] <= r
    BY <2>1, <2>3
  <2>5. CASE r = 0
    <3>1. times[n] = 0 /\ r - times[n] = 0
      BY <2>4, <2>5
    <3> QED
      BY <2>2, <2>3, <2>4, <2>5, <3>1
  <2>6. CASE r # 0
    BY <2>2, <2>3, <2>4, <2>6
  <2> QED
    BY <2>5, <2>6
<1>3. ASSUME NEW n \in DOMAIN map \ DOMAIN after PROVE map[n].refs - times[n] = 0
  BY <1>1, <1>3
<1> QED
  BY <1>1, <1>2, <1>3

LEMMA ReleasedGrads ==
    ASSUME NEW map, NEW times,
           \A n \in DOMAIN map :
               /\ map[n] = [tensor |-> map[n].tensor, refs |-> map[n].refs, parts |-> map[n].parts]
               /\ map[n].refs \in Nat /\ times[n] \in Nat /\ times[n] <= map[n].refs,
           NEW after, after = Released(map, times)
    PROVE  /\ DOMAIN after \subseteq DOMAIN map
           /\ \A n \in DOMAIN after :
                  after[n] = [tensor |-> map[n].tensor, refs |-> map[n].refs - times[n],
                              parts |-> map[n].parts]
           /\ \A n \in DOMAIN map \ DOMAIN after : map[n].refs - times[n] = 0 /\ times[n] # 0
<1>1. DOMAIN after = {n \in DOMAIN map : map[n].refs = 0 \/ map[n].refs > times[n]}
  BY DEF Released
<1>2. ASSUME NEW n \in DOMAIN after
      PROVE  after[n] = [tensor |-> map[n].tensor, refs |-> map[n].refs - times[n],
                         parts |-> map[n].parts]
  <2>1. n \in DOMAIN map
    BY <1>1
  <2>2. after[n] = IF map[n].refs = 0 THEN map[n]
                   ELSE [map[n] EXCEPT !.refs = map[n].refs - times[n]]
    BY <1>1 DEF Released
  <2>3. PICK t, r, p : t = map[n].tensor /\ r = map[n].refs /\ p = map[n].parts
    OBVIOUS
  <2>4. /\ map[n] = [tensor |-> t, refs |-> r, parts |-> p]
        /\ r \in Nat /\ times[n] \in Nat /\ times[n] <= r
    BY <2>1, <2>3
  <2>5. CASE r = 0
    <3>1. times[n] = 0 /\ r - times[n] = 0
      BY <2>4, <2>5
    <3> QED
      BY <2>2, <2>3, <2>4, <2>5, <3>1
  <2>6. CASE r # 0
    BY <2>2, <2>3, <2>4, <2>6
  <2> QED
    BY <2>5, <2>6
<1>3. ASSUME NEW n \in DOMAIN map \ DOMAIN after
      PROVE  map[n].refs - times[n] = 0 /\ times[n] # 0
  BY <1>1, <1>3
<1> QED
  BY <1>1, <1>2, <1>3

(* The counts of the next state, in terms of this one.                     *)
LEMMA DataCountedNext ==
    ASSUME UNCHANGED graph, NEW S, NEW B, Stored' = S, Begun' = B,
           DOMAIN data' \subseteq Nodes,
           \A n \in DOMAIN data' : data'[n] = [tensor |-> data'[n].tensor, refs |-> Unread(n, B)],
           \A n \in Nodes \ DOMAIN data' :
               (n \in graph.inputs \/ \E e \in S : n \in Range(Writes(e))) => Unread(n, B) = 0
    PROVE  DataCounted'
<1> QED
  BY DEF DataCounted, Unread, ReadersOf, Slots, Layers, Reads, Writes, Nodes

LEMMA GradsCountedNext ==
    ASSUME UNCHANGED graph, NEW S, NEW B, Stored' = S, Begun' = B,
           DOMAIN grads' \subseteq Nodes,
           \A n \in DOMAIN grads' :
               grads'[n] = [tensor |-> grads'[n].tensor, refs |-> Takers(n, B), parts |-> Parts(n, S)],
           \A n \in Nodes \ DOMAIN grads' :
               (n \in graph.outputs \/ \E slot \in ReadersOf(n) : slot[1] \in S) => Takers(n, B) = 0
    PROVE  GradsCounted'
<1>1. \A n : Takers(n, Begun)' = Takers(n, B)
  BY DEF Takers, Writers, Layers, Writes
<1>2. \A n : Parts(n, Stored)' = Parts(n, S)
  BY DEF Parts, ReadersOf, Slots, Layers, Reads
<1>3. \A n : ReadersOf(n)' = ReadersOf(n)
  BY DEF ReadersOf, Slots, Layers, Reads
<1> QED
  BY <1>1, <1>2, <1>3 DEF GradsCounted, Nodes

----------------------------------------------------------------------------
(* The steps of a pass.                                                    *)

(* The mode of a pass does not change, nor what it may rely on.            *)
LEMMA PassMode ==
    ASSUME PassInv, UNCHANGED <<graph, plans, training>>,
           phase \notin Solving \cup Finished, phase' \notin Solving \cup Finished
    PROVE  /\ (TRUE \in DOMAIN plans \/ (training /\ phase \in Solving \cup Finished) => Trainable)'
           /\ WellBuilt' /\ Layers' = Layers
           /\ \A e : Residual(e)' = Residual(e)
<1>1. Trainable' = Trainable
  BY DEF Trainable, Nodes, ReadersOf, Slots, Layers, Reads
<1> QED
  BY <1>1 DEF PassInv, WellBuilt, Layers, Residual, Does

LEMMA ForwardFinds ==
    ASSUME PlanInv, PassInv, phase = "forward", using = {}, position <= Len(Pass)
    PROVE  /\ ~Missing(data, Reads(Layer))
           /\ \A n \in Nodes : Occurrences(n, Reads(Layer)) <= Unread(n, Stored)
<1>1. /\ graph \in Graphs /\ WellBuilt /\ DataCounted /\ Begun = Stored
      /\ Layer \in Layers \ Stored
      /\ \A d \in Layers : Range(Writes(d)) \cap Range(Reads(Layer)) # {} => d \in Stored
  BY InForward DEF PlanInv, PassInv, Begun
<1>2. PICK e : e = Layer
  OBVIOUS
<1>3. ASSUME NEW n
      PROVE  /\ Unread(n, Stored) \in Nat /\ Occurrences(n, Reads(e)) \in Nat
             /\ Occurrences(n, Reads(e)) <= Unread(n, Stored)
  <2>1. /\ Unread(n, Stored) \in Nat /\ Occurrences(n, Reads(e)) \in Nat
        /\ Unread(n, Stored \cup {e}) = Unread(n, Stored) - Occurrences(n, Reads(e))
        /\ Unread(n, Stored \cup {e}) \in Nat
    BY <1>1, <1>2, OneMore
  <2> QED
    BY <2>1
<1>4. ASSUME NEW n \in Range(Reads(e))
      PROVE  n \in DOMAIN data /\ data[n].refs \notin 1..(Occurrences(n, Reads(e)) - 1)
  <2>1. n \in Nodes
    BY <1>1, <1>2, NodeFacts
  <2>2. n \in graph.inputs \/ \E d \in Stored : n \in Range(Writes(d))
    <3>1. ASSUME n \notin graph.inputs PROVE \E d \in Stored : n \in Range(Writes(d))
      <4>1. PICK d \in Layers : n \in Range(Writes(d))
        BY <1>1, <2>1, <3>1, NodeFacts
      <4> QED
        BY <1>1, <1>2, <4>1
    <3> QED
      BY <3>1
  <2>3. Occurrences(n, Reads(e)) > 0 /\ Unread(n, Stored) # 0
    <3>1. Occurrences(n, Reads(e)) > 0
      BY <1>1, <1>2, ReadsCounted
    <3> QED
      BY <1>3, <3>1
  <2>4. n \in DOMAIN data
    BY <1>1, <2>1, <2>2, <2>3 DEF DataCounted
  <2>5. data[n].refs = Unread(n, Stored)
    <3>1. data[n] = [tensor |-> data[n].tensor, refs |-> Unread(n, Stored)]
      BY <1>1, <2>4 DEF DataCounted
    <3> QED
      BY <3>1
  <2> QED
    BY <1>3, <2>4, <2>5
<1> QED
  BY <1>2, <1>3, <1>4 DEF Missing

LEMMA ForwardLayerKeeps == ASSUME PlanInv, PassInv, ForwardLayer PROVE PassInv'
<1>1. phase = "forward" /\ using = {} /\ position <= Len(Pass)
  BY DEF ForwardLayer, Running
<1>2. ~Missing(data, Reads(Layer))
  BY <1>1, ForwardFinds
<1>3. PICK e : e = Layer
  OBVIOUS
<1>4. /\ using' = {data[n].tensor : n \in Range(Reads(e))} \cup ForwardBuffers(e)
      /\ data' = Released(data, EachIn(Reads(e), data))
      /\ UNCHANGED <<graph, plans, training, phase, position, grads, residuals>>
  BY <1>2, <1>3 DEF ForwardLayer, passVars, planVars
<1>5. /\ graph \in Graphs /\ WellBuilt /\ DataCounted /\ Begun = Stored
      /\ e \in Layers \ Stored
  BY <1>1, <1>3, InForward DEF PlanInv, PassInv, Begun
<1>6. using' # {}
  <2>1. PICK n \in Range(Writes(e)) : TRUE
    BY <1>5, NodeFacts
  <2>2. <<"data", n>> \in ForwardBuffers(e)
    BY <2>1 DEF ForwardBuffers
  <2> QED
    BY <1>4, <2>2
<1>7. Stored' = Stored /\ Begun' = Stored \cup {e}
  BY <1>3, <1>4, <1>6 DEF Stored, Begun, Pass, Plan, Layer
<1>8. DataCounted'
  <2>1. PICK S, B : S = Stored /\ B = Stored \cup {e}
    OBVIOUS
  <2>2. ASSUME NEW n \in DOMAIN data
        PROVE  /\ data[n] = [tensor |-> data[n].tensor, refs |-> data[n].refs]
               /\ data[n].refs \in Nat /\ EachIn(Reads(e), data)[n] \in Nat
               /\ EachIn(Reads(e), data)[n] <= data[n].refs
               /\ data[n].refs - EachIn(Reads(e), data)[n] = Unread(n, B)
               /\ n \in Nodes
    <3>1. data[n] = [tensor |-> data[n].tensor, refs |-> Unread(n, S)] /\ n \in Nodes
      BY <1>5, <2>1 DEF DataCounted
    <3>2. data[n].refs = Unread(n, S)
      BY <3>1
    <3>3. EachIn(Reads(e), data)[n] = Occurrences(n, Reads(e))
      BY DEF EachIn
    <3>4. /\ Unread(n, S) \in Nat /\ Occurrences(n, Reads(e)) \in Nat
          /\ Unread(n, B) = Unread(n, S) - Occurrences(n, Reads(e))
      BY <1>5, <2>1, OneMore
    <3>5. Occurrences(n, Reads(e)) <= Unread(n, S)
      BY <1>1, <1>3, <2>1, <3>1, ForwardFinds
    <3> QED
      BY <3>1, <3>2, <3>3, <3>4, <3>5
  <2>3. /\ DOMAIN data' \subseteq DOMAIN data
        /\ \A n \in DOMAIN data' :
               data'[n] = [tensor |-> data[n].tensor, refs |-> data[n].refs - EachIn(Reads(e), data)[n]]
        /\ \A n \in DOMAIN data \ DOMAIN data' : data[n].refs - EachIn(Reads(e), data)[n] = 0
    BY <1>4, <2>2, ReleasedData
  <2>4. ASSUME NEW n \in DOMAIN data'
        PROVE  data'[n] = [tensor |-> data'[n].tensor, refs |-> Unread(n, B)]
    BY <2>2, <2>3
  <2>5. ASSUME NEW n \in Nodes \ DOMAIN data',
               n \in graph.inputs \/ \E d \in S : n \in Range(Writes(d))
        PROVE  Unread(n, B) = 0
    <3>1. CASE n \in DOMAIN data
      BY <2>2, <2>3, <2>5, <3>1
    <3>2. CASE n \notin DOMAIN data
      <4>1. Unread(n, S) = 0
        BY <1>5, <2>1, <2>5, <3>2 DEF DataCounted
      <4>2. /\ Unread(n, S) \in Nat /\ Occurrences(n, Reads(e)) \in Nat /\ Unread(n, B) \in Nat
            /\ Unread(n, B) = Unread(n, S) - Occurrences(n, Reads(e))
        BY <1>5, <2>1, OneMore
      <4> QED
        BY <4>1, <4>2
    <3> QED
      BY <3>1, <3>2
  <2>6. DOMAIN data' \subseteq Nodes
    BY <2>2, <2>3
  <2> QED
    BY <1>4, <1>7, <2>1, <2>4, <2>5, <2>6, DataCountedNext
<1>9. /\ (TRUE \in DOMAIN plans \/ (training /\ phase \in Solving \cup Finished) => Trainable)'
      /\ WellBuilt' /\ Layers' = Layers
      /\ \A d : Residual(d)' = Residual(d)
  BY <1>1, <1>4, PassMode DEF Solving, Finished
<1>10. ResidualsKept'
  BY <1>1, <1>4, <1>7, <1>9 DEF PassInv, ResidualsKept, Saves
<1>11. InPlace'
  BY <1>1, <1>4 DEF PassInv, InPlace, Pass, Plan
<1> QED
  BY <1>1, <1>4, <1>8, <1>9, <1>10, <1>11 DEF PassInv

(* What a layer has written is read by nobody before.                      *)
LEMMA UnreadBefore ==
    ASSUME graph \in Graphs, NEW n, NEW S,
           \A d \in Layers : n \in Range(Reads(d)) => d \notin S
    PROVE  Unread(n, S) = Cardinality(ReadersOf(n)) /\ Cardinality(ReadersOf(n)) \in Nat
<1>1. {slot \in ReadersOf(n) : slot[1] \notin S} = ReadersOf(n)
  BY DEF ReadersOf, Slots, Range
<1>2. IsFiniteSet(ReadersOf(n))
  BY SlotsFinite
<1> QED
  BY <1>1, <1>2, FS_CardinalityType DEF Unread

LEMMA StoreForwardKeeps == ASSUME PlanInv, PassInv, StoreForward PROVE PassInv'
<1>1. phase = "forward" /\ using # {} /\ position <= Len(Pass)
  BY DEF StoreForward, PassInv, InPlace
<1>2. PICK e : e = Layer
  OBVIOUS
<1>3. /\ graph \in Graphs /\ WellBuilt /\ DataCounted /\ Begun = Stored \cup {e}
      /\ e \in Layers \ Stored /\ Stored \subseteq Layers
      /\ Reached(Pass, position + 1) = Stored \cup {e}
      /\ \A d \in Layers :
             Range(Writes(e)) \cap Range(Reads(d)) # {} => d \notin Stored \cup {e}
      /\ position \in Nat /\ Len(Pass) \in Nat
  BY <1>1, <1>2, InForward DEF PlanInv, PassInv, Begun
<1>4. /\ using' = {} /\ position' = position + 1
      /\ residuals' = [d \in DOMAIN residuals \cup {e} |->
                          IF d # e THEN residuals[d] ELSE Residual(e)]
      /\ UNCHANGED <<graph, plans, training, phase, grads>>
  BY <1>2 DEF StoreForward, passVars, planVars
<1>5. PICK W : W = Range(Writes(e))
  OBVIOUS
<1>6. PICK stored : stored = [n \in DOMAIN data \cup W |->
                                 IF n \in W THEN [tensor |-> Data(n), refs |-> DataRefs(n)]
                                 ELSE data[n]]
  OBVIOUS
<1>7. PICK given : given = [n \in DOMAIN stored |->
                               IF n \in graph.outputs THEN Occurrences(n, Writes(e)) ELSE 0]
  OBVIOUS
<1>8. data' = Released(stored, given)
  BY <1>2, <1>5, <1>6, <1>7 DEF StoreForward
<1>9. PICK B : B = Stored \cup {e}
  OBVIOUS
<1>10. Pass' = Pass
  BY <1>4 DEF Pass, Plan
<1>11. Stored' = B /\ Begun' = B
  BY <1>3, <1>4, <1>9, <1>10 DEF Stored, Begun
<1>12. ASSUME NEW n \in DOMAIN stored
       PROVE  /\ stored[n] = [tensor |-> stored[n].tensor, refs |-> stored[n].refs]
              /\ stored[n].refs \in Nat /\ given[n] \in Nat /\ given[n] <= stored[n].refs
              /\ stored[n].refs - given[n] = Unread(n, B) /\ n \in Nodes
  <2>1. CASE n \in W
    <3>1. stored[n] = [tensor |-> Data(n), refs |-> DataRefs(n)]
      BY <1>6, <2>1
    <3>2. \A d \in Layers : n \in Range(Reads(d)) => d \notin B
      BY <1>3, <1>5, <1>9, <2>1
    <3>3. Unread(n, B) = Cardinality(ReadersOf(n)) /\ Cardinality(ReadersOf(n)) \in Nat
      BY <1>3, <3>2, UnreadBefore
    <3>4. Occurrences(n, Writes(e)) = 1
      BY <1>3, <1>5, <2>1, WrittenOnce
    <3>5. given[n] = (IF n \in graph.outputs THEN 1 ELSE 0)
      BY <1>7, <3>4
    <3>6. DataRefs(n) = Unread(n, B) + given[n] /\ given[n] \in Nat /\ Unread(n, B) \in Nat
      BY <3>3, <3>5 DEF DataRefs
    <3>7. n \in Nodes
      BY <1>3, <1>5, <2>1, NodeFacts
    <3>8. stored[n].refs = DataRefs(n)
      BY <3>1
    <3> QED
      BY <3>1, <3>6, <3>7, <3>8
  <2>2. CASE n \notin W
    <3>1. n \in DOMAIN data /\ stored[n] = data[n]
      BY <1>6, <2>2
    <3>2. data[n] = [tensor |-> data[n].tensor, refs |-> Unread(n, B)] /\ n \in Nodes
      BY <1>3, <1>9, <3>1 DEF DataCounted
    <3>3. data[n].refs = Unread(n, B)
      BY <3>2
    <3>4. Occurrences(n, Writes(e)) = 0
      BY <1>3, <1>5, <2>2, WrittenOnce
    <3>5. given[n] = 0
      BY <1>7, <3>4
    <3>6. Unread(n, B) \in Nat
      BY <1>3, <1>9, OneMore
    <3> QED
      BY <3>1, <3>2, <3>3, <3>5, <3>6
  <2> QED
    BY <2>1, <2>2
<1>13. /\ DOMAIN data' \subseteq DOMAIN stored
       /\ \A n \in DOMAIN data' :
              data'[n] = [tensor |-> stored[n].tensor, refs |-> stored[n].refs - given[n]]
       /\ \A n \in DOMAIN stored \ DOMAIN data' : stored[n].refs - given[n] = 0
  BY <1>8, <1>12, ReleasedData
<1>14. DataCounted'
  <2>1. ASSUME NEW n \in DOMAIN data'
        PROVE  data'[n] = [tensor |-> data'[n].tensor, refs |-> Unread(n, B)]
    BY <1>12, <1>13
  <2>2. ASSUME NEW n \in Nodes \ DOMAIN data',
               n \in graph.inputs \/ \E d \in B : n \in Range(Writes(d))
        PROVE  Unread(n, B) = 0
    <3>1. CASE n \in DOMAIN stored
      BY <1>12, <1>13, <2>2, <3>1
    <3>2. CASE n \notin DOMAIN stored
      <4>1. n \notin DOMAIN data /\ n \notin Range(Writes(e))
        BY <1>5, <1>6, <3>2
      <4>2. n \in graph.inputs \/ \E d \in Stored : n \in Range(Writes(d))
        BY <1>9, <2>2, <4>1
      <4> QED
        BY <1>3, <1>9, <2>2, <4>1, <4>2 DEF DataCounted
    <3> QED
      BY <3>1, <3>2
  <2>3. DOMAIN data' \subseteq Nodes
    BY <1>12, <1>13
  <2> QED
    BY <1>4, <1>11, <2>1, <2>2, <2>3, DataCountedNext
<1>15. /\ (TRUE \in DOMAIN plans \/ (training /\ phase \in Solving \cup Finished) => Trainable)'
       /\ WellBuilt' /\ Layers' = Layers
       /\ \A d : Residual(d)' = Residual(d)
  BY <1>1, <1>4, PassMode DEF Solving, Finished
<1>16. ResidualsKept'
  <2>1. \A d \in Stored : d \in DOMAIN residuals /\ residuals[d] = Residual(d)
    BY <1>1 DEF PassInv, ResidualsKept, Saves
  <2>2. DOMAIN residuals' \subseteq Layers
    BY <1>3, <1>4 DEF PassInv, ResidualsKept
  <2>3. \A d \in B : d \in DOMAIN residuals' /\ residuals'[d] = Residual(d)
    BY <1>4, <1>9, <2>1
  <2>4. residuals' = [d \in DOMAIN residuals' |-> residuals'[d]]
    BY <1>4
  <2> QED
    BY <1>1, <1>4, <1>11, <1>15, <2>2, <2>3, <2>4 DEF ResidualsKept, Saves
<1>17. InPlace'
  <2>1. position' \in 1..(Len(Pass') + 1)
    BY <1>1, <1>3, <1>4, <1>10
  <2> QED
    BY <1>1, <1>4, <1>10, <2>1 DEF PassInv, InPlace
<1> QED
  BY <1>1, <1>4, <1>14, <1>15, <1>16, <1>17 DEF PassInv

LEMMA ReturnOutputsKeeps == ASSUME PlanInv, PassInv, ReturnOutputs PROVE PassInv'
<1>1. phase = "forward" /\ using = {} /\ position > Len(Pass)
  BY DEF ReturnOutputs
<1>2. /\ graph \in Graphs /\ DataCounted /\ Begun = Stored /\ Stored = Layers
  BY <1>1, InForward DEF PlanInv, PassInv, Begun
<1>3. /\ phase' = "computed" /\ data' = Cleaned(data) /\ using' = {}
      /\ UNCHANGED <<graph, plans, training, position, grads, residuals>>
  BY <1>1 DEF ReturnOutputs, passVars, planVars
<1>4. ASSUME NEW n \in DOMAIN data PROVE data[n].refs = 0
  <2>1. data[n] = [tensor |-> data[n].tensor, refs |-> Unread(n, Layers)]
    BY <1>2 DEF DataCounted
  <2>2. {slot \in ReadersOf(n) : slot[1] \notin Layers} = {}
    BY DEF ReadersOf, Slots
  <2>3. Unread(n, Layers) = 0
    BY <2>2, FS_EmptySet DEF Unread
  <2>4. data[n].refs = Unread(n, Layers)
    BY <2>1
  <2> QED
    BY <2>3, <2>4
<1>5. data' = Empty
  <2>1. {n \in DOMAIN data : data[n].refs # 0} = {}
    BY <1>4
  <2> QED
    BY <1>3, <2>1 DEF Cleaned, Empty
<1>6. /\ (TRUE \in DOMAIN plans \/ (training /\ phase \in Solving \cup Finished) => Trainable)'
      /\ WellBuilt' /\ Layers' = Layers
      /\ \A d : Residual(d)' = Residual(d)
  BY <1>1, <1>3, PassMode DEF Solving, Finished
<1>7. ResidualsKept'
  BY <1>1, <1>2, <1>3, <1>6 DEF PassInv, ResidualsKept, Saves
<1>8. InPlace'
  BY <1>1, <1>3 DEF PassInv, InPlace
<1> QED
  BY <1>1, <1>3, <1>5, <1>6, <1>7, <1>8 DEF PassInv

LEMMA DropOutputsKeeps == ASSUME PlanInv, PassInv, DropOutputs PROVE PassInv'
<1>1. /\ phase = "computed"
      /\ UNCHANGED <<graph, plans, training, phase, position, data, grads, residuals, using>>
  BY DEF DropOutputs, passVars, planVars
<1>2. /\ (TRUE \in DOMAIN plans \/ (training /\ phase \in Solving \cup Finished) => Trainable)'
      /\ WellBuilt' /\ Layers' = Layers
      /\ \A d : Residual(d)' = Residual(d)
  BY <1>1, PassMode DEF Solving, Finished
<1>3. ResidualsKept'
  BY <1>1, <1>2 DEF PassInv, ResidualsKept, Saves
<1>4. InPlace'
  BY <1>1 DEF PassInv, InPlace
<1> QED
  BY <1>1, <1>2, <1>3, <1>4 DEF PassInv

(* A pass begins with nothing run and nothing released.                    *)
LEMMA BeginForwardKeeps ==
    ASSUME PlanInv', PassInv, BeginForward, training' \in DOMAIN plans', using = {}, grads = Empty,
           TRUE \in DOMAIN plans' => Trainable,
           residuals' = residuals \/ residuals' = Empty
    PROVE  PassInv'
<1>1. /\ data' = [n \in graph.inputs |-> [tensor |-> Data(n), refs |-> DataRefs(n)]]
      /\ phase' = "forward" /\ position' = 1
      /\ UNCHANGED <<graph, grads, using>>
  BY DEF BeginForward
<1>2. Arranges(Pass, Forwards)'
  <2>1. OrdersFit(plans[training], training)'
    BY DEF PlanInv
  <2> QED
    BY <1>1, <2>1 DEF OrdersFit, Pass, Plan
<1>3. Len(Pass') \in Nat
  BY <1>2, LenProperties DEF Arranges
<1>4. Stored' = {} /\ Begun' = {}
  BY <1>1 DEF Stored, Begun, Reached
<1>5. WellBuilt /\ graph \in Graphs
  BY <1>1 DEF PassInv, PlanInv
<1>6. DataCounted'
  <2>1. ASSUME NEW n \in DOMAIN data'
        PROVE  n \in Nodes /\ data'[n] = [tensor |-> data'[n].tensor, refs |-> Unread(n, {})]
    <3>1. n \in graph.inputs /\ n \in Nodes /\ n \notin graph.outputs
      BY <1>1, <1>5, NodeFacts
    <3>2. Unread(n, {}) = Cardinality(ReadersOf(n)) /\ Cardinality(ReadersOf(n)) \in Nat
      BY <1>5, UnreadBefore
    <3>3. DataRefs(n) = Unread(n, {})
      BY <3>1, <3>2 DEF DataRefs
    <3>4. data'[n] = [tensor |-> Data(n), refs |-> DataRefs(n)]
      BY <1>1, <3>1
    <3> QED
      BY <3>1, <3>3, <3>4
  <2>2. \A n \in Nodes \ DOMAIN data' :
            (n \in graph.inputs \/ \E e \in {} : n \in Range(Writes(e))) => Unread(n, {}) = 0
    BY <1>1
  <2>3. DOMAIN data' \subseteq Nodes
    BY <2>1
  <2>4. PICK none : none = {}
    OBVIOUS
  <2>5. Stored' = none /\ Begun' = none
    BY <1>4, <2>4
  <2>6. /\ \A n \in DOMAIN data' :
               data'[n] = [tensor |-> data'[n].tensor, refs |-> Unread(n, none)]
        /\ \A n \in Nodes \ DOMAIN data' :
               (n \in graph.inputs \/ \E e \in none : n \in Range(Writes(e))) => Unread(n, none) = 0
    BY <2>1, <2>2, <2>4
  <2> QED
    BY <1>1, <2>3, <2>5, <2>6, DataCountedNext
<1>7. Layers' = Layers /\ WellBuilt' /\ Trainable' = Trainable
  BY <1>1, <1>5 DEF Layers, WellBuilt, Trainable, Nodes, ReadersOf, Slots, Layers, Reads
<1>8. ResidualsKept'
  <2>1. /\ DOMAIN residuals' \subseteq Layers
        /\ residuals' = [e \in DOMAIN residuals' |-> residuals'[e]]
    BY DEF PassInv, ResidualsKept, Empty
  <2> QED
    BY <1>1, <1>4, <1>7, <2>1 DEF ResidualsKept, Saves
<1>9. InPlace'
  BY <1>1, <1>3 DEF InPlace
<1> QED
  BY <1>1, <1>6, <1>7, <1>8, <1>9 DEF PassInv, Solving, Finished

LEMMA PlanBuiltRuns == ASSUME PlanInv, PlanInv', PassInv, PlanBuilt PROVE PassInv'
<1>1. /\ phase = "packing" /\ BeginForward /\ training' = training /\ residuals' = Empty
      /\ DOMAIN plans' = DOMAIN plans \cup {training}
  BY DEF PlanBuilt
<1>2. using = {} /\ grads = Empty
  BY <1>1 DEF PassInv, InPlace
<1>3. TRUE \in DOMAIN plans' => Trainable
  BY <1>1 DEF PassInv, Finished
<1> QED
  BY <1>1, <1>2, <1>3, BeginForwardKeeps

LEMMA CallForwardRuns == ASSUME PlanInv, PlanInv', PassInv, CallForward PROVE PassInv'
<1>1. /\ phase = "idle" /\ BeginForward /\ training' \in DOMAIN plans' /\ residuals' = residuals
      /\ plans' = plans
  BY DEF CallForward, planVars
<1>2. using = {} /\ grads = Empty
  BY <1>1 DEF PassInv, InPlace
<1>3. TRUE \in DOMAIN plans' => Trainable
  BY <1>1 DEF PassInv
<1> QED
  BY <1>1, <1>2, <1>3, BeginForwardKeeps

(* A plan being built.                                                     *)
LEMMA BuildingKeeps ==
    ASSUME PassInv, UNCHANGED <<graph, plans, entries>>,
           phase \in {"idle"} \cup Solving \cup Finished, phase' \in Solving \cup Finished,
           training' /\ phase = "idle" => Trainable, phase # "idle" => training' = training
    PROVE  PassInv'
<1>1. phase \notin {"forward", "backward", "computed", "differentiated", "failed"}
  BY DEF Solving, Finished
<1>2. phase' \notin {"forward", "backward", "computed", "differentiated", "failed"}
  BY DEF Solving, Finished
<1>3. Layers' = Layers /\ WellBuilt' /\ Trainable' = Trainable
  BY DEF PassInv, Layers, WellBuilt, Trainable, Nodes, ReadersOf, Slots, Reads
<1>4. UNCHANGED <<data, grads, residuals, using>>
  BY DEF entries
<1>5. InPlace'
  BY <1>1, <1>2, <1>4 DEF PassInv, InPlace
<1>6. ResidualsKept'
  BY <1>1, <1>2, <1>3, <1>4 DEF PassInv, ResidualsKept
<1>7. TRUE \in DOMAIN plans' \/ (training' /\ phase' \in Solving \cup Finished) => Trainable
  <2>1. CASE phase = "idle"
    BY <2>1 DEF PassInv
  <2>2. CASE phase # "idle"
    BY <2>2 DEF PassInv
  <2> QED
    BY <2>1, <2>2
<1> QED
  BY <1>1, <1>2, <1>3, <1>4, <1>5, <1>6, <1>7 DEF PassInv

LEMMA BuildKeeps ==
    ASSUME PassInv, StartPlan \/ Solve \/ ForwardOrderFound \/ BackwardOrderFound \/ TraceBuffers \/ Pack
    PROVE  PassInv'
<1>1. CASE StartPlan
  <2>1. /\ UNCHANGED <<graph, plans, entries>> /\ phase = "idle" /\ phase' = "forward order"
        /\ training' => Trainable
    BY <1>1 DEF StartPlan, planVars
  <2> QED
    BY <2>1, BuildingKeeps DEF Solving, Finished
<1>2. CASE Solve
  <2>1. UNCHANGED <<graph, plans, entries, training, phase>> /\ phase \in Solving
    BY <1>2 DEF Solve, planVars, Solving
  <2>2. phase # "idle"
    BY <2>1 DEF Solving
  <2> QED
    BY <2>1, <2>2, BuildingKeeps
<1>3. CASE ForwardOrderFound
  <2>1. /\ UNCHANGED <<graph, plans, entries, training>> /\ phase = "forward order"
        /\ phase' \in {"backward order", "tracing"}
    BY <1>3 DEF ForwardOrderFound
  <2> QED
    BY <2>1, BuildingKeeps DEF Solving, Finished
<1>4. CASE BackwardOrderFound
  <2>1. /\ UNCHANGED <<graph, plans, entries, training>> /\ phase = "backward order"
        /\ phase' = "tracing"
    BY <1>4 DEF BackwardOrderFound
  <2> QED
    BY <2>1, BuildingKeeps DEF Solving, Finished
<1>5. CASE TraceBuffers
  <2>1. /\ UNCHANGED <<graph, plans, entries, training>> /\ phase = "tracing"
        /\ phase' = "packing"
    BY <1>5 DEF TraceBuffers, planVars
  <2> QED
    BY <2>1, BuildingKeeps DEF Solving, Finished
<1>6. CASE Pack
  <2>1. UNCHANGED <<graph, plans, entries, training, phase>> /\ phase = "packing"
    BY <1>6 DEF Pack, planVars
  <2> QED
    BY <2>1, BuildingKeeps DEF Solving, Finished
<1> QED
  BY <1>1, <1>2, <1>3, <1>4, <1>5, <1>6

(* Backward: a layer finds the gradients of what it wrote, all of their    *)
(* parts, and what it saved.                                               *)
LEMMA BackwardCounts ==
    ASSUME PlanInv, PassInv, phase = "backward", using = {}, position <= Len(Pass), NEW n \in Nodes
    PROVE  /\ Occurrences(n, Writes(Layer)) = IF n \in Range(Writes(Layer)) THEN 1 ELSE 0
           /\ Takers(n, Stored) \in {0, 1}
           /\ n \in Range(Writes(Layer)) => Takers(n, Stored) = 1
           /\ Takers(n, Stored \cup {Layer}) = Takers(n, Stored) - Occurrences(n, Writes(Layer))
<1>1. graph \in Graphs /\ WellBuilt /\ Layer \in Layers \ Stored
  BY InBackward DEF PlanInv, PassInv
<1>2. PICK e : e = Layer
  OBVIOUS
<1>3. Occurrences(n, Writes(e)) = IF n \in Range(Writes(e)) THEN 1 ELSE 0
  BY <1>1, <1>2, WrittenOnce
<1>4. CASE n \in graph.inputs
  <2>1. Takers(n, Stored) = 1 /\ Takers(n, Stored \cup {e}) = 1
    BY <1>1, <1>4, TakersOf
  <2>2. n \notin Range(Writes(e))
    BY <1>1, <1>2, <1>4, WrittenOnce
  <2> QED
    BY <1>2, <1>3, <2>1, <2>2
<1>5. CASE n \notin graph.inputs
  <2>1. PICK d \in Layers : n \in Range(Writes(d))
    BY <1>1, <1>5, NodeFacts
  <2>2. /\ Takers(n, Stored) = IF d \in Stored THEN 0 ELSE 1
        /\ Takers(n, Stored \cup {e}) = IF d \in Stored \cup {e} THEN 0 ELSE 1
    BY <1>1, <2>1, TakersOf
  <2>3. n \in Range(Writes(e)) <=> d = e
    <3>1. Writers(n) = {d}
      BY <1>1, <2>1, WrittenOnce
    <3> QED
      BY <1>1, <1>2, <2>1, <3>1 DEF Writers
  <2> QED
    BY <1>1, <1>2, <1>3, <2>2, <2>3
<1> QED
  BY <1>4, <1>5

LEMMA GradThere ==
    ASSUME PlanInv, PassInv, phase = "backward", NEW n \in Nodes, Takers(n, Begun) # 0,
           n \in graph.outputs \/ (\A slot \in ReadersOf(n) : slot[1] \in Stored)
    PROVE  n \in DOMAIN grads
<1>1. GradsCounted /\ Trainable
  <2>1. TRUE \in DOMAIN plans
    BY DEF PassInv, InPlace
  <2> QED
    BY <2>1 DEF PassInv
<1>2. n \in graph.outputs \/ \E slot \in ReadersOf(n) : slot[1] \in Stored
  BY <1>1 DEF Trainable
<1> QED
  BY <1>1, <1>2 DEF GradsCounted

LEMMA BackwardFindsAll ==
    ASSUME PlanInv, PassInv, phase = "backward", using = {}, position <= Len(Pass)
    PROVE  /\ ~Missing(grads, Writes(Layer)) /\ Layer \in DOMAIN residuals
           /\ \A key \in DOMAIN Does(Layer).reads : LooksUp(Does(Layer), residuals[Layer], key)
<1>1. /\ graph \in Graphs /\ WellBuilt /\ GradsCounted /\ Begun = Stored /\ training
      /\ Layer \in Layers \ Stored
      /\ \A d \in Layers : Range(Reads(d)) \cap Range(Writes(Layer)) # {} => d \in Stored
  BY InBackward DEF PlanInv, PassInv, Begun, InPlace
<1>2. PICK e : e = Layer
  OBVIOUS
<1>3. ASSUME NEW n \in Range(Writes(e))
      PROVE  n \in DOMAIN grads /\ grads[n].refs \notin 1..(Occurrences(n, Writes(e)) - 1)
  <2>1. n \in Nodes
    BY <1>1, <1>2, NodeFacts
  <2>2. Occurrences(n, Writes(e)) = 1 /\ Takers(n, Stored) = 1
    BY <1>2, <2>1, BackwardCounts
  <2>3. \A slot \in ReadersOf(n) : slot[1] \in Stored
    <3>1. \A slot \in ReadersOf(n) : slot[1] \in Layers /\ n \in Range(Reads(slot[1]))
      BY DEF ReadersOf, Slots, Range
    <3> QED
      BY <1>1, <1>2, <3>1
  <2>4. n \in DOMAIN grads
    BY <1>1, <2>1, <2>2, <2>3, GradThere
  <2> QED
    BY <2>2, <2>4
<1>4. e \in DOMAIN residuals /\ residuals[e] = Residual(e)
  BY <1>1, <1>2 DEF PassInv, ResidualsKept, Saves
<1>5. BackwardFinds(Does(e))
  <2>1. graph.edges[e].op \in DOMAIN Ops
    BY <1>1, <1>2, EdgeFacts
  <2> QED
    BY <1>1, <2>1 DEF Does, WellBuilt
<1>6. Residual(e) = [key \in DOMAIN Does(e).saves |-> Does(e).saves[key]]
  BY <1>1 DEF Residual, SavedKeys
<1>7. ASSUME NEW key \in DOMAIN Does(e).reads PROVE LooksUp(Does(e), residuals[e], key)
  <2>1. key \in DOMAIN Does(e).saves /\ TypeOf(Does(e).saves[key]) = Does(e).reads[key]
    BY <1>5 DEF BackwardFinds, LooksUp
  <2>2. key \in DOMAIN residuals[e] /\ residuals[e][key] = Does(e).saves[key]
    BY <1>4, <1>6, <2>1
  <2> QED
    BY <2>1, <2>2 DEF LooksUp
<1> QED
  BY <1>2, <1>3, <1>4, <1>7 DEF Missing

LEMMA GradsReleased ==
    ASSUME PlanInv, PassInv, phase = "backward", using = {}, position <= Len(Pass),
           grads' = Released(grads, EachIn(Writes(Layer), grads)), NEW B, B = Stored \cup {Layer}
    PROVE  /\ DOMAIN grads' \subseteq DOMAIN grads
           /\ \A n \in DOMAIN grads' :
                  grads'[n] = [tensor |-> grads'[n].tensor, refs |-> Takers(n, B), parts |-> Parts(n, Stored)]
           /\ \A n \in DOMAIN grads \ DOMAIN grads' :
                  Takers(n, B) = 0 /\ n \in Range(Writes(Layer))
<1>1. GradsCounted /\ Begun = Stored
  BY DEF PassInv, Begun
<1>2. PICK e, times : e = Layer /\ times = EachIn(Writes(e), grads)
  OBVIOUS
<1>3. ASSUME NEW n \in DOMAIN grads
      PROVE  /\ grads[n] = [tensor |-> grads[n].tensor, refs |-> grads[n].refs, parts |-> grads[n].parts]
             /\ grads[n].refs \in Nat /\ times[n] \in Nat /\ times[n] <= grads[n].refs
             /\ grads[n].refs - times[n] = Takers(n, B) /\ grads[n].parts = Parts(n, Stored)
             /\ times[n] # 0 => n \in Range(Writes(e))
  <2>1. /\ grads[n] = [tensor |-> grads[n].tensor, refs |-> Takers(n, Stored), parts |-> Parts(n, Stored)]
        /\ n \in Nodes
    BY <1>1 DEF GradsCounted
  <2>2. grads[n].refs = Takers(n, Stored) /\ grads[n].parts = Parts(n, Stored)
    BY <2>1
  <2>3. times[n] = Occurrences(n, Writes(e))
    BY <1>2 DEF EachIn
  <2>4. /\ Occurrences(n, Writes(e)) = IF n \in Range(Writes(e)) THEN 1 ELSE 0
        /\ Takers(n, Stored) \in {0, 1}
        /\ n \in Range(Writes(e)) => Takers(n, Stored) = 1
        /\ Takers(n, B) = Takers(n, Stored) - Occurrences(n, Writes(e))
    BY <1>2, <2>1, BackwardCounts
  <2> QED
    BY <2>1, <2>2, <2>3, <2>4
<1>4. grads' = Released(grads, times)
  BY <1>2
<1>5. /\ DOMAIN grads' \subseteq DOMAIN grads
      /\ \A n \in DOMAIN grads' :
             grads'[n] = [tensor |-> grads[n].tensor, refs |-> grads[n].refs - times[n],
                          parts |-> grads[n].parts]
      /\ \A n \in DOMAIN grads \ DOMAIN grads' : grads[n].refs - times[n] = 0 /\ times[n] # 0
  BY <1>3, <1>4, ReleasedGrads
<1>6. ASSUME NEW n \in DOMAIN grads'
      PROVE  grads'[n] = [tensor |-> grads'[n].tensor, refs |-> Takers(n, B), parts |-> Parts(n, Stored)]
  <2>1. PICK t, r, p : t = grads[n].tensor /\ r = Takers(n, B) /\ p = Parts(n, Stored)
    OBVIOUS
  <2>2. grads'[n] = [tensor |-> t, refs |-> r, parts |-> p]
    BY <1>3, <1>5, <2>1
  <2> QED
    BY <2>1, <2>2
<1>7. ASSUME NEW n \in DOMAIN grads \ DOMAIN grads'
      PROVE  Takers(n, B) = 0 /\ n \in Range(Writes(Layer))
  BY <1>2, <1>3, <1>5
<1> QED
  BY <1>5, <1>6, <1>7

LEMMA BackwardLayerKeeps == ASSUME PlanInv, PassInv, BackwardLayer PROVE PassInv'
<1>1. phase = "backward" /\ using = {} /\ position <= Len(Pass)
  BY DEF BackwardLayer, Running
<1>2. PICK e : e = Layer
  OBVIOUS
<1>3. /\ using' = {grads[n].tensor : n \in Range(Writes(e))}
                      \cup TensorsAt(e, residuals[e]) \cup BackwardBuffers(e)
      /\ grads' = Released(grads, EachIn(Writes(e), grads))
      /\ UNCHANGED <<graph, plans, training, phase, position, data, residuals>>
  BY <1>1, <1>2, BackwardFindsAll DEF BackwardLayer, passVars, planVars
<1>4. /\ graph \in Graphs /\ WellBuilt /\ GradsCounted /\ Begun = Stored
      /\ e \in Layers \ Stored
  BY <1>1, <1>2, InBackward DEF PlanInv, PassInv, Begun
<1>5. using' # {}
  <2>1. PICK n \in Range(Writes(e)) : TRUE
    BY <1>4, NodeFacts
  <2> QED
    BY <1>3, <2>1
<1>6. PICK S, B : S = Stored /\ B = Stored \cup {e}
  OBVIOUS
<1>7. Stored' = S /\ Begun' = B
  BY <1>2, <1>3, <1>5, <1>6 DEF Stored, Begun, Pass, Plan, Layer
<1>8. GradsCounted'
  <2>1. /\ DOMAIN grads' \subseteq DOMAIN grads
        /\ \A n \in DOMAIN grads' :
               grads'[n] = [tensor |-> grads'[n].tensor, refs |-> Takers(n, B), parts |-> Parts(n, S)]
        /\ \A n \in DOMAIN grads \ DOMAIN grads' :
               Takers(n, B) = 0 /\ n \in Range(Writes(Layer))
    BY <1>1, <1>2, <1>3, <1>6, GradsReleased
  <2>2. ASSUME NEW n \in Nodes \ DOMAIN grads',
               n \in graph.outputs \/ \E slot \in ReadersOf(n) : slot[1] \in S
        PROVE  Takers(n, B) = 0
    <3>1. CASE n \in DOMAIN grads
      BY <2>1, <2>2, <3>1
    <3>2. CASE n \notin DOMAIN grads
      <4>1. Takers(n, S) = 0
        BY <1>4, <1>6, <2>2, <3>2 DEF GradsCounted
      <4>2. /\ Occurrences(n, Writes(e)) = IF n \in Range(Writes(e)) THEN 1 ELSE 0
            /\ n \in Range(Writes(e)) => Takers(n, S) = 1
            /\ Takers(n, B) = Takers(n, S) - Occurrences(n, Writes(e))
        BY <1>1, <1>2, <1>6, <2>2, BackwardCounts
      <4>3. n \notin Range(Writes(e))
        BY <4>1, <4>2
      <4>4. Takers(n, B) = 0 - 0
        BY <4>1, <4>2, <4>3
      <4> QED
        BY <4>4
    <3> QED
      BY <3>1, <3>2
  <2>3. DOMAIN grads' \subseteq Nodes
    BY <1>4, <2>1 DEF GradsCounted
  <2> QED
    BY <1>3, <1>7, <2>1, <2>2, <2>3, GradsCountedNext
<1>9. /\ (TRUE \in DOMAIN plans \/ (training /\ phase \in Solving \cup Finished) => Trainable)'
      /\ WellBuilt' /\ Layers' = Layers
      /\ \A d : Residual(d)' = Residual(d)
  BY <1>1, <1>3, PassMode DEF Solving, Finished
<1>10. ResidualsKept'
  BY <1>1, <1>3, <1>6, <1>7, <1>9 DEF PassInv, ResidualsKept, Saves
<1>11. InPlace'
  BY <1>1, <1>3 DEF PassInv, InPlace, Pass, Plan
<1> QED
  BY <1>1, <1>3, <1>8, <1>9, <1>10, <1>11 DEF PassInv

LEMMA StoreBackwardKeeps == ASSUME PlanInv, PassInv, StoreBackward PROVE PassInv'
<1>1. phase = "backward" /\ using # {} /\ position <= Len(Pass)
  BY DEF StoreBackward, PassInv, InPlace
<1>2. PICK e : e = Layer
  OBVIOUS
<1>3. PICK B : B = Stored \cup {e}
  OBVIOUS
<1>4. /\ graph \in Graphs /\ WellBuilt /\ GradsCounted /\ Begun = B
      /\ e \in Layers \ Stored /\ Stored \subseteq Layers
      /\ Reached(Pass, position + 1) = B
      /\ \A d \in Layers : Range(Reads(e)) \cap Range(Writes(d)) # {} => d \notin B
      /\ position \in Nat /\ Len(Pass) \in Nat
  BY <1>1, <1>2, <1>3, InBackward DEF PlanInv, PassInv, Begun
<1>5. /\ using' = {} /\ position' = position + 1 /\ grads' = Accumulated(e)
      /\ residuals' = [d \in DOMAIN residuals \ {e} |-> residuals[d]]
      /\ UNCHANGED <<graph, plans, training, phase, data>>
  BY <1>2 DEF StoreBackward, passVars, planVars
<1>6. Pass' = Pass
  BY <1>5 DEF Pass, Plan
<1>7. Stored' = B /\ Begun' = B
  BY <1>4, <1>5, <1>6 DEF Stored, Begun
<1>8. PICK news : news = Range(Reads(e)) \ DOMAIN grads
  OBVIOUS
<1>9. /\ DOMAIN grads' = DOMAIN grads \cup news
      /\ \A n \in news :
             \E t : grads'[n] = [tensor |-> t, refs |-> GradRefs(n), parts |-> Occurrences(n, Reads(e))]
      /\ \A n \in DOMAIN grads :
             grads'[n] = [grads[n] EXCEPT !.parts = grads[n].parts + Occurrences(n, Reads(e))]
  BY <1>5, <1>8 DEF Accumulated
<1>10. \A n : /\ Parts(n, B) = Parts(n, Stored) + Occurrences(n, Reads(e))
              /\ Occurrences(n, Reads(e)) \in Nat
  BY <1>3, <1>4, OneMore
<1>11. ASSUME NEW n \in news
       PROVE  /\ n \in Nodes
              /\ grads'[n] = [tensor |-> grads'[n].tensor, refs |-> Takers(n, B), parts |-> Parts(n, B)]
  <2>1. n \in Nodes /\ n \in Range(Reads(e)) /\ n \notin DOMAIN grads
    BY <1>4, <1>8, NodeFacts
  <2>2. Takers(n, B) = 1 /\ GradRefs(n) = 1
    <3>1. CASE n \in graph.inputs
      <4>1. Takers(n, B) = 1 /\ Writers(n) = {}
        BY <1>4, <2>1, <3>1, TakersOf
      <4> QED
        BY <3>1, <4>1, FS_EmptySet DEF GradRefs
    <3>2. CASE n \notin graph.inputs
      <4>1. PICK d \in Layers : n \in Range(Writes(d))
        BY <1>4, <2>1, <3>2, NodeFacts
      <4>2. d \notin B
        BY <1>4, <2>1, <4>1
      <4>3. Takers(n, B) = 1 /\ Writers(n) = {d}
        BY <1>4, <2>1, <4>1, <4>2, TakersOf, WrittenOnce
      <4> QED
        BY <3>2, <4>3, FS_Singleton DEF GradRefs
    <3> QED
      BY <3>1, <3>2
  <2>3. Parts(n, Stored) = 0
    <3>1. n \notin graph.outputs /\ \A slot \in ReadersOf(n) : slot[1] \notin Stored
      BY <1>4, <2>1, <2>2 DEF GradsCounted
    <3>2. {slot \in ReadersOf(n) : slot[1] \in Stored} = {}
      BY <3>1
    <3> QED
      BY <3>1, <3>2, FS_EmptySet DEF Parts
  <2>4. Parts(n, B) = Occurrences(n, Reads(e))
    BY <1>10, <2>3
  <2>5. PICK t : grads'[n] = [tensor |-> t, refs |-> GradRefs(n), parts |-> Occurrences(n, Reads(e))]
    BY <1>9
  <2> QED
    BY <2>1, <2>2, <2>4, <2>5
<1>12. ASSUME NEW n \in DOMAIN grads
       PROVE  /\ n \in Nodes
              /\ grads'[n] = [tensor |-> grads'[n].tensor, refs |-> Takers(n, B), parts |-> Parts(n, B)]
  <2>1. /\ grads[n] = [tensor |-> grads[n].tensor, refs |-> Takers(n, B), parts |-> Parts(n, Stored)]
        /\ n \in Nodes
    BY <1>4 DEF GradsCounted
  <2>2. PICK t, r, p : t = grads[n].tensor /\ r = Takers(n, B) /\ p = Parts(n, Stored)
    OBVIOUS
  <2>3. grads[n] = [tensor |-> t, refs |-> r, parts |-> p]
    BY <2>1, <2>2
  <2>4. grads'[n] = [tensor |-> t, refs |-> r, parts |-> p + Occurrences(n, Reads(e))]
    BY <1>9, <2>3
  <2>5. grads'[n] = [tensor |-> t, refs |-> r, parts |-> Parts(n, B)]
    BY <1>10, <2>2, <2>4
  <2> QED
    BY <2>1, <2>2, <2>5
<1>13. GradsCounted'
  <2>1. /\ DOMAIN grads' \subseteq Nodes
        /\ \A n \in DOMAIN grads' :
               grads'[n] = [tensor |-> grads'[n].tensor, refs |-> Takers(n, B), parts |-> Parts(n, B)]
    BY <1>9, <1>11, <1>12
  <2>2. ASSUME NEW n \in Nodes \ DOMAIN grads',
               n \in graph.outputs \/ \E slot \in ReadersOf(n) : slot[1] \in B
        PROVE  Takers(n, B) = 0
    <3>1. n \notin DOMAIN grads /\ n \notin Range(Reads(e))
      BY <1>8, <1>9, <2>2
    <3>2. \A slot \in ReadersOf(n) : slot[1] # e
      BY <3>1 DEF ReadersOf, Slots, Range
    <3>3. n \in graph.outputs \/ \E slot \in ReadersOf(n) : slot[1] \in Stored
      BY <1>3, <2>2, <3>2
    <3> QED
      BY <1>4, <2>2, <3>1, <3>3 DEF GradsCounted
  <2> QED
    BY <1>5, <1>7, <2>1, <2>2, GradsCountedNext
<1>14. /\ (TRUE \in DOMAIN plans \/ (training /\ phase \in Solving \cup Finished) => Trainable)'
       /\ WellBuilt' /\ Layers' = Layers
       /\ \A d : Residual(d)' = Residual(d)
  BY <1>1, <1>5, PassMode DEF Solving, Finished
<1>15. ResidualsKept'
  <2>1. /\ DOMAIN residuals = Layers \ Stored
        /\ \A d \in DOMAIN residuals : residuals[d] = Residual(d)
    BY <1>1 DEF PassInv, ResidualsKept, Saves
  <2>2. /\ DOMAIN residuals' = Layers \ B
        /\ \A d \in DOMAIN residuals' : residuals'[d] = Residual(d)
        /\ residuals' = [d \in DOMAIN residuals' |-> residuals'[d]]
    BY <1>3, <1>5, <2>1
  <2> QED
    BY <1>1, <1>5, <1>7, <1>14, <2>2 DEF ResidualsKept, Saves
<1>16. InPlace'
  <2>1. position' \in 1..(Len(Pass') + 1)
    BY <1>1, <1>4, <1>5, <1>6
  <2> QED
    BY <1>1, <1>5, <1>6, <2>1 DEF PassInv, InPlace
<1> QED
  BY <1>1, <1>5, <1>13, <1>14, <1>15, <1>16 DEF PassInv

LEMMA BeginBackwardKeeps == ASSUME PlanInv, PlanInv', PassInv, BeginBackward PROVE PassInv'
<1>1. /\ phase = "computed" /\ training /\ phase' = "backward" /\ position' = 1
      /\ grads' = [n \in graph.outputs |->
                      [tensor |-> OutputGrad(n), refs |-> GradRefs(n), parts |-> 1]]
      /\ UNCHANGED <<graph, plans, training, data, residuals, using>>
  BY DEF BeginBackward, passVars, planVars
<1>2. using = {} /\ training \in DOMAIN plans /\ data = Empty
  BY <1>1 DEF PassInv, InPlace
<1>3. Len(Pass') \in Nat
  <2>1. OrdersFit(plans[training], training)'
    BY <1>1, <1>2 DEF PlanInv
  <2>2. Arranges(Pass, Backwards)'
    BY <1>1, <2>1 DEF OrdersFit, Pass, Plan
  <2> QED
    BY <2>2, LenProperties DEF Arranges
<1>4. PICK none : none = {}
  OBVIOUS
<1>5. Stored' = none /\ Begun' = none
  BY <1>1, <1>2, <1>4 DEF Stored, Begun, Reached
<1>6. WellBuilt /\ graph \in Graphs
  BY DEF PassInv, PlanInv
<1>7. ASSUME NEW n \in graph.outputs
      PROVE  /\ n \in Nodes
             /\ grads'[n] = [tensor |-> grads'[n].tensor, refs |-> Takers(n, none), parts |-> Parts(n, none)]
  <2>1. n \in Nodes /\ n \notin graph.inputs
    BY <1>6, NodeFacts
  <2>2. GradRefs(n) = Takers(n, none)
    <3>1. Writers(n) \ none = Writers(n)
      BY <1>4
    <3> QED
      BY <3>1 DEF GradRefs, Takers
  <2>3. Parts(n, none) = 1
    <3>1. {slot \in ReadersOf(n) : slot[1] \in none} = {}
      BY <1>4
    <3> QED
      BY <3>1, FS_EmptySet DEF Parts
  <2>4. grads'[n] = [tensor |-> OutputGrad(n), refs |-> GradRefs(n), parts |-> 1]
    BY <1>1
  <2> QED
    BY <2>1, <2>2, <2>3, <2>4
<1>8. GradsCounted'
  <2>1. /\ DOMAIN grads' \subseteq Nodes
        /\ \A n \in DOMAIN grads' :
               grads'[n] = [tensor |-> grads'[n].tensor, refs |-> Takers(n, none), parts |-> Parts(n, none)]
    BY <1>1, <1>7
  <2>2. \A n \in Nodes \ DOMAIN grads' :
            (n \in graph.outputs \/ \E slot \in ReadersOf(n) : slot[1] \in none) => Takers(n, none) = 0
    BY <1>1, <1>4
  <2> QED
    BY <1>1, <1>5, <2>1, <2>2, GradsCountedNext
<1>9. /\ (TRUE \in DOMAIN plans \/ (training /\ phase \in Solving \cup Finished) => Trainable)'
      /\ WellBuilt' /\ Layers' = Layers
      /\ \A d : Residual(d)' = Residual(d)
  BY <1>1, PassMode DEF Solving, Finished
<1>10. ResidualsKept'
  <2>1. DOMAIN residuals = Layers /\ residuals = [d \in DOMAIN residuals |-> residuals[d]]
        /\ \A d \in Layers : residuals[d] = Residual(d)
    BY <1>1 DEF PassInv, ResidualsKept, Saves
  <2> QED
    BY <1>1, <1>4, <1>5, <1>9, <2>1 DEF ResidualsKept, Saves
<1>11. InPlace'
  <2>1. position' \in 1..(Len(Pass') + 1)
    BY <1>1, <1>3
  <2>2. using' = {} /\ training' /\ training' \in DOMAIN plans' /\ phase' = "backward"
    BY <1>1, <1>2
  <2> QED
    BY <2>1, <2>2 DEF InPlace
<1> QED
  BY <1>1, <1>2, <1>8, <1>9, <1>10, <1>11 DEF PassInv

(* At the end every gradient is there, with all of its parts.              *)
LEMMA AllGiven ==
    ASSUME PlanInv, PassInv, phase = "backward", using = {}, position > Len(Pass)
    PROVE  /\ Stored = Layers /\ graph.inputs \subseteq DOMAIN grads
           /\ \A n \in DOMAIN grads :
                  /\ grads[n] = [tensor |-> grads[n].tensor, refs |-> grads[n].refs, parts |-> grads[n].parts]
                  /\ grads[n].refs = IF n \in graph.inputs THEN 1 ELSE 0
                  /\ grads[n].parts = Parts(n, Layers)
<1>1. /\ graph \in Graphs /\ WellBuilt /\ GradsCounted /\ Stored = Layers /\ Begun = Layers
  BY InBackward DEF PlanInv, PassInv, Begun
<1>2. ASSUME NEW n \in Nodes
      PROVE  Takers(n, Layers) = IF n \in graph.inputs THEN 1 ELSE 0
  <2>1. CASE n \in graph.inputs
    BY <1>1, <2>1, TakersOf
  <2>2. CASE n \notin graph.inputs
    <3>1. PICK d \in Layers : n \in Range(Writes(d))
      BY <1>1, <2>2, NodeFacts
    <3> QED
      BY <1>1, <2>2, <3>1, TakersOf
  <2> QED
    BY <2>1, <2>2
<1>3. ASSUME NEW n \in graph.inputs PROVE n \in DOMAIN grads
  <2>1. n \in Nodes
    BY <1>1, NodeFacts
  <2>2. Takers(n, Begun) # 0
    BY <1>1, <1>2, <2>1
  <2>3. \A slot \in ReadersOf(n) : slot[1] \in Stored
    BY <1>1 DEF ReadersOf, Slots
  <2> QED
    BY <2>1, <2>2, <2>3, GradThere
<1>4. ASSUME NEW n \in DOMAIN grads
      PROVE  /\ grads[n] = [tensor |-> grads[n].tensor, refs |-> grads[n].refs, parts |-> grads[n].parts]
             /\ grads[n].refs = IF n \in graph.inputs THEN 1 ELSE 0
             /\ grads[n].parts = Parts(n, Layers)
  <2>1. /\ grads[n] = [tensor |-> grads[n].tensor, refs |-> Takers(n, Layers), parts |-> Parts(n, Layers)]
        /\ n \in Nodes
    BY <1>1 DEF GradsCounted
  <2>2. grads[n].refs = Takers(n, Layers) /\ grads[n].parts = Parts(n, Layers)
    BY <2>1
  <2> QED
    BY <1>2, <2>1, <2>2
<1> QED
  BY <1>1, <1>3, <1>4

LEMMA ReturnGradientsKeeps == ASSUME PlanInv, PassInv, ReturnGradients PROVE PassInv'
<1>1. phase = "backward" /\ using = {} /\ position > Len(Pass)
  BY DEF ReturnGradients
<1>2. /\ Stored = Layers /\ graph.inputs \subseteq DOMAIN grads
      /\ \A n \in DOMAIN grads :
             /\ grads[n] = [tensor |-> grads[n].tensor, refs |-> grads[n].refs, parts |-> grads[n].parts]
             /\ grads[n].refs = IF n \in graph.inputs THEN 1 ELSE 0
  BY <1>1, AllGiven
<1>3. PICK once : once = [n \in DOMAIN grads |-> IF n \in graph.inputs THEN 1 ELSE 0]
  OBVIOUS
<1>4. /\ phase' = "differentiated" /\ grads' = Cleaned(Released(grads, once))
      /\ UNCHANGED <<graph, plans, training, position, data, residuals, using>>
  BY <1>2, <1>3 DEF ReturnGradients, passVars, planVars
<1>5. grads' = Empty
  <2>1. PICK after : after = Released(grads, once)
    OBVIOUS
  <2>2. ASSUME NEW n \in DOMAIN grads
        PROVE  /\ grads[n] = [tensor |-> grads[n].tensor, refs |-> grads[n].refs, parts |-> grads[n].parts]
               /\ grads[n].refs \in Nat /\ once[n] \in Nat /\ once[n] <= grads[n].refs
               /\ grads[n].refs - once[n] = 0
    BY <1>2, <1>3
  <2>3. /\ DOMAIN after \subseteq DOMAIN grads
        /\ \A n \in DOMAIN after :
               after[n] = [tensor |-> grads[n].tensor, refs |-> grads[n].refs - once[n],
                           parts |-> grads[n].parts]
    BY <2>1, <2>2, ReleasedGrads
  <2>4. \A n \in DOMAIN after : after[n].refs = 0
    BY <2>2, <2>3
  <2>5. {n \in DOMAIN after : after[n].refs # 0} = {}
    BY <2>4
  <2> QED
    BY <1>4, <2>1, <2>5 DEF Cleaned, Empty
<1>6. /\ (TRUE \in DOMAIN plans \/ (training /\ phase \in Solving \cup Finished) => Trainable)'
      /\ WellBuilt' /\ Layers' = Layers
      /\ \A d : Residual(d)' = Residual(d)
  BY <1>1, <1>4, PassMode DEF Solving, Finished
<1>7. ResidualsKept'
  <2>1. DOMAIN residuals = {} /\ residuals = [d \in DOMAIN residuals |-> residuals[d]]
    BY <1>1, <1>2 DEF PassInv, ResidualsKept
  <2>2. residuals' = Empty /\ DOMAIN residuals' = {}
    BY <1>4, <2>1 DEF Empty
  <2> QED
    BY <1>4, <2>1, <2>2 DEF ResidualsKept
<1>8. InPlace'
  BY <1>1, <1>4 DEF PassInv, InPlace
<1> QED
  BY <1>1, <1>4, <1>5, <1>6, <1>7, <1>8 DEF PassInv

LEMMA DropAllKeeps == ASSUME PlanInv, PassInv, DropAll PROVE PassInv'
<1>1. /\ phase \in {"differentiated", "computed"} /\ phase' = "idle"
      /\ UNCHANGED <<graph, plans, training, data, grads, residuals, using>>
  BY DEF DropAll, passVars, planVars
<1>2. /\ (TRUE \in DOMAIN plans \/ (training /\ phase \in Solving \cup Finished) => Trainable)'
      /\ WellBuilt' /\ Layers' = Layers
      /\ \A d : Residual(d)' = Residual(d)
  BY <1>1, PassMode DEF Solving, Finished
<1>3. ResidualsKept'
  BY <1>1, <1>2 DEF PassInv, ResidualsKept
<1>4. InPlace'
  BY <1>1 DEF PassInv, InPlace
<1> QED
  BY <1>1, <1>2, <1>3, <1>4 DEF PassInv

LEMMA PassInit == WellBuilt /\ Init => PassInv
<1> SUFFICES ASSUME WellBuilt, Init PROVE PassInv
  OBVIOUS
<1>1. /\ DOMAIN plans = {} /\ phase = "idle" /\ training = FALSE /\ using = {}
      /\ data = Empty /\ grads = Empty /\ residuals = Empty
  BY DEF Init, Empty
<1>2. DOMAIN Empty = {} /\ Empty = [e \in DOMAIN Empty |-> Empty[e]]
  BY DEF Empty
<1> QED
  BY <1>1, <1>2 DEF PassInv, InPlace, ResidualsKept

LEMMA PassStep == PlanInv /\ PassInv /\ [Next]_vars => PassInv'
<1> SUFFICES ASSUME PlanInv, PassInv, [Next]_vars PROVE PassInv'
  OBVIOUS
<1>1. PlanInv'
  BY PlanStep
<1>2. CASE StartPlan \/ Solve \/ ForwardOrderFound \/ BackwardOrderFound \/ TraceBuffers \/ Pack
  BY <1>2, BuildKeeps
<1>3. CASE PlanBuilt
  BY <1>1, <1>3, PlanBuiltRuns
<1>4. CASE CallForward
  BY <1>1, <1>4, CallForwardRuns
<1>5. CASE ForwardLayer
  BY <1>5, ForwardLayerKeeps
<1>6. CASE StoreForward
  BY <1>6, StoreForwardKeeps
<1>7. CASE ReturnOutputs
  BY <1>7, ReturnOutputsKeeps
<1>8. CASE DropOutputs
  BY <1>8, DropOutputsKeeps
<1>9. CASE BeginBackward
  BY <1>1, <1>9, BeginBackwardKeeps
<1>10. CASE BackwardLayer
  BY <1>10, BackwardLayerKeeps
<1>11. CASE StoreBackward
  BY <1>11, StoreBackwardKeeps
<1>12. CASE ReturnGradients
  BY <1>12, ReturnGradientsKeeps
<1>13. CASE DropAll
  BY <1>13, DropAllKeeps
<1>14. CASE UNCHANGED vars
  <2>1. UNCHANGED <<graph, plans, training, phase, position, data, grads, residuals, using>>
    BY <1>14 DEF vars, planVars, entries
  <2>2. /\ WellBuilt' /\ Layers' = Layers /\ Trainable' = Trainable
        /\ \A d : Residual(d)' = Residual(d)
    BY <2>1 DEF PassInv, WellBuilt, Layers, Trainable, Nodes, ReadersOf, Slots, Reads, Residual, Does
  <2>3. Pass' = Pass /\ Stored' = Stored /\ Begun' = Begun
    BY <2>1 DEF Pass, Plan, Stored, Begun, Layer
  <2>4. PICK S, B : S = Stored /\ B = Begun
    OBVIOUS
  <2>5. DataCounted => DataCounted'
    BY <2>1, <2>3, <2>4, DataCountedNext DEF DataCounted
  <2>6. GradsCounted => GradsCounted'
    BY <2>1, <2>3, <2>4, GradsCountedNext DEF GradsCounted
  <2>7. ResidualsKept'
    BY <2>1, <2>2, <2>3 DEF PassInv, ResidualsKept, Saves
  <2>8. InPlace'
    BY <2>1, <2>3 DEF PassInv, InPlace
  <2> QED
    BY <2>1, <2>2, <2>5, <2>6, <2>7, <2>8 DEF PassInv
<1> QED
  BY <1>2, <1>3, <1>4, <1>5, <1>6, <1>7, <1>8, <1>9, <1>10, <1>11, <1>12, <1>13, <1>14
     DEF Next, Build, Forward, Backward

(* No layer throws: of any graph that is put together as the executor      *)
(* expects, and any layers that find what they saved, each finds the data, *)
(* gradients and residuals it needs, in both passes and in both modes.     *)
THEOREM NothingMissing == WellBuilt => (Spec => []NeverMissing)
<1>1. PassInv => NeverMissing
  BY DEF PassInv, InPlace, NeverMissing
<1> QED
  BY <1>1, PlanInit, PlanStep, PassInit, PassStep, PTL DEF Spec

(* ... and when a pass has ended, nothing is left.                         *)
THEOREM NothingLeft == WellBuilt => (Spec => []AllReleased)
<1>1. PassInv => AllReleased
  BY DEF PassInv, ResidualsKept, AllReleased
<1> QED
  BY <1>1, PlanInit, PlanStep, PassInit, PassStep, PTL DEF Spec

(* What leaves the gradients has the parts of all who read the node.       *)
LEMMA CompleteStep ==
    ASSUME PlanInv, PassInv, [Next]_vars, NEW n \in DOMAIN grads \ DOMAIN grads'
    PROVE  grads[n].parts = Contributions(n)
<1>1. ASSUME grads' = grads PROVE FALSE
  BY <1>1
<1>2. CASE BackwardLayer
  <2>1. phase = "backward" /\ using = {} /\ position <= Len(Pass)
    BY <1>2 DEF BackwardLayer, Running
  <2>2. grads' = Released(grads, EachIn(Writes(Layer), grads))
    BY <1>2, <2>1, BackwardFindsAll DEF BackwardLayer
  <2>3. n \in Range(Writes(Layer))
    <3>1. PICK B : B = Stored \cup {Layer}
      OBVIOUS
    <3> QED
      BY <2>1, <2>2, <3>1, GradsReleased
  <2>4. Layer \in Layers
        /\ \A d \in Layers : Range(Reads(d)) \cap Range(Writes(Layer)) # {} => d \in Stored
    BY <2>1, InBackward
  <2>5. {slot \in ReadersOf(n) : slot[1] \in Stored} = ReadersOf(n)
    <3>1. \A slot \in ReadersOf(n) : slot[1] \in Layers /\ n \in Range(Reads(slot[1]))
      BY DEF ReadersOf, Slots, Range
    <3>2. \A slot \in ReadersOf(n) : slot[1] \in Stored
      BY <2>3, <2>4, <3>1
    <3> QED
      BY <3>2
  <2>6. grads[n].parts = Parts(n, Stored)
    <3>1. grads[n] = [tensor |-> grads[n].tensor, refs |-> Takers(n, Begun), parts |-> Parts(n, Stored)]
      BY <2>1 DEF PassInv, GradsCounted
    <3> QED
      BY <3>1
  <2> QED
    BY <2>5, <2>6 DEF Parts, Contributions
<1>3. CASE ReturnGradients
  <2>1. phase = "backward" /\ using = {} /\ position > Len(Pass)
    BY <1>3 DEF ReturnGradients
  <2>2. grads[n].parts = Parts(n, Layers)
    BY <2>1, AllGiven
  <2>3. {slot \in ReadersOf(n) : slot[1] \in Layers} = ReadersOf(n)
    BY DEF ReadersOf, Slots
  <2> QED
    BY <2>2, <2>3 DEF Parts, Contributions
<1>4. CASE StoreBackward
  <2>1. DOMAIN grads \subseteq DOMAIN grads'
    BY <1>4 DEF StoreBackward, Accumulated
  <2> QED
    BY <2>1
<1>5. CASE BeginBackward
  <2>1. grads = Empty
    BY <1>5 DEF BeginBackward, PassInv
  <2> QED
    BY <2>1 DEF Empty
<1>6. CASE StartPlan \/ Solve \/ ForwardOrderFound \/ BackwardOrderFound \/ TraceBuffers \/ Pack
  BY <1>1, <1>6 DEF StartPlan, Solve, ForwardOrderFound, BackwardOrderFound, TraceBuffers, Pack, entries
<1>7. CASE PlanBuilt \/ CallForward
  BY <1>1, <1>7 DEF PlanBuilt, CallForward, BeginForward
<1>8. CASE ForwardLayer
  BY <1>1, <1>8 DEF ForwardLayer, Fail, entries
<1>9. CASE StoreForward \/ ReturnOutputs \/ DropOutputs \/ DropAll
  BY <1>1, <1>9 DEF StoreForward, ReturnOutputs, DropOutputs, DropAll
<1>10. CASE UNCHANGED vars
  BY <1>1, <1>10 DEF vars, entries
<1> QED
  BY <1>2, <1>3, <1>4, <1>5, <1>6, <1>7, <1>8, <1>9, <1>10 DEF Next, Build, Forward, Backward

(* A gradient is used only when everybody has added to it.                 *)
THEOREM GradientsComplete == WellBuilt => (Spec => CompleteGradients)
<1>1. PlanInv /\ PassInv /\ [Next]_vars =>
          [\A n \in DOMAIN grads \ DOMAIN grads' : grads[n].parts = Contributions(n)]_vars
  BY CompleteStep
<1> QED
  BY <1>1, PlanInit, PlanStep, PassInit, PassStep, PTL DEF Spec, CompleteGradients

----------------------------------------------------------------------------
(* The places: what is needed together has been put apart.                 *)

(* The steps of a plan in which a layer runs, and the one after them all.  *)
FStep(plan, e) == StepOf(e, plan.forward)
BStep(plan, e) == Len(plan.forward) + StepOf(e, plan.backward)
End(plan) == Len(plan.forward) + Len(plan.backward) + 1

SavedIn(e, trains) == TensorsAt(e, [key \in SavedKeys(Does(e), trains) |-> Does(e).saves[key]])

NodeAt(slot) == Reads(slot[1])[slot[2]]
GradAt(slot) == Grad(slot[1], slot[2])

(* The gradient at a slot is the one that is kept for the node.            *)
Keeps(plan, slot) ==
    /\ NodeAt(slot) \notin graph.outputs
    /\ \A other \in ReadersOf(NodeAt(slot)) :
           \/ BStep(plan, other[1]) > BStep(plan, slot[1])
           \/ other[1] = slot[1] /\ other[2] >= slot[2]

(* A result is needed from when it is written until the last that reads it *)
(* or has saved it has run, or for good.                                   *)
DataNeeded(n, plan, trains, s) ==
    /\ \E e \in Writers(n) : FStep(plan, e) <= s
    /\ \/ n \in graph.outputs /\ s <= End(plan)
       \/ ReadersOf(n) = {} /\ s <= Len(plan.forward) + 1
       \/ \E slot \in ReadersOf(n) : s <= FStep(plan, slot[1])
       \/ trains /\ \E e \in Layers : Data(n) \in SavedIn(e, trains) /\ s <= BStep(plan, e)

MaskNeeded(e, plan, trains, s) ==
    /\ Mask(e) \in SavedIn(e, trains)
    /\ FStep(plan, e) <= s /\ (s <= FStep(plan, e) \/ (trains /\ s <= BStep(plan, e)))

(* A gradient is needed in its step, and if it is kept until it is taken.  *)
GradNeeded(slot, plan, s) ==
    \/ s = BStep(plan, slot[1])
    \/ /\ Keeps(plan, slot) /\ BStep(plan, slot[1]) <= s
       /\ \/ NodeAt(slot) \in graph.inputs /\ s <= End(plan)
          \/ \E e \in Writers(NodeAt(slot)) : s <= BStep(plan, e)

Needed(t, plan, trains, s) ==
    \/ \E n \in Nodes \ graph.inputs : t = <<"data", n>> /\ DataNeeded(n, plan, trains, s)
    \/ \E e \in Layers : t = Mask(e) /\ MaskNeeded(e, plan, trains, s)
    \/ \E e \in Layers : t = <<"work", e>> /\ "forward" \in Does(e).scratch /\ s = FStep(plan, e)
    \/ trains /\ \E e \in Layers :
           t = <<"backwork", e>> /\ "backward" \in Does(e).scratch /\ s = BStep(plan, e)
    \/ trains /\ \E slot \in Slots : t = GradAt(slot) /\ GradNeeded(slot, plan, s)

(* What is needed has a place, which nothing else has that is needed in    *)
(* the same step.                                                          *)
KeptApart(plan, trains) ==
    \A t, s : s \in Nat /\ Needed(t, plan, trains, s) =>
        /\ t \in DOMAIN plan.places
        /\ \A u : u # t /\ Needed(u, plan, trains, s) => plan.places[u] \cap plan.places[t] = {}

(* The allocations of S are those that the plan needs, for long enough.    *)
Traced(S, plan, trains) ==
    /\ \A a \in S, s \in Nat :
           Needed(a.iid, plan, trains, s) => a.start <= s /\ s <= a.end
    /\ \A t, s : s \in Nat /\ Needed(t, plan, trains, s) => \E a \in S : a.iid = t

TraceInv ==
    /\ PackInv
    /\ IF phase = "packing" THEN Traced(todo \cup placed, building, training)
       ELSE todo = {} /\ placed = {}
    /\ \A trains \in DOMAIN plans : KeptApart(plans[trains], trains)

(* What the tensors are, and what the caller has.                          *)
DataKept ==
    \A n \in DOMAIN data :
        /\ data[n].tensor = Data(n)
        /\ n \in graph.inputs \/ \E e \in Stored : n \in Range(Writes(e))
        /\ ReadersOf(n) = {} \/ Unread(n, Begun) # 0

KeptFor(n, plan, S, t) ==
    \E slot \in ReadersOf(n) : slot[1] \in S /\ Keeps(plan, slot) /\ t = GradAt(slot)

GradsKept ==
    \A n \in DOMAIN grads :
        /\ Takers(n, Begun) # 0
        /\ IF n \in graph.outputs THEN grads[n].tensor = OutputGrad(n)
           ELSE KeptFor(n, Plan, Stored, grads[n].tensor)

InUse ==
    using # {} =>
        IF phase = "forward" THEN using = {Data(n) : n \in Range(Reads(Layer))} \cup ForwardBuffers(Layer)
        ELSE /\ BackwardBuffers(Layer) \subseteq using
             /\ \A t \in using :
                    \/ External(t) \/ t \in Saved(Layer) \cup BackwardBuffers(Layer)
                    \/ \E n \in Range(Writes(Layer)) : KeptFor(n, Plan, Stored, t)

HeldOutputs(S) == {Data(n) : n \in {x \in graph.outputs : \E e \in S : x \in Range(Writes(e))}}
GivenBack == {t \in held : \E n \in graph.inputs : KeptFor(n, Plan, Layers, t)}

HeldKept ==
    CASE phase = "forward" -> held \subseteq HeldOutputs(Stored)
      [] phase \in {"computed", "backward"} -> held \subseteq HeldOutputs(Layers)
      [] phase = "differentiated" -> held \ GivenBack \subseteq HeldOutputs(Layers)
      [] OTHER -> held = {}

UseInv == DataKept /\ GradsKept /\ InUse /\ HeldKept

(* The step in which a pass is.                                            *)
Now ==
    CASE phase = "forward" -> position
      [] phase = "computed" -> Len(Plan.forward) + 1
      [] phase = "backward" -> Len(Plan.forward) + position
      [] OTHER -> End(Plan)

InPass == phase \in {"forward", "computed", "backward", "differentiated"}

----------------------------------------------------------------------------
(* What is needed depends on the graph and on the orders alone.            *)

LEMMA GraphSame ==
    ASSUME UNCHANGED graph
    PROVE  /\ Nodes' = Nodes /\ Layers' = Layers /\ Slots' = Slots
           /\ \A n : /\ ReadersOf(n)' = ReadersOf(n) /\ Writers(n)' = Writers(n) /\ Data(n)' = Data(n)
           /\ \A e : /\ Reads(e)' = Reads(e) /\ Writes(e)' = Writes(e) /\ Does(e)' = Does(e)
           /\ \A slot : NodeAt(slot)' = NodeAt(slot)
<1>1. Nodes' = Nodes /\ Layers' = Layers
  BY DEF Nodes, Layers
<1>2. \A e : Reads(e)' = Reads(e) /\ Writes(e)' = Writes(e) /\ Does(e)' = Does(e)
  BY DEF Reads, Writes, Does
<1>3. Slots' = Slots
  BY <1>1, <1>2 DEF Slots
<1>4. \A n : ReadersOf(n)' = ReadersOf(n)
  BY <1>2, <1>3 DEF ReadersOf
<1>5. \A n : Writers(n)' = Writers(n)
  BY <1>1, <1>2 DEF Writers
<1>6. \A n : Data(n)' = Data(n)
  BY DEF Data
<1>7. \A slot : NodeAt(slot)' = NodeAt(slot)
  BY <1>2 DEF NodeAt
<1> QED
  BY <1>1, <1>2, <1>3, <1>4, <1>5, <1>6, <1>7

LEMMA SavedSame ==
    ASSUME UNCHANGED graph
    PROVE  /\ \A e, saved : TensorsAt(e, saved)' = TensorsAt(e, saved)
           /\ \A e, trains : SavedIn(e, trains)' = SavedIn(e, trains)
<1>1. ASSUME NEW e, NEW saved PROVE TensorsAt(e, saved)' = TensorsAt(e, saved)
  BY GraphSame DEF TensorsAt, Mask
<1>2. ASSUME NEW e, NEW trains PROVE SavedIn(e, trains)' = SavedIn(e, trains)
  BY GraphSame DEF SavedIn, TensorsAt, Mask
<1> QED
  BY <1>1, <1>2

LEMMA KeepsSame ==
    ASSUME UNCHANGED graph, NEW plan, NEW slot
    PROVE  Keeps(plan, slot)' <=> Keeps(plan, slot)
<1>1. NodeAt(slot)' = NodeAt(slot) /\ ReadersOf(NodeAt(slot))' = ReadersOf(NodeAt(slot))
  BY GraphSame
<1> QED
  BY <1>1 DEF Keeps, BStep

LEMMA NeedsSame ==
    ASSUME UNCHANGED graph, NEW t, NEW plan, NEW trains, NEW s
    PROVE  Needed(t, plan, trains, s)' <=> Needed(t, plan, trains, s)
<1>1. ASSUME NEW n PROVE DataNeeded(n, plan, trains, s)' <=> DataNeeded(n, plan, trains, s)
  <2>1. /\ ReadersOf(n)' = ReadersOf(n) /\ Writers(n)' = Writers(n) /\ Data(n)' = Data(n)
        /\ Layers' = Layers /\ \A e : SavedIn(e, trains)' = SavedIn(e, trains)
    BY GraphSame, SavedSame
  <2> QED
    BY <2>1 DEF DataNeeded, FStep, BStep, End
<1>2. ASSUME NEW e PROVE MaskNeeded(e, plan, trains, s)' <=> MaskNeeded(e, plan, trains, s)
  BY SavedSame DEF MaskNeeded, FStep, BStep, Mask
<1>3. ASSUME NEW slot PROVE GradNeeded(slot, plan, s)' <=> GradNeeded(slot, plan, s)
  <2>1. /\ NodeAt(slot)' = NodeAt(slot) /\ Writers(NodeAt(slot))' = Writers(NodeAt(slot))
        /\ Keeps(plan, slot)' <=> Keeps(plan, slot)
    BY GraphSame, KeepsSame
  <2> QED
    BY <2>1 DEF GradNeeded, BStep, End
<1>4. /\ Nodes' = Nodes /\ Layers' = Layers /\ Slots' = Slots /\ graph'.inputs = graph.inputs
      /\ \A e : Does(e)' = Does(e)
  BY GraphSame
<1> QED
  BY <1>1, <1>2, <1>3, <1>4 DEF Needed, FStep, BStep, Mask, GradAt, Grad

LEMMA KeptApartSame ==
    ASSUME UNCHANGED graph, NEW plan, NEW trains, KeptApart(plan, trains)
    PROVE  KeptApart(plan, trains)'
BY NeedsSame DEF KeptApart

LEMMA TracedSame ==
    ASSUME UNCHANGED graph, NEW S, NEW plan, NEW trains, Traced(S, plan, trains)
    PROVE  Traced(S, plan, trains)'
BY NeedsSame DEF Traced

LEMMA NeedsOfOrders ==
    ASSUME NEW plan, NEW other, plan.forward = other.forward, plan.backward = other.backward,
           NEW t, NEW trains, NEW s
    PROVE  Needed(t, plan, trains, s) <=> Needed(t, other, trains, s)
<1>1. /\ \A e : FStep(plan, e) = FStep(other, e) /\ BStep(plan, e) = BStep(other, e)
      /\ End(plan) = End(other) /\ Len(plan.forward) = Len(other.forward)
  BY DEF FStep, BStep, End
<1>2. \A n : DataNeeded(n, plan, trains, s) <=> DataNeeded(n, other, trains, s)
  BY <1>1 DEF DataNeeded
<1>3. \A e : MaskNeeded(e, plan, trains, s) <=> MaskNeeded(e, other, trains, s)
  BY <1>1 DEF MaskNeeded
<1>4. \A slot : Keeps(plan, slot) <=> Keeps(other, slot)
  BY <1>1 DEF Keeps
<1>5. \A slot : GradNeeded(slot, plan, s) <=> GradNeeded(slot, other, s)
  BY <1>1, <1>4 DEF GradNeeded
<1> QED
  BY <1>1, <1>2, <1>3, <1>5 DEF Needed

(* Which need it is, tells the name.                                       *)
LEMMA NeedsByName ==
    ASSUME NEW plan, NEW trains, NEW s
    PROVE  /\ \A n : Needed(<<"data", n>>, plan, trains, s) <=>
                  n \in Nodes \ graph.inputs /\ DataNeeded(n, plan, trains, s)
           /\ \A e : Needed(Mask(e), plan, trains, s) <=> e \in Layers /\ MaskNeeded(e, plan, trains, s)
           /\ \A e : Needed(<<"work", e>>, plan, trains, s) <=>
                  e \in Layers /\ "forward" \in Does(e).scratch /\ s = FStep(plan, e)
           /\ \A e : Needed(<<"backwork", e>>, plan, trains, s) <=>
                  trains /\ e \in Layers /\ "backward" \in Does(e).scratch /\ s = BStep(plan, e)
           /\ \A slot \in Slots : Needed(GradAt(slot), plan, trains, s) <=>
                  trains /\ GradNeeded(slot, plan, s)
           /\ \A t : External(t) => ~Needed(t, plan, trains, s)
<1>1. /\ \A n : <<"data", n>>[1] = "data" /\ <<"data", n>>[2] = n
      /\ \A e : Mask(e)[1] = "mask" /\ Mask(e)[2] = e
      /\ \A e : <<"work", e>>[1] = "work" /\ <<"work", e>>[2] = e
      /\ \A e : <<"backwork", e>>[1] = "backwork" /\ <<"backwork", e>>[2] = e
      /\ \A slot : /\ GradAt(slot)[1] = "grad" /\ GradAt(slot)[2] = slot[1] /\ GradAt(slot)[3] = slot[2]
  BY DEF Mask, GradAt, Grad
<1>2. \A a, b \in Slots : a[1] = b[1] /\ a[2] = b[2] => a = b
  BY DEF Slots
<1>3. \A t : Needed(t, plan, trains, s) =>
          \/ t[1] = "data" /\ t = <<"data", t[2]>> /\ t[2] \in Nodes \ graph.inputs
               /\ DataNeeded(t[2], plan, trains, s)
          \/ t[1] = "mask" /\ t[2] \in Layers /\ MaskNeeded(t[2], plan, trains, s)
          \/ t[1] = "work" /\ t[2] \in Layers /\ "forward" \in Does(t[2]).scratch /\ s = FStep(plan, t[2])
          \/ trains /\ t[1] = "backwork" /\ t[2] \in Layers
               /\ "backward" \in Does(t[2]).scratch /\ s = BStep(plan, t[2])
          \/ trains /\ t[1] = "grad" /\ \E slot \in Slots : t = GradAt(slot) /\ GradNeeded(slot, plan, s)
  BY <1>1 DEF Needed
<1>4. ASSUME NEW n
      PROVE  Needed(<<"data", n>>, plan, trains, s) <=>
                 n \in Nodes \ graph.inputs /\ DataNeeded(n, plan, trains, s)
  <2>1. n \in Nodes \ graph.inputs /\ DataNeeded(n, plan, trains, s) => Needed(<<"data", n>>, plan, trains, s)
    BY DEF Needed
  <2> QED
    BY <1>1, <1>3, <2>1
<1>5. ASSUME NEW e
      PROVE  /\ Needed(Mask(e), plan, trains, s) <=> e \in Layers /\ MaskNeeded(e, plan, trains, s)
             /\ Needed(<<"work", e>>, plan, trains, s) <=>
                    e \in Layers /\ "forward" \in Does(e).scratch /\ s = FStep(plan, e)
             /\ Needed(<<"backwork", e>>, plan, trains, s) <=>
                    trains /\ e \in Layers /\ "backward" \in Does(e).scratch /\ s = BStep(plan, e)
  <2>1. /\ e \in Layers /\ MaskNeeded(e, plan, trains, s) => Needed(Mask(e), plan, trains, s)
        /\ e \in Layers /\ "forward" \in Does(e).scratch /\ s = FStep(plan, e)
               => Needed(<<"work", e>>, plan, trains, s)
        /\ trains /\ e \in Layers /\ "backward" \in Does(e).scratch /\ s = BStep(plan, e)
               => Needed(<<"backwork", e>>, plan, trains, s)
    BY DEF Needed
  <2> QED
    BY <1>1, <1>3, <2>1
<1>6. ASSUME NEW slot \in Slots
      PROVE  Needed(GradAt(slot), plan, trains, s) <=> trains /\ GradNeeded(slot, plan, s)
  <2>1. trains /\ GradNeeded(slot, plan, s) => Needed(GradAt(slot), plan, trains, s)
    BY DEF Needed
  <2> QED
    BY <1>1, <1>2, <1>3, <2>1
<1>7. ASSUME NEW t, External(t) PROVE ~Needed(t, plan, trains, s)
  BY <1>3, <1>7 DEF External
<1> QED
  BY <1>4, <1>5, <1>6, <1>7

(* The steps of a plan whose orders fit the graph.                         *)
LEMMA StepIn ==
    ASSUME NEW edges, NEW order0, Arranges(order0, edges)
    PROVE  /\ Len(order0) = Len(edges) /\ DOMAIN order0 = 1..Len(order0) /\ Len(order0) \in Nat
           /\ Range(order0) = DOMAIN edges
           /\ \A e \in DOMAIN edges :
                  StepOf(e, order0) \in 1..Len(order0) /\ order0[StepOf(e, order0)] = e
           /\ \A i \in DOMAIN order0 : StepOf(order0[i], order0) = i
           /\ \A d, e \in DOMAIN edges :
                  Range(edges[d].writes) \cap Range(edges[e].reads) # {} =>
                      StepOf(d, order0) < StepOf(e, order0)
<1>1. order0 \in Seq(DOMAIN edges) /\ Len(order0) = Len(edges)
  BY DEF Arranges
<1>2. DOMAIN order0 = 1..Len(order0) /\ Len(order0) \in Nat /\ \A i \in DOMAIN order0 : order0[i] \in DOMAIN edges
  BY <1>1, LenProperties
<1>3. \A e \in DOMAIN edges : \E i \in DOMAIN order0 : order0[i] = e
  BY DEF Arranges
<1>4. ASSUME NEW e \in DOMAIN edges
      PROVE  StepOf(e, order0) \in DOMAIN order0 /\ order0[StepOf(e, order0)] = e
  <2>1. \E i \in DOMAIN order0 : order0[i] = e
    BY <1>3
  <2> QED
    BY <2>1 DEF StepOf
<1>5. \A i, j \in DOMAIN order0 :
          /\ order0[i] = order0[j] => i = j
          /\ Range(edges[order0[i]].writes) \cap Range(edges[order0[j]].reads) # {} => i < j
  BY DEF Arranges
<1>6. \A i \in DOMAIN order0 : StepOf(order0[i], order0) = i
  BY <1>2, <1>4, <1>5
<1>7. \A d, e \in DOMAIN edges :
          Range(edges[d].writes) \cap Range(edges[e].reads) # {} => StepOf(d, order0) < StepOf(e, order0)
  BY <1>4, <1>5
<1>8. Range(order0) = DOMAIN edges
  BY <1>2, <1>3 DEF Range
<1> QED
  BY <1>1, <1>2, <1>4, <1>6, <1>7, <1>8

StepsFit(plan, trains, N) ==
    /\ N \in Nat /\ Len(plan.forward) = N /\ DOMAIN plan.forward = 1..N
    /\ Range(plan.forward) = Layers
    /\ \A e \in Layers : FStep(plan, e) \in 1..N
    /\ \A i \in 1..N : FStep(plan, plan.forward[i]) = i
    /\ \A d, e \in Layers :
           Range(Writes(d)) \cap Range(Reads(e)) # {} => FStep(plan, d) < FStep(plan, e)
    /\ IF trains
       THEN /\ Len(plan.backward) = N /\ DOMAIN plan.backward = 1..N
            /\ Range(plan.backward) = Layers /\ End(plan) = N + N + 1
            /\ \A e \in Layers : BStep(plan, e) \in (N + 1)..(N + N)
            /\ \A i \in 1..N : BStep(plan, plan.backward[i]) = N + i
            /\ \A d, e \in Layers :
                   Range(Writes(d)) \cap Range(Reads(e)) # {} => BStep(plan, e) < BStep(plan, d)
       ELSE Range(plan.backward) = {} /\ End(plan) = N + 1

LEMMA PlanSteps ==
    ASSUME graph \in Graphs, NEW plan, NEW trains, OrdersFit(plan, trains),
           NEW N, N = Len(graph.edges)
    PROVE  StepsFit(plan, trains, N)
<1>1. /\ DOMAIN Forwards = Layers /\ Len(Forwards) = N /\ DOMAIN Backwards = Layers /\ Len(Backwards) = N
      /\ \A e \in Layers : Forwards[e].reads = Reads(e) /\ Forwards[e].writes = Writes(e)
      /\ \A e \in Layers : Backwards[e].reads = Writes(e) /\ Backwards[e].writes = Reads(e)
      /\ N \in Nat
  BY OrientedFacts, GraphFacts
<1>2. PICK order0 : order0 = plan.forward
  OBVIOUS
<1>3. Arranges(order0, Forwards)
  BY <1>2 DEF OrdersFit
<1>4. /\ Len(order0) = N /\ DOMAIN order0 = 1..N /\ Range(order0) = Layers
      /\ \A e \in Layers : StepOf(e, order0) \in 1..N /\ order0[StepOf(e, order0)] = e
      /\ \A i \in 1..N : StepOf(order0[i], order0) = i
      /\ \A d, e \in Layers : Range(Writes(d)) \cap Range(Reads(e)) # {} =>
                                  StepOf(d, order0) < StepOf(e, order0)
  <2>1. /\ Len(order0) = Len(Forwards) /\ DOMAIN order0 = 1..Len(order0)
        /\ Range(order0) = DOMAIN Forwards
        /\ \A e \in DOMAIN Forwards :
               StepOf(e, order0) \in 1..Len(order0) /\ order0[StepOf(e, order0)] = e
        /\ \A i \in DOMAIN order0 : StepOf(order0[i], order0) = i
        /\ \A d, e \in DOMAIN Forwards :
               Range(Forwards[d].writes) \cap Range(Forwards[e].reads) # {} =>
                   StepOf(d, order0) < StepOf(e, order0)
    BY <1>3, StepIn
  <2> QED
    BY <1>1, <2>1
<1>5. ASSUME trains
      PROVE  /\ Len(plan.backward) = N /\ DOMAIN plan.backward = 1..N
             /\ Range(plan.backward) = Layers /\ End(plan) = N + N + 1
             /\ \A e \in Layers : BStep(plan, e) \in (N + 1)..(N + N)
             /\ \A i \in 1..N : BStep(plan, plan.backward[i]) = N + i
             /\ \A d, e \in Layers :
                    Range(Writes(d)) \cap Range(Reads(e)) # {} => BStep(plan, e) < BStep(plan, d)
  <2>1. PICK back : back = plan.backward
    OBVIOUS
  <2>2. Arranges(back, Backwards)
    BY <1>5, <2>1 DEF OrdersFit
  <2>3. /\ Len(back) = N /\ DOMAIN back = 1..N /\ Range(back) = Layers
        /\ \A e \in Layers : StepOf(e, back) \in 1..N /\ back[StepOf(e, back)] = e
        /\ \A i \in 1..N : StepOf(back[i], back) = i
        /\ \A d, e \in Layers : Range(Reads(d)) \cap Range(Writes(e)) # {} =>
                                    StepOf(d, back) < StepOf(e, back)
    <3>1. /\ Len(back) = Len(Backwards) /\ DOMAIN back = 1..Len(back)
          /\ Range(back) = DOMAIN Backwards
          /\ \A e \in DOMAIN Backwards :
                 StepOf(e, back) \in 1..Len(back) /\ back[StepOf(e, back)] = e
          /\ \A i \in DOMAIN back : StepOf(back[i], back) = i
          /\ \A d, e \in DOMAIN Backwards :
                 Range(Backwards[d].writes) \cap Range(Backwards[e].reads) # {} =>
                     StepOf(d, back) < StepOf(e, back)
      BY <2>2, StepIn
    <3> QED
      BY <1>1, <3>1
  <2>4. \A e : BStep(plan, e) = N + StepOf(e, back)
    BY <1>2, <1>4, <2>1 DEF BStep
  <2>5. End(plan) = N + N + 1
    BY <1>2, <1>4, <2>1, <2>3 DEF End
  <2>6. ASSUME NEW d \in Layers, NEW e \in Layers, Range(Writes(d)) \cap Range(Reads(e)) # {}
        PROVE  BStep(plan, e) < BStep(plan, d)
    <3>1. Range(Reads(e)) \cap Range(Writes(d)) # {}
      BY <2>6
    <3>2. StepOf(e, back) < StepOf(d, back) /\ StepOf(e, back) \in 1..N /\ StepOf(d, back) \in 1..N
      BY <2>3, <3>1
    <3> QED
      BY <1>1, <2>4, <3>2
  <2>7. \A e \in Layers : BStep(plan, e) \in (N + 1)..(N + N)
    BY <1>1, <2>3, <2>4
  <2> QED
    BY <2>1, <2>3, <2>4, <2>5, <2>6, <2>7
<1>6. ASSUME ~trains PROVE Range(plan.backward) = {} /\ End(plan) = N + 1
  <2>1. plan.backward = <<>> /\ Len(<<>>) = 0 /\ DOMAIN <<>> = {}
    BY <1>6 DEF OrdersFit
  <2> QED
    BY <1>1, <1>2, <1>4, <2>1 DEF End, Range
<1>7. \A e : FStep(plan, e) = StepOf(e, order0)
  BY <1>2 DEF FStep
<1> QED
  BY <1>1, <1>2, <1>4, <1>5, <1>6, <1>7 DEF StepsFit

----------------------------------------------------------------------------
(* The trace has all that is needed.                                       *)

Typed(a) ==
    /\ a = [iid |-> a.iid, size |-> a.size, start |-> a.start, end |-> a.end]
    /\ Sized(a)

(* What a record covers.                                                   *)
Spans(a, t, start, uses, kept) ==
    /\ Typed(a) /\ a.iid = t /\ a.start = start
    /\ \A u \in uses : u <= a.end
    /\ kept \/ uses = {} => a.end = LastStep
    /\ a.end = LastStep \/ a.end \in uses

LEMMA LifetimeOf ==
    ASSUME LastStep \in Nat, NEW t, NEW size \in Nat \ {0}, NEW start \in Nat,
           NEW uses, uses \subseteq 0..LastStep, NEW kept,
           NEW a, a = Lifetime(t, size, start, uses, kept)
    PROVE  Spans(a, t, start, uses, kept)
<1>1. PICK last : last = LastStep /\ last \in Nat /\ uses \subseteq 0..last
  OBVIOUS
<1>2. PICK end : end = IF kept \/ uses = {} THEN LastStep
                       ELSE CHOOSE s \in uses : \A u \in uses : u <= s
  OBVIOUS
<1>3. a = [iid |-> t, size |-> size, start |-> start, end |-> end]
  BY <1>2 DEF Lifetime
<1>4. ASSUME uses # {} PROVE \E s \in uses : \A u \in uses : u <= s
  <2>1. IsFiniteSet(0..last)
    BY <1>1, FS_Interval
  <2>2. IsFiniteSet(uses)
    BY <1>1, <2>1, FS_Subset
  <2>6. uses \subseteq Int
    BY <1>1
  <2>3. PICK f : f = [u \in uses |-> u]
    OBVIOUS
  <2>4. f \in [uses -> Int] /\ \A u \in uses : f[u] = u
    BY <2>3, <2>6
  <2>5. \E s \in uses : \A u \in uses : f[u] <= f[s]
    BY <1>4, <2>2, <2>4, Extremes
  <2> QED
    BY <2>4, <2>5
<1>5. CASE kept \/ uses = {}
  <2>1. end = last /\ \A u \in uses : u <= last
    BY <1>1, <1>2, <1>5
  <2>2. a = [iid |-> t, size |-> size, start |-> start, end |-> last]
    BY <1>3, <2>1
  <2>3. a.iid = t /\ a.size = size /\ a.start = start /\ a.end = last
    BY <2>2
  <2>4. Typed(a)
    BY <1>1, <2>2, <2>3 DEF Typed, Sized
  <2>6. a.end <= LastStep /\ a.end = LastStep /\ \A u \in uses : u <= a.end
    BY <1>1, <2>1, <2>3
  <2> QED
    BY <1>5, <2>3, <2>4, <2>6 DEF Spans
<1>6. CASE ~(kept \/ uses = {})
  <2>1. end \in uses /\ \A u \in uses : u <= end
    <3>1. end = CHOOSE s \in uses : \A u \in uses : u <= s
      BY <1>2, <1>6
    <3>2. \E s \in uses : \A u \in uses : u <= s
      BY <1>4, <1>6
    <3> QED
      BY <3>1, <3>2
  <2>2. end \in Nat /\ end <= last
    BY <1>1, <2>1
  <2>3. a.iid = t /\ a.size = size /\ a.start = start /\ a.end = end
    BY <1>3
  <2>4. Typed(a)
    BY <1>3, <2>2, <2>3 DEF Typed, Sized
  <2> QED
    BY <1>1, <1>6, <2>1, <2>2, <2>3, <2>4 DEF Spans
<1> QED
  BY <1>5, <1>6

(* The records of a trace, by what they are for.                           *)
DataRecord(n) == Lifetime(Data(n), graph.size[n], Born(n), DataUses(n), n \in graph.outputs)
WorkRecord(e) == Lifetime(<<"work", e>>, 1, ForwardStep(e), {ForwardStep(e)}, FALSE)
MaskRecord(e) ==
    Lifetime(Mask(e), 1, ForwardStep(e),
             IF e \in Range(building.backward) THEN {BackwardStep(e)} ELSE {}, FALSE)
OutputRecord(n) ==
    Lifetime(OutputGrad(n), graph.size[n], Len(building.forward),
             IF Range(building.backward) = {} THEN {} ELSE GradUses(n), n \in graph.inputs)
BackworkRecord(e) == Lifetime(<<"backwork", e>>, 1, BackwardStep(e), {BackwardStep(e)}, FALSE)
GradRecord(slot) ==
    IF Keeper(slot[1], slot[2])
    THEN Lifetime(GradAt(slot), graph.size[NodeAt(slot)], BackwardStep(slot[1]),
                  GradUses(NodeAt(slot)), NodeAt(slot) \in graph.inputs)
    ELSE Lifetime(GradAt(slot), graph.size[NodeAt(slot)], BackwardStep(slot[1]),
                  {BackwardStep(slot[1])}, FALSE)

Workers == {e \in Layers : "forward" \in Does(e).scratch}
Maskers == {e \in Layers : Mask(e) \in Saved(e)}
Backworkers == {e \in Range(building.backward) : "backward" \in Does(e).scratch}
BackSlots == {slot \in Slots : slot[1] \in Range(building.backward)}

LEMMA TraceIs ==
    Trace = {DataRecord(n) : n \in Nodes} \cup {WorkRecord(e) : e \in Workers}
            \cup {MaskRecord(e) : e \in Maskers} \cup {OutputRecord(n) : n \in graph.outputs}
            \cup {BackworkRecord(e) : e \in Backworkers} \cup {GradRecord(slot) : slot \in BackSlots}
BY DEF Trace, DataRecord, WorkRecord, MaskRecord, OutputRecord, BackworkRecord, GradRecord,
       Workers, Maskers, Backworkers, BackSlots, NodeAt, GradAt

TraceReady ==
    graph \in Graphs /\ WellBuilt /\ training \in BOOLEAN /\ OrdersFit(building, training)

(* A record is long enough for the need of its buffer.                     *)
Suits(a) ==
    /\ Typed(a)
    /\ \A s \in Nat : Needed(a.iid, building, training, s) => a.start <= s /\ s <= a.end

LEMMA TraceSteps ==
    ASSUME TraceReady, NEW N, N = Len(graph.edges)
    PROVE  /\ N \in Nat /\ Len(building.forward) = N /\ LastStep = End(building) /\ LastStep \in Nat
           /\ \A e : ForwardStep(e) = FStep(building, e) /\ BackwardStep(e) = BStep(building, e)
           /\ \A e \in Layers : FStep(building, e) \in 1..N
           /\ \A d, e \in Layers :
                  Range(Writes(d)) \cap Range(Reads(e)) # {} => FStep(building, d) < FStep(building, e)
           /\ \A e : Saved(e) = SavedIn(e, training)
           /\ IF training
              THEN /\ Range(building.backward) = Layers /\ LastStep = N + N + 1
                   /\ \A e \in Layers : BStep(building, e) \in (N + 1)..(N + N)
                   /\ \A d, e \in Layers :
                          Range(Writes(d)) \cap Range(Reads(e)) # {} =>
                              BStep(building, e) < BStep(building, d)
              ELSE Range(building.backward) = {} /\ LastStep = N + 1
<1>1. PICK plan, trains : plan = building /\ trains = training
  OBVIOUS
<1>2. graph \in Graphs /\ OrdersFit(plan, trains)
  BY <1>1 DEF TraceReady
<1>3. LastStep = End(building) /\ \A e : ForwardStep(e) = FStep(building, e) /\ BackwardStep(e) = BStep(building, e)
  BY DEF LastStep, End, ForwardStep, BackwardStep, FStep, BStep
<1>4. \A e : Saved(e) = SavedIn(e, training)
  BY DEF Saved, Residual, SavedIn
<1>5. /\ N \in Nat /\ Len(plan.forward) = N
      /\ \A e \in Layers : FStep(plan, e) \in 1..N
      /\ \A d, e \in Layers :
             Range(Writes(d)) \cap Range(Reads(e)) # {} => FStep(plan, d) < FStep(plan, e)
      /\ IF trains
         THEN /\ Range(plan.backward) = Layers /\ End(plan) = N + N + 1
              /\ \A e \in Layers : BStep(plan, e) \in (N + 1)..(N + N)
              /\ \A d, e \in Layers :
                     Range(Writes(d)) \cap Range(Reads(e)) # {} => BStep(plan, e) < BStep(plan, d)
         ELSE Range(plan.backward) = {} /\ End(plan) = N + 1
  BY <1>2, PlanSteps DEF StepsFit
<1> QED
  BY <1>1, <1>3, <1>4, <1>5

LEMMA SizesOfNodes ==
    ASSUME graph \in Graphs
    PROVE  IsFiniteSet(Nodes) /\ \A n \in Nodes : graph.size[n] \in Nat \ {0}
BY GraphsAssumption DEF Nodes

LEMMA DataRecordSuits == ASSUME TraceReady, NEW n \in Nodes PROVE Suits(DataRecord(n))
<1>1. PICK N : N = Len(graph.edges)
  OBVIOUS
<1>2. PICK F : F = [e \in Layers |-> FStep(building, e)]
  OBVIOUS
<1>3. PICK B : B = [e \in Layers |-> BStep(building, e)]
  OBVIOUS
<1>4. PICK last : last = LastStep
  OBVIOUS
<1>5. /\ N \in Nat /\ last \in Nat /\ Len(building.forward) = N /\ End(building) = last
      /\ \A e \in Layers : /\ ForwardStep(e) = F[e] /\ BackwardStep(e) = B[e]
                           /\ FStep(building, e) = F[e] /\ BStep(building, e) = B[e]
                           /\ F[e] \in 1..N
      /\ IF training
         THEN /\ Range(building.backward) = Layers /\ last = N + N + 1
              /\ \A e \in Layers : B[e] \in (N + 1)..(N + N)
         ELSE Range(building.backward) = {} /\ last = N + 1
      /\ \A e : Saved(e) = SavedIn(e, training)
  BY <1>1, <1>2, <1>3, <1>4, TraceSteps
<1>6. graph \in Graphs /\ WellBuilt /\ graph.size[n] \in Nat \ {0}
  BY SizesOfNodes DEF TraceReady
<1>7. PICK readers : readers = {F[slot[1]] : slot \in ReadersOf(n)}
  OBVIOUS
<1>8. PICK savers : savers = {B[e] : e \in {x \in Range(building.backward) : Data(n) \in Saved(x)}}
  OBVIOUS
<1>9. \A slot \in ReadersOf(n) : slot[1] \in Layers
  BY DEF ReadersOf, Slots
<1>10. DataUses(n) = readers \cup savers
  <2>1. Range(building.backward) \subseteq Layers
    BY <1>5
  <2> QED
    BY <1>5, <1>7, <1>8, <1>9, <2>1 DEF DataUses
<1>11. /\ readers \subseteq 1..N /\ (~training => savers = {})
       /\ \A u \in savers : u \in (N + 1)..last
  BY <1>5, <1>7, <1>8, <1>9
<1>12. PICK uses : uses = DataUses(n)
  OBVIOUS
<1>13. uses \subseteq 0..last
  <2>1. N <= last
    BY <1>5
  <2>2. \A u \in readers : u \in 0..last
    BY <1>5, <1>11, <2>1
  <2>3. \A u \in savers : u \in 0..last
    BY <1>5, <1>11
  <2> QED
    BY <1>10, <1>12, <2>2, <2>3
<1>14. PICK born : born = Born(n)
  OBVIOUS
<1>15. /\ born \in Nat
       /\ n \notin graph.inputs => \A e \in Writers(n) : born = F[e]
  <2>1. CASE n \in graph.inputs
    BY <1>14, <2>1 DEF Born
  <2>2. CASE n \notin graph.inputs
    <3>1. PICK e \in Layers : n \in Range(Writes(e))
      BY <1>6, <2>2, NodeFacts
    <3>2. Writers(n) = {e}
      BY <1>6, <3>1, WrittenOnce
    <3>3. (CHOOSE d \in Writers(n) : TRUE) = e
      BY <3>2
    <3>4. born = F[e]
      BY <1>5, <1>14, <2>2, <3>3 DEF Born
    <3> QED
      BY <1>5, <3>2, <3>4
  <2> QED
    BY <2>1, <2>2
<1>16. PICK kept : kept = (n \in graph.outputs)
  OBVIOUS
<1>17. PICK size : size = graph.size[n]
  OBVIOUS
<1>18. PICK a : a = DataRecord(n)
  OBVIOUS
<1>19. /\ Typed(a) /\ a.iid = Data(n) /\ a.start = born
       /\ \A u \in uses : u <= a.end
       /\ kept \/ uses = {} => a.end = last
       /\ a.end = last \/ a.end \in uses
  <2>1. a = Lifetime(Data(n), size, born, uses, kept)
    BY <1>12, <1>14, <1>16, <1>17, <1>18 DEF DataRecord
  <2>2. size \in Nat \ {0} /\ uses \subseteq 0..LastStep /\ LastStep \in Nat
    BY <1>4, <1>5, <1>6, <1>13, <1>17
  <2>3. Spans(a, Data(n), born, uses, kept)
    BY <1>15, <2>1, <2>2, LifetimeOf
  <2> QED
    BY <1>4, <2>3 DEF Spans
<1>20. ASSUME NEW s \in Nat, Needed(Data(n), building, training, s)
       PROVE  born <= s /\ s <= a.end
  <2>1. n \notin graph.inputs
    <3>1. n \in graph.inputs => External(Data(n))
      BY DEF Data, External
    <3> QED
      BY <1>20, <3>1, NeedsByName
  <2>2. Data(n) = <<"data", n>>
    BY <2>1 DEF Data
  <2>3. DataNeeded(n, building, training, s)
    BY <1>20, <2>2, NeedsByName
  <2>4. born <= s
    <3>1. PICK e \in Writers(n) : FStep(building, e) <= s
      BY <2>3 DEF DataNeeded
    <3>2. e \in Layers /\ born = F[e]
      BY <1>15, <2>1, <3>1 DEF Writers
    <3> QED
      BY <1>5, <3>1, <3>2
  <2>5. a.end \in Nat
    BY <1>19 DEF Typed, Sized
  <2>6. CASE n \in graph.outputs /\ s <= End(building)
    BY <1>5, <1>16, <1>19, <2>4, <2>6
  <2>7. CASE ReadersOf(n) = {} /\ s <= Len(building.forward) + 1
    <3>1. uses = savers /\ s <= N + 1
      BY <1>5, <1>7, <1>10, <1>12, <2>7
    <3>2. \A u \in uses : N + 1 <= u
      BY <1>5, <1>11, <3>1
    <3>3. a.end = last \/ a.end \in uses
      BY <1>19
    <3>4. N + 1 <= last
      BY <1>5
    <3>5. N + 1 <= a.end
      BY <3>2, <3>3, <3>4
    <3> QED
      BY <1>5, <2>4, <2>5, <3>1, <3>5
  <2>8. CASE \E slot \in ReadersOf(n) : s <= FStep(building, slot[1])
    <3>1. PICK slot \in ReadersOf(n) : s <= FStep(building, slot[1])
      BY <2>8
    <3>2. slot[1] \in Layers /\ F[slot[1]] \in uses /\ s <= F[slot[1]]
      BY <1>5, <1>7, <1>9, <1>10, <1>12, <3>1
    <3>3. F[slot[1]] <= a.end /\ F[slot[1]] \in Nat
      BY <1>5, <1>19, <3>2
    <3> QED
      BY <2>4, <2>5, <3>2, <3>3
  <2>9. CASE training /\ \E e \in Layers : Data(n) \in SavedIn(e, training) /\ s <= BStep(building, e)
    <3>1. PICK e \in Layers : Data(n) \in SavedIn(e, training) /\ s <= BStep(building, e)
      BY <2>9
    <3>2. B[e] \in uses /\ s <= B[e] /\ B[e] \in Nat
      <4>1. e \in Range(building.backward) /\ Data(n) \in Saved(e)
        BY <1>5, <2>9, <3>1
      <4>2. B[e] \in savers
        BY <1>8, <4>1
      <4>3. s <= B[e] /\ B[e] \in (N + 1)..(N + N)
        BY <1>5, <2>9, <3>1
      <4> QED
        BY <1>5, <1>10, <1>12, <4>2, <4>3
    <3>3. B[e] <= a.end
      BY <1>19, <3>2
    <3> QED
      BY <2>4, <2>5, <3>2, <3>3
  <2> QED
    BY <2>3, <2>6, <2>7, <2>8, <2>9 DEF DataNeeded
<1> QED
  BY <1>18, <1>19, <1>20 DEF Suits

OneStepLong(a, t, step) == Typed(a) /\ a.iid = t /\ a.start = step /\ step <= a.end

LEMMA OneStep ==
    ASSUME LastStep \in Nat, NEW t, NEW size \in Nat \ {0}, NEW step \in 0..LastStep,
           NEW a, a = Lifetime(t, size, step, {step}, FALSE)
    PROVE  OneStepLong(a, t, step)
<1>1. PICK uses, kept : uses = {step} /\ kept = FALSE
  OBVIOUS
<1>2. a = Lifetime(t, size, step, uses, kept)
  BY <1>1
<1>3. uses \subseteq 0..LastStep /\ step \in Nat
  BY <1>1
<1>4. Spans(a, t, step, uses, kept)
  BY <1>2, <1>3, LifetimeOf
<1> QED
  BY <1>1, <1>4 DEF Spans, OneStepLong

LEMMA WorkRecordSuits == ASSUME TraceReady, NEW e \in Workers PROVE Suits(WorkRecord(e))
<1>1. PICK N, step : N = Len(graph.edges) /\ step = ForwardStep(e)
  OBVIOUS
<1>2. e \in Layers
  BY DEF Workers
<1>3. step \in 0..LastStep /\ LastStep \in Nat /\ step = FStep(building, e)
  <2>1. /\ N \in Nat /\ step = FStep(building, e) /\ FStep(building, e) \in 1..N
        /\ LastStep = N + N + 1 \/ LastStep = N + 1
    BY <1>1, <1>2, TraceSteps
  <2> QED
    BY <2>1
<1>4. PICK a : a = WorkRecord(e)
  OBVIOUS
<1>5. Typed(a) /\ a.iid = <<"work", e>> /\ a.start = step /\ step <= a.end
  <2>1. PICK t, size : t = <<"work", e>> /\ size = 1
    OBVIOUS
  <2>2. a = Lifetime(t, size, step, {step}, FALSE)
    BY <1>1, <1>4, <2>1 DEF WorkRecord
  <2>3. size \in Nat \ {0}
    BY <2>1
  <2>4. OneStepLong(a, t, step)
    BY <1>3, <2>2, <2>3, OneStep
  <2> QED
    BY <2>1, <2>4 DEF OneStepLong
<1>6. ASSUME NEW s \in Nat, Needed(<<"work", e>>, building, training, s) PROVE s = step
  BY <1>3, <1>6, NeedsByName
<1> QED
  BY <1>3, <1>4, <1>5, <1>6 DEF Suits

LEMMA BackworkRecordSuits == ASSUME TraceReady, NEW e \in Backworkers PROVE Suits(BackworkRecord(e))
<1>1. PICK N, step : N = Len(graph.edges) /\ step = BackwardStep(e)
  OBVIOUS
<1>2. e \in Range(building.backward)
  BY DEF Backworkers
<1>3. step \in 0..LastStep /\ LastStep \in Nat /\ step = BStep(building, e)
  <2>1. /\ N \in Nat /\ step = BStep(building, e)
        /\ IF training
           THEN /\ Range(building.backward) = Layers /\ LastStep = N + N + 1
                /\ \A d \in Layers : BStep(building, d) \in (N + 1)..(N + N)
           ELSE Range(building.backward) = {}
    BY <1>1, TraceSteps
  <2>2. BStep(building, e) \in (N + 1)..(N + N) /\ LastStep = N + N + 1
    BY <1>2, <2>1
  <2> QED
    BY <2>1, <2>2
<1>4. PICK a : a = BackworkRecord(e)
  OBVIOUS
<1>5. Typed(a) /\ a.iid = <<"backwork", e>> /\ a.start = step /\ step <= a.end
  <2>1. PICK t, size : t = <<"backwork", e>> /\ size = 1
    OBVIOUS
  <2>2. a = Lifetime(t, size, step, {step}, FALSE)
    BY <1>1, <1>4, <2>1 DEF BackworkRecord
  <2>3. size \in Nat \ {0}
    BY <2>1
  <2>4. OneStepLong(a, t, step)
    BY <1>3, <2>2, <2>3, OneStep
  <2> QED
    BY <2>1, <2>4 DEF OneStepLong
<1>6. ASSUME NEW s \in Nat, Needed(<<"backwork", e>>, building, training, s) PROVE s = step
  BY <1>3, <1>6, NeedsByName
<1> QED
  BY <1>3, <1>4, <1>5, <1>6 DEF Suits

LEMMA MaskRecordSuits == ASSUME TraceReady, NEW e \in Maskers PROVE Suits(MaskRecord(e))
<1>1. PICK N, last, start, back : /\ N = Len(graph.edges) /\ last = LastStep
                                  /\ start = ForwardStep(e) /\ back = BackwardStep(e)
  OBVIOUS
<1>2. e \in Layers
  BY DEF Maskers
<1>3. /\ N \in Nat /\ last \in Nat /\ start \in 1..N
      /\ start = FStep(building, e) /\ back = BStep(building, e)
      /\ IF training THEN e \in Range(building.backward) /\ last = N + N + 1 /\ back \in (N + 1)..(N + N)
                     ELSE Range(building.backward) = {} /\ last = N + 1
  BY <1>1, <1>2, TraceSteps
<1>4. PICK uses, kept :
          uses = (IF e \in Range(building.backward) THEN {back} ELSE {}) /\ kept = FALSE
  OBVIOUS
<1>5. uses \subseteq 0..last /\ start \in Nat
  <2>1. CASE training
    <3>1. uses = {back} /\ back \in 0..last
      BY <1>3, <1>4, <2>1
    <3> QED
      BY <1>3, <3>1
  <2>2. CASE ~training
    BY <1>3, <1>4, <2>2
  <2> QED
    BY <2>1, <2>2
<1>6. PICK a : a = MaskRecord(e)
  OBVIOUS
<1>7. /\ Typed(a) /\ a.iid = Mask(e) /\ a.start = start
      /\ \A u \in uses : u <= a.end
      /\ uses = {} => a.end = last
  <2>1. PICK size : size = 1
    OBVIOUS
  <2>2. a = Lifetime(Mask(e), size, start, uses, kept)
    BY <1>1, <1>4, <1>6, <2>1 DEF MaskRecord
  <2>4. size \in Nat \ {0} /\ uses \subseteq 0..LastStep /\ LastStep \in Nat
    BY <1>1, <1>3, <1>5, <2>1
  <2>3. Spans(a, Mask(e), start, uses, kept)
    BY <1>5, <2>2, <2>4, LifetimeOf
  <2> QED
    BY <1>1, <2>3 DEF Spans
<1>8. ASSUME NEW s \in Nat, Needed(Mask(e), building, training, s)
      PROVE  start <= s /\ s <= a.end
  <2>1. start <= s /\ (s <= start \/ (training /\ s <= back))
    <3>1. MaskNeeded(e, building, training, s)
      BY <1>8, NeedsByName
    <3> QED
      BY <1>3, <3>1 DEF MaskNeeded
  <2>2. a.end \in Nat
    BY <1>7 DEF Typed, Sized
  <2>3. CASE training
    <3>1. back <= a.end
      BY <1>3, <1>4, <1>7, <2>3
    <3>2. back \in Nat /\ start < back
      BY <1>3, <2>3
    <3> QED
      BY <1>5, <2>1, <2>2, <3>1, <3>2
  <2>4. CASE ~training
    <3>1. a.end = last /\ s <= start /\ last = N + 1
      BY <1>3, <1>4, <1>7, <2>1, <2>4
    <3> QED
      BY <1>3, <2>1, <3>1
  <2> QED
    BY <2>3, <2>4
<1> QED
  BY <1>6, <1>7, <1>8 DEF Suits

(* The memory of the gradient of an output is the caller's.                *)
LEMMA OutputRecordSuits == ASSUME TraceReady, NEW n \in graph.outputs PROVE Suits(OutputRecord(n))
<1>1. PICK N, last : N = Len(graph.edges) /\ last = LastStep
  OBVIOUS
<1>2. PICK B : B = [e \in Layers |-> BStep(building, e)]
  OBVIOUS
<1>3. /\ N \in Nat /\ last \in Nat /\ Len(building.forward) = N
      /\ \A e \in Layers : BackwardStep(e) = B[e]
      /\ IF training THEN last = N + N + 1 /\ \A e \in Layers : B[e] \in (N + 1)..(N + N)
                     ELSE Range(building.backward) = {}
  BY <1>1, <1>2, TraceSteps
<1>4. PICK uses, kept : /\ uses = (IF Range(building.backward) = {} THEN {} ELSE GradUses(n))
                        /\ kept = (n \in graph.inputs)
  OBVIOUS
<1>5. uses \subseteq 0..last
  <2>1. ASSUME NEW u \in uses PROVE u \in 0..last
    <3>1. training /\ u \in GradUses(n)
      BY <1>3, <1>4, <2>1
    <3>2. PICK e \in Writers(n) : u = BackwardStep(e)
      BY <3>1 DEF GradUses
    <3>3. u \in (N + 1)..(N + N) /\ last = N + N + 1
      BY <1>3, <3>1, <3>2 DEF Writers
    <3> QED
      BY <1>3, <3>3
  <2> QED
    BY <2>1
<1>6. PICK size : size = graph.size[n] /\ size \in Nat \ {0}
  <2>1. n \in Nodes
    BY NodeFacts DEF TraceReady
  <2> QED
    BY <2>1, SizesOfNodes DEF TraceReady
<1>7. PICK a : a = OutputRecord(n)
  OBVIOUS
<1>8. Typed(a) /\ a.iid = OutputGrad(n)
  <2>1. a = Lifetime(OutputGrad(n), size, N, uses, kept)
    BY <1>3, <1>4, <1>6, <1>7 DEF OutputRecord
  <2>2. uses \subseteq 0..LastStep /\ LastStep \in Nat
    BY <1>1, <1>3, <1>5
  <2>3. Spans(a, OutputGrad(n), N, uses, kept)
    BY <1>3, <1>6, <2>1, <2>2, LifetimeOf
  <2> QED
    BY <2>3 DEF Spans
<1>9. External(OutputGrad(n))
  BY DEF External, OutputGrad
<1> QED
  <2>1. ASSUME NEW s PROVE ~Needed(OutputGrad(n), building, training, s)
    BY <1>9, NeedsByName
  <2> QED
    BY <1>7, <1>8, <2>1 DEF Suits

LEMMA KeeperKeeps ==
    ASSUME NEW slot
    PROVE  Keeper(slot[1], slot[2]) <=> Keeps(building, slot)
<1>1. \A e : BackwardStep(e) = BStep(building, e)
  BY DEF BackwardStep, BStep
<1> QED
  BY <1>1 DEF Keeper, Keeps, NodeAt

LEMMA GradRecordSuits == ASSUME TraceReady, NEW slot \in BackSlots PROVE Suits(GradRecord(slot))
<1>1. PICK N, last : N = Len(graph.edges) /\ last = LastStep
  OBVIOUS
<1>2. PICK B : B = [e \in Layers |-> BStep(building, e)]
  OBVIOUS
<1>3. PICK e, n, step : e = slot[1] /\ n = NodeAt(slot) /\ step = BackwardStep(e)
  OBVIOUS
<1>4. slot \in Slots /\ e \in Range(building.backward)
  BY <1>3 DEF BackSlots
<1>5. e \in Layers /\ n \in Range(Reads(e))
  BY <1>3, <1>4 DEF Slots, NodeAt, Range
<1>6. /\ N \in Nat /\ last \in Nat /\ End(building) = last /\ last = N + N + 1 /\ training
      /\ \A d \in Layers : /\ BackwardStep(d) = B[d] /\ BStep(building, d) = B[d]
                           /\ B[d] \in (N + 1)..(N + N)
      /\ \A c, d \in Layers :
             Range(Writes(c)) \cap Range(Reads(d)) # {} => B[d] < B[c]
  BY <1>1, <1>2, <1>4, TraceSteps
<1>7. step = B[e] /\ step \in 0..last /\ step \in Nat
  BY <1>3, <1>5, <1>6
<1>8. PICK size : size = graph.size[n]
  OBVIOUS
<1>9. n \in Nodes /\ size \in Nat \ {0}
  <2>1. n \in Nodes
    BY <1>5, NodeFacts DEF TraceReady
  <2> QED
    BY <1>8, <2>1, SizesOfNodes DEF TraceReady
<1>10. PICK t : t = GradAt(slot)
  OBVIOUS
<1>11. PICK a : a = GradRecord(slot)
  OBVIOUS
<1>12. ASSUME NEW s \in Nat, Needed(t, building, training, s)
       PROVE  \/ s = step
              \/ /\ Keeps(building, slot) /\ step <= s
                 /\ \/ n \in graph.inputs /\ s <= last
                    \/ \E d \in Writers(n) : s <= BStep(building, d)
  <2>1. GradNeeded(slot, building, s)
    BY <1>4, <1>10, <1>12, NeedsByName
  <2>2. BStep(building, slot[1]) = step
    BY <1>3, <1>5, <1>6, <1>7
  <2> QED
    BY <1>3, <1>6, <2>1, <2>2 DEF GradNeeded
<1>13. CASE ~Keeps(building, slot)
  <2>1. a = Lifetime(t, size, step, {step}, FALSE)
    BY <1>3, <1>8, <1>10, <1>11, <1>13, KeeperKeeps DEF GradRecord
  <2>2. OneStepLong(a, t, step)
    BY <1>1, <1>6, <1>7, <1>9, <2>1, OneStep
  <2>3. Typed(a) /\ a.iid = t /\ a.start = step /\ step <= a.end
    BY <2>2 DEF OneStepLong
  <2>4. ASSUME NEW s \in Nat, Needed(t, building, training, s) PROVE s = step
    BY <1>12, <1>13, <2>4
  <2> QED
    BY <1>7, <1>11, <2>3, <2>4 DEF Suits
<1>14. CASE Keeps(building, slot)
  <2>1. PICK uses, kept : uses = GradUses(n) /\ kept = (n \in graph.inputs)
    OBVIOUS
  <2>2. /\ uses = {B[d] : d \in Writers(n)}
        /\ \A d \in Writers(n) : d \in Layers /\ step < B[d]
    <3>1. \A d \in Writers(n) : d \in Layers /\ n \in Range(Writes(d))
      BY DEF Writers
    <3>2. uses = {B[d] : d \in Writers(n)}
      BY <1>6, <2>1, <3>1 DEF GradUses
    <3> QED
      BY <1>5, <1>6, <1>7, <3>1, <3>2
  <2>3. uses \subseteq 0..last
    BY <1>6, <2>2
  <2>4. a = Lifetime(t, size, step, uses, kept)
    BY <1>3, <1>8, <1>10, <1>11, <1>14, <2>1, KeeperKeeps DEF GradRecord
  <2>5. Spans(a, t, step, uses, kept)
    <3>1. LastStep \in Nat /\ uses \subseteq 0..LastStep
      BY <1>1, <1>6, <2>3
    <3> QED
      BY <1>7, <1>9, <2>4, <3>1, LifetimeOf
  <2>6. /\ Typed(a) /\ a.iid = t /\ a.start = step
        /\ \A u \in uses : u <= a.end
        /\ kept \/ uses = {} => a.end = last
        /\ a.end = last \/ a.end \in uses
    BY <1>1, <2>5 DEF Spans
  <2>7. a.end \in Nat
    BY <2>6 DEF Typed, Sized
  <2>8. step <= a.end
    <3>1. \A u \in uses : step <= u
      BY <1>6, <1>7, <2>2
    <3> QED
      BY <1>6, <1>7, <2>6, <3>1
  <2>9. ASSUME NEW s \in Nat, Needed(t, building, training, s) PROVE step <= s /\ s <= a.end
    <3>1. CASE s = step
      BY <2>8, <1>7, <3>1
    <3>2. CASE step <= s /\ n \in graph.inputs /\ s <= last
      BY <2>1, <2>6, <3>2
    <3>3. CASE step <= s /\ \E d \in Writers(n) : s <= BStep(building, d)
      <4>1. PICK d \in Writers(n) : s <= BStep(building, d)
        BY <3>3
      <4>2. B[d] \in uses /\ s <= B[d] /\ B[d] \in Nat
        BY <1>6, <2>2, <4>1
      <4> QED
        BY <2>6, <2>7, <3>3, <4>2
    <3> QED
      BY <1>12, <2>9, <3>1, <3>2, <3>3
  <2> QED
    BY <1>10, <1>11, <2>6, <2>9 DEF Suits
<1> QED
  BY <1>13, <1>14

LEMMA TraceSuits == ASSUME TraceReady, NEW a \in Trace PROVE Suits(a)
<1>1. \/ \E n \in Nodes : a = DataRecord(n)
      \/ \E e \in Workers : a = WorkRecord(e)
      \/ \E e \in Maskers : a = MaskRecord(e)
      \/ \E n \in graph.outputs : a = OutputRecord(n)
      \/ \E e \in Backworkers : a = BackworkRecord(e)
      \/ \E slot \in BackSlots : a = GradRecord(slot)
  BY TraceIs
<1> QED
  BY <1>1, DataRecordSuits, WorkRecordSuits, MaskRecordSuits, OutputRecordSuits,
     BackworkRecordSuits, GradRecordSuits

(* There is a record for whatever is needed.                               *)
LEMMA TraceHas ==
    ASSUME TraceReady, NEW s, NEW t, Needed(t, building, training, s)
    PROVE  \E a \in Trace : a.iid = t
<1>1. /\ \A n : DataRecord(n).iid = Data(n)
      /\ \A e : WorkRecord(e).iid = <<"work", e>> /\ MaskRecord(e).iid = Mask(e)
                /\ BackworkRecord(e).iid = <<"backwork", e>>
      /\ \A slot : GradRecord(slot).iid = GradAt(slot)
  BY DEF DataRecord, WorkRecord, MaskRecord, BackworkRecord, GradRecord, Lifetime
<1>2. /\ \A e : Saved(e) = SavedIn(e, training)
      /\ training => Range(building.backward) = Layers
  <2>1. PICK N : N = Len(graph.edges)
    OBVIOUS
  <2> QED
    BY <2>1, TraceSteps
<1>3. /\ \A n \in Nodes : DataRecord(n) \in Trace
      /\ \A e \in Workers : WorkRecord(e) \in Trace
      /\ \A e \in Maskers : MaskRecord(e) \in Trace
      /\ \A e \in Backworkers : BackworkRecord(e) \in Trace
      /\ \A slot \in BackSlots : GradRecord(slot) \in Trace
  BY TraceIs
<1>4. CASE \E n \in Nodes \ graph.inputs : t = <<"data", n>>
  BY <1>1, <1>3, <1>4 DEF Data
<1>5. CASE \E e \in Layers : t = Mask(e) /\ MaskNeeded(e, building, training, s)
  BY <1>1, <1>2, <1>3, <1>5 DEF MaskNeeded, Maskers
<1>6. CASE \E e \in Layers : t = <<"work", e>> /\ "forward" \in Does(e).scratch
  BY <1>1, <1>3, <1>6 DEF Workers
<1>7. CASE training /\ \E e \in Layers : t = <<"backwork", e>> /\ "backward" \in Does(e).scratch
  BY <1>1, <1>2, <1>3, <1>7 DEF Backworkers
<1>8. CASE training /\ \E slot \in Slots : t = GradAt(slot)
  <2>1. PICK slot \in Slots : t = GradAt(slot)
    BY <1>8
  <2>2. slot[1] \in Layers
    BY DEF Slots
  <2>3. slot \in BackSlots
    BY <1>2, <1>8, <2>2 DEF BackSlots
  <2> QED
    BY <1>1, <1>3, <2>1, <2>3
<1> QED
  BY <1>4, <1>5, <1>6, <1>7, <1>8 DEF Needed

LEMMA FiniteImage ==
    ASSUME NEW S, IsFiniteSet(S), NEW f, NEW T, T = {f[x] : x \in S}
    PROVE  IsFiniteSet(T)
<1>1. PICK g : g = [x \in S |-> f[x]]
  OBVIOUS
<1>2. g \in Surjection(S, T)
  BY <1>1 DEF Surjection
<1> QED
  BY <1>2, FS_Surjection

LEMMA TraceFinite == ASSUME TraceReady PROVE IsFiniteSet(Trace)
<1>1. IsFiniteSet(Nodes) /\ IsFiniteSet(Layers) /\ IsFiniteSet(Slots)
  BY SizesOfNodes, EdgeFacts, SlotsFinite DEF TraceReady
<1>2. /\ Workers \subseteq Layers /\ Maskers \subseteq Layers /\ graph.outputs \subseteq Nodes
      /\ Backworkers \subseteq Layers /\ BackSlots \subseteq Slots
  <2>1. graph.outputs \subseteq Nodes
    BY NodeFacts DEF TraceReady
  <2>2. Range(building.backward) \subseteq Layers
    <3>1. PICK N : N = Len(graph.edges)
      OBVIOUS
    <3>2. IF training THEN Range(building.backward) = Layers ELSE Range(building.backward) = {}
      BY <3>1, TraceSteps
    <3> QED
      BY <3>2
  <2> QED
    BY <2>1, <2>2 DEF Workers, Maskers, Backworkers, BackSlots
<1>3. /\ IsFiniteSet(Workers) /\ IsFiniteSet(Maskers) /\ IsFiniteSet(graph.outputs)
      /\ IsFiniteSet(Backworkers) /\ IsFiniteSet(BackSlots)
  BY <1>1, <1>2, FS_Subset
<1>4. IsFiniteSet({DataRecord(n) : n \in Nodes})
  <2>1. PICK f, T : f = [n \in Nodes |-> DataRecord(n)] /\ T = {DataRecord(n) : n \in Nodes}
    OBVIOUS
  <2>2. T = {f[n] : n \in Nodes} /\ IsFiniteSet(Nodes)
    BY <1>1, <2>1
  <2>3. IsFiniteSet(T)
    BY <2>2, FiniteImage
  <2> QED
    BY <2>1, <2>3
<1>5. IsFiniteSet({WorkRecord(e) : e \in Workers})
  <2>1. PICK f, T : f = [e \in Workers |-> WorkRecord(e)] /\ T = {WorkRecord(e) : e \in Workers}
    OBVIOUS
  <2>2. T = {f[e] : e \in Workers} /\ IsFiniteSet(Workers)
    BY <1>3, <2>1
  <2>3. IsFiniteSet(T)
    BY <2>2, FiniteImage
  <2> QED
    BY <2>1, <2>3
<1>6. IsFiniteSet({MaskRecord(e) : e \in Maskers})
  <2>1. PICK f, T : f = [e \in Maskers |-> MaskRecord(e)] /\ T = {MaskRecord(e) : e \in Maskers}
    OBVIOUS
  <2>2. T = {f[e] : e \in Maskers} /\ IsFiniteSet(Maskers)
    BY <1>3, <2>1
  <2>3. IsFiniteSet(T)
    BY <2>2, FiniteImage
  <2> QED
    BY <2>1, <2>3
<1>7. IsFiniteSet({OutputRecord(n) : n \in graph.outputs})
  <2>1. PICK f, T : f = [n \in graph.outputs |-> OutputRecord(n)] /\ T = {OutputRecord(n) : n \in graph.outputs}
    OBVIOUS
  <2>2. T = {f[n] : n \in graph.outputs} /\ IsFiniteSet(graph.outputs)
    BY <1>3, <2>1
  <2>3. IsFiniteSet(T)
    BY <2>2, FiniteImage
  <2> QED
    BY <2>1, <2>3
<1>8. IsFiniteSet({BackworkRecord(e) : e \in Backworkers})
  <2>1. PICK f, T : f = [e \in Backworkers |-> BackworkRecord(e)] /\ T = {BackworkRecord(e) : e \in Backworkers}
    OBVIOUS
  <2>2. T = {f[e] : e \in Backworkers} /\ IsFiniteSet(Backworkers)
    BY <1>3, <2>1
  <2>3. IsFiniteSet(T)
    BY <2>2, FiniteImage
  <2> QED
    BY <2>1, <2>3
<1>9. IsFiniteSet({GradRecord(slot) : slot \in BackSlots})
  <2>1. PICK f, T : f = [slot \in BackSlots |-> GradRecord(slot)] /\ T = {GradRecord(slot) : slot \in BackSlots}
    OBVIOUS
  <2>2. T = {f[slot] : slot \in BackSlots} /\ IsFiniteSet(BackSlots)
    BY <1>3, <2>1
  <2>3. IsFiniteSet(T)
    BY <2>2, FiniteImage
  <2> QED
    BY <2>1, <2>3
<1> QED
  BY <1>4, <1>5, <1>6, <1>7, <1>8, <1>9, TraceIs, FS_Union

(* So the trace is what the packer works on, and all that it has to.       *)
LEMMA TraceTraced ==
    ASSUME TraceReady
    PROVE  /\ Traced(Trace, building, training)
           /\ IsFiniteSet(Trace) /\ \E iids : Trace \subseteq Allocations(iids)
<1>1. \A a \in Trace : Suits(a)
  BY TraceSuits
<1>2. Traced(Trace, building, training)
  BY <1>1, TraceHas DEF Traced, Suits
<1>3. PICK iids : iids = {a.iid : a \in Trace}
  OBVIOUS
<1>4. ASSUME NEW a \in Trace PROVE a \in Allocations(iids)
  <2>1. Typed(a) /\ a.iid \in iids
    BY <1>1, <1>3 DEF Suits
  <2> QED
    BY <2>1 DEF Typed, Sized, Allocations
<1> QED
  BY <1>2, <1>4, TraceFinite

----------------------------------------------------------------------------
(* The packer places all that is needed, apart.                            *)

LEMMA PackFresh ==
    ASSUME placed' = {}, IsFiniteSet(todo'), \E iids : todo' \subseteq Allocations(iids)
    PROVE  PackInv'
<1>1. TodoSized'
  BY DEF TodoSized
<1>2. PlacedSized' /\ NoOverlap'
  BY DEF PlacedSized, NoOverlap
<1>3. Candidates' = {0}
  BY DEF Candidates
<1>4. Topped'
  BY <1>3 DEF Topped
<1> QED
  BY <1>1, <1>2, <1>4 DEF PackInv

LEMMA PackSame == ASSUME PackInv, UNCHANGED packerVars PROVE PackInv'
BY PackInvStep

LEMMA PlansApartSame ==
    ASSUME UNCHANGED <<graph, plans>>, \A trains \in DOMAIN plans : KeptApart(plans[trains], trains)
    PROVE  \A trains \in DOMAIN plans' : KeptApart(plans[trains], trains)'
<1> SUFFICES ASSUME NEW trains \in DOMAIN plans PROVE KeptApart(plans[trains], trains)'
  OBVIOUS
<1>1. PICK plan : plan = plans[trains]
  OBVIOUS
<1>2. KeptApart(plan, trains)
  BY <1>1
<1>3. KeptApart(plan, trains)'
  BY <1>2, KeptApartSame
<1> QED
  BY <1>1, <1>3

LEMMA TraceKept ==
    ASSUME TraceInv, UNCHANGED <<packerVars, graph, plans>>, phase # "packing", phase' # "packing"
    PROVE  TraceInv'
<1>1. PackInv' /\ todo' = {} /\ placed' = {}
  BY PackSame DEF TraceInv, packerVars
<1>2. \A trains \in DOMAIN plans' : KeptApart(plans[trains], trains)'
  BY PlansApartSame DEF TraceInv
<1> QED
  BY <1>1, <1>2 DEF TraceInv

LEMMA TracingTraces == ASSUME PlanInv, WellBuilt, TraceInv, TraceBuffers PROVE TraceInv'
<1>1. /\ phase = "tracing" /\ phase' = "packing" /\ todo' = Trace
      /\ UNCHANGED <<placed, graph, plans, building, training>>
  BY DEF TraceBuffers, planVars
<1>2. todo = {} /\ placed = {}
  BY <1>1 DEF TraceInv
<1>3. TraceReady
  BY <1>1 DEF TraceReady, PlanInv, Finished
<1>4. /\ Traced(Trace, building, training)
      /\ IsFiniteSet(Trace) /\ \E iids : Trace \subseteq Allocations(iids)
  BY <1>3, TraceTraced
<1>5. PackInv'
  BY <1>1, <1>2, <1>4, PackFresh
<1>6. PICK S, b, trains : S = Trace /\ b = building /\ trains = training
  OBVIOUS
<1>7. Traced(S, b, trains)'
  BY <1>1, <1>4, <1>6, TracedSame
<1>8. todo' \cup placed' = S /\ building' = b /\ training' = trains
  BY <1>1, <1>2, <1>6
<1>9. Traced(todo \cup placed, building, training)'
  BY <1>7, <1>8
<1>10. \A trains2 \in DOMAIN plans' : KeptApart(plans[trains2], trains2)'
  BY <1>1, PlansApartSame DEF TraceInv
<1> QED
  BY <1>1, <1>5, <1>9, <1>10 DEF TraceInv

LEMMA PackingTraces == ASSUME TraceInv, Pack PROVE TraceInv'
<1>1. /\ phase = "packing" /\ phase' = "packing" /\ PlaceNext
      /\ UNCHANGED <<graph, plans, building, training>>
  BY DEF Pack, planVars
<1>2. PackInv /\ PackInv'
  BY <1>1, PackInvStep DEF TraceInv
<1>3. PICK S, b, trains : S = todo \cup placed /\ b = building /\ trains = training
  OBVIOUS
<1>4. Traced(S, b, trains)
  BY <1>1, <1>3 DEF TraceInv
<1>5. PICK a : a = Largest(todo)
  OBVIOUS
<1>6. a \in todo
  BY <1>1, <1>2, <1>5, LargestOfTodo DEF PlaceNext, PackInv
<1>7. PICK c : placed' = placed \cup {[iid |-> a.iid, size |-> a.size, start |-> a.start,
                                       end |-> a.end, offset |-> c]}
  BY <1>1, <1>5 DEF PlaceNext
<1>8. PICK p : p = [iid |-> a.iid, size |-> a.size, start |-> a.start, end |-> a.end, offset |-> c]
  OBVIOUS
<1>9. p.iid = a.iid /\ p.start = a.start /\ p.end = a.end
  BY <1>8
<1>10. PICK T : T = todo' \cup placed'
  OBVIOUS
<1>11. T = (S \ {a}) \cup {p} \/ T = S \cup {p}
  BY <1>1, <1>3, <1>5, <1>6, <1>7, <1>8, <1>10 DEF PlaceNext
<1>12. Traced(T, b, trains)
  <2>1. ASSUME NEW q \in T, NEW s \in Nat, Needed(q.iid, b, trains, s)
        PROVE  q.start <= s /\ s <= q.end
    BY <1>3, <1>4, <1>6, <1>9, <1>11, <2>1 DEF Traced
  <2>2. ASSUME NEW t, NEW s \in Nat, Needed(t, b, trains, s)
        PROVE  \E q \in T : q.iid = t
    BY <1>4, <1>9, <1>11, <2>2 DEF Traced
  <2> QED
    BY <2>1, <2>2 DEF Traced
<1>13. Traced(T, b, trains)'
  BY <1>1, <1>12, TracedSame
<1>14. todo' \cup placed' = T /\ building' = b /\ training' = trains
  BY <1>1, <1>3, <1>10
<1>15. Traced(todo \cup placed, building, training)'
  BY <1>13, <1>14
<1>16. \A trains2 \in DOMAIN plans' : KeptApart(plans[trains2], trains2)'
  BY <1>1, PlansApartSame DEF TraceInv
<1> QED
  BY <1>1, <1>2, <1>15, <1>16 DEF TraceInv

LEMMA PlaceOf ==
    ASSUME NEW t, \E p \in placed : p.iid = t
    PROVE  /\ t \in DOMAIN Places
           /\ \E p \in placed : p.iid = t /\ Places[t] = p.offset..(p.offset + p.size - 1)
<1>1. PICK p : p = CHOOSE q \in placed : q.iid = t
  OBVIOUS
<1>2. p \in placed /\ p.iid = t
  BY <1>1
<1>3. t \in {q.iid : q \in placed}
  BY <1>2
<1>4. Places[t] = p.offset..(p.offset + p.size - 1) /\ t \in DOMAIN Places
  BY <1>1, <1>3 DEF Places
<1> QED
  BY <1>2, <1>4

LEMMA PlacesApart ==
    ASSUME PackInv, Traced(placed, building, training),
           NEW plan, plan.forward = building.forward, plan.backward = building.backward,
           plan.places = Places
    PROVE  KeptApart(plan, training)
<1>1. \A t, s : Needed(t, plan, training, s) <=> Needed(t, building, training, s)
  BY NeedsOfOrders
<1>2. ASSUME NEW t, NEW s \in Nat, Needed(t, plan, training, s)
      PROVE  /\ t \in DOMAIN Places
             /\ \E p \in placed :
                    /\ p.iid = t /\ Places[t] = p.offset..(p.offset + p.size - 1)
                    /\ p.start <= s /\ s <= p.end
  <2>1. Needed(t, building, training, s)
    BY <1>1, <1>2
  <2>2. \E p \in placed : p.iid = t
    BY <2>1 DEF Traced
  <2>3. /\ t \in DOMAIN Places
        /\ \E p \in placed : p.iid = t /\ Places[t] = p.offset..(p.offset + p.size - 1)
    BY <2>2, PlaceOf
  <2> QED
    BY <2>1, <2>3 DEF Traced
<1>3. ASSUME NEW t, NEW s \in Nat, Needed(t, plan, training, s),
             NEW u, u # t, Needed(u, plan, training, s)
      PROVE  Places[u] \cap Places[t] = {}
  <2>1. PICK p \in placed : /\ p.iid = t /\ Places[t] = p.offset..(p.offset + p.size - 1)
                            /\ p.start <= s /\ s <= p.end
    BY <1>2, <1>3
  <2>2. PICK q \in placed : /\ q.iid = u /\ Places[u] = q.offset..(q.offset + q.size - 1)
                            /\ q.start <= s /\ s <= q.end
    BY <1>2, <1>3
  <2>3. Apart(p, q)
    BY <1>3, <2>1, <2>2 DEF PackInv, NoOverlap
  <2>4. /\ p.size \in Nat /\ p.offset \in Nat /\ p.start \in Nat /\ p.end \in Nat
        /\ q.size \in Nat /\ q.offset \in Nat /\ q.start \in Nat /\ q.end \in Nat
    BY DEF PackInv, PlacedSized, Sized
  <2>5. s \in p.start..p.end /\ s \in q.start..q.end
    BY <2>1, <2>2, <2>4
  <2>6. p.offset + p.size <= q.offset \/ q.offset + q.size <= p.offset
    BY <2>3, <2>5 DEF Apart
  <2>7. \A i : ~(i \in p.offset..(p.offset + p.size - 1) /\ i \in q.offset..(q.offset + q.size - 1))
    BY <2>4, <2>6
  <2> QED
    BY <2>1, <2>2, <2>7
<1> QED
  BY <1>2, <1>3 DEF KeptApart

LEMMA PlanBuiltPlaces == ASSUME PlanInv, TraceInv, PlanBuilt PROVE TraceInv'
<1>1. /\ phase = "packing" /\ phase' = "forward" /\ todo = {} /\ todo' = {} /\ placed' = {}
      /\ UNCHANGED <<graph, training>>
  BY DEF PlanBuilt, BeginForward
<1>2. PICK plan : plan = [forward |-> building.forward, backward |-> building.backward,
                          places |-> Places]
  OBVIOUS
<1>3. plans' = [t \in DOMAIN plans \cup {training} |-> IF t # training THEN plans[t] ELSE plan]
  BY <1>2 DEF PlanBuilt
<1>4. PackInv'
  <2>1. IsFiniteSet({}) /\ {} \subseteq Allocations({})
    BY FS_EmptySet
  <2> QED
    BY <1>1, <2>1, PackFresh
<1>5. KeptApart(plan, training)
  <2>1. Traced(placed, building, training)
    <3>1. Traced(todo \cup placed, building, training) /\ todo \cup placed = placed
      BY <1>1 DEF TraceInv
    <3> QED
      BY <3>1
  <2>2. PackInv
    BY DEF TraceInv
  <2>3. plan.forward = building.forward /\ plan.backward = building.backward /\ plan.places = Places
    BY <1>2
  <2> QED
    BY <2>1, <2>2, <2>3, PlacesApart
<1>6. ASSUME NEW trains \in DOMAIN plans' PROVE KeptApart(plans[trains], trains)'
  <2>1. PICK other : other = plans'[trains]
    OBVIOUS
  <2>2. KeptApart(other, trains)
    BY <1>3, <1>5, <1>6, <2>1 DEF TraceInv
  <2>3. KeptApart(other, trains)'
    BY <1>1, <2>2, KeptApartSame
  <2> QED
    BY <2>1, <2>3
<1> QED
  BY <1>1, <1>4, <1>6 DEF TraceInv

LEMMA TraceInit == Init => TraceInv
<1> SUFFICES ASSUME Init PROVE TraceInv
  OBVIOUS
<1>1. phase # "packing" /\ todo = {} /\ placed = {} /\ DOMAIN plans = {}
  BY DEF Init, Empty
<1>2. PackInit
  <2>1. IsFiniteSet({}) /\ {} \subseteq Allocations({})
    BY FS_EmptySet
  <2> QED
    BY <1>1, <2>1 DEF PackInit
<1>3. PackInv
  BY <1>2, PackInvInit
<1> QED
  BY <1>1, <1>3 DEF TraceInv

LEMMA TraceStep == PlanInv /\ PassInv /\ TraceInv /\ [Next]_vars => TraceInv'
<1> SUFFICES ASSUME PlanInv, PassInv, TraceInv, [Next]_vars PROVE TraceInv'
  OBVIOUS
<1>1. CASE StartPlan
  BY <1>1, TraceKept DEF StartPlan, planVars
<1>2. CASE Solve
  BY <1>2, TraceKept DEF Solve, planVars
<1>3. CASE ForwardOrderFound
  <2>1. UNCHANGED <<packerVars, graph, plans>> /\ phase = "forward order" /\ phase' # "packing"
    BY <1>3 DEF ForwardOrderFound
  <2> QED
    BY <2>1, TraceKept
<1>4. CASE BackwardOrderFound
  BY <1>4, TraceKept DEF BackwardOrderFound
<1>5. CASE TraceBuffers
  BY <1>5, TracingTraces DEF PassInv
<1>6. CASE Pack
  BY <1>6, PackingTraces
<1>7. CASE PlanBuilt
  BY <1>7, PlanBuiltPlaces
<1>8. CASE CallForward
  BY <1>8, TraceKept DEF CallForward, BeginForward, planVars
<1>9. CASE ForwardLayer \/ StoreForward \/ ReturnOutputs \/ DropOutputs
  <2>1. /\ phase \in {"forward", "computed"} /\ phase' \in {"forward", "computed", "failed"}
        /\ UNCHANGED <<packerVars, graph, plans>>
    BY <1>9 DEF ForwardLayer, StoreForward, ReturnOutputs, DropOutputs, Running, Fail, passVars, planVars
  <2> QED
    BY <2>1, TraceKept
<1>10. CASE Backward
  <2>1. /\ phase \in {"computed", "backward"} /\ phase' \in {"backward", "differentiated", "failed"}
        /\ UNCHANGED <<packerVars, graph, plans>>
    BY <1>10 DEF Backward, BeginBackward, BackwardLayer, StoreBackward, ReturnGradients, Running, Fail,
                passVars, planVars
  <2> QED
    BY <2>1, TraceKept
<1>11. CASE DropAll
  BY <1>11, TraceKept DEF DropAll, passVars, planVars
<1>12. CASE UNCHANGED vars
  <2>1. UNCHANGED <<packerVars, graph, plans, building, training, phase>>
    BY <1>12 DEF vars, planVars
  <2>2. CASE phase # "packing"
    BY <2>1, <2>2, TraceKept
  <2>3. CASE phase = "packing"
    <3>1. PackInv'
      BY <2>1, PackSame DEF TraceInv
    <3>2. PICK S, b, trains : S = todo \cup placed /\ b = building /\ trains = training
      OBVIOUS
    <3>3. Traced(S, b, trains)'
      BY <2>1, <2>3, <3>2, TracedSame DEF TraceInv
    <3>4. todo' \cup placed' = S /\ building' = b /\ training' = trains
      BY <2>1, <3>2 DEF packerVars
    <3>5. Traced(todo \cup placed, building, training)'
      BY <3>3, <3>4
    <3>6. \A trains2 \in DOMAIN plans' : KeptApart(plans[trains2], trains2)'
      BY <2>1, PlansApartSame DEF TraceInv
    <3> QED
      BY <2>1, <2>3, <3>1, <3>5, <3>6 DEF TraceInv
  <2> QED
    BY <2>2, <2>3
<1> QED
  BY <1>1, <1>2, <1>3, <1>4, <1>5, <1>6, <1>7, <1>8, <1>9, <1>10, <1>11, <1>12
     DEF Next, Build, Forward

----------------------------------------------------------------------------
(* Whose tensors there are.                                                *)

LEMMA KeptForSame ==
    ASSUME UNCHANGED graph, NEW n, NEW plan, NEW S, NEW t
    PROVE  KeptFor(n, plan, S, t)' <=> KeptFor(n, plan, S, t)
<1>1. ReadersOf(n)' = ReadersOf(n) /\ \A slot : Keeps(plan, slot)' <=> Keeps(plan, slot)
  BY GraphSame, KeepsSame
<1> QED
  BY <1>1 DEF KeptFor, GradAt, Grad

LEMMA KeptForMore ==
    ASSUME NEW n, NEW plan, NEW S, NEW T, S \subseteq T, NEW t, KeptFor(n, plan, S, t)
    PROVE  KeptFor(n, plan, T, t)
BY DEF KeptFor

LEMMA HeldOutputsSame ==
    ASSUME UNCHANGED graph, NEW S
    PROVE  HeldOutputs(S)' = HeldOutputs(S)
<1>1. /\ \A n : Data(n)' = Data(n)
      /\ \A e : Writes(e)' = Writes(e)
  BY GraphSame
<1> QED
  BY <1>1 DEF HeldOutputs

LEMMA DataKeptNext ==
    ASSUME UNCHANGED graph, NEW S, NEW B, Stored' = S, Begun' = B,
           \A n \in DOMAIN data' :
               /\ data'[n].tensor = Data(n)
               /\ n \in graph.inputs \/ \E e \in S : n \in Range(Writes(e))
               /\ ReadersOf(n) = {} \/ Unread(n, B) # 0
    PROVE  DataKept'
<1>1. \A n : Unread(n, Begun)' = Unread(n, B)
  BY DEF Unread, ReadersOf, Slots, Layers, Reads
<1>2. /\ \A n : ReadersOf(n)' = ReadersOf(n) /\ Data(n)' = Data(n)
      /\ \A e : Writes(e)' = Writes(e)
  BY GraphSame
<1> QED
  BY <1>1, <1>2 DEF DataKept

LEMMA GradsKeptNext ==
    ASSUME UNCHANGED graph, NEW S, NEW B, Stored' = S, Begun' = B, NEW plan, Plan' = plan,
           \A n \in DOMAIN grads' :
               /\ Takers(n, B) # 0
               /\ IF n \in graph.outputs THEN grads'[n].tensor = OutputGrad(n)
                  ELSE KeptFor(n, plan, S, grads'[n].tensor)
    PROVE  GradsKept'
<1>1. \A n : Takers(n, Begun)' = Takers(n, B)
  BY DEF Takers, Writers, Layers, Writes
<1>2. ASSUME NEW n, NEW t PROVE KeptFor(n, Plan, Stored, t)' <=> KeptFor(n, plan, S, t)
  <2>1. KeptFor(n, plan, S, t)' <=> KeptFor(n, plan, S, t)
    BY KeptForSame
  <2> QED
    BY <2>1
<1>3. ASSUME NEW n \in DOMAIN grads', n \notin graph.outputs
      PROVE  KeptFor(n, Plan, Stored, grads[n].tensor)'
  <2>1. PICK t : t = grads'[n].tensor
    OBVIOUS
  <2>2. KeptFor(n, plan, S, t)
    BY <1>3, <2>1
  <2>3. KeptFor(n, Plan, Stored, t)'
    BY <1>2, <2>2
  <2> QED
    BY <2>1, <2>3
<1> QED
  BY <1>1, <1>3 DEF GradsKept, OutputGrad

(* Outside of the passes, and at their ends, little is kept.               *)
LEMMA NoData == ASSUME data' = Empty PROVE DataKept'
BY DEF DataKept, Empty

LEMMA NoGrads == ASSUME grads' = Empty PROVE GradsKept'
BY DEF GradsKept, Empty

LEMMA NotInUse == ASSUME using' = {} PROVE InUse'
BY DEF InUse

LEMMA NotHeld == ASSUME held' = {} PROVE HeldKept'
BY DEF HeldKept, GivenBack

LEMMA NothingKept ==
    ASSUME data' = Empty, grads' = Empty, using' = {}, held' = {}
    PROVE  UseInv'
BY NoData, NoGrads, NotInUse, NotHeld DEF UseInv

(* A pass begins with its inputs.                                          *)
LEMMA BeginForwardUses ==
    ASSUME graph \in Graphs, BeginForward, using = {}, grads = Empty, held = {}
    PROVE  UseInv'
<1>1. /\ data' = [n \in graph.inputs |-> [tensor |-> Data(n), refs |-> DataRefs(n)]]
      /\ phase' = "forward" /\ position' = 1
      /\ UNCHANGED <<graph, grads, using, held>>
  BY DEF BeginForward
<1>2. PICK none : none = {}
  OBVIOUS
<1>3. Stored' = none /\ Begun' = none
  BY <1>1, <1>2 DEF Stored, Begun, Reached
<1>4. ASSUME NEW n \in DOMAIN data'
      PROVE  /\ data'[n].tensor = Data(n)
             /\ n \in graph.inputs \/ \E e \in none : n \in Range(Writes(e))
             /\ ReadersOf(n) = {} \/ Unread(n, none) # 0
  <2>1. n \in graph.inputs /\ data'[n].tensor = Data(n)
    BY <1>1
  <2>2. Unread(n, none) = Cardinality(ReadersOf(n))
    BY <1>2, UnreadBefore
  <2>3. IsFiniteSet(ReadersOf(n))
    BY SlotsFinite
  <2>4. Cardinality(ReadersOf(n)) = 0 <=> ReadersOf(n) = {}
    BY <2>3, FS_EmptySet
  <2> QED
    BY <2>1, <2>2, <2>4
<1>5. DataKept'
  BY <1>1, <1>3, <1>4, DataKeptNext
<1> QED
  BY <1>1, <1>5, NoGrads, NotInUse, NotHeld DEF UseInv

LEMMA ForwardLayerUses == ASSUME PlanInv, PassInv, UseInv, ForwardLayer PROVE UseInv'
<1>1. phase = "forward" /\ using = {} /\ position <= Len(Pass)
  BY DEF ForwardLayer, Running
<1>2. ~Missing(data, Reads(Layer))
  BY <1>1, ForwardFinds
<1>3. PICK e : e = Layer
  OBVIOUS
<1>4. /\ using' = {data[n].tensor : n \in Range(Reads(e))} \cup ForwardBuffers(e)
      /\ data' = Released(data, EachIn(Reads(e), data))
      /\ UNCHANGED <<graph, plans, training, phase, position, grads, residuals, held>>
  BY <1>2, <1>3 DEF ForwardLayer, passVars, planVars
<1>5. /\ graph \in Graphs /\ WellBuilt /\ DataCounted /\ Begun = Stored
      /\ e \in Layers \ Stored
  BY <1>1, <1>3, InForward DEF PlanInv, PassInv, Begun
<1>6. using' # {}
  <2>1. PICK n \in Range(Writes(e)) : TRUE
    BY <1>5, NodeFacts
  <2>2. <<"data", n>> \in ForwardBuffers(e)
    BY <2>1 DEF ForwardBuffers
  <2> QED
    BY <1>4, <2>2
<1>7. PICK S, B : S = Stored /\ B = Stored \cup {e}
  OBVIOUS
<1>8. Stored' = S /\ Begun' = B /\ Layer' = e
  BY <1>3, <1>4, <1>6, <1>7 DEF Stored, Begun, Pass, Plan, Layer
<1>9. ASSUME NEW n \in DOMAIN data'
      PROVE  /\ data'[n].tensor = Data(n)
             /\ n \in graph.inputs \/ \E d \in S : n \in Range(Writes(d))
             /\ ReadersOf(n) = {} \/ Unread(n, B) # 0
  <2>1. PICK times : times = EachIn(Reads(e), data)
    OBVIOUS
  <2>2. n \in DOMAIN data /\ (data[n].refs = 0 \/ data[n].refs > times[n])
    BY <1>4, <2>1 DEF Released
  <2>3. times[n] = Occurrences(n, Reads(e))
    BY <2>1, <2>2 DEF EachIn
  <2>4. /\ data[n].tensor = Data(n)
        /\ n \in graph.inputs \/ \E d \in S : n \in Range(Writes(d))
        /\ ReadersOf(n) = {} \/ Unread(n, S) # 0
    BY <1>5, <1>7, <2>2 DEF UseInv, DataKept
  <2>5. data[n] = [tensor |-> data[n].tensor, refs |-> Unread(n, S)]
    BY <1>5, <1>7, <2>2 DEF DataCounted
  <2>6. data[n].refs = Unread(n, S)
    BY <2>5
  <2>7. /\ Unread(n, S) \in Nat /\ Occurrences(n, Reads(e)) \in Nat
        /\ Unread(n, B) = Unread(n, S) - Occurrences(n, Reads(e))
    BY <1>5, <1>7, OneMore
  <2>8. data'[n].tensor = data[n].tensor
    <3>1. data'[n] = IF data[n].refs = 0 THEN data[n] ELSE [data[n] EXCEPT !.refs = @ - times[n]]
      BY <1>4, <2>1 DEF Released
    <3>2. PICK t, r : t = data[n].tensor /\ r = Unread(n, S)
      OBVIOUS
    <3>3. data[n] = [tensor |-> t, refs |-> r]
      BY <2>5, <3>2
    <3> QED
      BY <3>1, <3>3
  <2>9. ReadersOf(n) = {} \/ Unread(n, B) # 0
    BY <2>2, <2>3, <2>4, <2>6, <2>7
  <2> QED
    BY <2>4, <2>8, <2>9
<1>10. DataKept'
  BY <1>4, <1>8, <1>9, DataKeptNext
<1>11. InUse'
  <2>1. \A n \in Range(Reads(e)) : data[n].tensor = Data(n)
    <3>1. \A n \in Range(Reads(e)) : n \in DOMAIN data
      BY <1>2, <1>3 DEF Missing
    <3> QED
      BY <3>1 DEF UseInv, DataKept
  <2>2. using' = {Data(n) : n \in Range(Reads(e))} \cup ForwardBuffers(e)
    BY <1>4, <2>1
  <2>3. \A n : Data(n)' = Data(n)
    BY GraphSame, <1>4
  <2>4. Reads(e)' = Reads(e) /\ ForwardBuffers(e)' = ForwardBuffers(e)
    <3>1. Reads(e)' = Reads(e) /\ Writes(e)' = Writes(e) /\ Does(e)' = Does(e)
      BY <1>4, GraphSame
    <3>2. Saved(e)' = Saved(e)
      BY <1>4, <3>1, <2>3 DEF Saved, Residual, TensorsAt, Mask
    <3> QED
      BY <3>1, <3>2 DEF ForwardBuffers, Scratch, Mask
  <2> QED
    BY <1>1, <1>4, <1>8, <2>2, <2>3, <2>4 DEF InUse
<1>12. GradsKept'
  BY <1>1, <1>4, NoGrads DEF PassInv
<1>13. HeldKept'
  <2>1. held \subseteq HeldOutputs(S)
    BY <1>1, <1>7 DEF UseInv, HeldKept
  <2>2. HeldOutputs(S)' = HeldOutputs(S)
    BY <1>4, HeldOutputsSame
  <2> QED
    BY <1>1, <1>4, <1>8, <2>1, <2>2 DEF HeldKept
<1> QED
  BY <1>10, <1>11, <1>12, <1>13 DEF UseInv

LEMMA StoreForwardUses == ASSUME PlanInv, PassInv, UseInv, StoreForward PROVE UseInv'
<1>1. phase = "forward" /\ using # {} /\ position <= Len(Pass)
  BY DEF StoreForward, PassInv, InPlace
<1>2. PICK e : e = Layer
  OBVIOUS
<1>3. PICK B : B = Stored \cup {e}
  OBVIOUS
<1>4. /\ graph \in Graphs /\ WellBuilt /\ DataCounted /\ Begun = B
      /\ e \in Layers \ Stored
      /\ Reached(Pass, position + 1) = B
      /\ \A d \in Layers : Range(Writes(e)) \cap Range(Reads(d)) # {} => d \notin B
  BY <1>1, <1>2, <1>3, InForward DEF PlanInv, PassInv, Begun
<1>5. /\ using' = {} /\ position' = position + 1
      /\ UNCHANGED <<graph, plans, training, phase, grads>>
  BY DEF StoreForward, passVars, planVars
<1>6. PICK W : W = Range(Writes(e))
  OBVIOUS
<1>7. PICK stored : stored = [n \in DOMAIN data \cup W |->
                                 IF n \in W THEN [tensor |-> Data(n), refs |-> DataRefs(n)]
                                 ELSE data[n]]
  OBVIOUS
<1>8. PICK given : given = [n \in DOMAIN stored |->
                               IF n \in graph.outputs THEN Occurrences(n, Writes(e)) ELSE 0]
  OBVIOUS
<1>9. /\ data' = Released(stored, given)
      /\ held' = held \cup {Data(n) : n \in W \cap graph.outputs}
  BY <1>2, <1>6, <1>7, <1>8 DEF StoreForward
<1>10. Stored' = B /\ Begun' = B
  BY <1>3, <1>4, <1>5 DEF Stored, Begun, Pass, Plan
<1>11. ASSUME NEW n \in DOMAIN stored
       PROVE  /\ stored[n].tensor = Data(n)
              /\ \E r : stored[n] = [tensor |-> Data(n), refs |-> r]
              /\ n \in graph.inputs \/ \E d \in B : n \in Range(Writes(d))
              /\ ReadersOf(n) = {} \/ Unread(n, B) # 0
  <2>1. CASE n \in W
    <3>1. stored[n] = [tensor |-> Data(n), refs |-> DataRefs(n)]
      BY <1>7, <2>1
    <3>2. \A d \in Layers : n \in Range(Reads(d)) => d \notin B
      BY <1>4, <1>6, <2>1
    <3>3. Unread(n, B) = Cardinality(ReadersOf(n))
      BY <1>4, <3>2, UnreadBefore
    <3>4. Cardinality(ReadersOf(n)) = 0 <=> ReadersOf(n) = {}
      <4>1. IsFiniteSet(ReadersOf(n))
        BY <1>4, SlotsFinite
      <4> QED
        BY <4>1, FS_EmptySet
    <3>5. e \in B /\ n \in Range(Writes(e))
      BY <1>3, <1>6, <2>1
    <3> QED
      BY <3>1, <3>3, <3>4, <3>5
  <2>2. CASE n \notin W
    <3>1. n \in DOMAIN data /\ stored[n] = data[n]
      BY <1>7, <2>2
    <3>2. /\ data[n].tensor = Data(n)
          /\ n \in graph.inputs \/ \E d \in Stored : n \in Range(Writes(d))
          /\ ReadersOf(n) = {} \/ Unread(n, B) # 0
      BY <1>4, <3>1 DEF UseInv, DataKept
    <3>3. data[n] = [tensor |-> data[n].tensor, refs |-> Unread(n, B)]
      BY <1>4, <3>1 DEF DataCounted
    <3> QED
      BY <1>3, <3>1, <3>2, <3>3
  <2> QED
    BY <2>1, <2>2
<1>12. ASSUME NEW n \in DOMAIN data'
       PROVE  n \in DOMAIN stored /\ data'[n].tensor = Data(n)
  <2>1. n \in DOMAIN stored
    BY <1>9 DEF Released
  <2>2. PICK r : stored[n] = [tensor |-> Data(n), refs |-> r]
    BY <1>11, <2>1
  <2>3. data'[n] = IF stored[n].refs = 0 THEN stored[n]
                   ELSE [stored[n] EXCEPT !.refs = @ - given[n]]
    BY <1>9 DEF Released
  <2> QED
    BY <2>1, <2>2, <2>3
<1>13. DataKept'
  BY <1>5, <1>10, <1>11, <1>12, DataKeptNext
<1>14. GradsKept'
  BY <1>1, <1>5, NoGrads DEF PassInv
<1>15. HeldKept'
  <2>1. held \subseteq HeldOutputs(Stored)
    BY <1>1 DEF UseInv, HeldKept
  <2>2. held' \subseteq HeldOutputs(B)
    BY <1>3, <1>6, <1>9, <2>1 DEF HeldOutputs
  <2>3. HeldOutputs(B)' = HeldOutputs(B)
    BY <1>5, HeldOutputsSame
  <2> QED
    BY <1>1, <1>5, <1>10, <2>2, <2>3 DEF HeldKept
<1> QED
  BY <1>5, <1>13, <1>14, <1>15, NotInUse DEF UseInv

LEMMA ReturnOutputsUses == ASSUME PlanInv, PassInv, PassInv', UseInv, ReturnOutputs PROVE UseInv'
<1>1. phase = "forward" /\ using = {} /\ position > Len(Pass)
  BY DEF ReturnOutputs
<1>2. Stored = Layers
  BY <1>1, InForward
<1>3. /\ phase' = "computed" /\ using' = {} /\ data' = Empty /\ grads' = Empty
      /\ UNCHANGED <<graph, held>>
  BY <1>1 DEF ReturnOutputs, passVars, PassInv
<1>4. PICK S : S = Layers
  OBVIOUS
<1>5. held \subseteq HeldOutputs(S)
  BY <1>1, <1>2, <1>4 DEF UseInv, HeldKept
<1>6. HeldOutputs(S)' = HeldOutputs(S) /\ Layers' = S
  BY <1>3, <1>4, HeldOutputsSame, GraphSame
<1>7. HeldKept'
  BY <1>3, <1>5, <1>6 DEF HeldKept
<1> QED
  BY <1>3, <1>7, NoData, NoGrads, NotInUse DEF UseInv

LEMMA BeginBackwardUses == ASSUME PlanInv, PassInv, PassInv', UseInv, BeginBackward PROVE UseInv'
<1>1. /\ phase = "computed" /\ training /\ phase' = "backward" /\ position' = 1
      /\ grads' = [n \in graph.outputs |->
                      [tensor |-> OutputGrad(n), refs |-> GradRefs(n), parts |-> 1]]
      /\ UNCHANGED <<graph, plans, training, data, using, held>>
  BY DEF BeginBackward, passVars, planVars
<1>2. using' = {} /\ data' = Empty /\ graph \in Graphs /\ WellBuilt
  BY <1>1 DEF PassInv, InPlace, PlanInv
<1>3. PICK none, plan : none = {} /\ plan = Plan
  OBVIOUS
<1>4. Stored' = none /\ Begun' = none /\ Plan' = plan
  BY <1>1, <1>2, <1>3 DEF Stored, Begun, Reached, Plan
<1>5. ASSUME NEW n \in DOMAIN grads'
      PROVE  /\ Takers(n, none) # 0
             /\ n \in graph.outputs /\ grads'[n].tensor = OutputGrad(n)
  <2>1. n \in graph.outputs /\ n \in Nodes /\ n \notin graph.inputs
    BY <1>1, <1>2, NodeFacts
  <2>2. PICK d \in Layers : n \in Range(Writes(d))
    BY <1>2, <2>1, NodeFacts
  <2>3. Takers(n, none) = 1
    <3>1. Takers(n, none) = IF d \in none THEN 0 ELSE 1
      BY <1>2, <2>1, <2>2, TakersOf
    <3> QED
      BY <1>3, <3>1
  <2> QED
    BY <1>1, <2>1, <2>3
<1>6. GradsKept'
  BY <1>1, <1>4, <1>5, GradsKeptNext
<1>7. PICK S : S = Layers
  OBVIOUS
<1>8. held \subseteq HeldOutputs(S)
  BY <1>1, <1>7 DEF UseInv, HeldKept
<1>9. HeldOutputs(S)' = HeldOutputs(S) /\ Layers' = S
  BY <1>1, <1>7, HeldOutputsSame, GraphSame
<1>10. HeldKept'
  BY <1>1, <1>8, <1>9 DEF HeldKept
<1> QED
  BY <1>2, <1>6, <1>10, NoData, NotInUse DEF UseInv

(* The steps of a pass, by what has run.                                   *)
LEMMA ForwardSteps ==
    ASSUME PlanInv, PassInv, phase = "forward", NEW N, N = Len(graph.edges)
    PROVE  /\ N \in Nat /\ OrdersFit(Plan, training) /\ position \in 1..(N + 1) /\ Len(Pass) = N
           /\ \A e \in Stored : e \in Layers /\ FStep(Plan, e) < position
           /\ \A e \in Layers \ Stored : FStep(Plan, e) >= position
           /\ position <= N => Layer \in Layers \ Stored /\ FStep(Plan, Layer) = position
<1>1. PICK plan, order0, trains : plan = Plan /\ order0 = plan.forward /\ trains = training
  OBVIOUS
<1>2. graph \in Graphs /\ OrdersFit(plan, trains)
  BY <1>1 DEF PlanInv, PassInv, InPlace, Plan
<1>3. /\ N \in Nat /\ Len(order0) = N /\ DOMAIN order0 = 1..N /\ Range(order0) = Layers
      /\ \A i \in 1..N : FStep(plan, order0[i]) = i
  <2>1. /\ N \in Nat /\ Len(plan.forward) = N /\ DOMAIN plan.forward = 1..N
        /\ Range(plan.forward) = Layers
        /\ \A i \in 1..N : FStep(plan, plan.forward[i]) = i
    BY <1>2, PlanSteps DEF StepsFit
  <2> QED
    BY <1>1, <2>1
<1>4. Pass = order0
  BY <1>1 DEF Pass
<1>5. position \in 1..(N + 1)
  BY <1>3, <1>4 DEF PassInv, InPlace
<1>6. Stored = {order0[i] : i \in 1..(position - 1)}
  BY <1>4 DEF Stored, Reached
<1>7. \A e \in Layers : \E i \in 1..N : e = order0[i]
  BY <1>3 DEF Range
<1>8. ASSUME NEW e \in Stored PROVE e \in Layers /\ FStep(plan, e) < position
  <2>1. PICK i \in 1..(position - 1) : e = order0[i]
    BY <1>6
  <2>2. i \in 1..N /\ i < position
    BY <1>3, <1>5
  <2>3. e \in Layers
    BY <1>3, <2>1, <2>2 DEF Range
  <2> QED
    BY <1>3, <2>1, <2>2, <2>3
<1>9. ASSUME NEW e \in Layers \ Stored PROVE FStep(plan, e) >= position
  <2>1. PICK i \in 1..N : e = order0[i]
    BY <1>7
  <2>2. i \notin 1..(position - 1)
    BY <1>6, <2>1
  <2>3. i >= position
    BY <1>3, <1>5, <2>2
  <2> QED
    BY <1>3, <2>1, <2>3
<1>10. ASSUME position <= N PROVE Layer \in Layers \ Stored /\ FStep(plan, Layer) = position
  <2>1. Layer = order0[position] /\ position \in 1..N
    BY <1>3, <1>4, <1>5, <1>10 DEF Layer
  <2>2. Layer \in Layers \ Stored
    BY <1>3, <1>4, <1>10, InForward
  <2> QED
    BY <1>3, <2>1, <2>2
<1> QED
  BY <1>1, <1>2, <1>3, <1>4, <1>5, <1>8, <1>9, <1>10

LEMMA BackwardPlan ==
    ASSUME graph \in Graphs, NEW plan, NEW trains, trains, OrdersFit(plan, trains),
           NEW N, N = Len(graph.edges)
    PROVE  /\ N \in Nat /\ Len(plan.forward) = N /\ End(plan) = N + N + 1
           /\ \A e \in Layers : FStep(plan, e) \in 1..N /\ BStep(plan, e) \in (N + 1)..(N + N)
           /\ \A d, e \in Layers :
                  Range(Writes(d)) \cap Range(Reads(e)) # {} =>
                      FStep(plan, d) < FStep(plan, e) /\ BStep(plan, e) < BStep(plan, d)
           /\ Len(plan.backward) = N /\ DOMAIN plan.backward = 1..N /\ Range(plan.backward) = Layers
           /\ \A i \in 1..N : BStep(plan, plan.backward[i]) = N + i
<1>1. StepsFit(plan, trains, N)
  BY PlanSteps
<1> QED
  BY <1>1 DEF StepsFit

LEMMA BackwardSteps ==
    ASSUME PlanInv, PassInv, phase = "backward", NEW N, N = Len(graph.edges)
    PROVE  /\ N \in Nat /\ training /\ OrdersFit(Plan, training)
           /\ position \in 1..(N + 1) /\ Len(Pass) = N
           /\ \A e \in Stored : e \in Layers /\ BStep(Plan, e) < N + position
           /\ \A e \in Layers \ Stored : BStep(Plan, e) >= N + position
           /\ position <= N =>
                  /\ Layer \in Layers \ Stored /\ BStep(Plan, Layer) = N + position
                  /\ \A e \in Layers \ (Stored \cup {Layer}) : BStep(Plan, e) > N + position
<1>1. PICK plan, order0, trains : plan = Plan /\ order0 = plan.backward /\ trains = training
  OBVIOUS
<1>2. graph \in Graphs /\ trains /\ OrdersFit(plan, trains)
  BY <1>1 DEF PlanInv, PassInv, InPlace, Plan
<1>3. /\ N \in Nat /\ Len(order0) = N /\ DOMAIN order0 = 1..N /\ Range(order0) = Layers
      /\ \A i \in 1..N : BStep(plan, order0[i]) = N + i
  <2>1. /\ N \in Nat /\ Len(plan.backward) = N /\ DOMAIN plan.backward = 1..N
        /\ Range(plan.backward) = Layers
        /\ \A i \in 1..N : BStep(plan, plan.backward[i]) = N + i
    BY <1>2, BackwardPlan
  <2> QED
    BY <1>1, <2>1
<1>4. Pass = order0
  BY <1>1 DEF Pass
<1>5. position \in 1..(N + 1)
  BY <1>3, <1>4 DEF PassInv, InPlace
<1>6. Stored = {order0[i] : i \in 1..(position - 1)}
  BY <1>4 DEF Stored, Reached
<1>7. \A e \in Layers : \E i \in 1..N : e = order0[i]
  BY <1>3 DEF Range
<1>8. ASSUME NEW e \in Stored PROVE e \in Layers /\ BStep(plan, e) < N + position
  <2>1. PICK i \in 1..(position - 1) : e = order0[i]
    BY <1>6
  <2>2. i \in 1..N /\ i < position
    BY <1>3, <1>5
  <2>3. e \in Layers
    BY <1>3, <2>1, <2>2 DEF Range
  <2>4. BStep(plan, e) = N + i
    BY <1>3, <2>1, <2>2
  <2> QED
    BY <1>3, <1>5, <2>2, <2>3, <2>4
<1>9. ASSUME NEW e \in Layers \ Stored
      PROVE  \E i \in 1..N : e = order0[i] /\ i >= position /\ BStep(plan, e) = N + i
  <2>1. PICK i \in 1..N : e = order0[i]
    BY <1>7
  <2>2. i \notin 1..(position - 1)
    BY <1>6, <2>1
  <2>3. i >= position
    BY <1>3, <1>5, <2>2
  <2> QED
    BY <1>3, <2>1, <2>3
<1>10. \A e \in Layers \ Stored : BStep(plan, e) >= N + position
  BY <1>3, <1>5, <1>9
<1>11. ASSUME position <= N
       PROVE  /\ Layer \in Layers \ Stored /\ BStep(plan, Layer) = N + position
              /\ \A e \in Layers \ (Stored \cup {Layer}) : BStep(plan, e) > N + position
  <2>1. Layer = order0[position] /\ position \in 1..N
    BY <1>3, <1>4, <1>5, <1>11 DEF Layer
  <2>2. Layer \in Layers \ Stored
    BY <1>3, <1>4, <1>11, InBackward
  <2>3. ASSUME NEW e \in Layers \ (Stored \cup {Layer}) PROVE BStep(plan, e) > N + position
    <3>1. PICK i \in 1..N : e = order0[i] /\ i >= position /\ BStep(plan, e) = N + i
      BY <1>9
    <3>2. i # position
      BY <2>1, <3>1
    <3> QED
      BY <1>3, <1>5, <3>1, <3>2
  <2> QED
    BY <1>3, <2>1, <2>2, <2>3
<1> QED
  BY <1>1, <1>2, <1>3, <1>4, <1>5, <1>8, <1>10, <1>11

LEMMA BackwardLayerUses == ASSUME PlanInv, PassInv, UseInv, BackwardLayer PROVE UseInv'
<1>1. phase = "backward" /\ using = {} /\ position <= Len(Pass)
  BY DEF BackwardLayer, Running
<1>2. PICK e, plan : e = Layer /\ plan = Plan
  OBVIOUS
<1>3. /\ using' = {grads[n].tensor : n \in Range(Writes(e))}
                      \cup TensorsAt(e, residuals[e]) \cup BackwardBuffers(e)
      /\ grads' = Released(grads, EachIn(Writes(e), grads))
      /\ UNCHANGED <<graph, plans, training, phase, position, data, held>>
  BY <1>1, <1>2, BackwardFindsAll DEF BackwardLayer, passVars, planVars
<1>4. /\ graph \in Graphs /\ WellBuilt /\ GradsCounted /\ Begun = Stored
      /\ e \in Layers \ Stored /\ ~Missing(grads, Writes(e)) /\ e \in DOMAIN residuals
  BY <1>1, <1>2, InBackward, BackwardFindsAll DEF PlanInv, PassInv, Begun
<1>5. using' # {}
  <2>1. PICK n \in Range(Writes(e)) : TRUE
    BY <1>4, NodeFacts
  <2> QED
    BY <1>3, <2>1
<1>6. PICK S, B : S = Stored /\ B = Stored \cup {e}
  OBVIOUS
<1>7. Stored' = S /\ Begun' = B /\ Plan' = plan /\ Layer' = e
  BY <1>2, <1>3, <1>5, <1>6 DEF Stored, Begun, Pass, Plan, Layer
<1>8. ASSUME NEW n \in DOMAIN grads
      PROVE  /\ Takers(n, S) # 0
             /\ IF n \in graph.outputs THEN grads[n].tensor = OutputGrad(n)
                ELSE KeptFor(n, plan, S, grads[n].tensor)
  BY <1>2, <1>4, <1>6 DEF UseInv, GradsKept
<1>9. ASSUME NEW n \in DOMAIN grads'
      PROVE  /\ n \in DOMAIN grads /\ grads'[n].tensor = grads[n].tensor
             /\ Takers(n, B) # 0
  <2>1. PICK times : times = EachIn(Writes(e), grads)
    OBVIOUS
  <2>2. n \in DOMAIN grads /\ (grads[n].refs = 0 \/ grads[n].refs > times[n])
    BY <1>3, <2>1 DEF Released
  <2>3. times[n] = Occurrences(n, Writes(e))
    BY <2>1, <2>2 DEF EachIn
  <2>4. /\ grads[n] = [tensor |-> grads[n].tensor, refs |-> Takers(n, S), parts |-> Parts(n, S)]
        /\ n \in Nodes
    BY <1>4, <1>6, <2>2 DEF GradsCounted
  <2>5. grads[n].refs = Takers(n, S)
    BY <2>4
  <2>6. /\ Takers(n, S) \in {0, 1}
        /\ Takers(n, B) = Takers(n, S) - Occurrences(n, Writes(e))
        /\ Occurrences(n, Writes(e)) = IF n \in Range(Writes(e)) THEN 1 ELSE 0
    BY <1>1, <1>2, <1>6, <2>4, BackwardCounts
  <2>7. Takers(n, B) # 0
    BY <1>8, <2>2, <2>3, <2>5, <2>6
  <2>8. grads'[n].tensor = grads[n].tensor
    <3>1. grads'[n] = IF grads[n].refs = 0 THEN grads[n] ELSE [grads[n] EXCEPT !.refs = @ - times[n]]
      BY <1>3, <2>1 DEF Released
    <3>2. PICK t, r, p : t = grads[n].tensor /\ r = Takers(n, S) /\ p = Parts(n, S)
      OBVIOUS
    <3>3. grads[n] = [tensor |-> t, refs |-> r, parts |-> p]
      BY <2>4, <3>2
    <3> QED
      BY <3>1, <3>3
  <2> QED
    BY <2>2, <2>7, <2>8
<1>10. GradsKept'
  BY <1>3, <1>7, <1>8, <1>9, GradsKeptNext
<1>11. InUse'
  <2>1. residuals[e] = Residual(e)
    BY <1>1, <1>4 DEF PassInv, ResidualsKept, Saves
  <2>2. TensorsAt(e, residuals[e]) = Saved(e)
    BY <2>1 DEF Saved
  <2>3. ASSUME NEW t \in using'
        PROVE  \/ External(t) \/ t \in Saved(e) \cup BackwardBuffers(e)
               \/ \E n \in Range(Writes(e)) : KeptFor(n, plan, S, t)
    <3>1. CASE t \in TensorsAt(e, residuals[e]) \cup BackwardBuffers(e)
      BY <2>2, <3>1
    <3>2. CASE \E n \in Range(Writes(e)) : t = grads[n].tensor
      <4>1. PICK n \in Range(Writes(e)) : t = grads[n].tensor
        BY <3>2
      <4>2. n \in DOMAIN grads
        BY <1>4, <4>1 DEF Missing
      <4>3. External(OutputGrad(n))
        BY DEF External, OutputGrad
      <4> QED
        BY <1>8, <4>1, <4>2, <4>3
    <3> QED
      BY <1>3, <2>3, <3>1, <3>2
  <2>4. /\ Saved(e)' = Saved(e) /\ BackwardBuffers(e)' = BackwardBuffers(e) /\ Writes(e)' = Writes(e)
    <3>1. Reads(e)' = Reads(e) /\ Writes(e)' = Writes(e) /\ Does(e)' = Does(e) /\ \A n : Data(n)' = Data(n)
      BY <1>3, GraphSame
    <3>2. Saved(e)' = Saved(e)
      <4>1. PICK saved : saved = Residual(e)
        OBVIOUS
      <4>2. Residual(e)' = saved
        BY <1>3, <3>1, <4>1 DEF Residual
      <4>3. TensorsAt(e, saved)' = TensorsAt(e, saved)
        BY <1>3, SavedSame
      <4> QED
        BY <4>1, <4>2, <4>3 DEF Saved
    <3> QED
      BY <3>1, <3>2 DEF BackwardBuffers, Scratch, Grad
  <2>5. \A n, t : KeptFor(n, plan, S, t)' <=> KeptFor(n, plan, S, t)
    BY <1>3, KeptForSame
  <2>6. \A n, t : KeptFor(n, Plan, Stored, t)' <=> KeptFor(n, plan, S, t)
    BY <1>7, <2>5
  <2>7. BackwardBuffers(Layer)' \subseteq using'
    BY <1>3, <1>7, <2>4
  <2>8. \A t \in using' : \/ External(t)' \/ t \in (Saved(Layer) \cup BackwardBuffers(Layer))'
                          \/ \E n \in Range(Writes(Layer))' : KeptFor(n, Plan, Stored, t)'
    BY <1>7, <2>3, <2>4, <2>6 DEF External
  <2> QED
    BY <1>1, <1>3, <2>7, <2>8 DEF InUse
<1>12. DataKept'
  BY <1>1, <1>3, NoData DEF PassInv
<1>13. HeldKept'
  <2>1. PICK L : L = Layers
    OBVIOUS
  <2>2. held \subseteq HeldOutputs(L)
    BY <1>1, <2>1 DEF UseInv, HeldKept
  <2>3. HeldOutputs(L)' = HeldOutputs(L) /\ Layers' = L
    BY <1>3, <2>1, HeldOutputsSame, GraphSame
  <2> QED
    BY <1>1, <1>3, <2>2, <2>3 DEF HeldKept
<1> QED
  BY <1>10, <1>11, <1>12, <1>13 DEF UseInv

(* A layer adds to the gradient that is there, or keeps its own.           *)
LEMMA AccumulatedTensors ==
    ASSUME graph \in Graphs, GradsCounted, NEW e \in Layers, grads' = Accumulated(e)
    PROVE  /\ DOMAIN grads \subseteq DOMAIN grads' /\ DOMAIN grads' \subseteq DOMAIN grads \cup Range(Reads(e))
           /\ \A n \in DOMAIN grads : grads'[n].tensor = grads[n].tensor
           /\ \A n \in DOMAIN grads' \ DOMAIN grads :
                  \E k \in DOMAIN Reads(e) :
                      /\ Reads(e)[k] = n /\ grads'[n].tensor = Grad(e, k)
                      /\ \A j \in DOMAIN Reads(e) : Reads(e)[j] = n => j >= k
<1>1. PICK news : news = Range(Reads(e)) \ DOMAIN grads
  OBVIOUS
<1>2. /\ DOMAIN grads' = DOMAIN grads \cup news
      /\ \A n \in DOMAIN grads :
             grads'[n] = [grads[n] EXCEPT !.parts = grads[n].parts + Occurrences(n, Reads(e))]
  BY <1>1 DEF Accumulated
<1>3. ASSUME NEW n \in DOMAIN grads PROVE grads'[n].tensor = grads[n].tensor
  <2>1. grads[n] = [tensor |-> grads[n].tensor, refs |-> Takers(n, Begun), parts |-> Parts(n, Stored)]
    BY DEF GradsCounted
  <2>2. PICK t, r, p : t = grads[n].tensor /\ r = Takers(n, Begun) /\ p = Parts(n, Stored)
    OBVIOUS
  <2>3. grads[n] = [tensor |-> t, refs |-> r, parts |-> p]
    BY <2>1, <2>2
  <2> QED
    BY <1>2, <2>3
<1>4. ASSUME NEW n \in news
      PROVE  \E k \in DOMAIN Reads(e) :
                 /\ Reads(e)[k] = n /\ grads'[n].tensor = Grad(e, k)
                 /\ \A j \in DOMAIN Reads(e) : Reads(e)[j] = n => j >= k
  <2>1. PICK k : k = CHOOSE i \in DOMAIN Reads(e) :
                          Reads(e)[i] = n /\ \A j \in 1..(i - 1) : Reads(e)[j] # n
    OBVIOUS
  <2>2. grads'[n].tensor = Grad(e, k)
    BY <1>1, <2>1 DEF Accumulated
  <2>3. PICK L \in Nat : DOMAIN Reads(e) = 1..L
    <3>1. Reads(e) \in Seq(STRING)
      BY EdgeFacts
    <3> QED
      BY <3>1, LenProperties
  <2>4. PICK s : s = Reads(e)
    OBVIOUS
  <2>5. PICK P : P = {j \in 1..L : s[j] = n}
    OBVIOUS
  <2>6. P # {} /\ P \subseteq 1..L /\ P \subseteq Int /\ IsFiniteSet(P)
    <3>1. P # {} /\ P \subseteq 1..L
      BY <1>1, <2>3, <2>4, <2>5 DEF Range
    <3>2. IsFiniteSet(1..L) /\ 1..L \subseteq Int
      BY <2>3, CountTo
    <3>3. IsFiniteSet(P)
      BY <3>1, <3>2, FS_Subset
    <3> QED
      BY <3>1, <3>2, <3>3
  <2>7. PICK least \in P : \A j \in P : least <= j
    BY <2>6, LowestOf
  <2>8. \A j \in 1..(least - 1) : s[j] # n
    BY <2>3, <2>5, <2>6, <2>7
  <2>9. k \in 1..L /\ s[k] = n /\ \A j \in 1..(k - 1) : s[j] # n
    <3>1. least \in 1..L /\ s[least] = n
      BY <2>5, <2>7
    <3>2. k = CHOOSE i \in 1..L : s[i] = n /\ \A j \in 1..(i - 1) : s[j] # n
      BY <2>1, <2>3, <2>4
    <3> QED
      BY <2>8, <3>1, <3>2
  <2>10. ASSUME NEW j \in 1..L, s[j] = n PROVE j >= k
    <3>1. j \notin 1..(k - 1)
      BY <2>9, <2>10
    <3> QED
      BY <2>3, <2>9, <3>1
  <2> QED
    BY <2>2, <2>3, <2>4, <2>9, <2>10
<1> QED
  BY <1>1, <1>2, <1>3, <1>4

LEMMA StoreBackwardUses == ASSUME PlanInv, PassInv, UseInv, StoreBackward PROVE UseInv'
<1>1. phase = "backward" /\ using # {} /\ position <= Len(Pass)
  BY DEF StoreBackward, PassInv, InPlace
<1>2. PICK e, plan, B : e = Layer /\ plan = Plan /\ B = Stored \cup {e}
  OBVIOUS
<1>3. /\ graph \in Graphs /\ WellBuilt /\ GradsCounted /\ Begun = B
      /\ e \in Layers \ Stored /\ Stored \subseteq Layers
      /\ Reached(Pass, position + 1) = B
      /\ \A d \in Layers : Range(Reads(e)) \cap Range(Writes(d)) # {} => d \notin B
  BY <1>1, <1>2, InBackward DEF PlanInv, PassInv, Begun
<1>4. /\ using' = {} /\ position' = position + 1 /\ grads' = Accumulated(e)
      /\ UNCHANGED <<graph, plans, training, phase, data, held>>
  BY <1>2 DEF StoreBackward, passVars, planVars
<1>5. Stored' = B /\ Begun' = B /\ Plan' = plan
  BY <1>2, <1>3, <1>4 DEF Stored, Begun, Pass, Plan
<1>6. PICK news : news = DOMAIN grads' \ DOMAIN grads
  OBVIOUS
<1>7. /\ news \subseteq Range(Reads(e)) /\ DOMAIN grads \subseteq DOMAIN grads'
      /\ \A n \in DOMAIN grads : grads'[n].tensor = grads[n].tensor
      /\ \A n \in news :
             \E k \in DOMAIN Reads(e) :
                 /\ Reads(e)[k] = n /\ grads'[n].tensor = Grad(e, k)
                 /\ \A j \in DOMAIN Reads(e) : Reads(e)[j] = n => j >= k
  BY <1>3, <1>4, <1>6, AccumulatedTensors
<1>8. \A d \in Layers \ B : BStep(plan, d) > BStep(plan, e)
  <2>1. PICK N : N = Len(graph.edges)
    OBVIOUS
  <2>2. /\ Len(Pass) = N
        /\ position <= N => /\ BStep(plan, e) = N + position
                            /\ \A d \in Layers \ B : BStep(plan, d) > N + position
    BY <1>1, <1>2, <2>1, BackwardSteps
  <2> QED
    BY <1>1, <2>2
<1>9. ASSUME NEW n \in news
      PROVE  /\ Takers(n, B) # 0 /\ n \notin graph.outputs
             /\ KeptFor(n, plan, B, grads'[n].tensor)
  <2>1. n \in Nodes /\ n \in Range(Reads(e)) /\ n \notin DOMAIN grads
    BY <1>3, <1>6, <1>7, NodeFacts
  <2>2. Takers(n, B) = 1
    <3>1. CASE n \in graph.inputs
      BY <1>3, <2>1, <3>1, TakersOf
    <3>2. CASE n \notin graph.inputs
      <4>1. PICK d \in Layers : n \in Range(Writes(d))
        BY <1>3, <2>1, <3>2, NodeFacts
      <4>2. d \notin B
        BY <1>3, <2>1, <4>1
      <4> QED
        BY <1>3, <2>1, <4>1, <4>2, TakersOf
    <3> QED
      BY <3>1, <3>2
  <2>3. n \notin graph.outputs /\ \A slot \in ReadersOf(n) : slot[1] \notin Stored
    BY <1>3, <2>1, <2>2 DEF GradsCounted
  <2>4. PICK k \in DOMAIN Reads(e) :
            /\ Reads(e)[k] = n /\ grads'[n].tensor = Grad(e, k)
            /\ \A j \in DOMAIN Reads(e) : Reads(e)[j] = n => j >= k
    BY <1>7
  <2>5. PICK slot : slot = <<e, k>>
    OBVIOUS
  <2>6. /\ slot \in ReadersOf(n) /\ slot[1] = e /\ slot[2] = k /\ NodeAt(slot) = n
        /\ GradAt(slot) = Grad(e, k)
    BY <1>3, <2>4, <2>5 DEF ReadersOf, Slots, NodeAt, GradAt
  <2>7. ASSUME NEW other \in ReadersOf(n)
        PROVE  \/ BStep(plan, other[1]) > BStep(plan, slot[1])
               \/ other[1] = slot[1] /\ other[2] >= slot[2]
    <3>1. /\ other[1] \in Layers /\ other[2] \in DOMAIN Reads(other[1])
          /\ Reads(other[1])[other[2]] = n
      BY DEF ReadersOf, Slots
    <3>2. CASE other[1] = e
      BY <2>4, <2>6, <3>1, <3>2
    <3>3. CASE other[1] # e
      BY <1>2, <1>8, <2>3, <2>6, <3>1, <3>3
    <3> QED
      BY <3>2, <3>3
  <2>8. Keeps(plan, slot)
    BY <2>3, <2>6, <2>7 DEF Keeps
  <2>9. KeptFor(n, plan, B, Grad(e, k))
    BY <1>2, <2>6, <2>8 DEF KeptFor
  <2> QED
    BY <2>2, <2>3, <2>4, <2>9
<1>10. ASSUME NEW n \in DOMAIN grads
       PROVE  /\ Takers(n, B) # 0
              /\ IF n \in graph.outputs THEN grads'[n].tensor = OutputGrad(n)
                 ELSE KeptFor(n, plan, B, grads'[n].tensor)
  <2>1. /\ Takers(n, B) # 0
        /\ IF n \in graph.outputs THEN grads[n].tensor = OutputGrad(n)
           ELSE KeptFor(n, plan, Stored, grads[n].tensor)
    BY <1>2, <1>3 DEF UseInv, GradsKept
  <2>2. grads'[n].tensor = grads[n].tensor
    BY <1>7
  <2>3. n \notin graph.outputs => KeptFor(n, plan, B, grads[n].tensor)
    BY <1>2, <2>1, KeptForMore
  <2> QED
    BY <2>1, <2>2, <2>3
<1>11. \A n \in DOMAIN grads' :
           /\ Takers(n, B) # 0
           /\ IF n \in graph.outputs THEN grads'[n].tensor = OutputGrad(n)
              ELSE KeptFor(n, plan, B, grads'[n].tensor)
  BY <1>6, <1>9, <1>10
<1>12. GradsKept'
  BY <1>4, <1>5, <1>11, GradsKeptNext
<1>13. DataKept'
  BY <1>1, <1>4, NoData DEF PassInv
<1>14. HeldKept'
  <2>1. PICK L : L = Layers
    OBVIOUS
  <2>2. held \subseteq HeldOutputs(L)
    BY <1>1, <2>1 DEF UseInv, HeldKept
  <2>3. HeldOutputs(L)' = HeldOutputs(L) /\ Layers' = L
    BY <1>4, <2>1, HeldOutputsSame, GraphSame
  <2> QED
    BY <1>1, <1>4, <2>2, <2>3 DEF HeldKept
<1> QED
  BY <1>4, <1>12, <1>13, <1>14, NotInUse DEF UseInv

LEMMA ReturnGradientsUses ==
    ASSUME PlanInv, PassInv, PassInv', UseInv, ReturnGradients
    PROVE  UseInv'
<1>1. phase = "backward" /\ using = {} /\ position > Len(Pass)
  BY DEF ReturnGradients
<1>2. Stored = Layers /\ graph.inputs \subseteq DOMAIN grads
  BY <1>1, AllGiven
<1>3. /\ phase' = "differentiated" /\ held' = held \cup {grads[n].tensor : n \in graph.inputs}
      /\ UNCHANGED <<graph, plans, training, data, using>>
  BY <1>2 DEF ReturnGradients, passVars, planVars
<1>4. data' = Empty /\ grads' = Empty /\ using' = {}
  BY <1>1, <1>3 DEF PassInv
<1>5. PICK L, plan : L = Layers /\ plan = Plan
  OBVIOUS
<1>6. Layers' = L /\ Plan' = plan
  BY <1>3, <1>5, GraphSame DEF Plan
<1>7. ASSUME NEW t \in held'
      PROVE  t \in HeldOutputs(L) \/ \E n \in graph.inputs : KeptFor(n, plan, L, t)
  <2>1. CASE t \in held
    BY <1>1, <1>5, <2>1 DEF UseInv, HeldKept
  <2>2. CASE t \notin held
    <3>1. PICK n \in graph.inputs : t = grads[n].tensor
      BY <1>3, <2>2
    <3>2. n \in DOMAIN grads /\ n \notin graph.outputs
      BY <1>2, <3>1, NodeFacts DEF PlanInv, PassInv
    <3>3. KeptFor(n, plan, L, t)
      BY <1>2, <1>5, <3>1, <3>2 DEF UseInv, GradsKept
    <3> QED
      BY <3>3
  <2> QED
    BY <2>1, <2>2
<1>8. HeldKept'
  <2>1. HeldOutputs(L)' = HeldOutputs(L) /\ \A n, t : KeptFor(n, plan, L, t)' <=> KeptFor(n, plan, L, t)
    BY <1>3, HeldOutputsSame, KeptForSame
  <2>2. ASSUME NEW t \in held' PROVE t \in GivenBack' \/ t \in HeldOutputs(Layers)'
    <3>1. CASE t \in HeldOutputs(L)
      BY <1>6, <2>1, <3>1
    <3>2. CASE \E n \in graph.inputs : KeptFor(n, plan, L, t)
      <4>1. PICK n \in graph.inputs : KeptFor(n, plan, L, t)
        BY <3>2
      <4>2. KeptFor(n, plan, L, t)'
        BY <2>1, <4>1
      <4>3. KeptFor(n, Plan, Layers, t)'
        BY <1>6, <4>2
      <4>4. n \in graph.inputs'
        BY <1>3, <4>1
      <4> QED
        BY <4>3, <4>4 DEF GivenBack
    <3> QED
      BY <1>7, <3>1, <3>2
  <2> QED
    BY <1>3, <2>2 DEF HeldKept
<1> QED
  BY <1>4, <1>8, NoData, NoGrads, NotInUse DEF UseInv

LEMMA DropOutputsUses == ASSUME PassInv, UseInv, DropOutputs PROVE UseInv'
<1>1. /\ phase = "computed" /\ phase' = "computed" /\ held' = {} /\ UNCHANGED <<data, grads, using>>
  BY DEF DropOutputs, passVars
<1>2. data' = Empty /\ grads' = Empty /\ using' = {}
  BY <1>1 DEF PassInv, InPlace
<1> QED
  BY <1>1, <1>2, NothingKept

LEMMA DropAllUses == ASSUME PassInv, UseInv, DropAll PROVE UseInv'
<1>1. /\ phase \in {"differentiated", "computed"} /\ held' = {} /\ UNCHANGED <<data, grads, using>>
  BY DEF DropAll, passVars
<1>2. data' = Empty /\ grads' = Empty /\ using' = {}
  BY <1>1 DEF PassInv, InPlace
<1> QED
  BY <1>1, <1>2, NothingKept

LEMMA BuildingUses ==
    ASSUME PassInv, UseInv, phase \in {"idle", "forward order", "backward order", "tracing", "packing"},
           UNCHANGED <<data, grads, using, held>>
    PROVE  UseInv'
<1>1. data = Empty /\ grads = Empty /\ using = {} /\ held = {}
  BY DEF PassInv, InPlace, UseInv, HeldKept
<1> QED
  BY <1>1, NothingKept

LEMMA BeginUses ==
    ASSUME PlanInv, PassInv, UseInv, phase \in {"idle", "packing"}, BeginForward
    PROVE  UseInv'
<1>1. graph \in Graphs /\ grads = Empty /\ using = {} /\ held = {}
  BY DEF PlanInv, PassInv, InPlace, UseInv, HeldKept
<1> QED
  BY <1>1, BeginForwardUses

LEMMA UseSame == ASSUME UseInv, UNCHANGED vars PROVE UseInv'
<1>1. UNCHANGED <<graph, plans, training, phase, position, data, grads, residuals, using, held>>
  BY DEF vars, planVars, entries
<1>2. PICK S, B, L, plan : S = Stored /\ B = Begun /\ L = Layers /\ plan = Plan
  OBVIOUS
<1>3. Stored' = S /\ Begun' = B /\ Layers' = L /\ Plan' = plan
  BY <1>1, <1>2 DEF Stored, Begun, Reached, Pass, Plan, Layer, Layers
<1>4. DataKept'
  BY <1>1, <1>2, <1>3, DataKeptNext DEF UseInv, DataKept
<1>5. GradsKept'
  BY <1>1, <1>2, <1>3, GradsKeptNext DEF UseInv, GradsKept
<1>6. /\ \A n, T, t : KeptFor(n, plan, T, t)' <=> KeptFor(n, plan, T, t)
      /\ \A T : HeldOutputs(T)' = HeldOutputs(T)
  BY <1>1, KeptForSame, HeldOutputsSame
<1>7. /\ \A n, t : KeptFor(n, Plan, Stored, t)' <=> KeptFor(n, plan, S, t)
      /\ \A n, t : KeptFor(n, Plan, Layers, t)' <=> KeptFor(n, plan, L, t)
      /\ HeldOutputs(Stored)' = HeldOutputs(S) /\ HeldOutputs(Layers)' = HeldOutputs(L)
  BY <1>3, <1>6
<1>8. InUse'
  <2>1. PICK e : e = Layer
    OBVIOUS
  <2>2. Layer' = e
    BY <1>1, <2>1 DEF Layer, Pass, Plan
  <2>3. /\ Reads(e)' = Reads(e) /\ Writes(e)' = Writes(e) /\ Does(e)' = Does(e)
        /\ \A n : Data(n)' = Data(n)
    BY <1>1, GraphSame
  <2>4. Saved(e)' = Saved(e)
    <3>1. PICK saved : saved = Residual(e)
      OBVIOUS
    <3>2. Residual(e)' = saved
      BY <1>1, <2>3, <3>1 DEF Residual
    <3>3. TensorsAt(e, saved)' = TensorsAt(e, saved)
      BY <1>1, SavedSame
    <3> QED
      BY <3>1, <3>2, <3>3 DEF Saved
  <2>5. ForwardBuffers(e)' = ForwardBuffers(e) /\ BackwardBuffers(e)' = BackwardBuffers(e)
    BY <2>3, <2>4 DEF ForwardBuffers, BackwardBuffers, Scratch, Mask, Grad
  <2>6. \A t : External(t)' <=> External(t)
    BY DEF External
  <2> QED
    BY <1>1, <1>2, <1>7, <2>1, <2>2, <2>3, <2>4, <2>5, <2>6 DEF UseInv, InUse
<1>9. HeldKept'
  <2>1. GivenBack' = GivenBack
    BY <1>1, <1>2, <1>7 DEF GivenBack
  <2> QED
    BY <1>1, <1>2, <1>7, <2>1 DEF UseInv, HeldKept
<1> QED
  BY <1>4, <1>5, <1>8, <1>9 DEF UseInv

LEMMA UseInit == Init => UseInv
<1> SUFFICES ASSUME Init PROVE UseInv
  OBVIOUS
<1> QED
  BY DEF Init, UseInv, DataKept, GradsKept, InUse, HeldKept, Empty

LEMMA UseStep == PlanInv /\ PassInv /\ PassInv' /\ UseInv /\ [Next]_vars => UseInv'
<1> SUFFICES ASSUME PlanInv, PassInv, PassInv', UseInv, [Next]_vars PROVE UseInv'
  OBVIOUS
<1>1. ASSUME Build PROVE UseInv'
  <2>1. CASE PlanBuilt
    BY <2>1, BeginUses DEF PlanBuilt
  <2>2. CASE StartPlan
    BY <2>2, BuildingUses DEF StartPlan, entries
  <2>3. CASE Solve
    BY <2>3, BuildingUses DEF Solve, entries
  <2>4. CASE ForwardOrderFound
    BY <2>4, BuildingUses DEF ForwardOrderFound, entries
  <2>5. CASE BackwardOrderFound
    BY <2>5, BuildingUses DEF BackwardOrderFound, entries
  <2>6. CASE TraceBuffers
    BY <2>6, BuildingUses DEF TraceBuffers, entries
  <2>7. CASE Pack
    BY <2>7, BuildingUses DEF Pack, entries
  <2> QED
    BY <1>1, <2>1, <2>2, <2>3, <2>4, <2>5, <2>6, <2>7 DEF Build
<1>2. ASSUME Forward PROVE UseInv'
  <2>1. CASE CallForward
    BY <2>1, BeginUses DEF CallForward
  <2> QED
    BY <1>2, <2>1, ForwardLayerUses, StoreForwardUses, ReturnOutputsUses, DropOutputsUses DEF Forward
<1>3. ASSUME Backward PROVE UseInv'
  BY <1>3, BeginBackwardUses, BackwardLayerUses, StoreBackwardUses, ReturnGradientsUses DEF Backward
<1> QED
  BY <1>1, <1>2, <1>3, DropAllUses, UseSame DEF Next

(* Who is alive, is needed now.                                            *)
LEMMA DataIsNeeded ==
    ASSUME NEW plan, NEW trains, NEW s, NEW n \in Nodes, ~External(Data(n)),
           DataNeeded(n, plan, trains, s)
    PROVE  Needed(Data(n), plan, trains, s)
<1>1. n \notin graph.inputs /\ Data(n) = <<"data", n>>
  BY DEF External, Data
<1> QED
  BY <1>1 DEF Needed

LEMMA OutputIsNeeded ==
    ASSUME graph \in Graphs, WellBuilt, NEW plan, NEW trains, NEW s, s <= End(plan),
           NEW S \in SUBSET Layers, \A e \in S : FStep(plan, e) <= s,
           NEW t \in HeldOutputs(S)
    PROVE  Needed(t, plan, trains, s)
<1>1. PICK n \in graph.outputs, e \in S : t = Data(n) /\ n \in Range(Writes(e))
  BY DEF HeldOutputs
<1>2. n \in Nodes /\ n \notin graph.inputs
  BY <1>1, NodeFacts
<1>3. ~External(Data(n))
  BY <1>2 DEF External, Data
<1>4. e \in Writers(n) /\ FStep(plan, e) <= s
  BY <1>1 DEF Writers
<1>5. DataNeeded(n, plan, trains, s)
  BY <1>1, <1>4 DEF DataNeeded
<1> QED
  BY <1>1, <1>2, <1>3, <1>5, DataIsNeeded

LEMMA SavedIsNeeded ==
    ASSUME graph \in Graphs, WellBuilt, NEW plan, NEW trains, trains, OrdersFit(plan, trains),
           NEW e \in Layers, NEW s \in Nat, FStep(plan, e) <= s, s <= BStep(plan, e),
           NEW t \in SavedIn(e, trains), ~External(t)
    PROVE  Needed(t, plan, trains, s)
<1>1. PICK N : N = Len(graph.edges)
  OBVIOUS
<1>2. /\ \A d \in Layers : FStep(plan, d) \in 1..N
      /\ \A d \in Layers : Range(Writes(d)) \cap Range(Reads(e)) # {} => FStep(plan, d) < FStep(plan, e)
      /\ N \in Nat
  BY <1>1, BackwardPlan
<1>3. PICK saved : saved = [key \in SavedKeys(Does(e), trains) |-> Does(e).saves[key]]
  OBVIOUS
<1>4. PICK values : values = {saved[key] : key \in DOMAIN saved}
  OBVIOUS
<1>5. t \in TensorsAt(e, saved)
  BY <1>3 DEF SavedIn
<1>6. \/ \E v \in values : v[1] = "in" /\ t = Data(Reads(e)[v[2]])
      \/ t = Data(Writes(e)[1])
      \/ t = Mask(e)
  BY <1>4, <1>5 DEF TensorsAt
<1>7. CASE \E v \in values : v[1] = "in" /\ t = Data(Reads(e)[v[2]])
  <2>1. PICK v \in values : v[1] = "in" /\ t = Data(Reads(e)[v[2]])
    BY <1>7
  <2>2. PICK key \in DOMAIN Does(e).saves : v = Does(e).saves[key]
    BY <1>3, <1>4, <2>1 DEF SavedKeys
  <2>3. v[2] \in DOMAIN Reads(e)
    BY <2>1, <2>2 DEF WellBuilt, Layers, Reads, Does
  <2>4. PICK n : n = Reads(e)[v[2]]
    OBVIOUS
  <2>5. n \in Range(Reads(e)) /\ n \in Nodes /\ t = Data(n)
    BY <2>1, <2>3, <2>4, NodeFacts DEF Range
  <2>6. n \notin graph.inputs
    BY <2>5 DEF Data, External
  <2>7. PICK d \in Layers : n \in Range(Writes(d))
    BY <2>5, <2>6, NodeFacts
  <2>8. d \in Writers(n) /\ FStep(plan, d) <= s
    <3>1. d \in Writers(n) /\ FStep(plan, d) < FStep(plan, e)
      BY <1>2, <2>5, <2>7 DEF Writers
    <3>2. FStep(plan, d) \in Nat /\ FStep(plan, e) \in Nat
      BY <1>2
    <3> QED
      BY <3>1, <3>2
  <2>9. DataNeeded(n, plan, trains, s)
    BY <2>5, <2>8 DEF DataNeeded
  <2> QED
    BY <2>5, <2>9, DataIsNeeded
<1>8. CASE t = Data(Writes(e)[1])
  <2>1. PICK n : n = Writes(e)[1]
    OBVIOUS
  <2>2. n \in Range(Writes(e)) /\ n \in Nodes
    <3>1. Writes(e) \in Seq(STRING) /\ Range(Writes(e)) # {}
      BY EdgeFacts, NodeFacts
    <3>2. 1 \in DOMAIN Writes(e)
      BY <3>1, LenProperties DEF Range
    <3> QED
      BY <2>1, <3>2, NodeFacts DEF Range
  <2>3. e \in Writers(n)
    BY <2>2 DEF Writers
  <2>4. DataNeeded(n, plan, trains, s)
    BY <1>8, <2>1, <2>3 DEF DataNeeded
  <2> QED
    BY <1>8, <2>1, <2>2, <2>4, DataIsNeeded
<1>9. CASE t = Mask(e)
  BY <1>9 DEF Needed, MaskNeeded
<1> QED
  BY <1>6, <1>7, <1>8, <1>9

LEMMA KeptIsNeeded ==
    ASSUME NEW plan, NEW trains, trains, NEW s, NEW n, NEW S, NEW t, KeptFor(n, plan, S, t),
           \A e \in S : BStep(plan, e) <= s,
           \/ n \in graph.inputs /\ s <= End(plan)
           \/ \E e \in Writers(n) : s <= BStep(plan, e)
    PROVE  Needed(t, plan, trains, s)
<1>1. PICK slot \in ReadersOf(n) : slot[1] \in S /\ Keeps(plan, slot) /\ t = GradAt(slot)
  BY DEF KeptFor
<1>2. slot \in Slots /\ NodeAt(slot) = n
  BY <1>1 DEF ReadersOf, NodeAt
<1>3. GradNeeded(slot, plan, s)
  BY <1>1, <1>2 DEF GradNeeded
<1> QED
  BY <1>1, <1>2, <1>3 DEF Needed

AliveNeeded == InPass => \A t \in Packed(Alive) : Needed(t, Plan, training, Now)

LEMMA ForwardNeeded == ASSUME PlanInv, PassInv, UseInv, phase = "forward" PROVE AliveNeeded
<1>1. PICK plan, trains, s, N, e :
          plan = Plan /\ trains = training /\ s = position /\ N = Len(graph.edges) /\ e = Layer
  OBVIOUS
<1>2. /\ graph \in Graphs /\ WellBuilt /\ OrdersFit(plan, trains) /\ N \in Nat /\ s \in 1..(N + 1)
      /\ Len(Pass) = N
      /\ \A d \in Stored : d \in Layers /\ FStep(plan, d) < s
      /\ \A d \in Layers \ Stored : FStep(plan, d) >= s
      /\ s <= N => e \in Layers \ Stored /\ FStep(plan, e) = s
  BY <1>1, ForwardSteps DEF PlanInv, PassInv
<1>3. /\ Len(plan.forward) = N /\ End(plan) \in Nat /\ N + 1 <= End(plan)
      /\ \A d \in Layers : FStep(plan, d) \in 1..N
      /\ \A c, d \in Layers :
             Range(Writes(c)) \cap Range(Reads(d)) # {} => FStep(plan, c) < FStep(plan, d)
      /\ trains => \A d \in Layers : BStep(plan, d) \in (N + 1)..(N + N)
  <2>1. StepsFit(plan, trains, N)
    BY <1>1, <1>2, PlanSteps
  <2>2. /\ Len(plan.forward) = N
        /\ \A d \in Layers : FStep(plan, d) \in 1..N
        /\ \A c, d \in Layers :
               Range(Writes(c)) \cap Range(Reads(d)) # {} => FStep(plan, c) < FStep(plan, d)
        /\ trains => \A d \in Layers : BStep(plan, d) \in (N + 1)..(N + N)
        /\ End(plan) = IF trains THEN N + N + 1 ELSE N + 1
    BY <2>1 DEF StepsFit
  <2> QED
    BY <1>2, <2>2
<1>4. Stored \subseteq Layers /\ \A d \in Stored : FStep(plan, d) <= s
  <2>1. \A d \in Stored : d \in Layers /\ FStep(plan, d) < s /\ FStep(plan, d) \in 1..N
    BY <1>2, <1>3
  <2> QED
    BY <1>2, <2>1
<1>5. s \in Nat /\ s <= N + 1 /\ s <= End(plan)
  BY <1>2, <1>3
<1>6. ASSUME NEW n \in DOMAIN data, ~External(data[n].tensor)
      PROVE  Needed(data[n].tensor, plan, trains, s)
  <2>1. /\ data[n].tensor = Data(n) /\ n \in Nodes
        /\ n \in graph.inputs \/ \E d \in Stored : n \in Range(Writes(d))
        /\ ReadersOf(n) = {} \/ Unread(n, Begun) # 0
    BY <1>1 DEF UseInv, DataKept, PassInv, DataCounted
  <2>2. n \notin graph.inputs
    BY <1>6, <2>1 DEF External, Data
  <2>3. \E d \in Writers(n) : FStep(plan, d) <= s
    BY <1>4, <2>1, <2>2 DEF Writers
  <2>4. CASE ReadersOf(n) = {}
    <3>1. DataNeeded(n, plan, trains, s)
      BY <1>3, <1>5, <2>3, <2>4 DEF DataNeeded
    <3> QED
      BY <1>6, <2>1, <3>1, DataIsNeeded
  <2>5. CASE ReadersOf(n) # {}
    <3>1. PICK slot \in ReadersOf(n) : slot[1] \notin Begun
      <4>1. {slot \in ReadersOf(n) : slot[1] \notin Begun} # {}
        BY <2>1, <2>5, FS_EmptySet DEF Unread
      <4> QED
        BY <4>1
    <3>2. slot[1] \in Layers \ Stored
      BY <3>1 DEF ReadersOf, Slots, Begun
    <3>3. s <= FStep(plan, slot[1])
      <4>1. FStep(plan, slot[1]) >= s /\ FStep(plan, slot[1]) \in 1..N
        BY <1>2, <1>3, <3>2
      <4> QED
        BY <1>5, <4>1
    <3>4. DataNeeded(n, plan, trains, s)
      BY <2>3, <3>1, <3>3 DEF DataNeeded
    <3> QED
      BY <1>6, <2>1, <3>4, DataIsNeeded
  <2> QED
    BY <2>4, <2>5
<1>7. ASSUME NEW t \in using, ~External(t) PROVE Needed(t, plan, trains, s)
  <2>1. e \in Layers /\ FStep(plan, e) = s /\ s \in 1..N
    BY <1>1, <1>2, <1>7 DEF PassInv, InPlace
  <2>2. using = {Data(n) : n \in Range(Reads(e))} \cup ForwardBuffers(e)
    BY <1>1, <1>7 DEF UseInv, InUse
  <2>3. ASSUME NEW n \in Range(Reads(e)), t = Data(n) PROVE Needed(t, plan, trains, s)
    <3>1. n \in Nodes /\ n \notin graph.inputs
      BY <1>2, <1>7, <2>1, <2>3, NodeFacts DEF External, Data
    <3>2. PICK d \in Layers : n \in Range(Writes(d))
      BY <1>2, <3>1, NodeFacts
    <3>3. FStep(plan, d) < FStep(plan, e) /\ FStep(plan, d) \in 1..N
      BY <1>3, <2>1, <2>3, <3>2
    <3>4. d \in Writers(n) /\ FStep(plan, d) <= s
      BY <1>5, <2>1, <3>2, <3>3 DEF Writers
    <3>5. PICK k \in DOMAIN Reads(e) : Reads(e)[k] = n
      BY <2>3 DEF Range
    <3>6. PICK slot : slot = <<e, k>>
      OBVIOUS
    <3>7. slot \in ReadersOf(n) /\ slot[1] = e
      BY <2>1, <3>5, <3>6 DEF ReadersOf, Slots
    <3>8. s <= FStep(plan, slot[1])
      BY <1>5, <2>1, <3>7
    <3>9. DataNeeded(n, plan, trains, s)
      BY <3>4, <3>7, <3>8 DEF DataNeeded
    <3> QED
      BY <1>7, <2>3, <3>1, <3>9, DataIsNeeded
  <2>4. ASSUME NEW n \in Range(Writes(e)), t = <<"data", n>> PROVE Needed(t, plan, trains, s)
    <3>1. n \in Nodes /\ e \in Writers(n) /\ FStep(plan, e) <= s
      BY <1>2, <1>5, <2>1, NodeFacts DEF Writers
    <3>2. n \notin graph.inputs
      BY <1>2, <2>1, WrittenOnce
    <3>3. ReadersOf(n) = {} \/ \E slot \in ReadersOf(n) : s <= FStep(plan, slot[1])
      <4>1. ASSUME NEW slot \in ReadersOf(n) PROVE s <= FStep(plan, slot[1])
        <5>1. slot[1] \in Layers /\ n \in Range(Reads(slot[1]))
          BY DEF ReadersOf, Slots, Range
        <5>2. FStep(plan, e) < FStep(plan, slot[1]) /\ FStep(plan, slot[1]) \in 1..N
          BY <1>3, <2>1, <5>1
        <5> QED
          BY <1>5, <2>1, <5>2
      <4> QED
        BY <4>1
    <3>4. DataNeeded(n, plan, trains, s)
      BY <1>3, <1>5, <3>1, <3>3 DEF DataNeeded
    <3> QED
      BY <2>4, <3>1, <3>2, <3>4 DEF Needed
  <2>5. ASSUME t \in Saved(e), t = Mask(e) PROVE Needed(t, plan, trains, s)
    <3>1. Mask(e) \in SavedIn(e, trains)
      BY <1>1, <2>5 DEF Saved, SavedIn, Residual
    <3>2. MaskNeeded(e, plan, trains, s)
      BY <1>5, <2>1, <3>1 DEF MaskNeeded
    <3> QED
      BY <2>1, <2>5, <3>2 DEF Needed
  <2>6. ASSUME "forward" \in Does(e).scratch, t = <<"work", e>> PROVE Needed(t, plan, trains, s)
    BY <2>1, <2>6 DEF Needed
  <2> QED
    BY <1>7, <2>2, <2>3, <2>4, <2>5, <2>6 DEF ForwardBuffers, Scratch
<1>8. ASSUME NEW t \in held PROVE Needed(t, plan, trains, s)
  <2>1. t \in HeldOutputs(Stored)
    BY <1>8 DEF UseInv, HeldKept
  <2> QED
    BY <1>2, <1>4, <1>5, <2>1, OutputIsNeeded
<1>9. ASSUME NEW d \in AwaitedBackward, NEW t \in TensorsAt(d, residuals[d]), ~External(t)
      PROVE  Needed(t, plan, trains, s)
  <2>1. trains /\ d \in Stored
    BY <1>1, <1>9 DEF AwaitedBackward, Stored, Reached, Pass
  <2>2. d \in Layers /\ FStep(plan, d) <= s
    BY <1>4, <2>1
  <2>3. s <= BStep(plan, d)
    BY <1>3, <1>5, <2>1, <2>2
  <2>4. t \in SavedIn(d, trains)
    <3>1. residuals[d] = Residual(d)
      BY <2>1 DEF PassInv, ResidualsKept, Saves
    <3> QED
      BY <1>1, <1>9, <3>1 DEF Residual, SavedIn
  <2> QED
    BY <1>2, <1>5, <1>9, <2>1, <2>2, <2>3, <2>4, SavedIsNeeded
<1>10. grads = Empty
  BY DEF PassInv
<1>11. Now = s
  BY <1>1 DEF Now
<1>12. ASSUME NEW t \in Packed(Alive) PROVE Needed(t, plan, trains, s)
  <2>1. t \in Alive /\ ~External(t)
    BY DEF Packed
  <2>2. Tensors(grads) = {}
    BY <1>10 DEF Tensors, Empty
  <2>3. \/ \E n \in DOMAIN data : t = data[n].tensor
        \/ t \in using \cup held
        \/ \E d \in AwaitedBackward : t \in TensorsAt(d, residuals[d])
    BY <2>1, <2>2 DEF Alive, Tensors
  <2> QED
    BY <1>6, <1>7, <1>8, <1>9, <2>1, <2>3
<1> QED
  BY <1>1, <1>11, <1>12 DEF AliveNeeded

LEMMA ComputedNeeded == ASSUME PlanInv, PassInv, UseInv, phase = "computed" PROVE AliveNeeded
<1>1. PICK plan, trains, s, N :
          plan = Plan /\ trains = training /\ s = Len(Plan.forward) + 1 /\ N = Len(graph.edges)
  OBVIOUS
<1>2. graph \in Graphs /\ WellBuilt /\ OrdersFit(plan, trains)
  BY <1>1 DEF PlanInv, PassInv, InPlace, Plan
<1>3. /\ N \in Nat /\ s = N + 1 /\ N + 1 <= End(plan)
      /\ \A d \in Layers : FStep(plan, d) \in 1..N
      /\ trains => \A d \in Layers : BStep(plan, d) \in (N + 1)..(N + N)
  <2>1. StepsFit(plan, trains, N)
    BY <1>1, <1>2, PlanSteps
  <2>2. /\ N \in Nat /\ Len(plan.forward) = N
        /\ \A d \in Layers : FStep(plan, d) \in 1..N
        /\ trains => \A d \in Layers : BStep(plan, d) \in (N + 1)..(N + N)
        /\ End(plan) = IF trains THEN N + N + 1 ELSE N + 1
    BY <2>1 DEF StepsFit
  <2> QED
    BY <1>1, <2>2
<1>4. s \in Nat /\ s <= End(plan) /\ \A d \in Layers : FStep(plan, d) <= s
  BY <1>3
<1>5. ASSUME NEW t \in held PROVE Needed(t, plan, trains, s)
  <2>1. t \in HeldOutputs(Layers)
    BY <1>5 DEF UseInv, HeldKept
  <2> QED
    BY <1>2, <1>4, <2>1, OutputIsNeeded
<1>6. ASSUME NEW d \in AwaitedBackward, NEW t \in TensorsAt(d, residuals[d]), ~External(t)
      PROVE  Needed(t, plan, trains, s)
  <2>1. trains /\ d \in DOMAIN residuals /\ d \in Layers
    BY <1>1, <1>6 DEF AwaitedBackward, PassInv, ResidualsKept
  <2>2. FStep(plan, d) <= s
    BY <1>4, <2>1
  <2>3. s <= BStep(plan, d)
    BY <1>3, <2>1
  <2>4. t \in SavedIn(d, trains)
    <3>1. residuals[d] = Residual(d)
      BY <2>1 DEF PassInv, ResidualsKept, Saves
    <3> QED
      BY <1>1, <1>6, <3>1 DEF Residual, SavedIn
  <2> QED
    BY <1>2, <1>4, <1>6, <2>1, <2>2, <2>3, <2>4, SavedIsNeeded
<1>7. data = Empty /\ grads = Empty /\ using = {}
  BY DEF PassInv, InPlace
<1>8. Now = s
  BY <1>1 DEF Now
<1>9. ASSUME NEW t \in Packed(Alive) PROVE Needed(t, plan, trains, s)
  <2>1. t \in Alive /\ ~External(t)
    BY DEF Packed
  <2>2. Tensors(data) = {} /\ Tensors(grads) = {}
    BY <1>7 DEF Tensors, Empty
  <2>3. \/ t \in held
        \/ \E d \in AwaitedBackward : t \in TensorsAt(d, residuals[d])
    BY <1>7, <2>1, <2>2 DEF Alive
  <2> QED
    BY <1>5, <1>6, <2>1, <2>3
<1> QED
  BY <1>1, <1>8, <1>9 DEF AliveNeeded

LEMMA BackwardNeeded == ASSUME PlanInv, PassInv, UseInv, phase = "backward" PROVE AliveNeeded
<1>1. PICK plan, trains, s, N, e :
          /\ plan = Plan /\ trains = training /\ s = Len(Plan.forward) + position
          /\ N = Len(graph.edges) /\ e = Layer
  OBVIOUS
<1>2. /\ graph \in Graphs /\ WellBuilt /\ OrdersFit(plan, trains) /\ trains
      /\ N \in Nat /\ position \in 1..(N + 1) /\ Len(Pass) = N
      /\ \A d \in Stored : d \in Layers /\ BStep(plan, d) < N + position
      /\ \A d \in Layers \ Stored : BStep(plan, d) >= N + position
      /\ position <= N => e \in Layers \ Stored /\ BStep(plan, e) = N + position
  BY <1>1, BackwardSteps DEF PlanInv, PassInv
<1>3. /\ Len(plan.forward) = N /\ End(plan) = N + N + 1
      /\ \A d \in Layers : FStep(plan, d) \in 1..N /\ BStep(plan, d) \in (N + 1)..(N + N)
  BY <1>1, <1>2, BackwardPlan
<1>4. s = N + position /\ s \in Nat /\ s <= End(plan) /\ N <= s
  <2>1. s = N + position
    BY <1>1, <1>3
  <2> QED
    BY <1>2, <1>3, <2>1
<1>5. \A d \in Layers : FStep(plan, d) <= s
  <2>1. \A d \in Layers : FStep(plan, d) \in 1..N
    BY <1>3
  <2> QED
    BY <1>2, <1>4, <2>1
<1>6. \A d \in Stored : d \in Layers /\ BStep(plan, d) <= s
  <2>1. \A d \in Stored : d \in Layers /\ BStep(plan, d) < s /\ BStep(plan, d) \in (N + 1)..(N + N)
    BY <1>2, <1>3, <1>4
  <2> QED
    BY <1>2, <1>4, <2>1
<1>7. \A d \in Layers \ Stored : s <= BStep(plan, d)
  <2>1. \A d \in Layers \ Stored : BStep(plan, d) >= s /\ BStep(plan, d) \in (N + 1)..(N + N)
    BY <1>2, <1>3, <1>4
  <2> QED
    BY <1>2, <1>4, <2>1
<1>8. ASSUME NEW n \in DOMAIN grads, ~External(grads[n].tensor)
      PROVE  Needed(grads[n].tensor, plan, trains, s)
  <2>1. /\ Takers(n, Begun) # 0 /\ n \in Nodes
        /\ IF n \in graph.outputs THEN grads[n].tensor = OutputGrad(n)
           ELSE KeptFor(n, plan, Stored, grads[n].tensor)
    BY <1>1 DEF UseInv, GradsKept, PassInv, GradsCounted
  <2>2. n \notin graph.outputs
    BY <1>8, <2>1 DEF External, OutputGrad
  <2>3. CASE n \in graph.inputs
    BY <1>2, <1>4, <1>6, <2>1, <2>2, <2>3, KeptIsNeeded
  <2>4. CASE n \notin graph.inputs
    <3>1. PICK d \in Layers : n \in Range(Writes(d))
      BY <1>2, <2>1, <2>4, NodeFacts
    <3>2. Takers(n, Begun) = IF d \in Begun THEN 0 ELSE 1
      BY <1>2, <2>1, <3>1, TakersOf
    <3>3. d \in Layers \ Stored /\ d \in Writers(n)
      BY <2>1, <3>1, <3>2 DEF Begun, Writers
    <3>4. s <= BStep(plan, d)
      BY <1>7, <3>3
    <3> QED
      BY <1>2, <1>6, <2>1, <2>2, <3>3, <3>4, KeptIsNeeded
  <2> QED
    BY <2>3, <2>4
<1>9. ASSUME NEW t \in using, ~External(t) PROVE Needed(t, plan, trains, s)
  <2>1. e \in Layers /\ BStep(plan, e) = s /\ s <= BStep(plan, e)
    <3>1. position <= N
      BY <1>2, <1>9 DEF PassInv, InPlace
    <3> QED
      BY <1>2, <1>4, <3>1
  <2>2. \/ t \in Saved(e) \cup BackwardBuffers(e)
        \/ \E n \in Range(Writes(e)) : KeptFor(n, plan, Stored, t)
    BY <1>1, <1>9 DEF UseInv, InUse
  <2>3. CASE t \in Saved(e)
    <3>1. t \in SavedIn(e, trains)
      BY <1>1, <2>3 DEF Saved, SavedIn, Residual
    <3> QED
      BY <1>2, <1>4, <1>5, <1>9, <2>1, <3>1, SavedIsNeeded
  <2>4. CASE \E k \in DOMAIN Reads(e) : t = Grad(e, k)
    <3>1. PICK k \in DOMAIN Reads(e) : t = Grad(e, k)
      BY <2>4
    <3>2. PICK slot : slot = <<e, k>>
      OBVIOUS
    <3>3. slot \in Slots /\ slot[1] = e /\ t = GradAt(slot)
      BY <2>1, <3>1, <3>2 DEF Slots, GradAt
    <3>4. GradNeeded(slot, plan, s)
      BY <2>1, <3>3 DEF GradNeeded
    <3> QED
      BY <1>2, <3>3, <3>4 DEF Needed
  <2>5. CASE "backward" \in Does(e).scratch /\ t = <<"backwork", e>>
    BY <1>2, <2>1, <2>5 DEF Needed
  <2>6. CASE \E n \in Range(Writes(e)) : KeptFor(n, plan, Stored, t)
    <3>1. PICK n \in Range(Writes(e)) : KeptFor(n, plan, Stored, t)
      BY <2>6
    <3>2. e \in Writers(n)
      BY <2>1, <3>1 DEF Writers
    <3> QED
      BY <1>2, <1>6, <2>1, <3>1, <3>2, KeptIsNeeded
  <2> QED
    BY <2>2, <2>3, <2>4, <2>5, <2>6 DEF BackwardBuffers, Scratch
<1>10. ASSUME NEW t \in held PROVE Needed(t, plan, trains, s)
  <2>1. t \in HeldOutputs(Layers)
    BY <1>10 DEF UseInv, HeldKept
  <2> QED
    BY <1>2, <1>4, <1>5, <2>1, OutputIsNeeded
<1>11. ASSUME NEW d \in AwaitedBackward, NEW t \in TensorsAt(d, residuals[d]), ~External(t)
       PROVE  Needed(t, plan, trains, s)
  <2>1. d \in Layers \ Stored /\ residuals[d] = Residual(d)
    BY <1>2, <1>11 DEF AwaitedBackward, PassInv, ResidualsKept, Saves
  <2>2. FStep(plan, d) <= s /\ s <= BStep(plan, d)
    BY <1>5, <1>7, <2>1
  <2>3. t \in SavedIn(d, trains)
    BY <1>1, <1>11, <2>1 DEF Residual, SavedIn
  <2> QED
    BY <1>2, <1>4, <1>11, <2>1, <2>2, <2>3, SavedIsNeeded
<1>12. data = Empty
  BY DEF PassInv
<1>13. Now = s
  BY <1>1 DEF Now
<1>14. ASSUME NEW t \in Packed(Alive) PROVE Needed(t, plan, trains, s)
  <2>1. t \in Alive /\ ~External(t)
    BY DEF Packed
  <2>2. Tensors(data) = {}
    BY <1>12 DEF Tensors, Empty
  <2>3. \/ \E n \in DOMAIN grads : t = grads[n].tensor
        \/ t \in using \cup held
        \/ \E d \in AwaitedBackward : t \in TensorsAt(d, residuals[d])
    BY <2>1, <2>2 DEF Alive, Tensors
  <2> QED
    BY <1>8, <1>9, <1>10, <1>11, <2>1, <2>3
<1> QED
  BY <1>1, <1>13, <1>14 DEF AliveNeeded

LEMMA DifferentiatedNeeded ==
    ASSUME PlanInv, PassInv, UseInv, phase = "differentiated"
    PROVE  AliveNeeded
<1>1. PICK plan, trains, s, N :
          plan = Plan /\ trains = training /\ s = End(Plan) /\ N = Len(graph.edges)
  OBVIOUS
<1>2. graph \in Graphs /\ WellBuilt /\ OrdersFit(plan, trains) /\ trains
  BY <1>1 DEF PlanInv, PassInv, InPlace, Plan
<1>3. /\ N \in Nat /\ s = N + N + 1 /\ s = End(plan)
      /\ \A d \in Layers : FStep(plan, d) \in 1..N /\ BStep(plan, d) \in (N + 1)..(N + N)
  BY <1>1, <1>2, BackwardPlan
<1>4. s <= End(plan) /\ \A d \in Layers : FStep(plan, d) <= s /\ BStep(plan, d) <= s
  BY <1>3
<1>5. ASSUME NEW t \in held PROVE Needed(t, plan, trains, s)
  <2>1. t \in HeldOutputs(Layers) \/ \E n \in graph.inputs : KeptFor(n, plan, Layers, t)
    BY <1>1, <1>5 DEF UseInv, HeldKept, GivenBack
  <2>2. CASE t \in HeldOutputs(Layers)
    BY <1>2, <1>4, <2>2, OutputIsNeeded
  <2>3. CASE \E n \in graph.inputs : KeptFor(n, plan, Layers, t)
    BY <1>2, <1>4, <2>3, KeptIsNeeded
  <2> QED
    BY <2>1, <2>2, <2>3
<1>6. data = Empty /\ grads = Empty /\ using = {} /\ AwaitedBackward = {}
  BY DEF PassInv, InPlace, AwaitedBackward
<1>7. Now = s
  BY <1>1 DEF Now
<1>8. ASSUME NEW t \in Packed(Alive) PROVE Needed(t, plan, trains, s)
  <2>1. Tensors(data) = {} /\ Tensors(grads) = {}
    BY <1>6 DEF Tensors, Empty
  <2>2. t \in held
    BY <1>6, <2>1 DEF Alive, Packed
  <2> QED
    BY <1>5, <2>2
<1> QED
  BY <1>1, <1>7, <1>8 DEF AliveNeeded

LEMMA NeededNow == PlanInv /\ PassInv /\ UseInv => AliveNeeded
BY ForwardNeeded, ComputedNeeded, BackwardNeeded, DifferentiatedNeeded DEF AliveNeeded, InPass

(* The block: what is needed together is in places of its own, so what a   *)
(* layer writes leaves the rest as it was.                                 *)
LEMMA IntactWrite ==
    ASSUME Intact, NEW plan, plan = Plan, Plan' = plan, NEW trains, KeptApart(plan, trains),
           NEW s \in Nat, NEW buffers, Write(buffers), NEW A, Packed(Alive)' = A,
           buffers \subseteq A, A \subseteq Packed(Alive) \cup buffers,
           \A t \in A : Needed(t, plan, trains, s)
    PROVE  Intact'
<1>1. PICK places : places = plan.places
  OBVIOUS
<1>2. \A t, u \in A : t # u => places[u] \cap places[t] = {}
  BY <1>1 DEF KeptApart
<1>3. PICK U : U = DOMAIN mem \cup UNION {places[t] : t \in buffers}
  OBVIOUS
<1>4. mem' = [u \in U |-> IF \E t \in buffers : u \in places[t]
                          THEN CHOOSE t \in buffers : u \in places[t]
                          ELSE mem[u]]
  BY <1>1, <1>3 DEF Write
<1>5. ASSUME NEW t \in A, NEW u \in places[t] PROVE u \in DOMAIN mem' /\ mem'[u] = t
  <2>1. CASE t \in buffers
    <3>1. u \in U /\ \E b \in buffers : u \in places[b]
      BY <1>3, <1>5, <2>1
    <3>2. PICK b : b = CHOOSE c \in buffers : u \in places[c]
      OBVIOUS
    <3>3. b \in buffers /\ u \in places[b]
      BY <3>1, <3>2
    <3>4. b = t
      BY <1>2, <1>5, <3>3
    <3> QED
      BY <1>4, <3>1, <3>2, <3>4
  <2>2. CASE t \notin buffers
    <3>1. u \in DOMAIN mem /\ mem[u] = t
      BY <1>1, <1>5, <2>2 DEF Intact
    <3>2. \A b \in buffers : u \notin places[b]
      BY <1>2, <1>5, <2>2
    <3> QED
      BY <1>3, <1>4, <3>1, <3>2
  <2> QED
    BY <2>1, <2>2
<1> QED
  BY <1>1, <1>5 DEF Intact

LEMMA IntactFewer ==
    ASSUME Intact, Plan' = Plan, mem' = mem, Packed(Alive)' \subseteq Packed(Alive)
    PROVE  Intact'
BY DEF Intact

LEMMA IntactNone == ASSUME Packed(Alive)' = {} PROVE Intact'
BY DEF Intact

LEMMA IntactEvict ==
    ASSUME Intact, Plan' = Plan, NEW alive, mem' = (IF Packed(alive) = {} THEN Empty ELSE mem),
           Packed(Alive)' \subseteq Packed(Alive), Packed(Alive)' \subseteq Packed(alive)
    PROVE  Intact'
<1>1. CASE Packed(alive) = {}
  BY <1>1, IntactNone
<1>2. CASE Packed(alive) # {}
  BY <1>2, IntactFewer
<1> QED
  BY <1>1, <1>2

(* What waits for the backward.                                            *)
Awaited == UNION {TensorsAt(e, residuals[e]) : e \in AwaitedBackward}

LEMMA AwaitedSame ==
    ASSUME UNCHANGED <<graph, residuals>>, AwaitedBackward' = AwaitedBackward
    PROVE  Awaited' = Awaited
<1>1. \A e, saved : TensorsAt(e, saved)' = TensorsAt(e, saved)
  BY SavedSame
<1> QED
  BY <1>1 DEF Awaited

LEMMA AliveThen ==
           /\ Packed(Alive) = {t \in Tensors(data) \cup Tensors(grads) \cup using \cup held \cup Awaited : ~External(t)}
           /\ Packed(Alive)' = {t \in Tensors(data') \cup Tensors(grads') \cup using' \cup held' \cup Awaited' :
                                    ~External(t)}
BY DEF Packed, Alive, Awaited, Tensors, External

LEMMA NeededThen ==
    ASSUME UNCHANGED graph, AliveNeeded', InPass', NEW plan, Plan' = plan,
           NEW trains, training' = trains, NEW s, Now' = s, NEW A, Packed(Alive)' = A
    PROVE  \A t \in A : Needed(t, plan, trains, s)
<1>1. \A t \in A : Needed(t, plan, trains, s)'
  BY DEF AliveNeeded
<1> QED
  BY <1>1, NeedsSame

LEMMA ForwardLayerIntact ==
    ASSUME PlanInv, PassInv, PassInv', TraceInv, UseInv, UseInv', AliveNeeded', Intact, ForwardLayer
    PROVE  Intact'
<1>1. phase = "forward" /\ using = {} /\ position <= Len(Pass)
  BY DEF ForwardLayer, Running
<1>2. PICK e, buffers, plan, trains, s :
          e = Layer /\ buffers = ForwardBuffers(e) /\ plan = Plan /\ trains = training /\ s = position
  OBVIOUS
<1>3. /\ ~Missing(data, Reads(e))
      /\ using' = {data[n].tensor : n \in Range(Reads(e))} \cup buffers
      /\ Write(buffers)
      /\ data' = Released(data, EachIn(Reads(e), data))
      /\ UNCHANGED <<graph, plans, training, phase, position, grads, residuals, held>>
  BY <1>1, <1>2, ForwardFinds DEF ForwardLayer, passVars, planVars
<1>4. Plan' = plan /\ Now' = s /\ s \in Nat /\ KeptApart(plan, trains) /\ InPass'
  <2>1. s \in Nat
    BY <1>1, <1>2, InForward
  <2>2. KeptApart(plan, trains)
    BY <1>1, <1>2 DEF TraceInv, PassInv, InPlace, Plan
  <2> QED
    BY <1>1, <1>2, <1>3, <2>1, <2>2 DEF Plan, Now, InPass
<1>5. PICK A : A = Packed(Alive)'
  OBVIOUS
<1>6. \A t \in A : Needed(t, plan, trains, s)
  BY <1>2, <1>3, <1>4, <1>5, NeededThen
<1>7. buffers \subseteq A
  <2>1. \A t \in buffers : ~External(t)
    BY <1>2 DEF ForwardBuffers, Scratch, Mask, External
  <2> QED
    BY <1>3, <1>5, <2>1, AliveThen
<1>8. Awaited' = Awaited
  <2>1. AwaitedBackward' = AwaitedBackward
    BY <1>3 DEF AwaitedBackward, Plan
  <2> QED
    BY <1>3, <2>1, AwaitedSame
<1>9. Tensors(data') \subseteq Tensors(data)
  <2>1. \A n \in DOMAIN data' : n \in DOMAIN data
    BY <1>3 DEF Released
  <2>2. \A n \in DOMAIN data : data[n].tensor = Data(n)
    BY DEF UseInv, DataKept
  <2>3. \A n \in DOMAIN data' : data'[n].tensor = Data(n)
    <3>1. \A n \in DOMAIN data' : data'[n].tensor = Data(n)'
      BY DEF UseInv, DataKept
    <3> QED
      BY <1>3, <3>1, GraphSame
  <2> QED
    BY <2>1, <2>2, <2>3 DEF Tensors
<1>10. using' \subseteq Tensors(data) \cup buffers
  BY <1>3 DEF Missing, Tensors
<1>11. A \subseteq Packed(Alive) \cup buffers
  BY <1>3, <1>5, <1>8, <1>9, <1>10, AliveThen
<1> QED
  BY <1>2, <1>3, <1>4, <1>5, <1>6, <1>7, <1>11, IntactWrite

(* What a layer has saved for a backward, it has worked with.              *)
LEMMA SavedInUse ==
    ASSUME graph \in Graphs, WellBuilt, NEW e \in Layers,
           using = {Data(n) : n \in Range(Reads(e))} \cup ForwardBuffers(e)
    PROVE  /\ training => Saved(e) \subseteq using
           /\ \A n \in Range(Writes(e)) : Data(n) \in using
<1>1. ASSUME NEW n \in Range(Writes(e)) PROVE Data(n) \in using
  <2>1. Data(n) = <<"data", n>>
    BY WrittenOnce DEF Data
  <2> QED
    BY <2>1 DEF ForwardBuffers
<1>2. ASSUME training, NEW t \in Saved(e) PROVE t \in using
  <2>1. PICK saved : saved = Residual(e)
    OBVIOUS
  <2>2. PICK values : values = {saved[key] : key \in DOMAIN saved}
    OBVIOUS
  <2>3. \/ \E v \in values : v[1] = "in" /\ t = Data(Reads(e)[v[2]])
        \/ t = Data(Writes(e)[1])
        \/ t = Mask(e)
    BY <1>2, <2>1, <2>2 DEF Saved, TensorsAt
  <2>4. CASE \E v \in values : v[1] = "in" /\ t = Data(Reads(e)[v[2]])
    <3>1. PICK v \in values : v[1] = "in" /\ t = Data(Reads(e)[v[2]])
      BY <2>4
    <3>2. PICK key \in DOMAIN Does(e).saves : v = Does(e).saves[key]
      BY <1>2, <2>1, <2>2, <3>1 DEF Residual, SavedKeys
    <3>3. v[2] \in DOMAIN Reads(e)
      BY <3>1, <3>2 DEF WellBuilt, Layers, Reads, Does
    <3>4. Reads(e)[v[2]] \in Range(Reads(e))
      BY <3>3 DEF Range
    <3> QED
      BY <3>1, <3>4
  <2>5. CASE t = Data(Writes(e)[1])
    <3>1. Writes(e) \in Seq(STRING) /\ Range(Writes(e)) # {}
      BY EdgeFacts, NodeFacts
    <3>2. 1 \in DOMAIN Writes(e)
      BY <3>1, LenProperties DEF Range
    <3>3. Writes(e)[1] \in Range(Writes(e))
      BY <3>2 DEF Range
    <3> QED
      BY <1>1, <2>5, <3>3
  <2>6. CASE t = Mask(e)
    BY <1>2, <2>6 DEF ForwardBuffers
  <2> QED
    BY <2>3, <2>4, <2>5, <2>6
<1> QED
  BY <1>1, <1>2

LEMMA StoreForwardIntact ==
    ASSUME PlanInv, PassInv, PassInv', UseInv, UseInv', Intact, StoreForward
    PROVE  Intact'
<1>1. phase = "forward" /\ using # {} /\ position <= Len(Pass)
  BY DEF StoreForward, PassInv, InPlace
<1>2. PICK e, B : e = Layer /\ B = Stored \cup {e}
  OBVIOUS
<1>3. /\ graph \in Graphs /\ WellBuilt /\ e \in Layers \ Stored /\ Reached(Pass, position + 1) = B
  BY <1>1, <1>2, InForward DEF PlanInv, PassInv
<1>4. /\ using' = {} /\ position' = position + 1
      /\ residuals' = [d \in DOMAIN residuals \cup {e} |->
                          IF d # e THEN residuals[d] ELSE Residual(e)]
      /\ DOMAIN data' \subseteq DOMAIN data \cup Range(Writes(e))
      /\ held' = held \cup {Data(n) : n \in Range(Writes(e)) \cap graph.outputs}
      /\ UNCHANGED <<graph, plans, training, phase, grads, mem>>
  BY <1>2 DEF StoreForward, passVars, planVars, Released
<1>5. using = {Data(n) : n \in Range(Reads(e))} \cup ForwardBuffers(e)
  BY <1>1, <1>2 DEF UseInv, InUse
<1>6. /\ training => Saved(e) \subseteq using
      /\ \A n \in Range(Writes(e)) : Data(n) \in using
  BY <1>3, <1>5, SavedInUse
<1>7. Tensors(data') \subseteq Tensors(data) \cup using
  <2>1. \A n \in DOMAIN data : data[n].tensor = Data(n)
    BY DEF UseInv, DataKept
  <2>2. \A n \in DOMAIN data' : data'[n].tensor = Data(n)
    <3>1. \A n \in DOMAIN data' : data'[n].tensor = Data(n)'
      BY DEF UseInv, DataKept
    <3> QED
      BY <1>4, <3>1, GraphSame
  <2> QED
    BY <1>4, <1>6, <2>1, <2>2 DEF Tensors
<1>8. Tensors(grads') = Tensors(grads) /\ held' \subseteq held \cup using
  BY <1>4, <1>6
<1>9. Awaited' \subseteq Awaited \cup using
  <2>1. CASE training
    <3>1. AwaitedBackward = Stored /\ AwaitedBackward' = B
      BY <1>1, <1>3, <1>4, <2>1 DEF AwaitedBackward, Stored, Reached, Pass, Plan
    <3>2. ASSUME NEW d \in B, NEW t \in TensorsAt(d, residuals'[d]) PROVE t \in Awaited \cup using
      <4>1. CASE d = e
        BY <1>4, <1>6, <2>1, <3>2, <4>1 DEF Saved
      <4>2. CASE d # e
        <5>1. d \in Stored /\ d \in DOMAIN residuals
          BY <1>1, <1>2, <4>2 DEF PassInv, ResidualsKept, Saves
        <5>2. residuals'[d] = residuals[d]
          BY <1>4, <4>2, <5>1
        <5> QED
          BY <3>1, <3>2, <5>1, <5>2 DEF Awaited
      <4> QED
        BY <4>1, <4>2
    <3>3. \A d, saved : TensorsAt(d, saved)' = TensorsAt(d, saved)
      BY <1>4, SavedSame
    <3>4. Awaited' = UNION {TensorsAt(d, residuals'[d]) : d \in B}
      BY <3>1, <3>3 DEF Awaited
    <3> QED
      BY <3>2, <3>4
  <2>2. CASE ~training
    BY <1>4, <2>2 DEF AwaitedBackward, Awaited
  <2> QED
    BY <2>1, <2>2
<1>10. Packed(Alive)' \subseteq Packed(Alive)
  BY <1>4, <1>7, <1>8, <1>9, AliveThen
<1>11. Plan' = Plan
  BY <1>4 DEF Plan
<1> QED
  BY <1>4, <1>10, <1>11, IntactFewer

LEMMA ReturnOutputsIntact ==
    ASSUME PlanInv, PassInv, PassInv', Intact, ReturnOutputs
    PROVE  Intact'
<1>1. phase = "forward" /\ using = {} /\ position > Len(Pass)
  BY DEF ReturnOutputs
<1>2. /\ phase' = "computed" /\ Evict(held \cup AllSaved) /\ data' = Empty /\ grads' = Empty
      /\ UNCHANGED <<graph, plans, training, residuals, using, held>>
  BY <1>1 DEF ReturnOutputs, passVars, planVars, PassInv
<1>3. Tensors(data') = {} /\ Tensors(grads') = {} /\ using' = {} /\ Plan' = Plan
  BY <1>1, <1>2 DEF Tensors, Empty, Plan
<1>4. Awaited' \subseteq Awaited /\ Awaited' \subseteq AllSaved
  <2>1. CASE training
    <3>1. AwaitedBackward = Stored /\ AwaitedBackward' = DOMAIN residuals
      BY <1>1, <1>2, <2>1 DEF AwaitedBackward, Stored, Reached, Pass
    <3>2. Stored = Layers /\ DOMAIN residuals \subseteq Layers
      BY <1>1, InForward DEF PassInv, ResidualsKept
    <3>3. \A d, saved : TensorsAt(d, saved)' = TensorsAt(d, saved)
      BY <1>2, SavedSame
    <3>4. Awaited' = AllSaved
      BY <1>2, <3>1, <3>3 DEF Awaited, AllSaved
    <3> QED
      BY <3>1, <3>2, <3>4 DEF Awaited, AllSaved
  <2>2. CASE ~training
    BY <1>2, <2>2 DEF AwaitedBackward, Awaited
  <2> QED
    BY <2>1, <2>2
<1>5. PICK alive : alive = held \cup AllSaved
  OBVIOUS
<1>6. mem' = IF Packed(alive) = {} THEN Empty ELSE mem
  BY <1>2, <1>5 DEF Evict
<1>7. Packed(Alive)' \subseteq Packed(Alive) /\ Packed(Alive)' \subseteq Packed(alive)
  <2>1. Packed(Alive)' \subseteq Packed(Alive)
    BY <1>2, <1>3, <1>4, AliveThen
  <2>2. Packed(Alive)' \subseteq Packed(alive)
    BY <1>2, <1>3, <1>4, <1>5, AliveThen DEF Packed
  <2> QED
    BY <2>1, <2>2
<1> QED
  BY <1>3, <1>6, <1>7, IntactEvict

LEMMA DropOutputsIntact == ASSUME Intact, DropOutputs PROVE Intact'
<1>1. /\ phase = "computed" /\ phase' = "computed" /\ held' = {}
      /\ UNCHANGED <<graph, plans, training, position, data, grads, residuals, using, mem>>
  BY DEF DropOutputs, passVars, planVars
<1>2. AwaitedBackward' = AwaitedBackward /\ Plan' = Plan
  BY <1>1 DEF AwaitedBackward, Plan
<1>3. Awaited' = Awaited
  BY <1>1, <1>2, AwaitedSame
<1>4. Packed(Alive)' \subseteq Packed(Alive)
  BY <1>1, <1>3, AliveThen
<1> QED
  BY <1>1, <1>2, <1>4, IntactFewer

LEMMA BeginBackwardIntact == ASSUME Intact, BeginBackward PROVE Intact'
<1>1. /\ phase = "computed" /\ training /\ phase' = "backward"
      /\ grads' = [n \in graph.outputs |->
                      [tensor |-> OutputGrad(n), refs |-> GradRefs(n), parts |-> 1]]
      /\ UNCHANGED <<graph, plans, training, data, residuals, using, held, mem>>
  BY DEF BeginBackward, passVars, planVars
<1>2. AwaitedBackward' = AwaitedBackward /\ Plan' = Plan
  BY <1>1 DEF AwaitedBackward, Plan
<1>3. Awaited' = Awaited
  BY <1>1, <1>2, AwaitedSame
<1>4. \A t \in Tensors(grads') : External(t)
  <2>1. \A n \in DOMAIN grads' : grads'[n].tensor = OutputGrad(n)
    BY <1>1
  <2> QED
    BY <2>1 DEF Tensors, External, OutputGrad
<1>5. Packed(Alive)' \subseteq Packed(Alive)
  BY <1>1, <1>3, <1>4, AliveThen
<1> QED
  BY <1>1, <1>2, <1>5, IntactFewer

LEMMA BackwardLayerIntact ==
    ASSUME PlanInv, PassInv, PassInv', TraceInv, AliveNeeded', Intact, BackwardLayer
    PROVE  Intact'
<1>1. phase = "backward" /\ using = {} /\ position <= Len(Pass)
  BY DEF BackwardLayer, Running
<1>2. PICK e, buffers, plan, trains, s :
          /\ e = Layer /\ buffers = BackwardBuffers(e) /\ plan = Plan /\ trains = training
          /\ s = Len(Plan.forward) + position
  OBVIOUS
<1>3. /\ ~Missing(grads, Writes(e)) /\ e \in DOMAIN residuals
      /\ using' = {grads[n].tensor : n \in Range(Writes(e))}
                      \cup TensorsAt(e, residuals[e]) \cup buffers
      /\ Write(buffers)
      /\ grads' = Released(grads, EachIn(Writes(e), grads))
      /\ UNCHANGED <<graph, plans, training, phase, position, data, residuals, held>>
  BY <1>1, <1>2, BackwardFindsAll DEF BackwardLayer, passVars, planVars
<1>4. Plan' = plan /\ Now' = s /\ s \in Nat /\ KeptApart(plan, trains) /\ InPass'
  <2>1. s \in Nat
    <3>1. PICK N : N = Len(graph.edges)
      OBVIOUS
    <3>2. N \in Nat /\ position \in 1..(N + 1) /\ trains /\ OrdersFit(plan, trains) /\ graph \in Graphs
      BY <1>1, <1>2, <3>1, BackwardSteps DEF PlanInv
    <3>3. Len(plan.forward) = N
      BY <3>1, <3>2, BackwardPlan
    <3> QED
      BY <1>2, <3>2, <3>3
  <2>2. KeptApart(plan, trains)
    BY <1>1, <1>2 DEF TraceInv, PassInv, InPlace, Plan
  <2> QED
    BY <1>1, <1>2, <1>3, <2>1, <2>2 DEF Plan, Now, InPass
<1>5. PICK A : A = Packed(Alive)'
  OBVIOUS
<1>6. \A t \in A : Needed(t, plan, trains, s)
  BY <1>2, <1>3, <1>4, <1>5, NeededThen
<1>7. buffers \subseteq A
  <2>1. \A t \in buffers : ~External(t)
    BY <1>2 DEF BackwardBuffers, Scratch, Grad, External
  <2> QED
    BY <1>3, <1>5, <2>1, AliveThen
<1>8. Awaited' = Awaited /\ TensorsAt(e, residuals[e]) \subseteq Awaited
  <2>1. AwaitedBackward' = AwaitedBackward
    BY <1>3 DEF AwaitedBackward, Plan
  <2>2. e \in AwaitedBackward
    BY <1>1, <1>3 DEF AwaitedBackward, PassInv, InPlace
  <2>3. TensorsAt(e, residuals[e]) \subseteq Awaited
    BY <2>2 DEF Awaited
  <2> QED
    BY <1>3, <2>1, <2>3, AwaitedSame
<1>9. Tensors(grads') \subseteq Tensors(grads)
  <2>1. ASSUME NEW n \in DOMAIN grads'
        PROVE  n \in DOMAIN grads /\ grads'[n].tensor = grads[n].tensor
    <3>1. PICK times : times = EachIn(Writes(e), grads)
      OBVIOUS
    <3>2. n \in DOMAIN grads
      BY <1>3, <3>1 DEF Released
    <3>3. grads'[n] = IF grads[n].refs = 0 THEN grads[n] ELSE [grads[n] EXCEPT !.refs = @ - times[n]]
      BY <1>3, <3>1 DEF Released
    <3>4. PICK t, r, p : grads[n] = [tensor |-> t, refs |-> r, parts |-> p]
      BY <1>1, <3>2 DEF PassInv, GradsCounted
    <3> QED
      BY <3>2, <3>3, <3>4
  <2> QED
    BY <2>1 DEF Tensors
<1>10. using' \subseteq Tensors(grads) \cup Awaited \cup buffers
  BY <1>3, <1>8 DEF Missing, Tensors
<1>11. A \subseteq Packed(Alive) \cup buffers
  BY <1>3, <1>5, <1>8, <1>9, <1>10, AliveThen
<1> QED
  BY <1>2, <1>3, <1>4, <1>5, <1>6, <1>7, <1>11, IntactWrite

LEMMA StoreBackwardIntact ==
    ASSUME PlanInv, PassInv, UseInv, Intact, StoreBackward
    PROVE  Intact'
<1>1. phase = "backward" /\ using # {} /\ position <= Len(Pass)
  BY DEF StoreBackward, PassInv, InPlace
<1>2. PICK e : e = Layer
  OBVIOUS
<1>3. graph \in Graphs /\ GradsCounted /\ e \in Layers /\ training
  BY <1>1, <1>2, InBackward DEF PlanInv, PassInv, InPlace
<1>4. /\ using' = {} /\ grads' = Accumulated(e)
      /\ residuals' = [d \in DOMAIN residuals \ {e} |-> residuals[d]]
      /\ UNCHANGED <<graph, plans, training, phase, data, held, mem>>
  BY <1>2 DEF StoreBackward, passVars, planVars
<1>5. BackwardBuffers(e) \subseteq using
  BY <1>1, <1>2 DEF UseInv, InUse
<1>6. Tensors(grads') \subseteq Tensors(grads) \cup using
  <2>1. ASSUME NEW n \in DOMAIN grads' PROVE grads'[n].tensor \in Tensors(grads) \cup using
    <3>1. CASE n \in DOMAIN grads
      <4>1. grads'[n].tensor = grads[n].tensor
        BY <1>3, <1>4, <3>1, AccumulatedTensors
      <4> QED
        BY <3>1, <4>1 DEF Tensors
    <3>2. CASE n \notin DOMAIN grads
      <4>1. PICK k \in DOMAIN Reads(e) : grads'[n].tensor = Grad(e, k)
        BY <1>3, <1>4, <3>2, AccumulatedTensors
      <4>2. Grad(e, k) \in BackwardBuffers(e)
        BY <4>1 DEF BackwardBuffers
      <4> QED
        BY <1>5, <4>1, <4>2
    <3> QED
      BY <3>1, <3>2
  <2> QED
    BY <2>1 DEF Tensors
<1>7. Awaited' \subseteq Awaited
  <2>1. AwaitedBackward = DOMAIN residuals /\ AwaitedBackward' = DOMAIN residuals'
    BY <1>1, <1>3, <1>4 DEF AwaitedBackward
  <2>2. \A d, saved : TensorsAt(d, saved)' = TensorsAt(d, saved)
    BY <1>4, SavedSame
  <2>3. Awaited' = UNION {TensorsAt(d, residuals'[d]) : d \in DOMAIN residuals'}
    BY <2>1, <2>2 DEF Awaited
  <2>4. \A d \in DOMAIN residuals' : d \in DOMAIN residuals /\ residuals'[d] = residuals[d]
    BY <1>4
  <2> QED
    BY <2>1, <2>3, <2>4 DEF Awaited
<1>8. Packed(Alive)' \subseteq Packed(Alive)
  BY <1>4, <1>6, <1>7, AliveThen
<1>9. Plan' = Plan
  BY <1>4 DEF Plan
<1> QED
  BY <1>4, <1>8, <1>9, IntactFewer

LEMMA ReturnGradientsIntact ==
    ASSUME PlanInv, PassInv, PassInv', Intact, ReturnGradients
    PROVE  Intact'
<1>1. phase = "backward" /\ using = {} /\ position > Len(Pass)
  BY DEF ReturnGradients
<1>2. graph.inputs \subseteq DOMAIN grads
  BY <1>1, AllGiven
<1>3. /\ phase' = "differentiated" /\ held' = held \cup {grads[n].tensor : n \in graph.inputs}
      /\ Evict(held' \cup Tensors(data) \cup Tensors(grads'))
      /\ UNCHANGED <<graph, plans, training, data, using>>
  BY <1>2 DEF ReturnGradients, passVars, planVars
<1>4. data = Empty /\ data' = Empty /\ grads' = Empty /\ using' = {} /\ Plan' = Plan
  BY <1>1, <1>3 DEF PassInv, Plan
<1>5. Tensors(data) = {} /\ Tensors(data') = {} /\ Tensors(grads') = {}
  BY <1>4 DEF Tensors, Empty
<1>6. Awaited' = {}
  BY <1>3 DEF AwaitedBackward, Awaited
<1>7. held' \subseteq held \cup Tensors(grads)
  BY <1>2, <1>3 DEF Tensors
<1>8. PICK alive : alive = held'
  OBVIOUS
<1>9. mem' = IF Packed(alive) = {} THEN Empty ELSE mem
  BY <1>3, <1>5, <1>8 DEF Evict
<1>10. Packed(Alive)' \subseteq Packed(Alive)
  BY <1>4, <1>5, <1>6, <1>7, AliveThen
<1>11. Packed(Alive)' \subseteq Packed(alive)
  BY <1>4, <1>5, <1>6, <1>8, AliveThen DEF Packed
<1> QED
  BY <1>4, <1>9, <1>10, <1>11, IntactEvict

LEMMA BeginForwardIntact ==
    ASSUME PlanInv, PassInv, UseInv, phase \in {"idle", "packing"}, BeginForward
    PROVE  Intact'
<1>1. /\ data' = [n \in graph.inputs |-> [tensor |-> Data(n), refs |-> DataRefs(n)]]
      /\ phase' = "forward" /\ position' = 1
      /\ UNCHANGED <<graph, grads, using, held>>
  BY DEF BeginForward
<1>2. Tensors(grads') = {} /\ using' = {} /\ held' = {}
  BY <1>1 DEF PassInv, InPlace, UseInv, HeldKept, Tensors, Empty
<1>3. \A t \in Tensors(data') : External(t)
  <2>1. ASSUME NEW n \in DOMAIN data' PROVE External(data'[n].tensor)
    <3>1. n \in graph.inputs /\ data'[n].tensor = Data(n)
      BY <1>1
    <3>2. Data(n) = <<"input", n>>
      BY <3>1 DEF Data
    <3> QED
      BY <3>1, <3>2 DEF External
  <2> QED
    BY <2>1 DEF Tensors
<1>4. Awaited' = {}
  <2>1. AwaitedBackward' = {}
    BY <1>1 DEF AwaitedBackward
  <2> QED
    BY <2>1 DEF Awaited
<1>5. Packed(Alive)' = {}
  BY <1>2, <1>3, <1>4, AliveThen
<1> QED
  BY <1>5, IntactNone

LEMMA OutsideIntact == ASSUME PassInv', UseInv', ~InPass' PROVE Intact'
<1>1. phase' \notin {"forward", "computed", "backward", "differentiated"}
  BY DEF InPass
<1>2. Tensors(data') = {} /\ Tensors(grads') = {} /\ using' = {} /\ held' = {}
  BY <1>1 DEF PassInv, InPlace, UseInv, HeldKept, Tensors, Empty
<1>3. Awaited' = {}
  BY <1>1 DEF AwaitedBackward, Awaited
<1>4. Packed(Alive)' = {}
  BY <1>2, <1>3, AliveThen
<1> QED
  BY <1>4, IntactNone

LEMMA IntactSame == ASSUME Intact, UNCHANGED vars PROVE Intact'
<1>1. UNCHANGED <<graph, plans, training, phase, position, data, grads, residuals, using, held, mem>>
  BY DEF vars, planVars, entries
<1>2. AwaitedBackward' = AwaitedBackward /\ Plan' = Plan
  BY <1>1 DEF AwaitedBackward, Plan
<1>3. Awaited' = Awaited
  BY <1>1, <1>2, AwaitedSame
<1>4. Packed(Alive)' \subseteq Packed(Alive)
  BY <1>1, <1>3, AliveThen
<1> QED
  BY <1>1, <1>2, <1>4, IntactFewer

LEMMA IntactStep ==
    /\ PlanInv /\ PassInv /\ TraceInv /\ UseInv /\ PassInv' /\ UseInv' /\ AliveNeeded'
    /\ Intact /\ [Next]_vars
    => Intact'
<1> SUFFICES ASSUME PlanInv, PassInv, TraceInv, UseInv, PassInv', UseInv', AliveNeeded',
                    Intact, [Next]_vars
             PROVE  Intact'
  OBVIOUS
<1>1. ASSUME Build PROVE Intact'
  <2>1. CASE PlanBuilt
    BY <2>1, BeginForwardIntact DEF PlanBuilt
  <2>2. CASE ~PlanBuilt
    <3>1. phase' \in {"forward order", "backward order", "tracing", "packing"}
      BY <1>1, <2>2 DEF Build, StartPlan, Solve, ForwardOrderFound, BackwardOrderFound,
                        TraceBuffers, Pack
    <3> QED
      BY <3>1, OutsideIntact DEF InPass
  <2> QED
    BY <2>1, <2>2
<1>2. ASSUME Forward PROVE Intact'
  <2>1. CASE CallForward
    BY <2>1, BeginForwardIntact DEF CallForward
  <2> QED
    BY <1>2, <2>1, ForwardLayerIntact, StoreForwardIntact, ReturnOutputsIntact, DropOutputsIntact
       DEF Forward
<1>3. ASSUME Backward PROVE Intact'
  BY <1>3, BeginBackwardIntact, BackwardLayerIntact, StoreBackwardIntact, ReturnGradientsIntact
     DEF Backward
<1>4. ASSUME DropAll PROVE Intact'
  BY <1>4, OutsideIntact DEF DropAll, InPass
<1> QED
  BY <1>1, <1>2, <1>3, <1>4, IntactSame DEF Next

LEMMA IntactInit == Init => Intact
<1> SUFFICES ASSUME Init PROVE Intact
  OBVIOUS
<1>1. data = Empty /\ grads = Empty /\ using = {} /\ held = {} /\ training = FALSE
  BY DEF Init
<1>2. AwaitedBackward = {} /\ Tensors(data) = {} /\ Tensors(grads) = {}
  BY <1>1 DEF AwaitedBackward, Tensors, Empty
<1>3. Packed(Alive) = {}
  BY <1>1, <1>2, AliveThen DEF Awaited
<1> QED
  BY <1>3 DEF Intact

(* In every plan, all that a layer or the caller may still read in a step  *)
(* of the passes has a place, which nothing else is given that somebody    *)
(* may still read in that step: the lifetimes that pack_memory writes down *)
(* in advance are long enough for what the passes then do.                 *)
THEOREM PlacesKeptApart ==
    WellBuilt => (Spec => [](\A trains \in DOMAIN plans : KeptApart(plans[trains], trains)))
<1>1. WellBuilt /\ Init => PlanInv /\ PassInv /\ TraceInv
  BY PlanInit, PassInit, TraceInit
<1>2. PlanInv /\ PassInv /\ TraceInv /\ [Next]_vars => (PlanInv /\ PassInv /\ TraceInv)'
  BY PlanStep, PassStep, TraceStep
<1>3. TraceInv => \A trains \in DOMAIN plans : KeptApart(plans[trains], trains)
  BY DEF TraceInv
<1> QED
  BY <1>1, <1>2, <1>3, PTL DEF Spec

(* NoOverlap, in all the uses that the executor makes of the packer: the   *)
(* trace that pack_memory makes is one that the packer can work on.        *)
THEOREM PlansPackApart == WellBuilt => (Spec => []NoOverlap)
<1>1. WellBuilt /\ Init => PlanInv /\ PassInv /\ TraceInv
  BY PlanInit, PassInit, TraceInit
<1>2. PlanInv /\ PassInv /\ TraceInv /\ [Next]_vars => (PlanInv /\ PassInv /\ TraceInv)'
  BY PlanStep, PassStep, TraceStep
<1>3. TraceInv => NoOverlap
  BY DEF TraceInv, PackInv
<1> QED
  BY <1>1, <1>2, <1>3, PTL DEF Spec

(* Intact: what somebody may still read, has all of its memory, in every   *)
(* pass.  No reference count keeps it (PackedAllocator hands out places    *)
(* without looking): it is so because the passes go through the steps of   *)
(* the plan, and need in each of them only what the plan has kept apart.   *)
THEOREM NothingOverwritten == WellBuilt => (Spec => []Intact)
<1>1. WellBuilt /\ Init => PlanInv /\ PassInv /\ TraceInv /\ UseInv /\ Intact
  BY PlanInit, PassInit, TraceInit, UseInit, IntactInit
<1>2. PlanInv /\ PassInv /\ TraceInv /\ UseInv /\ [Next]_vars => (PlanInv /\ PassInv /\ TraceInv /\ UseInv)'
  BY PlanStep, PassStep, TraceStep, UseStep
<1>3. PlanInv /\ PassInv /\ UseInv => AliveNeeded
  BY NeededNow
<1>4. /\ PlanInv /\ PassInv /\ TraceInv /\ UseInv /\ PassInv' /\ UseInv' /\ AliveNeeded'
      /\ Intact /\ [Next]_vars
      => Intact'
  BY IntactStep
<1> QED
  BY <1>1, <1>2, <1>3, <1>4, PTL DEF Spec
=============================================================================
