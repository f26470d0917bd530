------------------------------- MODULE LayerOps -------------------------------
(***************************************************************************)
(* The layers (nn/layers_impl, nn/blocks_impl), as the executor sees them: *)
(* forward makes one new output from its inputs and may save tensors and   *)
(* sizes for the backward, under keys of a ResidualObject (residuals.hpp); *)
(* backward looks them up again, with the type it expects, and makes one   *)
(* new gradient per input.  Forward and backward of a layer are in         *)
(* different functions that agree on nothing but the keys, and some save   *)
(* in training only, some always.  The numbers are left out.               *)
(*                                                                         *)
(* saves    what forward saves in training, by its key                     *)
(* always   the keys that it saves in evaluation too                       *)
(* reads    what backward looks up, with the type it asks for              *)
(* scratch  the passes that take memory beside their results               *)
(*                                                                         *)
(* A key is the path of the layer in the blocks around it, and a name.     *)
(***************************************************************************)
EXTENDS Naturals, Sequences

In(k) == <<"in", k>>      \* the k-th input
Out == <<"out">>          \* the output
Own == <<"own">>          \* a tensor of the layer's own
Sizes == <<"sizes">>      \* a vector of sizes
Spoiled == <<"spoiled">>  \* an output that somebody has written over since

TypeOf(value) == IF value = Sizes THEN "sizes" ELSE "tensor"

AtTop(f) == [key \in {<< <<>>, name >> : name \in DOMAIN f} |-> f[key[2]]]
Nothing == [x \in {} |-> x]

Op(saves, reads, scratch) ==
    [saves |-> AtTop(saves), always |-> {}, reads |-> AtTop(reads), scratch |-> scratch]

Both == {"forward", "backward"}

(* What forward saves under key, if it does.                               *)
SavedKeys(op, training) == IF training THEN DOMAIN op.saves ELSE op.always

(* operator[] makes an empty entry for a key that is missing, and the      *)
(* conversion to the other type throws, as it does for a wrong type.       *)
LooksUp(op, saved, key) ==
    key \in DOMAIN saved /\ TypeOf(saved[key]) = op.reads[key]

----------------------------------------------------------------------------
(* Elementwise layers                                                      *)

ActivationOp == Op([input |-> In(1)], [input |-> "tensor"], {})
ELUOp == Op([input |-> In(1)], [input |-> "tensor"], {})
GELUOp == Op([input |-> In(1)], [input |-> "tensor"], {})
TanhOp == Op([input |-> In(1)], [input |-> "tensor"], {})
ReLUOp == Op([output |-> Out], [output |-> "tensor"], Both)
SigmoidOp == Op([output |-> Out], [output |-> "tensor"], {})
LeakyReLUOp == Op([mask |-> Own], [mask |-> "tensor"], {})
DropoutOp == Op([mask |-> Own], [mask |-> "tensor"], Both)
LinearOp == Op(Nothing, Nothing, {})
AddScalarOp == Op(Nothing, Nothing, {})
SubScalarOp == Op(Nothing, Nothing, {})
MulScalarOp == Op(Nothing, Nothing, {})
DivScalarOp == Op(Nothing, Nothing, {})

(* Layers of several inputs.                                               *)
AddOp == Op([num_inputs |-> Sizes], [num_inputs |-> "sizes"], {})
SubOp == Op(Nothing, Nothing, {})
MulOp == Op([a |-> In(1), b |-> In(2)], [a |-> "tensor", b |-> "tensor"], {})
DivOp == Op([a |-> In(1), b |-> In(2)], [a |-> "tensor", b |-> "tensor"], {"backward"})
ConcatOp == Op([input_axis_sizes |-> Sizes], [input_axis_sizes |-> "sizes"], Both)
SDPAOp ==
    Op([q |-> In(1), k |-> In(2), v |-> In(3), output |-> Out, stats |-> Own],
       [name \in {"q", "k", "v", "output", "stats"} |-> "tensor"], Both)

(* Layers with parameters.                                                 *)
DenseOp == Op([input |-> In(1)], [input |-> "tensor"], Both)
Conv2DOp == Op([input |-> In(1)], [input |-> "tensor"], Both)
ConvTranspose2DOp == Op([input |-> In(1)], [input |-> "tensor"], Both)
EmbeddingOp == Op([input |-> In(1)], [input |-> "tensor"], Both)
PositionalEmbeddingOp == Op(Nothing, Nothing, Both)
ClassTokenOp == Op(Nothing, Nothing, Both)
LayerNormOp ==
    Op([input |-> In(1), batch_mean |-> Own, batch_invar |-> Own],
       [name \in {"input", "batch_mean", "batch_invar"} |-> "tensor"], Both)
BatchNormOp(use_relu) ==
    LET mask == IF use_relu THEN {"relu_mask"} ELSE {}
        names == {"input", "batch_mean", "batch_invar"} \cup mask
    IN  Op([name \in names |-> IF name = "input" THEN In(1) ELSE Own],
           [name \in names |-> "tensor"], Both)

(* Layers that change the shape.                                           *)
MaxPool2DOp ==
    Op([mask_indices |-> Own, input_shape |-> Sizes],
       [mask_indices |-> "tensor", input_shape |-> "sizes"], Both)
AvgPool2DOp == Op([input_shape |-> Sizes], [input_shape |-> "sizes"], Both)
FlattenOp == Op([original_shape |-> Sizes], [original_shape |-> "sizes"], {})
TransposeOp == Op(Nothing, Nothing, Both)

(* The shape is saved as that of a tensor without memory.                  *)
NoMemory == <<"nothing">>
SliceOp == Op([original_shape |-> NoMemory], [original_shape |-> "tensor"], Both)

(* The older versions of some layers, without queries for workspaces.      *)
LegacyDenseOp == Op([input |-> In(1)], [input |-> "tensor"], {})
LegacyConv2DOp == Op([col_buffer |-> Own], [col_buffer |-> "tensor"], Both)
LegacyMaxPool2DOp == Op([mask_indices |-> Own], [mask_indices |-> "tensor"], {"forward"})
LegacyAvgPool2DOp == Op(Nothing, Nothing, {})
LegacyBatchNormOp ==
    LET op == Op([norm |-> Own, inv_std |-> Own, mean |-> Own],
                 [norm |-> "tensor", inv_std |-> "tensor"], {})
    IN  [op EXCEPT !.always = DOMAIN op.saves]

----------------------------------------------------------------------------
(* Blocks: layers that run layers                                          *)

Inside(i, keys) == {<< <<i>> \o key[1], key[2] >> : key \in keys}
Part(key) == Head(key[1])
Inner(key) == << Tail(key[1]), key[2] >>

(* A part of a block, seen from outside: inputs and outputs that are not   *)
(* those of the block belong to the block.                                 *)
PartOf(op, first, last) ==
    [op EXCEPT !.saves = [key \in DOMAIN @ |->
        IF (@[key] = Out /\ ~last) \/ (@[key][1] = "in" /\ ~first) THEN Own ELSE @[key]]]

(* A block with entries of its own and those of its parts.                 *)
Block(op, parts) ==
    LET saved == UNION {Inside(i, DOMAIN parts[i].saves) : i \in DOMAIN parts}
        read == UNION {Inside(i, DOMAIN parts[i].reads) : i \in DOMAIN parts}
    IN  [saves |-> [key \in DOMAIN op.saves \cup saved |->
                       IF key \in saved THEN parts[Part(key)].saves[Inner(key)]
                       ELSE op.saves[key]],
         always |-> op.always \cup UNION {Inside(i, parts[i].always) : i \in DOMAIN parts},
         reads |-> [key \in DOMAIN op.reads \cup read |->
                       IF key \in read THEN parts[Part(key)].reads[Inner(key)]
                       ELSE op.reads[key]],
         scratch |-> op.scratch \cup UNION {parts[i].scratch : i \in DOMAIN parts}]

(* One layer after the other.                                              *)
SequentialOp(layers) ==
    Block(Op(Nothing, Nothing, IF Len(layers) > 1 THEN Both ELSE {}),
          [i \in DOMAIN layers |-> PartOf(layers[i], i = 1, i = Len(layers))])

(* The main path, the shortcut if there is one, their sum and an           *)
(* activation.  Without an activation the sum is written over the output   *)
(* of the main path, saved or not.                                         *)
SpoiledOutput(op) ==
    [op EXCEPT !.saves = [key \in DOMAIN @ |-> IF @[key] = Out THEN Spoiled ELSE @[key]]]

PlainResidualBlockOp(paths) ==
    Block(Op(Nothing, Nothing, Both),
          [i \in DOMAIN paths |-> IF i = 1 THEN SpoiledOutput(paths[1])
                                            ELSE PartOf(paths[i], TRUE, FALSE)])

ResidualBlockOp(paths, activation) ==
    LET sum == Op([pre_activation_0 |-> Own], Nothing, Both)
    IN  Block([sum EXCEPT !.always = DOMAIN sum.saves],
              [i \in 1..(Len(paths) + 1) |-> IF i > Len(paths) THEN PartOf(activation, FALSE, TRUE)
                                             ELSE PartOf(paths[i], TRUE, FALSE)])

(* Projections to queries, keys and values, attention, and a projection of *)
(* the result.                                                             *)
FlashAttentionBlockOp ==
    LET op == Op([input |-> In(1), attn_out |-> Own, stats_tensor |-> Own],
                 [name \in {"input", "attn_out", "stats_tensor"} |-> "tensor"], Both)
    IN  Block([op EXCEPT !.always = DOMAIN op.saves \ {<< <<>>, "input" >>}],
              [i \in 1..4 |-> PartOf(DenseOp, i <= 3, i = 4)])

----------------------------------------------------------------------------
(* What backward looks up is there after a training forward, has the type  *)
(* that it expects, and is still what was saved.                           *)
BackwardFinds(op) ==
    \A key \in DOMAIN op.reads :
        LooksUp(op, op.saves, key) /\ op.saves[key] # Spoiled
=============================================================================
