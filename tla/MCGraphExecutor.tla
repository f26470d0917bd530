--------------------------- MODULE MCGraphExecutor ---------------------------
(***************************************************************************)
(* Small graphs with every shape that the executor treats differently, and *)
(* every layer in a graph of its own.                                      *)
(***************************************************************************)
EXTENDS GraphExecutor, GraphState, Losses, Convolutions, TensorOps, TrainingLoop, Optimizers,
        Datasets, Augmentations, Norms

Simple == [activation |-> ActivationOp, elu |-> ELUOp, gelu |-> GELUOp, tanh |-> TanhOp,
           relu |-> ReLUOp, sigmoid |-> SigmoidOp, leaky_relu |-> LeakyReLUOp,
           dropout |-> DropoutOp, linear |-> LinearOp, add_scalar |-> AddScalarOp,
           sub_scalar |-> SubScalarOp, mul_scalar |-> MulScalarOp, div_scalar |-> DivScalarOp,
           dense |-> DenseOp, conv2d |-> Conv2DOp, conv2d_transpose |-> ConvTranspose2DOp,
           embedding |-> EmbeddingOp, pos_embedding |-> PositionalEmbeddingOp,
           class_token |-> ClassTokenOp, layer_norm |-> LayerNormOp,
           batchnorm |-> BatchNormOp(FALSE), batchnorm_relu |-> BatchNormOp(TRUE),
           maxpool2d |-> MaxPool2DOp, avgpool2d |-> AvgPool2DOp, flatten |-> FlattenOp,
           transpose |-> TransposeOp, slice |-> SliceOp, legacy_dense |-> LegacyDenseOp,
           legacy_conv2d |-> LegacyConv2DOp, legacy_maxpool2d |-> LegacyMaxPool2DOp,
           legacy_avgpool2d |-> LegacyAvgPool2DOp, legacy_batchnorm |-> LegacyBatchNormOp]

(* Blocks, nested too; the first ends in a layer that saves its output.    *)
Stack == SequentialOp(<<DenseOp, BatchNormOp(TRUE), SigmoidOp>>)
Nested == [stack |-> Stack,
           plain_block |-> PlainResidualBlockOp(<<SequentialOp(<<DenseOp, GELUOp>>)>>),
           relu_block |-> ResidualBlockOp(<<Stack, SequentialOp(<<Conv2DOp>>)>>, ActivationOp),
           attention |-> FlashAttentionBlockOp]

Joins == [add |-> AddOp, sub |-> SubOp, mul |-> MulOp, div |-> DivOp, concat |-> ConcatOp]

MCOps == Simple @@ Nested @@ Joins @@ [sdpa |-> SDPAOp]

(* What the backward of a layer looks up, its forward has saved.           *)
ASSUME EveryLayerFinds == \A op \in DOMAIN MCOps : BackwardFinds(MCOps[op])

Edge(reads, writes, op) == [reads |-> reads, writes |-> writes, op |-> op]

(* A layer alone.                                                          *)
Alone(op, inputs) ==
    [inputs |-> Range(inputs), outputs |-> {"y"},
     size |-> [n \in Range(inputs) \cup {"y"} |-> 1],
     edges |-> <<Edge(inputs, <<"y">>, op)>>]

EveryOp == {Alone(op, <<"x">>) : op \in DOMAIN Simple \cup DOMAIN Nested}
             \cup {Alone(op, <<"x", "z">>) : op \in DOMAIN Joins}
             \cup {Alone("sdpa", <<"x", "z", "w">>), Alone("mul", <<"x", "x">>)}

(* One layer after the other; saved inputs, outputs and masks.             *)
Chain == [inputs |-> {"x"}, outputs |-> {"c"},
          size |-> [x |-> 1, a |-> 2, b |-> 1, c |-> 1],
          edges |-> <<Edge(<<"x">>, <<"a">>, "dense"),
                      Edge(<<"a">>, <<"b">>, "stack"),
                      Edge(<<"b">>, <<"c">>, "gelu")>>]

(* A residual connection: two branches from a node, and a join.            *)
Diamond == [inputs |-> {"x"}, outputs |-> {"d"},
            size |-> [x |-> 1, a |-> 1, b |-> 2, c |-> 1, d |-> 1],
            edges |-> <<Edge(<<"x">>, <<"a">>, "conv2d"),
                        Edge(<<"a">>, <<"b">>, "maxpool2d"),
                        Edge(<<"a">>, <<"c">>, "batchnorm_relu"),
                        Edge(<<"b", "c">>, <<"d">>, "add")>>]

(* A skipped layer, and a node that a layer reads twice.                   *)
Skip == [inputs |-> {"x"}, outputs |-> {"d"},
         size |-> [x |-> 1, a |-> 1, b |-> 1, c |-> 2, d |-> 1],
         edges |-> <<Edge(<<"x">>, <<"a">>, "relu"),
                     Edge(<<"a">>, <<"b">>, "linear"),
                     Edge(<<"a", "b">>, <<"c">>, "div"),
                     Edge(<<"c", "c">>, <<"d">>, "mul")>>]

(* Two residual connections.                                               *)
Blocks == [inputs |-> {"x"}, outputs |-> {"e"},
           size |-> [x |-> 1, a |-> 1, b |-> 2, c |-> 1, d |-> 2, e |-> 1],
           edges |-> <<Edge(<<"x">>, <<"a">>, "slice"),
                       Edge(<<"a">>, <<"b">>, "legacy_batchnorm"),
                       Edge(<<"a", "b">>, <<"c">>, "concat"),
                       Edge(<<"c">>, <<"d">>, "sigmoid"),
                       Edge(<<"d", "c">>, <<"e">>, "sub")>>]

(* Two ends, two inputs, and an output that is read too.                   *)
TwoEnds == [inputs |-> {"x", "y"}, outputs |-> {"b", "c", "d"},
            size |-> [x |-> 1, y |-> 1, a |-> 1, b |-> 2, c |-> 1, d |-> 1],
            edges |-> <<Edge(<<"x">>, <<"a">>, "flatten"),
                        Edge(<<"a">>, <<"b">>, "tanh"),
                        Edge(<<"a", "y">>, <<"c">>, "mul"),
                        Edge(<<"b">>, <<"d">>, "relu_block")>>]

(* A layer whose result nobody reads: not for training.                    *)
DeadEnd == [inputs |-> {"x"}, outputs |-> {"c"},
            size |-> [x |-> 1, a |-> 1, b |-> 2, c |-> 1],
            edges |-> <<Edge(<<"x">>, <<"a">>, "leaky_relu"),
                        Edge(<<"a">>, <<"b">>, "attention"),
                        Edge(<<"a">>, <<"c">>, "dropout")>>]

MCGraphs == EveryOp \cup {Chain, Diamond, Skip, Blocks, TwoEnds, DeadEnd}

(* Memory taken and kept: releases, a low and a high peak.                 *)
MCProfiles == {<<2, -1>>, <<2, 1>>, <<3, 1>>}

(* They are built as the executor expects.                                 *)
ASSUME GraphsAreWellBuilt == WellBuilt
=============================================================================
