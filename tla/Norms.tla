-------------------------------- MODULE Norms --------------------------------
(* Batch and layer normalisation in the engines (engines/cpu/norm.cpp,      *)
(* engines/cuda/norm.cu) and the legacy batch normalisation of the CPU: the *)
(* statistics, the running ones, the outputs and all gradients, with the    *)
(* grids, vectors, workspaces and shared memory of the CUDA kernels.        *)
(* Numbers are those of Activations; the square root is exact for squares.  *)
EXTENDS Activations

----------------------------------------------------------------------------
(* What the kernels share.                                                  *)

SquareRoot(n) == CHOOSE r \in 0 .. n : r * r = n
IsSquare(n) == \E r \in 0 .. n : r * r = n
inv_sqrt(q) == IF IsSquare(q[1]) /\ IsSquare(q[2]) THEN <<SquareRoot(q[2]), SquareRoot(q[1])>> ELSE Over1(q)

Positive(q) == q[1] > 0
NotNegative(q) == IF Positive(q) THEN q ELSE Whole(0)
Normalized(x, mean, inv_std) == Multiplied(Taken(x, mean), inv_std)
Scaled(x, by, plus) == Added(Multiplied(x, by), plus)

\* The shape of a batch of images, with its places, channels and elements.
Images(batch, spatial, channels) == [batch |-> batch, spatial |-> spatial, channels |-> channels]
PlacesOf(s) == s.batch * s.spatial
ChannelsOf(s) == 0 .. s.channels - 1
IndicesOf(s) == 0 .. (PlacesOf(s) * s.channels) - 1

\* Running statistics move towards those of a batch.
Moved(old, momentum, new) == Added(Multiplied(Taken(Whole(1), momentum), old), Multiplied(momentum, new))
MovedStats(s, running, momentum, mean, unbiased_var) ==
  [mean |-> [c \in ChannelsOf(s) |-> Moved(running.mean[c], momentum, mean[c])],
   var  |-> [c \in ChannelsOf(s) |-> Moved(running.var[c], momentum, unbiased_var[c])]]

----------------------------------------------------------------------------
(* The CPU: channels are last in memory.  A sum over the places of a        *)
(* channel is made of one partial sum for each image.                       *)

PlaceSums(s, term(_)) ==
  [c \in ChannelsOf(s) |->
     LoopSum(s.batch, LAMBDA n : LoopSum(s.spatial, LAMBDA i :
       term((n * s.spatial * s.channels) + (i * s.channels) + c)))]

\* mask holds the elements that relu lets through: all of them without it.
batchnorm_fwd_impl(s, input, running, p, momentum, epsilon, use_relu) ==
  LET m         == PlacesOf(s)
      sums      == PlaceSums(s, LAMBDA idx : input[idx])
      sq_sums   == PlaceSums(s, LAMBDA idx : Multiplied(input[idx], input[idx]))
      mean      == [c \in ChannelsOf(s) |-> Divided(sums[c], Whole(m))]
      var       == [c \in ChannelsOf(s) |->
                      NotNegative(Taken(Divided(sq_sums[c], Whole(m)), Multiplied(mean[c], mean[c])))]
      inv_std   == [c \in ChannelsOf(s) |-> inv_sqrt(Added(var[c], epsilon))]
      unbiased  == [c \in ChannelsOf(s) |->
                      IF m > 1 THEN Divided(Multiplied(var[c], Whole(m)), Whole(m - 1)) ELSE Whole(0)]
      scale     == [c \in ChannelsOf(s) |-> Multiplied(p.gamma[c], inv_std[c])]
      bias_term == [c \in ChannelsOf(s) |-> Taken(p.beta[c], Multiplied(mean[c], scale[c]))]
      val       == [idx \in IndicesOf(s) |->
                      Scaled(input[idx], scale[idx % s.channels], bias_term[idx % s.channels])]
      mask      == {idx \in IndicesOf(s) : ~ use_relu \/ Positive(val[idx])}
  IN  [mean |-> mean, inv_std |-> inv_std, mask |-> mask,
       running |-> MovedStats(s, running, momentum, mean, unbiased),
       output |-> [idx \in IndicesOf(s) |-> IF idx \in mask THEN val[idx] ELSE Whole(0)]]

batchnorm_infer_impl(s, input, running, p, epsilon, use_relu) ==
  LET scale == [c \in ChannelsOf(s) |-> Multiplied(p.gamma[c], inv_sqrt(Added(running.var[c], epsilon)))]
      bias  == [c \in ChannelsOf(s) |-> Taken(p.beta[c], Multiplied(running.mean[c], scale[c]))]
      val(idx) == Scaled(input[idx], scale[idx % s.channels], bias[idx % s.channels])
  IN  [idx \in IndicesOf(s) |-> IF use_relu THEN NotNegative(val(idx)) ELSE val(idx)]

\* The gradients of the parameters are added to d, those of the input are new.
batchnorm_bwd_impl(s, grad_output, input, saved, gamma, d) ==
  LET m         == PlacesOf(s)
      dy(idx)   == IF idx \in saved.mask THEN grad_output[idx] ELSE Whole(0)
      x_hat(idx) == Normalized(input[idx], saved.mean[idx % s.channels], saved.inv_std[idx % s.channels])
      sum_dy    == PlaceSums(s, dy)
      sum_dy_xn == PlaceSums(s, LAMBDA idx : Multiplied(dy(idx), x_hat(idx)))
      term1(c)  == Divided(Multiplied(gamma[c], saved.inv_std[c]), Whole(m))
      term2(idx, c) == Taken(Taken(Multiplied(Whole(m), dy(idx)), sum_dy[c]), Multiplied(x_hat(idx), sum_dy_xn[c]))
  IN  [gamma |-> [c \in ChannelsOf(s) |-> Added(d.gamma[c], sum_dy_xn[c])],
       beta  |-> [c \in ChannelsOf(s) |-> Added(d.beta[c], sum_dy[c])],
       input |-> [idx \in IndicesOf(s) |-> Multiplied(term1(idx % s.channels), term2(idx, idx % s.channels))]]

\* The statistics of row n of a tensor; every row is normalised by itself.
RowStats(input, n, channels, epsilon) ==
  LET mean == Divided(LoopSum(channels, LAMBDA c : input[(n * channels) + c]), Whole(channels))
      sq(c) == LET diff == Taken(input[(n * channels) + c], mean) IN Multiplied(diff, diff)
      var  == Divided(LoopSum(channels, sq), Whole(channels))
  IN  [mean |-> mean, inv_std |-> inv_sqrt(Added(var, epsilon))]

layernorm_fwd_impl(rows, channels, input, p, epsilon) ==
  LET stats == [n \in 0 .. rows - 1 |-> RowStats(input, n, channels, epsilon)]
  IN  [idx \in 0 .. (rows * channels) - 1 |->
         LET st == stats[idx \div channels]
         IN  Scaled(Normalized(input[idx], st.mean, st.inv_std), p.gamma[idx % channels], p.beta[idx % channels])]

\* Rows first, for the input, then columns, for the parameters.
layernorm_bwd_impl(rows, channels, grad_output, input, gamma, epsilon, d) ==
  LET stats == [n \in 0 .. rows - 1 |-> RowStats(input, n, channels, epsilon)]
      normalized(idx) == LET st == stats[idx \div channels] IN Normalized(input[idx], st.mean, st.inv_std)
      dx_hat(idx) == Multiplied(grad_output[idx], gamma[idx % channels])
      sum_hat     == [n \in 0 .. rows - 1 |-> LoopSum(channels, LAMBDA c : dx_hat((n * channels) + c))]
      sum_hat_xn  == [n \in 0 .. rows - 1 |->
                        LoopSum(channels, LAMBDA c : Multiplied(dx_hat((n * channels) + c), normalized((n * channels) + c)))]
      dx(idx, n)  == Multiplied(Divided(stats[n].inv_std, Whole(channels)),
                                Taken(Taken(Multiplied(Whole(channels), dx_hat(idx)), sum_hat[n]),
                                      Multiplied(normalized(idx), sum_hat_xn[n])))
      column(c, term(_)) == LoopSum(rows, LAMBDA n : term((n * channels) + c))
  IN  [input |-> [idx \in 0 .. (rows * channels) - 1 |-> dx(idx, idx \div channels)],
       gamma |-> [c \in 0 .. channels - 1 |->
                    Added(d.gamma[c], column(c, LAMBDA idx : Multiplied(grad_output[idx], normalized(idx))))],
       beta  |-> [c \in 0 .. channels - 1 |-> Added(d.beta[c], column(c, LAMBDA idx : grad_output[idx]))]]

----------------------------------------------------------------------------
(* The legacy layer, whose images have their channels before their places,  *)
(* and which may have no parameters.                                        *)

LegacyAt(s, n, c, i) == (n * s.channels * s.spatial) + (c * s.spatial) + i
LegacyChannel(s, idx) == (idx \div s.spatial) % s.channels
LegacySums(s, term(_, _)) ==
  [c \in ChannelsOf(s) |->
     LoopSum(s.batch, LAMBDA n : LoopSum(s.spatial, LAMBDA i : term(LegacyAt(s, n, c, i), c)))]

\* Called with more than one place: with one the unbiased variance is nothing over nothing.
legacy_batchnorm_fwd_impl(s, input, running, p, momentum, epsilon, affine) ==
  LET m       == PlacesOf(s)
      sums    == LegacySums(s, LAMBDA idx, c : input[idx])
      mean    == [c \in ChannelsOf(s) |-> Divided(sums[c], Whole(m))]
      var_sum == LegacySums(s, LAMBDA idx, c : Multiplied(Taken(input[idx], mean[c]), Taken(input[idx], mean[c])))
      inv_std == [c \in ChannelsOf(s) |-> inv_sqrt(Added(Divided(var_sum[c], Whole(m)), epsilon))]
      unbiased == [c \in ChannelsOf(s) |-> Divided(var_sum[c], Whole(m - 1))]
      norm    == [idx \in IndicesOf(s) |->
                    LET c == LegacyChannel(s, idx) IN Normalized(input[idx], mean[c], inv_std[c])]
  IN  [mean |-> mean, inv_std |-> inv_std, norm |-> norm,
       running |-> MovedStats(s, running, momentum, mean, unbiased),
       output |-> [idx \in IndicesOf(s) |->
                     LET c == LegacyChannel(s, idx)
                     IN  IF affine THEN Scaled(norm[idx], p.gamma[c], p.beta[c]) ELSE norm[idx]]]

legacy_batchnorm_inf_impl(s, input, running, p, epsilon, affine) ==
  [idx \in IndicesOf(s) |->
     LET c == LegacyChannel(s, idx)
         normalized == Normalized(input[idx], running.mean[c], inv_sqrt(Added(running.var[c], epsilon)))
     IN  IF affine THEN Scaled(normalized, p.gamma[c], p.beta[c]) ELSE normalized]

\* With parameters the sums are added to d, without they replace it; the gradients of the input
\* are then made of what d holds.
legacy_batchnorm_bwd_impl(s, grad_output, saved, gamma, d, affine) ==
  LET m        == PlacesOf(s)
      sum_dy   == LegacySums(s, LAMBDA idx, c : grad_output[idx])
      sum_dy_x == LegacySums(s, LAMBDA idx, c : Multiplied(grad_output[idx], saved.norm[idx]))
      d_gamma  == [c \in ChannelsOf(s) |-> IF affine THEN Added(d.gamma[c], sum_dy_x[c]) ELSE sum_dy_x[c]]
      d_beta   == [c \in ChannelsOf(s) |-> IF affine THEN Added(d.beta[c], sum_dy[c]) ELSE sum_dy[c]]
      dx(idx, c) == Multiplied(Divided(Multiplied(IF affine THEN gamma[c] ELSE Whole(1), saved.inv_std[c]), Whole(m)),
                               Taken(Taken(Multiplied(Whole(m), grad_output[idx]), d_beta[c]),
                                     Multiplied(saved.norm[idx], d_gamma[c])))
  IN  [gamma |-> d_gamma, beta |-> d_beta, input |-> [idx \in IndicesOf(s) |-> dx(idx, LegacyChannel(s, idx))]]

----------------------------------------------------------------------------
(* CUDA.  The mean and the sum of squares about it are collected by each    *)
(* thread on its way through the places of a channel, and merged over warps *)
(* and the block.                                                           *)

WelfordData(mean, m2, count) == [mean |-> mean, m2 |-> m2, count |-> count]
NoData == WelfordData(Whole(0), Whole(0), 0)

welford_merge(a, b) ==
  IF b.count = 0 THEN a
  ELSE IF a.count = 0 THEN b
  ELSE LET new_count == a.count + b.count
           delta     == Taken(b.mean, a.mean)
       IN  WelfordData(Added(a.mean, Divided(Multiplied(delta, Whole(b.count)), Whole(new_count))),
                       Added(Added(a.m2, b.m2), Divided(Multiplied(Multiplied(delta, delta), Whole(a.count * b.count)),
                                                        Whole(new_count))),
                       new_count)

\* A lane past the end of the warp gets its own data back.
warp_reduce_welford(v) ==
  LET from(u, d) == [l \in 0 .. Warp - 1 |-> welford_merge(u[l], IF l + d < Warp THEN u[l + d] ELSE u[l])]
  IN  from(from(v, Warp \div 2), Warp \div 4)

block_reduce_welford(own) ==
  LET shared == [w \in 0 .. Warps - 1 |-> warp_reduce_welford(Lanes(own, w))[0]]
  IN  warp_reduce_welford([l \in 0 .. Warp - 1 |-> IF l < Warps THEN shared[l] ELSE NoData])[0]

\* What thread t has after its elements: t, t + Threads and so on.
Collected(t, count, val(_)) ==
  LET w[k \in 0 .. Cardinality(Stride(t, count, Threads))] ==
        IF k = 0 THEN NoData
        ELSE LET thread == w[k - 1]
                 x      == val(t + ((k - 1) * Threads))
                 delta  == Taken(x, thread.mean)
                 mean   == Added(thread.mean, Divided(delta, Whole(thread.count + 1)))
             IN  WelfordData(mean, Added(thread.m2, Multiplied(delta, Taken(x, mean))), thread.count + 1)
  IN  w[Cardinality(Stride(t, count, Threads))]

batchnorm_stats_kernel(s, input, running, momentum, epsilon) ==
  LET result   == [c \in ChannelsOf(s) |->
                     block_reduce_welford([t \in ThreadIds |->
                       Collected(t, PlacesOf(s), LAMBDA i : input[(i * s.channels) + c])])]
      mean     == [c \in ChannelsOf(s) |-> result[c].mean]
      unbiased == [c \in ChannelsOf(s) |->
                     IF result[c].count > 1 THEN Divided(result[c].m2, Whole(result[c].count - 1)) ELSE Whole(0)]
  IN  [mean |-> mean, running |-> MovedStats(s, running, momentum, mean, unbiased),
       inv_std |-> [c \in ChannelsOf(s) |->
                      inv_sqrt(Added(Divided(result[c].m2, Whole(result[c].count)), epsilon))]]

\* The elements and the channel that each thread finds for them: one by one, or vectors of n, whose
\* channels go on from that of their first element.
ScalarGrid(s) ==
  {[idx |-> (q[1] * Threads) + q[2], channel |-> ((q[1] * Threads) + q[2]) % s.channels] :
     q \in Guarded(Cardinality(IndicesOf(s)), Threads)}
VectorGrid(s, n) ==
  {LET scalar_idx == ((q[1] * Threads) + q[2]) * n
   IN  [idx |-> scalar_idx + q[3], channel |-> (scalar_idx % s.channels) + q[3]] :
     q \in {<<g[1], g[2], k>> : g \in Guarded(Cardinality(IndicesOf(s)) \div n, Threads), k \in 0 .. n - 1}}
NormGrid(s, n) == IF s.channels % n = 0 THEN VectorGrid(s, n) ELSE ScalarGrid(s)

\* What a grid leaves in an array that it is to fill.
Filling(grid, val(_, _)) ==
  [idx \in {a.idx : a \in grid} |-> LET a == CHOOSE a \in grid : a.idx = idx IN val(idx, a.channel)]

\* Both forward kernels; relu works only through its mask, which training always has.
batchnorm_fwd_kernel(s, input, stats, p, use_relu, n) ==
  LET res(idx, c) == Scaled(Normalized(input[idx], stats.mean[c], stats.inv_std[c]), p.gamma[c], p.beta[c])
      all         == Filling(NormGrid(s, n), res)
      mask        == {idx \in DOMAIN all : ~ use_relu \/ Positive(all[idx])}
  IN  [mask |-> mask, output |-> [idx \in DOMAIN all |-> IF idx \in mask THEN all[idx] ELSE Whole(0)]]

cuda_batchnorm_fwd(s, input, running, p, momentum, epsilon, use_relu, n) ==
  LET stats == batchnorm_stats_kernel(s, input, running, momentum, epsilon)
  IN  stats @@ batchnorm_fwd_kernel(s, input, stats, p, use_relu, n)

batchnorm_nhwc_inf_kernel(s, input, running, p, epsilon, use_relu) ==
  LET s_inv_std == [c \in ChannelsOf(s) |-> inv_sqrt(Added(running.var[c], epsilon))]
      val(idx, c) ==
        LET out == Scaled(Normalized(input[idx], running.mean[c], s_inv_std[c]), p.gamma[c], p.beta[c])
        IN  IF use_relu THEN NotNegative(out) ELSE out
  IN  Filling(ScalarGrid(s), val)

\* One block for each channel: what its threads add up.
BlockSums(s, term(_, _)) ==
  [c \in ChannelsOf(s) |->
     LoopSum(Threads, LAMBDA t : LoopSum(Cardinality(Stride(t, PlacesOf(s), Threads)), LAMBDA k :
       term(((t + (k * Threads)) * s.channels) + c, c)))]

\* The sums go into the workspace, are read there for the gradients of the input and added to
\* those of the parameters at last.
cuda_batchnorm_bwd(s, grad_output, input, saved, gamma, d, n) ==
  LET dy(idx)       == IF idx \in saved.mask THEN grad_output[idx] ELSE Whole(0)
      x_hat(idx, c) == Normalized(input[idx], saved.mean[c], saved.inv_std[c])
      beta_temp     == BlockSums(s, LAMBDA idx, c : dy(idx))
      gamma_temp    == BlockSums(s, LAMBDA idx, c : Multiplied(dy(idx), x_hat(idx, c)))
      m             == Whole(PlacesOf(s))
      dx(idx, c)    == Multiplied(Divided(Multiplied(gamma[c], saved.inv_std[c]), m),
                         Taken(Taken(Multiplied(m, dy(idx)), beta_temp[c]), Multiplied(x_hat(idx, c), gamma_temp[c])))
  IN  [input |-> Filling(NormGrid(s, n), dx),
       gamma |-> [c \in ChannelsOf(s) |-> Added(d.gamma[c], gamma_temp[c])],
       beta  |-> [c \in ChannelsOf(s) |-> Added(d.beta[c], beta_temp[c])]]

\* A block of one thread for each image of the batch: the rows it does.
cuda_layernorm_fwd(batch, channels, input, p, epsilon) == layernorm_fwd_impl(batch, channels, input, p, epsilon)

\* The gradients of the parameters are added to what the workspace holds, which nobody has cleared.
layernorm_bwd_kernel(batch, channels, grad_output, input, gamma, epsilon, workspace) ==
  LET stats       == [n \in 0 .. batch - 1 |-> RowStats(input, n, channels, epsilon)]
      x_hat(idx)  == LET st == stats[idx \div channels] IN Normalized(input[idx], st.mean, st.inv_std)
      dl_dnorm(idx) == Multiplied(grad_output[idx], gamma[idx % channels])
      mean_of(n, term(_)) == Divided(LoopSum(channels, LAMBDA c : term((n * channels) + c)), Whole(channels))
      mean_dl     == [n \in 0 .. batch - 1 |-> mean_of(n, dl_dnorm)]
      mean_dl_x   == [n \in 0 .. batch - 1 |-> mean_of(n, LAMBDA idx : Multiplied(dl_dnorm(idx), x_hat(idx)))]
      dx(idx, n)  == Multiplied(stats[n].inv_std,
                       Taken(Taken(dl_dnorm(idx), mean_dl[n]), Multiplied(x_hat(idx), mean_dl_x[n])))
      added(c, term(_)) == LoopSum(batch, LAMBDA n : term((n * channels) + c))
  IN  [input |-> [idx \in 0 .. (batch * channels) - 1 |-> dx(idx, idx \div channels)],
       gamma |-> [c \in 0 .. channels - 1 |->
                    Added(workspace.gamma[c], added(c, LAMBDA idx : Multiplied(grad_output[idx], x_hat(idx))))],
       beta  |-> [c \in 0 .. channels - 1 |-> Added(workspace.beta[c], added(c, LAMBDA idx : grad_output[idx]))]]

cuda_layernorm_bwd(batch, channels, grad_output, input, gamma, epsilon, d, workspace) ==
  LET temp == layernorm_bwd_kernel(batch, channels, grad_output, input, gamma, epsilon, workspace)
  IN  [input |-> temp.input,
       gamma |-> [c \in 0 .. channels - 1 |-> Added(d.gamma[c], temp.gamma[c])],
       beta  |-> [c \in 0 .. channels - 1 |-> Added(d.beta[c], temp.beta[c])]]

\* The workspace of a backward: two arrays of numbers as large as parameters, used for sums that
\* are as large as what is computed with.
query_batchnorm_graph(channels, param_size) == 2 * channels * param_size
GammaTemp(channels, compute_size) == 0 .. (channels * compute_size) - 1
BetaTemp(channels, param_size, compute_size) ==
  {(channels * param_size) + b : b \in 0 .. (channels * compute_size) - 1}

\* Two block sums, the second right after the first, in the same shared memory.
two_sums_intervals == <<EachWrites, Joined(FirstReads, EachWrites), FirstReads>>

\* What the layer makes of a shape: images and rows of a three-dimensional tensor, only rows of
\* another one; every element beyond the last dimension.
LayerNormStats(shape) ==
  LET before == Elements(SubSeq(shape, 1, Len(shape) - 1))
  IN  IF Len(shape) = 3 THEN [batch_size |-> shape[1], seq_len |-> shape[2], channels |-> shape[3]]
      ELSE [batch_size |-> before, seq_len |-> 1, channels |-> shape[Len(shape)]]

----------------------------------------------------------------------------
(* What must hold of them.                                                  *)

\* Four elements, as one channel or more, of one image or more; the first is 0, which stands for
\* any: normalising does not see a shift.
FourElements == {Images(1, 4, 1), Images(2, 2, 1), Images(1, 2, 2), Images(2, 1, 2), Images(1, 1, 4)}
Numbers(values) == {x \in [0 .. 3 -> {Whole(v) : v \in values}] : x[0] = Whole(0)}
SomeGradients == {[i \in 0 .. 3 |-> Whole(v[i + 1])] : v \in {<<1, 0, 0, 0>>, <<2, -1, 3, 1>>, <<-1, -1, -1, -1>>}}
ByChannel(s, values) == [c \in ChannelsOf(s) |-> Whole(values[c + 1])]
SomeParams(s) == [gamma |-> ByChannel(s, <<2, -1, 3, 1>>), beta |-> ByChannel(s, <<1, 0, -1, 2>>)]
PlainParams(s) == [gamma |-> ByChannel(s, <<1, 1, 1, 1>>), beta |-> ByChannel(s, <<0, 0, 0, 0>>)]
Before(s) == [mean |-> ByChannel(s, <<1, 2, 0, 1>>), var |-> ByChannel(s, <<3, 1, 0, 8>>)]
Momentum == <<1, 4>>
InTraining(s, x, p, epsilon, use_relu) == batchnorm_fwd_impl(s, x, Before(s), p, Momentum, epsilon, use_relu)

\* The statistics of threads, warps and blocks are those of the two plain sums, also with more
\* places than threads, and so are the running ones: the Welford merges lose nothing.
StatisticsAgree ==
  \A m \in 1 .. (2 * Threads) + 1, k \in 1 .. 3 :
    LET s == Images(m, 1, 1)
        x == [i \in 0 .. m - 1 |-> Whole((i * k) % 5)]
        c == batchnorm_fwd_impl(s, x, Before(s), PlainParams(s), Momentum, Whole(1), FALSE)
        g == batchnorm_stats_kernel(s, x, Before(s), Momentum, Whole(1))
    IN  c.mean = g.mean /\ c.inv_std = g.inv_std /\ c.running = g.running

\* Batch normalisation does the same on both devices, in training, in its gradients and in use,
\* with relu or not, with and without vectors.
BatchNormsAgree ==
  \A s \in FourElements, x \in Numbers({-1, 0, 2}), use_relu \in BOOLEAN, n \in {1, 2} :
    LET p == SomeParams(s)
        c == InTraining(s, x, p, Whole(1), use_relu)
        g == cuda_batchnorm_fwd(s, x, Before(s), p, Momentum, Whole(1), use_relu, n)
    IN  /\ c = g
        /\ batchnorm_nhwc_inf_kernel(s, x, Before(s), p, Whole(1), use_relu)
             = batchnorm_infer_impl(s, x, Before(s), p, Whole(1), use_relu)
        /\ \A dy \in SomeGradients :
             cuda_batchnorm_bwd(s, dy, x, g, p.gamma, p, n) = batchnorm_bwd_impl(s, dy, x, c, p.gamma, p)

\* A normalised channel has the mean 0, and with no epsilon the variance 1 unless all elements are
\* one; in use, the statistics of a batch give the outputs that training gave for it.
OutputsAreNormal ==
  \A s \in FourElements, x \in Numbers({0, 2}) :
    LET c == InTraining(s, x, PlainParams(s), Whole(1), FALSE)
        var == [k \in ChannelsOf(s) |-> Taken(Over1(Multiplied(c.inv_std[k], c.inv_std[k])), Whole(1))]
        r == InTraining(s, x, SomeParams(s), Whole(1), TRUE)
    IN  /\ \A k \in ChannelsOf(s) : PlaceSums(s, LAMBDA idx : c.output[idx])[k] = Whole(0)
        /\ (\A k \in ChannelsOf(s) : var[k] = Whole(3)) =>
             batchnorm_infer_impl(s, x, [mean |-> c.mean, var |-> var], SomeParams(s), Whole(1), TRUE) = r.output

\* The gradients of a channel add up to nothing; without an epsilon they also have nothing of the
\* normalised input in them.  An element that relu held back changes nothing by its gradient.
GradientsAreOrthogonal ==
  \A s \in {Images(1, 4, 1), Images(2, 2, 1), Images(2, 1, 2)}, x \in Numbers({0, 2}), dy \in SomeGradients :
    LET p       == SomeParams(s)
        Zeros   == [gamma |-> ByChannel(s, <<0, 0, 0, 0>>), beta |-> ByChannel(s, <<0, 0, 0, 0>>)]
        varied  == \A c \in ChannelsOf(s) : PlaceSums(s, LAMBDA idx : x[idx])[c] = Whole(PlacesOf(s))
        t       == InTraining(s, x, p, Whole(IF varied THEN 0 ELSE 1), TRUE)
        d       == batchnorm_bwd_impl(s, dy, x, t, p.gamma, Zeros)
        held    == [idx \in IndicesOf(s) |-> IF idx \in t.mask THEN dy[idx] ELSE Whole(7)]
    IN  /\ \A c \in ChannelsOf(s) : PlaceSums(s, LAMBDA idx : d.input[idx])[c] = Whole(0)
        /\ varied => \A c \in ChannelsOf(s) :
             PlaceSums(s, LAMBDA idx : Multiplied(d.input[idx], x[idx]))[c] = Whole(0)
        /\ batchnorm_bwd_impl(s, held, x, t, p.gamma, Zeros) = d

\* Vectors have every element with its own channel where the channels are a multiple of them, and
\* elsewhere run out of the channels, as soon as there is one.
VectorsStayInChannels ==
  \A batch \in 1 .. 3, channels \in 1 .. 5, n \in {1, 2, 4} :
    LET s == Images(batch, 2, channels)
    IN  /\ NormGrid(s, n) = ScalarGrid(s)
        /\ (VectorGrid(s, n) # ScalarGrid(s)) = (channels % n # 0)
        /\ (\E a \in VectorGrid(s, n) : a.channel \notin ChannelsOf(s)) =
             (channels % n # 0 /\ Cardinality(IndicesOf(s)) >= n)

\* Layer normalisation does the same on both devices, for as many rows as there are images and
\* with a workspace that happens to be clear.
LayerNormsAgree ==
  \A rows \in {1, 2, 4}, x \in Numbers({-1, 0, 2}), dy \in SomeGradients, stale \in {0, 1} :
    LET channels == 4 \div rows
        s  == Images(rows, 1, channels)
        p  == SomeParams(s)
        ws == [gamma |-> ByChannel(s, <<stale, stale, stale, stale>>), beta |-> ByChannel(s, <<0, 0, 0, 0>>)]
        c  == layernorm_bwd_impl(rows, channels, dy, x, p.gamma, Whole(1), p)
        g  == cuda_layernorm_bwd(rows, channels, dy, x, p.gamma, Whole(1), p, ws)
    IN  /\ cuda_layernorm_fwd(rows, channels, x, p, Whole(1)) = layernorm_fwd_impl(rows, channels, x, p, Whole(1))
        /\ c.input = g.input /\ c.beta = g.beta
        /\ (c.gamma = g.gamma) = (stale = 0)

\* The layer's rows: all of the tensor on the CPU; on CUDA only one row of each image of a
\* three-dimensional tensor, the first ones of the memory, and the others are left as they were.
OnlyFirstRowsOnCuda ==
  \A shape \in UNION {[1 .. k -> 1 .. 3] : k \in 2 .. 4} :
    LET st == LayerNormStats(shape)
    IN  /\ st.batch_size * st.seq_len * st.channels = Elements(shape)
        /\ (st.batch_size * st.channels = Elements(shape)) = (Len(shape) # 3 \/ shape[2] = 1)

\* The legacy layer computes what the other one does, with its channels elsewhere, if no gradient
\* of its parameters is held yet; if one is, it spoils those of the input.
LegacyAgrees ==
  \A s \in {Images(2, 2, 1), Images(2, 1, 2), Images(1, 2, 2)}, x \in Numbers({-1, 0, 2}), dy \in SomeGradients :
    LET p     == SomeParams(s)
        Zeros == [gamma |-> ByChannel(s, <<0, 0, 0, 0>>), beta |-> ByChannel(s, <<0, 0, 0, 0>>)]
        moved(f) == [idx \in IndicesOf(s) |->
                       LET place == idx \div s.channels
                       IN  f[LegacyAt(s, place \div s.spatial, idx % s.channels, place % s.spatial)]]
        a     == InTraining(s, moved(x), p, Whole(1), FALSE)
        l     == legacy_batchnorm_fwd_impl(s, x, Before(s), p, Momentum, Whole(1), TRUE)
        da    == batchnorm_bwd_impl(s, moved(dy), moved(x), a, p.gamma, Zeros)
        dl(d, affine) == legacy_batchnorm_bwd_impl(s, dy, l, p.gamma, d, affine)
    IN  /\ moved(l.output) = a.output /\ l.running = a.running
        /\ moved(legacy_batchnorm_inf_impl(s, x, Before(s), p, Whole(1), TRUE))
             = batchnorm_infer_impl(s, moved(x), Before(s), p, Whole(1), FALSE)
        /\ moved(dl(Zeros, TRUE).input) = da.input /\ dl(Zeros, TRUE).gamma = da.gamma
        /\ dl(p, FALSE) = dl(Zeros, FALSE)
        /\ dl(p, TRUE).input # dl(Zeros, TRUE).input

\* The sums stay apart in their workspace and inside it only while they are no larger than the
\* parameters; the shared memory of the two sums is written again while it may still be read.
WorkspaceHazards ==
  /\ \A channels \in 1 .. 3, param_size, compute_size \in {2, 4, 8} :
       LET beta == BetaTemp(channels, param_size, compute_size)
       IN  /\ (beta \subseteq 0 .. query_batchnorm_graph(channels, param_size) - 1) = (compute_size <= param_size)
           /\ (beta \cap GammaTemp(channels, compute_size) = {}) = (compute_size <= param_size)
  /\ Races(two_sums_intervals)
  /\ ~ Races(<<EachWrites, FirstReads, EachWrites, FirstReads>>)

ASSUME StatisticsAgree
ASSUME BatchNormsAgree
ASSUME OutputsAreNormal
ASSUME GradientsAreOrthogonal
ASSUME VectorsStayInChannels
ASSUME LayerNormsAgree
ASSUME OnlyFirstRowsOnCuda
ASSUME LegacyAgrees
ASSUME WorkspaceHazards
==============================================================================
