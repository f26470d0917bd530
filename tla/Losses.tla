------------------------------- MODULE Losses -------------------------------
(* The loss functions and their gradients (nn/loss.cpp, loss_impl).  Losses *)
(* are kept exact: a mean is the pair <<sum, count>>, sums of squares and   *)
(* of Huber's halves are doubled, exponentials are powers of two and a      *)
(* logarithm is a table.  A tensor is a function from 0 .. n - 1.           *)
EXTENDS CudaKernels

\* Every operation with a batch flattens all dimensions but one: the last holds the classes of the
\* cross entropy, the first holds the batch of the others.
Elements(shape) == LET p[i \in 0 .. Len(shape)] == IF i = 0 THEN 1 ELSE p[i - 1] * shape[i] IN p[Len(shape)]
ClassShape(shape) == [batch |-> Elements(SubSeq(shape, 1, Len(shape) - 1)), classes |-> shape[Len(shape)]]
OutputShape(shape) == [batch |-> shape[1], output |-> Elements(Tail(shape))]

Devices == {"CPU", "CUDA", "OTHER"}

\* What is refused before anything is computed: missing tensors, then tensors apart, then a device
\* without kernels; a tensor is the device it is on.
Absent == "null"
compute_loss_refuses(predictions, targets) ==
  Absent \in {predictions, targets} \/ predictions # targets \/ predictions = "OTHER"
compute_gradient_refuses(predictions, targets, gradient) ==
  Absent \in {predictions, targets, gradient} \/ predictions # targets \/ predictions # gradient
    \/ predictions = "OTHER"

\* On the CPU one loop adds up; a gradient is a parallel loop over independent elements.
CpuMean(f, size) == <<SumOver(f, 0, size), size>>

\* On CUDA a kernel writes a loss per element, and two kernels add them up.
CudaMean(f, size) ==
  LET values == [i \in 0 .. size - 1 |-> IF \E p \in Guarded(size, Threads) : p[1] * Threads + p[2] = i THEN f[i] ELSE 0]
  IN  <<sum_reduce(values, size), size>>

CudaElements(f, size) == [i \in {p[1] * Threads + p[2] : p \in Guarded(size, Threads)} |-> f[i]]

----------------------------------------------------------------------------
(* Mean squared error, mean absolute error and Huber: the loss of an        *)
(* element, doubled, and the gradient before it is divided by the size,     *)
(* doubled as well.                                                         *)

Difference(p, t, i) == p[i] - t[i]

mse_element(d) == 2 * d * d
mse_slope(d) == 2 * (2 * d)
mae_element(d) == 2 * Abs(d)
mae_slope(d) == IF d > 0 THEN 2 ELSE -2
huber_element(d, delta) == IF Abs(d) <= delta THEN d * d ELSE (2 * delta * Abs(d)) - (delta * delta)
huber_slope(d, delta) == IF Abs(d) <= delta THEN 2 * d ELSE IF d > 0 THEN 2 * delta ELSE -2 * delta

\* The kernels of CUDA.
mse_loss_kernel(d) == 2 * d * d
mse_gradient_kernel(d, scale) == d * scale
mae_loss_kernel(d) == 2 * (IF d > 0 THEN d ELSE -d)
mae_gradient_kernel(d, scale) == IF d > 0 THEN scale ELSE -scale
huber_loss_kernel(d, delta) ==
  LET abs == IF d > 0 THEN d ELSE -d IN IF abs <= delta THEN abs * abs ELSE (2 * delta * abs) - (delta * delta)
huber_gradient_kernel(d, delta, scale) ==
  LET abs == IF d > 0 THEN d ELSE -d IN IF abs <= delta THEN d * scale ELSE (IF d > 0 THEN delta ELSE -delta) * scale

\* A loss is its name and, for Huber, delta.
Element(loss, d) ==
  CASE loss.type = "mse" -> mse_element(d) [] loss.type = "mae" -> mae_element(d)
    [] loss.type = "huber" -> huber_element(d, loss.delta)
Slope(loss, d) ==
  CASE loss.type = "mse" -> mse_slope(d) [] loss.type = "mae" -> mae_slope(d)
    [] loss.type = "huber" -> huber_slope(d, loss.delta)

cpu_loss(loss, p, t, size) == CpuMean([i \in 0 .. size - 1 |-> Element(loss, Difference(p, t, i))], size)
cpu_gradient(loss, p, t, size) == [i \in 0 .. size - 1 |-> Slope(loss, Difference(p, t, i))]

cuda_loss(loss, p, t, size) ==
  LET kernel(d) == CASE loss.type = "mse" -> mse_loss_kernel(d) [] loss.type = "mae" -> mae_loss_kernel(d)
                     [] loss.type = "huber" -> huber_loss_kernel(d, loss.delta)
  IN  CudaMean([i \in 0 .. size - 1 |-> kernel(Difference(p, t, i))], size)

\* The scale is 2 for the squares and 1 for the others, over the size; doubled here.
cuda_gradient(loss, p, t, size) ==
  LET kernel(d) == CASE loss.type = "mse" -> mse_gradient_kernel(d, 4) [] loss.type = "mae" -> mae_gradient_kernel(d, 2)
                     [] loss.type = "huber" -> huber_gradient_kernel(d, loss.delta, 2)
  IN  CudaElements([i \in 0 .. size - 1 |-> kernel(Difference(p, t, i))], size)

----------------------------------------------------------------------------
(* Cross entropy of probabilities.  A probability is a number of quarters,  *)
(* epsilon one quarter; the loss of a row is a table.                       *)

Epsilon == 1
One == 4
Clamped(p) == Hi(Lo(p, One - Epsilon), Epsilon)
MinusLog == [p \in Epsilon .. One - Epsilon |-> CASE p = 1 -> 9 [] p = 2 -> 5 [] p = 3 -> 2]

RowStart(i, classes) == i * classes

compute_cross_entropy_loss_probs(p, labels, batch, classes) ==
  CpuMean([i \in 0 .. batch - 1 |-> MinusLog[Clamped(p[RowStart(i, classes) + labels[i]])]], batch)

\* What stands in the place of an element is -1 over this, and 0 is no slope.
compute_cross_entropy_gradient_probs(p, labels, batch, classes) ==
  [x \in 0 .. (batch * classes) - 1 |-> IF x % classes = labels[x \div classes] THEN Clamped(p[x]) ELSE 0]

\* CUDA clamps from the other side first.
ClampedByKernel(p) == Lo(Hi(p, Epsilon), One - Epsilon)

cross_entropy_loss_kernel(p, labels, batch, classes) ==
  CudaMean([b \in 0 .. batch - 1 |-> MinusLog[ClampedByKernel(p[RowStart(b, classes) + labels[b]])]], batch)

cross_entropy_gradient_kernel(p, labels, batch, classes) ==
  CudaElements([x \in 0 .. (batch * classes) - 1 |->
                  IF x % classes = labels[x \div classes] THEN ClampedByKernel(p[x]) ELSE 0], batch * classes)

----------------------------------------------------------------------------
(* Cross entropy of logits.  exp(x) is 2^x, kept whole by a factor; the     *)
(* loss of a row is the logarithm of sum / weight of the label.             *)

Shift == 3    \* logits of one row differ by no more
Exp(x) == 2 ^ (x + Shift)

MaxLogit(l, start, classes) ==
  LET m[c \in 0 .. classes - 1] == IF c = 0 THEN l[start] ELSE Hi(m[c - 1], l[start + c]) IN m[classes - 1]

\* log(sum_exp) + max_logit - logit of the label, as <<sum_exp, exp(label - max)>>.
cpu_row_loss(l, start, classes, label) ==
  LET max == MaxLogit(l, start, classes)
  IN  <<SumOver([c \in 0 .. classes - 1 |-> Exp(l[start + c] - max)], 0, classes), Exp(l[start + label] - max)>>

\* softmax minus the one of the label, before the division by the batch: <<numerator, sum>>.
cpu_row_gradient(l, start, classes, label) ==
  LET max == MaxLogit(l, start, classes)
      sum == SumOver([c \in 0 .. classes - 1 |-> Exp(l[start + c] - max)], 0, classes)
  IN  [c \in 0 .. classes - 1 |-> <<Exp(l[start + c] - max) - (IF c = label THEN sum ELSE 0), sum>>]

\* One block per row: each thread takes every Threads-th class.
BlockMax(l, start, classes) ==
  LET own(t) == LET mine == Stride(t, classes, Threads)
                IN  IF mine = {} THEN MinLimit
                    ELSE CHOOSE m \in {l[start + c] : c \in mine} : \A c \in mine : l[start + c] <= m
  IN  block_reduce_max([t \in ThreadIds |-> own(t)])

BlockSum(l, start, classes, max) ==
  LET weight == [c \in 0 .. classes - 1 |-> Exp(l[start + c] - max)]
  IN  block_reduce_sum([t \in ThreadIds |-> SumIn(weight, Stride(t, classes, Threads), classes)])

logsoftmax_loss_kernel(l, start, classes, label) ==
  LET max == BlockMax(l, start, classes)
  IN  <<BlockSum(l, start, classes, max), Exp(l[start + label] - max)>>

logsoftmax_gradient_kernel(l, start, classes, label) ==
  LET max == BlockMax(l, start, classes)
      sum == BlockSum(l, start, classes, max)
  IN  [c \in UNION {Stride(t, classes, Threads) : t \in ThreadIds} |->
         <<Exp(l[start + c] - max) - (IF c = label THEN sum ELSE 0), sum>>]

\* The shared memory of the two kernels, between barriers: the maximum is shared through the cell
\* that the sum of the first warp is written to, without a barrier in between.
logsoftmax_loss_intervals == <<EachWrites, FirstKeeps, Joined(AllRead, EachWrites), FirstReads>>
logsoftmax_gradient_intervals == <<EachWrites, FirstKeeps, Joined(AllRead, EachWrites), FirstKeeps, AllRead>>

----------------------------------------------------------------------------
(* The factory.                                                             *)

CrossEntropy(use_logits, epsilon) == [type |-> "cross_entropy", use_logits |-> use_logits, epsilon |-> epsilon]
MSE == [type |-> "mse"]
MAE == [type |-> "mae"]
Huber(delta) == [type |-> "huber", delta |-> delta]

DefaultEpsilon == "1e-15"
DefaultDelta == 1

\* The configuration of a loss is the record itself: each member is set under its name.
LossNames == [cross_entropy |-> "cross_entropy", ce |-> "cross_entropy", mse |-> "mse", mean_squared_error |-> "mse",
              mae |-> "mae", mean_absolute_error |-> "mae", huber |-> "huber",
              logsoftmax_cross_entropy |-> "logits", logsoftmax_ce |-> "logits"]

Given(config, field, default) == IF field \in DOMAIN config THEN config[field] ELSE default

create_from_loss_config(config) ==
  LET kind == LossNames[config.type]
  IN  CASE kind = "cross_entropy" ->
             CrossEntropy(Given(config, "use_logits", TRUE), Given(config, "epsilon", DefaultEpsilon))
        [] kind = "logits" -> CrossEntropy(TRUE, DefaultEpsilon)
        [] kind = "mse" -> MSE [] kind = "mae" -> MAE
        [] kind = "huber" -> Huber(Given(config, "delta", DefaultDelta))

\* By name alone the logits are taken.
create_loss(name) ==
  LET kind == LossNames[name]
  IN  CASE kind \in {"cross_entropy", "logits"} -> CrossEntropy(TRUE, DefaultEpsilon)
        [] kind = "mse" -> MSE [] kind = "mae" -> MAE [] kind = "huber" -> Huber(DefaultDelta)

----------------------------------------------------------------------------
(* What must hold of them.                                                  *)

ElementLosses == {MSE, MAE, Huber(1), Huber(2)}
Guesses == -2 .. 3
GuessPairs == [0 .. 1 -> Guesses]
TrueValues == [i \in 0 .. 1 |-> IF i = 0 THEN 0 ELSE 1]

\* Both devices compute the same losses and gradients, with one block and with several.
LossesAgree ==
  /\ \A loss \in ElementLosses, p \in GuessPairs :
       /\ cpu_loss(loss, p, TrueValues, 2) = cuda_loss(loss, p, TrueValues, 2)
       /\ cpu_gradient(loss, p, TrueValues, 2) = cuda_gradient(loss, p, TrueValues, 2)
  /\ \A loss \in ElementLosses, size \in {1, 7, 8, 9, 17, 26} :
       LET p == [i \in 0 .. size - 1 |-> (i * 5) % 7]
           t == [i \in 0 .. size - 1 |-> 3]
       IN  /\ cpu_loss(loss, p, t, size) = cuda_loss(loss, p, t, size)
           /\ cpu_gradient(loss, p, t, size) = cuda_gradient(loss, p, t, size)

\* A gradient is one: no prediction has a loss below the plane that the gradient gives.  For the
\* squares it is the only such plane, the one of the absolute error at 0 is one of many.
GradientsDescend ==
  \A loss \in ElementLosses, p, q \in GuessPairs :
    LET g == cpu_gradient(loss, p, TrueValues, 2)
    IN  cpu_loss(loss, q, TrueValues, 2)[1] - cpu_loss(loss, p, TrueValues, 2)[1]
          >= SumOver([i \in 0 .. 1 |-> g[i] * (q[i] - p[i])], 0, 2)

\* A perfect prediction of a mean absolute error has a slope all the same, downwards.
NoRestAtZero == cpu_gradient(MAE, TrueValues, TrueValues, 2) = [i \in 0 .. 1 |-> -2]

Rows(classes) == [0 .. classes - 1 -> 0 .. Shift]

\* The cross entropies agree on both devices, with fewer classes than threads and with more.
EntropiesAgree ==
  /\ \A p \in [0 .. 3 -> 0 .. One], labels \in [0 .. 1 -> 0 .. 1] :
       /\ compute_cross_entropy_loss_probs(p, labels, 2, 2) = cross_entropy_loss_kernel(p, labels, 2, 2)
       /\ compute_cross_entropy_gradient_probs(p, labels, 2, 2) = cross_entropy_gradient_kernel(p, labels, 2, 2)
  /\ \A l \in Rows(3), label \in 0 .. 2 :
       /\ cpu_row_loss(l, 0, 3, label) = logsoftmax_loss_kernel(l, 0, 3, label)
       /\ cpu_row_gradient(l, 0, 3, label) = logsoftmax_gradient_kernel(l, 0, 3, label)
  /\ \A classes \in {8, 9, 19}, label \in {0, 7} :
       LET l == [c \in 0 .. classes - 1 |-> (c * 3) % (Shift + 1)]
       IN  /\ cpu_row_loss(l, 0, classes, label) = logsoftmax_loss_kernel(l, 0, classes, label)
           /\ cpu_row_gradient(l, 0, classes, label) = logsoftmax_gradient_kernel(l, 0, classes, label)

\* The gradients of the logits of a row add up to nothing, only the label's is negative, and a row
\* that is raised by a constant has the same loss and gradient.
SoftmaxBalances ==
  \A l \in Rows(3), label \in 0 .. 2, up \in {-1, 2} :
    LET g      == cpu_row_gradient(l, 0, 3, label)
        raised == [c \in 0 .. 2 |-> l[c] + up]
    IN  /\ g[0][1] + g[1][1] + g[2][1] = 0
        /\ \A c \in 0 .. 2 : (g[c][1] < 0) <=> (c = label)
        /\ cpu_row_loss(raised, 0, 3, label) = cpu_row_loss(l, 0, 3, label)
        /\ cpu_row_gradient(raised, 0, 3, label) = g

\* No weight is above exp(0), and one is, so that a sum of finite logits is neither infinite nor 0.
SumsAreFinite ==
  \A l \in Rows(3) : LET s == cpu_row_loss(l, 0, 3, 0) IN s[1] \in Exp(0) .. 3 * Exp(0) /\ s[2] <= Exp(0)

\* A warp that is late to read the maximum may find the sum of the first warp in its place.
MaximumMayBeLost ==
  /\ Races(logsoftmax_loss_intervals) /\ Races(logsoftmax_gradient_intervals)
  /\ ~ Races(<<EachWrites, FirstKeeps, AllRead, EachWrites, FirstKeeps, AllRead>>)

\* Whichever dimension is kept apart, every element of the predictions is in one row.
ShapesCover ==
  \A n \in 1 .. 4 : \A shape \in [1 .. n -> 1 .. 3] :
    /\ ClassShape(shape).batch * ClassShape(shape).classes = Elements(shape)
    /\ OutputShape(shape).batch * OutputShape(shape).output = Elements(shape)

\* What is computed is on one device with kernels, gradients too.
ComputedTogether ==
  \A p, t, g \in Devices \cup {Absent} :
    /\ ~ compute_loss_refuses(p, t) => p = t /\ p \in {"CPU", "CUDA"}
    /\ ~ compute_gradient_refuses(p, t, g) => {p, t, g} \in {{"CPU"}, {"CUDA"}}

\* A loss and its configuration make the same loss again, on a worker too; a name alone makes what
\* an empty configuration of that name makes.
LossesTravel ==
  /\ \A loss \in ElementLosses \cup {CrossEntropy(b, e) : b \in BOOLEAN, e \in {DefaultEpsilon, "1e-7"}} :
       create_from_loss_config(loss) = loss
  /\ \A name \in DOMAIN LossNames : create_loss(name) = create_from_loss_config([type |-> name])

ASSUME LossesAgree
ASSUME GradientsDescend
ASSUME NoRestAtZero
ASSUME EntropiesAgree
ASSUME SoftmaxBalances
ASSUME SumsAreFinite
ASSUME MaximumMayBeLost
ASSUME ShapesCover
ASSUME ComputedTogether
ASSUME LossesTravel

----------------------------------------------------------------------------
(* The metrics of a batch (nn/metrics.hpp, metrics_impl) and which of them  *)
(* a training loop gets (nn/metrics_computer.hpp).  Ratios are pairs; the   *)
(* predictions of a batch are rows of small numbers, which stand for their  *)
(* order.                                                                   *)

\* The first class with the highest prediction.
Argmax(row, classes) ==
  LET best[j \in 0 .. classes - 1] ==
        IF j = 0 THEN 0 ELSE IF row[j] > row[best[j - 1]] THEN j ELSE best[j - 1]
  IN  best[classes - 1]

\* The counts over the rows of a batch; CUDA's kernel decides per row and adds up over the grid.
CountOn(device, hit, batch) ==
  LET ones == [i \in 0 .. batch - 1 |-> IF hit[i] THEN 1 ELSE 0]
  IN  IF device = "CPU" THEN SumOver(ones, 0, batch) ELSE atomic_sum(ones, batch)

TruePositives(device, p, targets, batch, classes, c) ==
  CountOn(device, [i \in 0 .. batch - 1 |-> Argmax(p[i], classes) = c /\ targets[i] = c], batch)
FalsePositives(device, p, targets, batch, classes, c) ==
  CountOn(device, [i \in 0 .. batch - 1 |-> Argmax(p[i], classes) = c /\ targets[i] # c], batch)
FalseNegatives(device, p, targets, batch, classes, c) ==
  CountOn(device, [i \in 0 .. batch - 1 |-> Argmax(p[i], classes) # c /\ targets[i] = c], batch)

\* <<numerator, denominator>>; nothing to divide by gives zero.
Ratio(n, d) == IF d > 0 THEN <<n, d>> ELSE <<0, 1>>
PlusRatio(x, y) == <<(x[1] * y[2]) + (y[1] * x[2]), x[2] * y[2]>>

\* Over all classes: none of the ratios is ever NaN, so that each class counts.
MacroAverage(ratio, classes) ==
  LET sum[c \in 0 .. classes] == IF c = 0 THEN <<0, 1>> ELSE PlusRatio(sum[c - 1], ratio[c - 1])
  IN  IF classes > 0 THEN <<sum[classes][1], sum[classes][2] * classes>> ELSE <<0, 1>>

AllClasses == -1

compute_precision(device, p, targets, batch, classes, class_id) ==
  LET of(c) == LET tp == TruePositives(device, p, targets, batch, classes, c)
               IN  Ratio(tp, tp + FalsePositives(device, p, targets, batch, classes, c))
  IN  IF class_id = AllClasses THEN MacroAverage([c \in 0 .. classes - 1 |-> of(c)], classes) ELSE of(class_id)

compute_recall(device, p, targets, batch, classes, class_id) ==
  LET of(c) == LET tp == TruePositives(device, p, targets, batch, classes, c)
               IN  Ratio(tp, tp + FalseNegatives(device, p, targets, batch, classes, c))
  IN  IF class_id = AllClasses THEN MacroAverage([c \in 0 .. classes - 1 |-> of(c)], classes) ELSE of(class_id)

\* From the two, also of the averages.
compute_f1_score(device, p, targets, batch, classes, class_id) ==
  LET precision == compute_precision(device, p, targets, batch, classes, class_id)
      recall    == compute_recall(device, p, targets, batch, classes, class_id)
      sum       == PlusRatio(precision, recall)
  IN  IF sum[1] > 0 THEN <<2 * precision[1] * recall[1] * sum[2], precision[2] * recall[2] * sum[1]>> ELSE <<0, 1>>

compute_class_corrects(device, p, targets, batch, classes) ==
  CountOn(device, [i \in 0 .. batch - 1 |-> Argmax(p[i], classes) = targets[i]], batch)

\* The mean of the logarithms of the probabilities, each at least epsilon; exp(-mean) of it is left
\* out.
compute_perplexity(device, p, targets, batch) ==
  LET ll == [i \in 0 .. batch - 1 |-> -MinusLog[Lo(Hi(p[i][targets[i]], Epsilon), One - Epsilon)]]
  IN  IF device = "CPU" THEN CpuMean(ll, batch) ELSE <<atomic_sum(ll, batch), batch>>

compute_mae(device, p, t, size) ==
  LET e == [i \in 0 .. size - 1 |-> Abs(p[i] - t[i])]
  IN  IF device = "CPU" THEN CpuMean(e, size) ELSE <<atomic_sum(e, size), size>>

\* rmse is its root.
compute_mse(device, p, t, size) ==
  LET e == [i \in 0 .. size - 1 |-> (p[i] - t[i]) * (p[i] - t[i])]
  IN  IF device = "CPU" THEN CpuMean(e, size) ELSE <<atomic_sum(e, size), size>>

----------------------------------------------------------------------------
(* The k highest predictions of a row.                                      *)

HighestCount(k, classes) == Lo(k, classes)

\* partial_sort: any k classes such that none of the others is higher.
cpu_top_k(row, classes, k) ==
  {S \in SUBSET (0 .. classes - 1) :
     Cardinality(S) = HighestCount(k, classes) /\ \A x \in S, y \in (0 .. classes - 1) \ S : row[x] >= row[y]}

Exchanged(s, i, j) == [s EXCEPT ![i] = s[j], ![j] = s[i]]

\* CUDA sorts the first k classes by exchanges,
SortedFirst(row, n) ==
  LET inner[i \in 1 .. n] ==
        LET start == IF i = 1 THEN [x \in 1 .. n |-> x - 1] ELSE inner[i - 1]
            pass[j \in i .. n] ==
              IF j = i THEN start
              ELSE IF row[pass[j - 1][j]] > row[pass[j - 1][i]] THEN Exchanged(pass[j - 1], i, j) ELSE pass[j - 1]
        IN  pass[n]
  IN  inner[n]

\* and inserts each of the others that is higher than the last; the last leaves.
Inserted(top, row, c) ==
  LET n      == Len(top)
      higher == {j \in 1 .. n - 1 : row[c] > row[top[j]]}
      pos    == IF higher = {} THEN n ELSE CHOOSE j \in higher : \A i \in higher : j <= i
  IN  IF row[c] > row[top[n]]
      THEN [j \in 1 .. n |-> IF j < pos THEN top[j] ELSE IF j = pos THEN c ELSE top[j - 1]] ELSE top

cuda_top_k(row, classes, k) ==
  LET n == HighestCount(k, classes)
      top[c \in n - 1 .. classes - 1] == IF c = n - 1 THEN SortedFirst(row, n) ELSE Inserted(top[c - 1], row, c)
  IN  top[classes - 1]

cuda_top_k_accuracy(p, targets, batch, classes, k) ==
  <<atomic_sum([i \in 0 .. batch - 1 |->
      IF \E j \in DOMAIN cuda_top_k(p[i], classes, k) : cuda_top_k(p[i], classes, k)[j] = targets[i] THEN 1 ELSE 0],
      batch), batch>>

\* The numbers of hits that the CPU may count.
cpu_top_k_hits(p, targets, batch, classes, k) ==
  LET sure == {i \in 0 .. batch - 1 : \A S \in cpu_top_k(p[i], classes, k) : targets[i] \in S}
      may  == {i \in 0 .. batch - 1 : \E S \in cpu_top_k(p[i], classes, k) : targets[i] \in S}
  IN  Cardinality(sure) .. Cardinality(may)

----------------------------------------------------------------------------
(* What a training loop asks for: a metric is computed when it is logged.   *)

LogModes == {"accuracy", "precision", "recall", "f1_score", "perplexity", "top_k_accuracy", "mae", "mse", "rmse"}

\* "corrects" is zero unless the accuracy is logged; a loss stands for the perplexity.
compute_metrics(logged, loss_given, corrects, batch) ==
  [corrects |-> IF "accuracy" \in logged THEN corrects ELSE 0,
   num_samples |-> IF logged = {} THEN 0 ELSE batch,
   perplexity |-> IF "perplexity" \notin logged THEN "none" ELSE IF loss_given THEN "exp(loss)" ELSE "computed",
   computed |-> logged]

----------------------------------------------------------------------------
(* What must hold of them.                                                  *)

MetricRows(classes, top) == [0 .. classes - 1 -> 0 .. top]
MetricBatches == [0 .. 1 -> MetricRows(3, 1)]
MetricLabels == [0 .. 1 -> 0 .. 2]

\* Both devices count alike, within a block and over several.
MetricsAgree ==
  /\ \A p \in MetricBatches, t \in MetricLabels :
       /\ compute_f1_score("CPU", p, t, 2, 3, AllClasses) = compute_f1_score("CUDA", p, t, 2, 3, AllClasses)
       /\ compute_class_corrects("CPU", p, t, 2, 3) = compute_class_corrects("CUDA", p, t, 2, 3)
       /\ compute_perplexity("CPU", p, t, 2) = compute_perplexity("CUDA", p, t, 2)
  /\ \A batch \in {7, 8, 19} :
       LET p == [i \in 0 .. batch - 1 |-> [c \in 0 .. 2 |-> ((i + 1) * (c + 2)) % 5]]
           t == [i \in 0 .. batch - 1 |-> i % 3]
           q == [i \in 0 .. batch - 1 |-> (i * 3) % 7]
       IN  /\ \A c \in {AllClasses, 0, 2} :
                /\ compute_precision("CPU", p, t, batch, 3, c) = compute_precision("CUDA", p, t, batch, 3, c)
                /\ compute_recall("CPU", p, t, batch, 3, c) = compute_recall("CUDA", p, t, batch, 3, c)
           /\ compute_mae("CPU", q, t, batch) = compute_mae("CUDA", q, t, batch)
           /\ compute_mse("CPU", q, t, batch) = compute_mse("CUDA", q, t, batch)

\* The counts of the classes partition the batch: every row is predicted once and labelled once.
CountsPartition ==
  \A p \in MetricBatches, t \in MetricLabels :
    LET sum(f(_)) == f(0) + f(1) + f(2)
        tp(c) == TruePositives("CPU", p, t, 2, 3, c)
    IN  /\ sum(LAMBDA c : tp(c) + FalsePositives("CPU", p, t, 2, 3, c)) = 2
        /\ sum(LAMBDA c : tp(c) + FalseNegatives("CPU", p, t, 2, 3, c)) = 2
        /\ sum(LAMBDA c : tp(c)) = compute_class_corrects("CPU", p, t, 2, 3)

\* A score is a ratio between 0 and 1, and the F1 of a class lies between its precision and recall.
ScoresBounded ==
  \A p \in MetricBatches, t \in MetricLabels, c \in {AllClasses, 0, 1, 2} :
    LET precision == compute_precision("CPU", p, t, 2, 3, c)
        recall    == compute_recall("CPU", p, t, 2, 3, c)
        f1        == compute_f1_score("CPU", p, t, 2, 3, c)
        atMost(x, y) == x[1] * y[2] <= y[1] * x[2]
    IN  /\ \A r \in {precision, recall, f1} : r[1] \in 0 .. r[2] /\ r[2] > 0
        /\ atMost(precision, f1) \/ atMost(recall, f1)
        /\ atMost(f1, precision) \/ atMost(f1, recall)

\* A batch without one of the classes has a macro average below 1 however good the predictions.
AbsentClassesCount ==
  \A p \in MetricBatches, t \in MetricLabels :
    compute_class_corrects("CPU", p, t, 2, 3) = 2 =>
      LET present == Cardinality({t[0], t[1]}) IN
      \A r \in {compute_precision("CPU", p, t, 2, 3, AllClasses), compute_recall("CPU", p, t, 2, 3, AllClasses)} :
        r[1] * 3 = present * r[2]

\* The insertion finds k highest classes, and for k = 1 the class of the accuracy.
InsertionFindsHighest ==
  \A row \in MetricRows(4, 2), k \in 1 .. 5 :
    LET top == cuda_top_k(row, 4, k)
    IN  /\ {top[j] : j \in DOMAIN top} \in cpu_top_k(row, 4, k)
        /\ \A j \in 1 .. Len(top) - 1 : row[top[j]] >= row[top[j + 1]]
        /\ k = 1 => top = <<Argmax(row, 4)>>

\* CUDA's number of hits is one that the CPU may find; without equal predictions it is the only one.
TopKAgrees ==
  \A p \in MetricBatches, t \in MetricLabels, k \in {1, 2} :
    cuda_top_k_accuracy(p, t, 2, 3, k)[1] \in cpu_top_k_hits(p, t, 2, 3, k)

\* The number of correct predictions is zero in a loop that does not log the accuracy: what the
\* loop sees as accuracy, and saves the best state by, is then always zero.
SilentAccuracy ==
  \A logged \in SUBSET LogModes, corrects \in 0 .. 2 :
    (compute_metrics(logged, TRUE, corrects, 2).corrects = corrects) <=> ("accuracy" \in logged \/ corrects = 0)

ASSUME MetricsAgree
ASSUME CountsPartition
ASSUME ScoresBounded
ASSUME AbsentClassesCount
ASSUME InsertionFindsHighest
ASSUME TopKAgrees
ASSUME SilentAccuracy
=============================================================================
