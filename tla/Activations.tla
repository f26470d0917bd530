---------------------------- MODULE Activations ----------------------------
(* The activation functions (nn/activations.hpp, activations_impl): what a  *)
(* tensor is refused for, what each kernel computes from an element x and   *)
(* the gradient g of its output on the CPU and in the four types of CUDA,   *)
(* how a grid covers a tensor, and the loops of softmax over memory.        *)
(* Numbers are fractions in lowest terms, rounding is left out; exp(x) is   *)
(* 2^x and tanh and cosh are made of it, so that every identity of the real *)
(* functions that the kernels rely on holds exactly.                        *)
EXTENDS Losses

----------------------------------------------------------------------------
(* Fractions and the functions of <cmath>.                                  *)

Divisor(a, b) == LET d[p \in Nat \X Nat] == IF p[2] = 0 THEN p[1] ELSE d[<<p[2], p[1] % p[2]>>] IN d[<<a, b>>]
Reduced(n, d) == LET k == Divisor(Abs(n), d) IN <<n \div k, d \div k>>

Whole(n) == <<n, 1>>
Negative(p) == <<-p[1], p[2]>>
Added(p, q) ==
  LET k == Divisor(p[2], q[2])
  IN  Reduced((p[1] * (q[2] \div k)) + (q[1] * (p[2] \div k)), p[2] * (q[2] \div k))
Taken(p, q) == Added(p, Negative(q))
Multiplied(p, q) == Reduced(p[1] * q[1], p[2] * q[2])
Over1(p) == IF p[1] > 0 THEN <<p[2], p[1]>> ELSE <<-p[2], -p[1]>>
Divided(p, q) == Multiplied(p, Over1(q))
OneHalf == <<1, 2>>

exp(x) == IF x >= 0 THEN Whole(2 ^ x) ELSE <<1, 2 ^ (-x)>>
tanh(x) == Divided(Taken(exp(x), exp(-x)), Added(exp(x), exp(-x)))
cosh(x) == Multiplied(OneHalf, Added(exp(x), exp(-x)))

\* An element and the gradient it gets: enough of both sides of 0.
Elems == [x : -2 .. 2, g : {-3, 0, 1, 2}]

\* A kernel and its gradient, at every element.
Pair(f(_), d(_)) == [apply |-> [e \in Elems |-> f(e.x)], gradient |-> [e \in Elems |-> Multiplied(Whole(e.g), d(e.x))]]

----------------------------------------------------------------------------
(* The kernels of the CPU.  Each is a parallel loop, except gelu, which is  *)
(* a plain one, over the indices of a tensor.                               *)

cpu_relu == Pair(LAMBDA x : Whole(IF x > 0 THEN x ELSE 0), LAMBDA x : Whole(IF x > 0 THEN 1 ELSE 0))

cpu_leaky_relu(slope) ==
  Pair(LAMBDA x : IF x > 0 THEN Whole(x) ELSE Multiplied(slope, Whole(x)),
       LAMBDA x : IF x > 0 THEN Whole(1) ELSE slope)

cpu_elu(alpha) ==
  Pair(LAMBDA x : IF x > 0 THEN Whole(x) ELSE Multiplied(alpha, Taken(exp(x), Whole(1))),
       LAMBDA x : IF x > 0 THEN Whole(1) ELSE Multiplied(alpha, exp(x)))

\* The gradient computes the sigmoid again from the input.
cpu_sigmoid ==
  LET sigmoid(x) == Divided(Whole(1), Added(Whole(1), exp(-x)))
  IN  Pair(sigmoid, LAMBDA x : Multiplied(sigmoid(x), Taken(Whole(1), sigmoid(x))))

cpu_tanh == Pair(tanh, LAMBDA x : Taken(Whole(1), Multiplied(tanh(x), tanh(x))))

\* sqrt(2 / pi) is 1 / 2 here and 0.044715 is 1.
gelu_inner(x) == (x + (x * x * x)) \div 2
gelu_inner_slope(x) == Reduced(1 + (3 * x * x), 2)

cpu_gelu ==
  LET value(x)  == Multiplied(Multiplied(OneHalf, Whole(x)), Added(Whole(1), tanh(gelu_inner(x))))
      sechip(x) == Over1(cosh(gelu_inner(x)))
      slope(x)  == Added(Multiplied(OneHalf, Added(Whole(1), tanh(gelu_inner(x)))),
                         Multiplied(Multiplied(OneHalf, Whole(x)),
                                 Multiplied(Multiplied(sechip(x), sechip(x)), gelu_inner_slope(x))))
  IN  Pair(value, slope)

----------------------------------------------------------------------------
(* The kernels of CUDA, in each type.                                       *)

CudaTypes == {"float", "double", "fp16", "bf16"}
InEach(kernels) == [t \in CudaTypes |-> kernels]

\* One for all types, in vectors and for the rest of the tensor.
cuda_relu ==
  InEach([apply    |-> [e \in Elems |-> Whole(Hi(e.x, 0))],
          gradient |-> [e \in Elems |-> Whole(IF e.x > 0 THEN e.g ELSE 0)]])

cuda_leaky_relu(slope) ==
  InEach([apply    |-> [e \in Elems |-> IF e.x > 0 THEN Whole(e.x) ELSE Multiplied(slope, Whole(e.x))],
          gradient |-> [e \in Elems |-> IF e.x > 0 THEN Whole(e.g) ELSE Multiplied(slope, Whole(e.g))]])

\* The half types multiply alpha and the exponential first.
cuda_elu(alpha) ==
  LET value   == [e \in Elems |-> IF e.x > 0 THEN Whole(e.x) ELSE Multiplied(alpha, Taken(exp(e.x), Whole(1)))]
      outer   == [e \in Elems |-> IF e.x > 0 THEN Whole(e.g) ELSE Multiplied(Multiplied(Whole(e.g), alpha), exp(e.x))]
      grouped == [e \in Elems |-> IF e.x > 0 THEN Whole(e.g) ELSE Multiplied(Whole(e.g), Multiplied(alpha, exp(e.x)))]
  IN  [t \in CudaTypes |-> [apply |-> value, gradient |-> IF t \in {"float", "double"} THEN outer ELSE grouped]]

cuda_sigmoid ==
  LET value(x) == Divided(Whole(1), Added(Whole(1), exp(-x)))
      outer    == [e \in Elems |-> Multiplied(Multiplied(Whole(e.g), value(e.x)), Taken(Whole(1), value(e.x)))]
      grouped  == [e \in Elems |-> Multiplied(Whole(e.g), Multiplied(value(e.x), Taken(Whole(1), value(e.x))))]
  IN  [t \in CudaTypes |-> [apply    |-> [e \in Elems |-> value(e.x)],
                            gradient |-> IF t \in {"float", "double"} THEN outer ELSE grouped]]

\* The half types go through float.
cuda_tanh ==
  InEach([apply    |-> [e \in Elems |-> tanh(e.x)],
          gradient |-> [e \in Elems |-> Multiplied(Whole(e.g), Taken(Whole(1), Multiplied(tanh(e.x), tanh(e.x))))]])

\* The square of the hyperbolic secant is taken from tanh, not from cosh.
cuda_gelu ==
  LET tanh_y(x)  == tanh(gelu_inner(x))
      sech_sq(x) == Taken(Whole(1), Multiplied(tanh_y(x), tanh_y(x)))
      slope(x)   == Added(Multiplied(OneHalf, Added(Whole(1), tanh_y(x))),
                          Multiplied(Multiplied(Multiplied(OneHalf, Whole(x)), sech_sq(x)), gelu_inner_slope(x)))
  IN  InEach(Pair(LAMBDA x : Multiplied(Multiplied(OneHalf, Whole(x)), Added(Whole(1), tanh_y(x))), slope))

\* relu takes whole vectors first and the rest in a second grid; nothing is launched for nothing.
relu_vec_kernel(n_vectors, n) ==
  {p \in (0 .. BlocksFor(n_vectors, Threads) - 1) \X (0 .. Threads - 1) \X (0 .. n - 1) :
     p[1] * Threads + p[2] < n_vectors}

relu_steps(size, n) ==
  LET n_vectors   == size \div n
      tail_offset == n_vectors * n
  IN  [vector |-> {((p[1] * Threads + p[2]) * n) + p[3] : p \in relu_vec_kernel(n_vectors, n)},
       tail   |-> {tail_offset + p[1] * Threads + p[2] : p \in Guarded(size - tail_offset, Threads)}]

----------------------------------------------------------------------------
(* Softmax over the channels of an image.  Memory is a function from        *)
(* addresses; in, out and the others are where an array begins; at is the   *)
(* index of each channel of one place of one image.                         *)

Spatial(s) == s.height * s.width
ChannelsAt(s, n, spatial_idx) ==
  [c \in 0 .. s.channels - 1 |-> (n * s.channels * Spatial(s)) + (c * Spatial(s)) + spatial_idx]

\* The places: loops over images, rows and columns, or a thread each.
cpu_places(s) ==
  {<<n, (h * s.width) + w>> : n \in 0 .. s.batch - 1, h \in 0 .. s.height - 1, w \in 0 .. s.width - 1}
cuda_places(s) ==
  {LET idx == p[1] * Threads + p[2] IN <<idx \div Spatial(s), idx % Spatial(s)>> :
     p \in Guarded(s.batch * Spatial(s), Threads)}

\* After the loop "for (c = 0; c < channels; ++c) write(m, c)".
EachChannel(m, channels, write(_, _)) ==
  LET after[c \in 0 .. channels] == IF c = 0 THEN m ELSE write(after[c - 1], c - 1) IN after[channels]

\* The sum of what the steps of a loop add.
LoopSum(count, term(_)) ==
  LET sum[i \in 0 .. count] == IF i = 0 THEN Whole(0) ELSE Added(sum[i - 1], term(i - 1)) IN sum[count]

max_val(m, in, at, channels) ==
  LET max[c \in 0 .. channels - 1] ==
        IF c = 0 THEN m[in + at[0]][1]
        ELSE IF m[in + at[c]][1] > max[c - 1] THEN m[in + at[c]][1] ELSE max[c - 1]
  IN  max[channels - 1]

\* On the CPU: exponentials are stored in the output, then divided there.
softmax_impl(m, in, out, at, channels) ==
  LET max     == max_val(m, in, at, channels)
      exps    == EachChannel(m, channels,
                   LAMBDA u, c : [u EXCEPT ![out + at[c]] = exp(u[in + at[c]][1] - max)])
      sum_exp == LoopSum(channels, LAMBDA c : exps[out + at[c]])
  IN  EachChannel(exps, channels, LAMBDA u, c : [u EXCEPT ![out + at[c]] = Divided(@, sum_exp)])

\* The softmax is computed into an array of its own, which lives as long as the call.
softmax_gradient_impl(m, in, grad_output, grad_input, softmax_values, at, channels) ==
  LET values      == softmax_impl(m, in, softmax_values, at, channels)
      dot_product == LoopSum(channels,
                       LAMBDA j : Multiplied(values[softmax_values + at[j]], values[grad_output + at[j]]))
  IN  EachChannel(values, channels,
        LAMBDA u, i : [u EXCEPT ![grad_input + at[i]] =
                         Multiplied(u[softmax_values + at[i]], Taken(u[grad_output + at[i]], dot_product))])

\* What the thread of a place does: the sum is taken while the exponentials are stored.
softmax_kernel(m, in, out, at, channels) ==
  LET max == max_val(m, in, at, channels)
      pass[c \in 0 .. channels] ==
        IF c = 0 THEN [mem |-> m, sum_exp |-> Whole(0)]
        ELSE LET u       == pass[c - 1]
                 exp_val == exp(u.mem[in + at[c - 1]][1] - max)
             IN  [mem     |-> [u.mem EXCEPT ![out + at[c - 1]] = exp_val],
                  sum_exp |-> Added(u.sum_exp, exp_val)]
  IN  EachChannel(pass[channels].mem, channels,
        LAMBDA u, c : [u EXCEPT ![out + at[c]] = Divided(@, pass[channels].sum_exp)])

softmax_gradient_kernel(m, softmax_values, grad_output, grad_input, at, channels) ==
  LET dot_product == LoopSum(channels, LAMBDA j : Multiplied(m[softmax_values + at[j]], m[grad_output + at[j]]))
  IN  EachChannel(m, channels,
        LAMBDA u, i : [u EXCEPT ![grad_input + at[i]] =
                         Multiplied(u[softmax_values + at[i]], Taken(u[grad_output + at[i]], dot_product))])

\* A thread of bf16 computes each exponential twice and reads its input to the end.
softmax_kernel_bf16(m, in, out, at, channels) ==
  LET max     == max_val(m, in, at, channels)
      sum_exp == LoopSum(channels, LAMBDA c : exp(m[in + at[c]][1] - max))
  IN  EachChannel(m, channels,
        LAMBDA u, c : [u EXCEPT ![out + at[c]] = Divided(exp(u[in + at[c]][1] - max), sum_exp)])

\* The kernels of double and fp16 are those of float.
SoftmaxKernel(type, m, in, out, at, channels) ==
  IF type = "bf16" THEN softmax_kernel_bf16(m, in, out, at, channels)
  ELSE softmax_kernel(m, in, out, at, channels)

\* Two launches on one stream, the first into memory allocated for the call.
cuda_softmax_gradient(type, m, in, grad_output, grad_input, softmax_values, at, channels) ==
  softmax_gradient_kernel(SoftmaxKernel(type, m, in, softmax_values, at, channels),
                          softmax_values, grad_output, grad_input, at, channels)

----------------------------------------------------------------------------
(* The functions: their name, their kernels and the tensor whose size and   *)
(* device a gradient goes by.                                               *)

Func(name, cpu, cuda, goes_by) == [name |-> name, cpu |-> cpu, cuda |-> cuda, goes_by |-> goes_by]

ReLU == Func("relu", cpu_relu, cuda_relu, "grad_output")
LeakyReLU(negative_slope) ==
  Func("leaky_relu", cpu_leaky_relu(negative_slope), cuda_leaky_relu(negative_slope), "grad_output")
ELU(alpha) == Func("elu", cpu_elu(alpha), cuda_elu(alpha), "grad_output")
Sigmoid == Func("sigmoid", cpu_sigmoid, cuda_sigmoid, "grad_output")
Tanh == Func("tanh", cpu_tanh, cuda_tanh, "grad_output")
GELU == Func("gelu", cpu_gelu, cuda_gelu, "input")

\* What becomes of a call: it throws, or aborts where assertions are built in, or a task on the
\* device runs the kernel for the indices below a size, or nothing is done, or a tensor is copied.
Thrown == [call |-> "throws"]
Aborts == [call |-> "aborts"]
Task(device, kernel, size) == [call |-> "task", device |-> device, kernel |-> kernel, size |-> size]
DoesNothing == [call |-> "nothing"]
Copies(size) == [call |-> "copies", size |-> size]

KernelOf(f, tensor) == IF tensor.device = "CPU" THEN f.cpu ELSE f.cuda[tensor.dtype]

apply(f, input, output) ==
  IF input.shape # output.shape \/ input.device # output.device \/ input.device = "OTHER" THEN Thrown
  ELSE Task(input.device, KernelOf(f, input).apply, Elements(input.shape))

compute_gradient(f, asserts, input, grad_output, grad_input) ==
  LET by == IF f.goes_by = "input" THEN input ELSE grad_output
  IN  IF asserts /\ grad_output.shape # grad_input.shape THEN Aborts
      ELSE IF grad_output.device # grad_input.device \/ by.device = "OTHER" THEN Thrown
      ELSE Task(by.device, KernelOf(f, [by EXCEPT !.dtype = input.dtype]).gradient, Elements(by.shape))

\* Linear only looks at its tensors: its output stays what it was.
Linear_apply(input, output) ==
  IF input.shape # output.shape \/ input.device # output.device THEN Thrown ELSE DoesNothing
Linear_compute_gradient(grad_output, grad_input) ==
  IF grad_input.shape # grad_output.shape THEN Thrown ELSE Copies(Elements(grad_output.shape))

\* What is registered: a maker for each name, of nothing for "none".
DefaultSlope == <<1, 100>>
DefaultAlpha == Whole(1)
Linear == [name |-> "linear"]
Creators == [none |-> Absent, relu |-> ReLU, leaky_relu |-> LeakyReLU(DefaultSlope), sigmoid |-> Sigmoid,
             linear |-> Linear, tanh |-> Tanh, elu |-> ELU(DefaultAlpha), gelu |-> GELU]

\* The layer that takes a function by its name, with an output of the shape and type of its input.
ActivationForward(name, input) ==
  IF name \notin DOMAIN Creators \/ name = "none" THEN Thrown
  ELSE IF name = "linear" THEN Linear_apply(input, input)
  ELSE apply(Creators[name], input, input)

ActivationBackward(name, asserts, input, grad_output) ==
  IF name \notin DOMAIN Creators \/ name = "none" THEN Thrown
  ELSE IF name = "linear" THEN Linear_compute_gradient(grad_output, input)
  ELSE compute_gradient(Creators[name], asserts, input, grad_output, input)

----------------------------------------------------------------------------
(* What must hold of them.                                                  *)

Functions == {ReLU, LeakyReLU(OneHalf), ELU(OneHalf), ELU(Whole(2)), Sigmoid, Tanh, GELU}

\* In every type CUDA computes what the CPU does, the two formulas of the GELU gradient included:
\* 1 - tanh^2 is sech^2.
ActivationsAgree == \A f \in Functions, t \in CudaTypes : f.cuda[t] = f.cpu

\* A gradient is the slope times what comes from above, so that gradients of a sum add up.
GradientsScale ==
  \A f \in Functions, e \in Elems :
    f.cpu.gradient[e] = Multiplied(Whole(e.g), f.cpu.gradient[[e EXCEPT !.g = 1]])

\* The identities that the functions and their slopes share: sigmoid(-x) = 1 - sigmoid(x) with the
\* same slope on both sides, tanh is odd, gelu(x) - gelu(-x) = x, so that its slopes at x and -x add
\* up to 1.
Mirrored ==
  \A x \in -2 .. 2 :
    LET e == [x |-> x, g |-> 1]
        m == [x |-> -x, g |-> 1]
    IN  /\ Added(cpu_sigmoid.apply[e], cpu_sigmoid.apply[m]) = Whole(1)
        /\ cpu_sigmoid.gradient[e] = cpu_sigmoid.gradient[m]
        /\ cpu_tanh.apply[e] = Negative(cpu_tanh.apply[m])
        /\ cpu_tanh.gradient[e] = cpu_tanh.gradient[m]
        /\ Taken(cpu_gelu.apply[e], cpu_gelu.apply[m]) = Whole(x)
        /\ Added(cpu_gelu.gradient[e], cpu_gelu.gradient[m]) = Whole(1)

\* Below 0 and at 0 the three functions with a corner have the slope of their left side: the one
\* that is tangent there.
LeftOfTheCorner ==
  \A f \in {ReLU, LeakyReLU(OneHalf)}, x \in -2 .. 0 :
    LET e == [x |-> x, g |-> 1] IN Multiplied(f.cpu.gradient[e], Whole(x)) = f.cpu.apply[e]

\* ELU is its exponential, less alpha: the slope left of the corner is what is missing to -alpha.
EluTailsOff ==
  \A x \in -2 .. 0 : LET e == [x |-> x, g |-> 1] IN
    Taken(cpu_elu(OneHalf).gradient[e], cpu_elu(OneHalf).apply[e]) = OneHalf

\* relu's vectors and its rest touch each element once, the vectors only within the tensor.
ReluCovers ==
  \A size \in 0 .. 40, n \in {1, 2, 4} :
    LET steps == relu_steps(size, n) IN
      /\ steps.vector \cap steps.tail = {} /\ steps.vector \cup steps.tail = 0 .. size - 1
      /\ Cardinality(steps.tail) < n

SoftmaxShapes == [batch : 1 .. 3, channels : 1 .. 3, height : 1 .. 2, width : 1 .. 3]

\* Both devices go to the same places, and the channels of the places are the tensor, each element
\* in one of them: places may run in any order.
SoftmaxCovers ==
  \A s \in SoftmaxShapes :
    /\ cuda_places(s) = cpu_places(s)
    /\ \A i \in 0 .. (s.batch * s.channels * Spatial(s)) - 1 :
         Cardinality({<<p, c>> \in cpu_places(s) \X (0 .. s.channels - 1) :
                        ChannelsAt(s, p[1], p[2])[c] = i}) = 1

\* A memory of four arrays of one place with three channels: input, gradient, and two to write to.
Place == [c \in 0 .. 2 |-> c]
FourArrays(l, g) == [a \in 0 .. 11 |-> IF a < 3 THEN Whole(l[a]) ELSE IF a < 6 THEN Whole(g[a - 3]) ELSE Whole(9)]
Logits == [0 .. 2 -> 0 .. 2]
Upstreams == {[c \in 0 .. 2 |-> c - 1], [c \in 0 .. 2 |-> 2], [c \in 0 .. 2 |-> IF c = 1 THEN -3 ELSE 1]}
ArrayAt(m, base) == [c \in 0 .. 2 |-> m[base + c]]

\* The probabilities add up to 1, stay when all logits are raised, and are written over the input
\* as well as beside it, on both devices in every type.
SoftmaxIsADistribution ==
  \A l \in Logits :
    LET m      == FourArrays(l, l)
        beside == ArrayAt(softmax_impl(m, 0, 6, Place, 3), 6)
        raised == FourArrays([c \in 0 .. 2 |-> l[c] + 2], l)
    IN  /\ Added(Added(beside[0], beside[1]), beside[2]) = Whole(1)
        /\ ArrayAt(softmax_impl(m, 0, 0, Place, 3), 0) = beside
        /\ ArrayAt(softmax_impl(raised, 0, 6, Place, 3), 6) = beside
        /\ \A out \in {0, 6}, t \in CudaTypes : ArrayAt(SoftmaxKernel(t, m, 0, out, Place, 3), out) = beside

\* The gradients of a softmax add up to nothing, are nothing when all channels are asked for alike,
\* may be written over the gradients they come from, and are the same on both devices.
SoftmaxGradientsBalance ==
  \A l \in Logits, g \in Upstreams :
    LET m    == FourArrays(l, g)
        d(o) == ArrayAt(softmax_gradient_impl(m, 0, 3, o, 9, Place, 3), o)
    IN  /\ Added(Added(d(6)[0], d(6)[1]), d(6)[2]) = Whole(0)
        /\ (g[0] = g[1] /\ g[1] = g[2]) => \A c \in 0 .. 2 : d(6)[c] = Whole(0)
        /\ d(3) = d(6)
        /\ \A t \in CudaTypes : ArrayAt(cuda_softmax_gradient(t, m, 0, 3, 3, 9, Place, 3), 3) = d(6)

SomeTensors == [shape : {<<2, 3>>, <<3>>}, device : Devices, dtype : {"float"}]

\* What runs stays in its tensors when the input has the shape of the gradients, which a layer's
\* has; the input itself is never compared, and gelu then follows it out of the gradients.
GradientsStayInside ==
  \A f \in Functions, asserts \in BOOLEAN, input, grad_output, grad_input \in SomeTensors :
    LET r == compute_gradient(f, asserts, input, grad_output, grad_input)
    IN  r.call = "task" =>
          /\ (asserts /\ input.shape = grad_output.shape) =>
               \A t \in {input, grad_output, grad_input} : r.size = Elements(t.shape)
          /\ r.size > Elements(grad_output.shape) =>
               f = GELU /\ Elements(input.shape) > Elements(grad_output.shape)

\* A layer runs every function by its name on both devices, its gradient with the same kernels'
\* gradient, and refuses "none" and what is not registered.  "linear" is accepted, and leaves
\* the new output as it was allocated.
NamesWork ==
  \A name \in DOMAIN Creators \cup {"softmax"}, input \in SomeTensors :
    LET f == ActivationForward(name, input)
        b == ActivationBackward(name, TRUE, input, input)
    IN  /\ name \in {"none", "softmax"} => f = Thrown /\ b = Thrown
        /\ name \notin {"none", "softmax"} => Creators[name].name = name
        /\ name = "linear" => f = DoesNothing /\ b = Copies(Elements(input.shape))
        /\ name \notin {"none", "softmax", "linear"} =>
             /\ (f = Thrown) = (input.device = "OTHER") /\ (b = Thrown) = (f = Thrown)
             /\ f # Thrown => f.size = b.size /\ f.device = b.device

ASSUME ActivationsAgree
ASSUME GradientsScale
ASSUME Mirrored
ASSUME LeftOfTheCorner
ASSUME EluTailsOff
ASSUME ReluCovers
ASSUME SoftmaxCovers
ASSUME SoftmaxIsADistribution
ASSUME SoftmaxGradientsBalance
ASSUME GradientsStayInside
ASSUME NamesWork
=============================================================================
