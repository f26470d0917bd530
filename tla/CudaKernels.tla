---------------------------- MODULE CudaKernels ----------------------------
(* The CUDA versions of the elementwise and reduction kernels               *)
(* (kernel/cuda/kernels.cu and the functors of vectorized_types.cuh): which *)
(* functor each kernel applies, which threads of which grid touch which     *)
(* element, and the sums of a block.  Threads and Warp stand for the block  *)
(* of 256 threads and the warp of 32.                                       *)
EXTENDS VectorKernels

Threads == 8
Warp == 4
MaxBlocks == 3    \* the grid of a reduction has at most 1024 blocks

\* Elements a thread takes at once, by type (VectoredTraits).
VectorSize ==
  [uint8 |-> 4, int8 |-> 4, char |-> 4, int |-> 4, fp16 |-> 2, bf16 |-> 2, float |-> 4,
   double |-> 2, ulong |-> 1, int64 |-> 1, bool |-> 1]

\* Functors of two elements, and of three.
Functors2 ==
  [Add |-> [x \in Args |-> x.a + x.b], Sub |-> [x \in Args |-> x.a - x.b],
   Mul |-> [x \in Args |-> x.a * x.b], Div |-> [x \in Args |-> Over(x.a, x.b)],
   Min |-> [x \in Args |-> IF x.a < x.b THEN x.a ELSE x.b],
   Max |-> [x \in Args |-> IF x.a > x.b THEN x.a ELSE x.b],
   Equal |-> [x \in Args |-> Bit(x.a = x.b)], Greater |-> [x \in Args |-> Bit(x.a > x.b)]]

Functors3 ==
  [FMAdd |-> [x \in Args |-> x.a * x.b + x.c], FMSub |-> [x \in Args |-> x.a * x.b - x.c],
   FNMAdd |-> [x \in Args |-> -x.a * x.b + x.c]]

\* Functors of one element, the roots and absolute values first, then those with scalars.
Functors1 ==
  [Sqrt |-> [x \in Args |-> Root(x.a)], Rsqrt |-> [x \in Args |-> Over(1, Root(x.a))],
   Rcp |-> [x \in Args |-> Over(1, x.a)], Abs |-> [x \in Args |-> Abs(x.a)]]

FunctorsS ==
  [AddScalar |-> [x \in Args |-> x.a + x.s], SubScalar |-> [x \in Args |-> x.a - x.s],
   MulScalar |-> [x \in Args |-> x.a * x.s], DivScalar |-> [x \in Args |-> Over(x.a, x.s)],
   ScalarMax |-> [x \in Args |-> IF x.a > x.s THEN x.a ELSE x.s],
   Clamp |-> [x \in Args |-> IF x.a < x.s THEN x.s ELSE IF x.a > x.t THEN x.t ELSE x.a],
   SubMulScalar |-> [x \in Args |-> (x.a - x.s) * x.t],
   MulAddScalar |-> [x \in Args |-> x.a * x.s + x.t]]

\* The functor of each kernel; "axpy" has a kernel of its own.
CudaBinary ==
  [add |-> Functors2.Add, sub |-> Functors2.Sub, mul |-> Functors2.Mul, div |-> Functors2.Div,
   min |-> Functors2.Min, max |-> Functors2.Max, equal |-> Functors2.Equal,
   greater |-> Functors2.Greater]

CudaScalar ==
  [add_scalar |-> FunctorsS.AddScalar, sub_scalar |-> FunctorsS.SubScalar,
   mul_scalar |-> FunctorsS.MulScalar, div_scalar |-> FunctorsS.DivScalar,
   scalar_max |-> FunctorsS.ScalarMax, clamp |-> FunctorsS.Clamp,
   sub_mul_scalar |-> FunctorsS.SubMulScalar, mul_add_scalar |-> FunctorsS.MulAddScalar,
   axpy |-> [x \in Args |-> x.c + x.s * x.a]]

CudaUnary ==
  [sqrt |-> Functors1.Sqrt, abs |-> Functors1.Abs, rsqrt |-> Functors1.Rsqrt, rcp |-> Functors1.Rcp,
   fmadd |-> Functors3.FMAdd, fmsub |-> Functors3.FMSub, fnmadd |-> Functors3.FNMAdd]

\* The type a kernel reads its arrays as: rcp casts them to float whatever they hold.
ElementOf(name, dtype) == IF name = "rcp" THEN "float" ELSE dtype

\* copies are memory copies; fill of zero goes to the memset of zero.
CudaMemory == [copy |-> [x \in Args |-> x.a], zero |-> [x \in Args |-> 0],
               fill |-> [x \in Args |-> IF x.s = 0 THEN 0 ELSE x.s]]

\* The elements each step of a kernel writes: thread and lane.  The wide grid needs aligned
\* pointers and a whole number of vectors; the other has one thread per element.
WideKernel(size, n) == {<<p[1] * Threads + p[2], j>> : p \in GuardedWide(size, Threads, n), j \in 0 .. n - 1}

dispatch_binary(size, n, aligned) ==
  IF aligned /\ size % n = 0
  THEN [steps |-> WideKernel(size, n), width |-> n]
  ELSE [steps |-> {<<p[1] * Threads + p[2], 0>> : p \in Guarded(size, Threads)}, width |-> 1]

dispatch_ternary(size) ==
  [steps |-> {<<p[1] * Threads + p[2], 0>> : p \in Guarded(size, Threads)}, width |-> 1]

Written(d) == {p[1] * d.width + p[2] : p \in d.steps}
WrittenOnce(d, size) == Once(d.steps, LAMBDA p : p[1] * d.width + p[2], 0 .. size - 1)

\* __shfl_down_sync: a lane past the end of the warp gets its own value back.
warp_reduce_sum(v) ==
  LET down[off \in {0, 1, 2}] ==
        IF off = 0 THEN v
        ELSE LET u == down[off - 1]
                 d == IF off = 1 THEN Warp \div 2 ELSE Warp \div 4
             IN  [l \in 0 .. Warp - 1 |-> u[l] + (IF l + d < Warp THEN u[l + d] ELSE u[l])]
  IN  down[2]

\* The value a block writes: the warps reduce, the first lanes of the first warp reduce again.
reduce_kernel(f, block, blocks, size) ==
  LET stride == Threads * blocks
      own(t) == SumIn(f, Stride(block * Threads + t, size, stride), size)
      warps  == [w \in 0 .. Threads \div Warp - 1 |->
                   warp_reduce_sum([l \in 0 .. Warp - 1 |-> own(w * Warp + l)])[0]]
  IN  warp_reduce_sum([l \in 0 .. Warp - 1 |-> IF l < Threads \div Warp THEN warps[l] ELSE 0])[0]

\* One partial sum per block, added up on the host.
dispatch_reduce(f, size) ==
  LET blocks == Lo(BlocksFor(size, Threads), MaxBlocks)
  IN  IF size = 0 THEN 0
      ELSE SumOver([b \in 0 .. blocks - 1 |-> reduce_kernel(f, b, blocks, size)], 0, blocks)

CudaReductions(a, b, mean, size) ==
  [sum |-> dispatch_reduce(a, size),
   dot_product |-> dispatch_reduce([i \in DOMAIN a |-> a[i] * b[i]], size),
   norm_squared |-> dispatch_reduce([i \in DOMAIN a |-> a[i] * a[i]], size),
   sum_squared_diff |-> dispatch_reduce([i \in DOMAIN a |-> (a[i] - mean) * (a[i] - mean)], size)]

\* The subsequence of the generator each element of a normal fill of floats draws from: the
\* threads stride over vectors of four, thread 0 does the rest with a subsequence of its own.
NormalSubsequence(size) ==
  LET vectors == size \div 4
      rest    == vectors * 4
      total   == BlocksFor(size, Threads) * Threads
  IN  [i \in 0 .. size - 1 |->
         IF i < rest THEN <<(i \div 4) % total, (i \div 4) \div total, i % 4>>
         ELSE <<rest, i - rest, 0>>]

\* device_bswap by __byte_perm: the selector names the source byte of each byte, lowest first.
device_bswap(bytes) ==
  CASE Len(bytes) = 1 -> bytes
    [] Len(bytes) = 2 -> <<bytes[2], bytes[1]>>
    [] Len(bytes) = 4 -> [i \in 1 .. 4 |-> bytes[5 - i]]
    [] Len(bytes) = 8 -> [i \in 1 .. 4 |-> bytes[4 + 5 - i]] \o [i \in 1 .. 4 |-> bytes[5 - i]]

\* check_equals: any thread may raise the flag.
CudaChecksEqual(a, b, size, eps) ==
  ~ \E p \in Guarded(size, Threads) :
      LET i == p[1] * Threads + p[2] IN Abs(a[i] - b[i]) > eps

----------------------------------------------------------------------------
(* What the threads of a block do together: reductions over the lanes of a  *)
(* warp, over the warps, by halving through shared memory, and over a grid  *)
(* in two kernels; and the shared memory they use between barriers.         *)

Warps == Threads \div Warp
ThreadIds == 0 .. Threads - 1

\* fmaxf with the lanes half a warp away, then a quarter.
warp_reduce_max(v) ==
  LET from(u, d) == [l \in 0 .. Warp - 1 |-> Hi(u[l], IF l + d < Warp THEN u[l + d] ELSE u[l])]
  IN  from(from(v, Warp \div 2), Warp \div 4)

Lanes(own, w) == [l \in 0 .. Warp - 1 |-> own[w * Warp + l]]

\* Each warp reduces, its first lane writes shared[warp], and after a barrier the first warp
\* reduces those; what the first thread has is the result.
block_reduce_sum(own) ==
  LET shared == [w \in 0 .. Warps - 1 |-> warp_reduce_sum(Lanes(own, w))[0]]
  IN  warp_reduce_sum([l \in 0 .. Warp - 1 |-> IF l < Warps THEN shared[l] ELSE 0])[0]

MinLimit == -1000    \* below everything that is compared; -1e37 in the code

block_reduce_max(own) ==
  LET shared == [w \in 0 .. Warps - 1 |-> warp_reduce_max(Lanes(own, w))[0]]
  IN  warp_reduce_max([l \in 0 .. Warp - 1 |-> IF l < Warps THEN shared[l] ELSE MinLimit])[0]

\* In shared memory: in each round the lower half of the threads adds the upper half.
tree_reduce(own) ==
  LET round[s \in {0, 1, 2, 4}] ==
        LET u == IF 2 * s = Threads THEN own ELSE round[2 * s]
        IN  IF s = 0 THEN round[1] ELSE [t \in ThreadIds |-> IF t < s THEN u[t] + u[t + s] ELSE u[t]]
  IN  round[1][0]

\* A kernel with as many blocks as are allowed, each with a grid-stride sum, and one block over
\* their results.
sum_reduce_kernel_stage1(f, block, blocks, size) ==
  tree_reduce([t \in ThreadIds |-> SumIn(f, Stride(block * Threads + t, size, Threads * blocks), size)])
sum_reduce_kernel_stage2(results, blocks) ==
  tree_reduce([t \in ThreadIds |-> SumIn(results, Stride(t, blocks, Threads), blocks)])
sum_reduce(f, size) ==
  LET blocks == Lo(BlocksFor(size, Threads), MaxBlocks)
  IN  sum_reduce_kernel_stage2([b \in 0 .. blocks - 1 |-> sum_reduce_kernel_stage1(f, b, blocks, size)], blocks)

\* One element per thread, a block_reduce_sum, and the first thread adds to one cell.
atomic_sum(f, size) ==
  LET block(b) == block_reduce_sum([t \in ThreadIds |-> IF b * Threads + t < size THEN f[b * Threads + t] ELSE 0])
  IN  SumOver([b \in 0 .. BlocksFor(size, Threads) - 1 |-> block(b)], 0, BlocksFor(size, Threads))

----------------------------------------------------------------------------
(* Shared memory.  A kernel is the sequence of its intervals between        *)
(* barriers; in each a warp reads and writes cells.                         *)

Idle == [reads |-> {}, writes |-> {}]
Interval(f(_)) == [w \in 0 .. Warps - 1 |-> f(w)]
FirstWarp(access) == Interval(LAMBDA w : IF w = 0 THEN access ELSE Idle)

\* The pieces kernels are made of.
EachWrites == Interval(LAMBDA w : [reads |-> {}, writes |-> {w}])
FirstReads == FirstWarp([reads |-> 0 .. Warps - 1, writes |-> {}])
FirstKeeps == FirstWarp([reads |-> 0 .. Warps - 1, writes |-> {0}])
AllRead == Interval(LAMBDA w : [reads |-> {0}, writes |-> {}])

\* Two pieces without a barrier between them.
Joined(x, y) == [w \in DOMAIN x |-> [reads |-> x[w].reads \cup y[w].reads, writes |-> x[w].writes \cup y[w].writes]]

Races(kernel) ==
  \E i \in DOMAIN kernel : \E u, v \in 0 .. Warps - 1 :
    u # v /\ kernel[i][u].writes \cap (kernel[i][v].reads \cup kernel[i][v].writes) # {}

----------------------------------------------------------------------------
(* What must hold of the CUDA kernels.                                      *)

CudaKernelTable == CudaBinary @@ CudaScalar @@ CudaUnary @@ CudaMemory

\* A CUDA kernel computes what the CPU kernel of its name does.
DevicesAgree ==
  /\ DOMAIN CudaKernelTable = DOMAIN AllTypes
  /\ \A k \in DOMAIN AllTypes, x \in Called : CudaKernelTable[k][x] = AllTypes[k].other[x]

\* Whatever the size, the vector width and the alignment, each element is written by one thread.
GridsCover ==
  \A size \in 0 .. 20, n \in {1, 2, 4}, aligned \in BOOLEAN :
    /\ WrittenOnce(dispatch_binary(size, n, aligned), size)
    /\ WrittenOnce(dispatch_ternary(size), size)

\* The reductions of a grid, fewer threads than elements included, give the plain sums.
CudaReductionsAgree ==
  \A size \in KernelSizes \cup {20} : CudaReductions(Weights, Small, 2, size) = ReductionsOf(Weights, Small, 2, size)

\* No two elements of a normal fill come from the same place of the same subsequence.
SubsequencesAreFresh ==
  \A size \in 0 .. 40 : LET d == NormalSubsequence(size) IN
    \A i, j \in DOMAIN d : i # j => d[i] # d[j]

\* Both devices swap bytes alike.
SwapsAgree ==
  \A n \in {1, 2, 4, 8} : LET b == [i \in 1 .. n |-> i] IN device_bswap(b) = Swapped(b)

\* Both devices compare alike.
ChecksAgree ==
  \A b \in [0 .. 2 -> {0, 1, 3}], eps \in {0, 1} :
    CudaChecksEqual([i \in 0 .. 2 |-> 1], b, 3, eps) = ChecksEqual([i \in 0 .. 2 |-> 1], b, 3, eps)

\* Every kernel reads its arrays as what they hold, except the reciprocal, which is only right
\* for floats: an array of another type is taken for floats.
OnlyReciprocalMistypes ==
  \A k \in DOMAIN AllTypes, d \in DOMAIN VectorSize : ElementOf(k, d) = d \/ k = "rcp"

\* Every thread's value counts once in a sum, and none is missed by a maximum.
BlocksReduce ==
  \A own \in [ThreadIds -> {0, 1}] :
    /\ block_reduce_sum(own) = SumOver(own, 0, Threads)
    /\ tree_reduce(own) = SumOver(own, 0, Threads)
    /\ block_reduce_max(own) = IF \E t \in ThreadIds : own[t] = 1 THEN 1 ELSE 0

\* Every element counts once, also with more elements than threads and more than all blocks.
GridsReduce ==
  \A size \in 1 .. 2 * Threads * MaxBlocks + 1 :
    LET f == [i \in 0 .. size - 1 |-> (i * i) + 1]
    IN  /\ sum_reduce(f, size) = SumOver(f, 0, size)
        /\ atomic_sum(f, size) = SumOver(f, 0, size)

ASSUME DevicesAgree
ASSUME GridsCover
ASSUME CudaReductionsAgree
ASSUME SubsequencesAreFresh
ASSUME SwapsAgree
ASSUME ChecksAgree
ASSUME OnlyReciprocalMistypes
ASSUME BlocksReduce
ASSUME GridsReduce
=============================================================================
