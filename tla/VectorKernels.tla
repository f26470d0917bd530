--------------------------- MODULE VectorKernels ---------------------------
(* The elementwise and reduction kernels on flat arrays, in their four      *)
(* versions: AVX2 floats (kernel/cpu/skernels.cpp), AVX2 doubles            *)
(* (dkernels.cpp), the loop for every other type (kernels.cpp) and CUDA.    *)
(* Each kernel is a table entry: what it computes from the elements a, b, c *)
(* at one index and its scalars s, t, in the vector lanes, in the rest of   *)
(* the loop and in the plain loop; and the pointers its aligned version     *)
(* loads or stores, with those the dispatcher tests before choosing it.     *)
(* Quotients and roots are kept as terms.                                   *)
EXTENDS Integers, FiniteSets, Sequences, TLC

----------------------------------------------------------------------------
(* The shapes of loop the kernels are built from, as the indices each step  *)
(* touches: a loop that takes n elements at a time and then the rest one by *)
(* one (AVX2 code), a grid of guarded CUDA threads, a grid-stride loop, and *)
(* the sums over the lanes of a register and over the threads of a block.   *)
(* A kernel is right when every index is touched exactly once.              *)

\* Where "for (; x + n - 1 < to; x += n)" stops.
WideEnd(from, to, n) == from + ((to - from) \div n) * n

\* The steps of that loop: the first index of the step and the lane.
Wide(from, to, n) ==
  {p \in (from .. WideEnd(from, to, n) - 1) \X (0 .. n - 1) : (p[1] - from) % n = 0}

\* The loop over what is left, "for (; x < to; ++x)".
Rest(from, to, n) == {<<x, 0>> : x \in WideEnd(from, to, n) .. to - 1}

Unrolled(from, to, n) == Wide(from, to, n) \cup Rest(from, to, n)

\* The index a step of an unrolled loop touches.
At(p) == p[1] + p[2]

\* Threads of a one-dimensional grid that pass "idx < size".
BlocksFor(size, threads) == (size + threads - 1) \div threads

Guarded(size, threads) ==
  {p \in (0 .. BlocksFor(size, threads) - 1) \X (0 .. threads - 1) : p[1] * threads + p[2] < size}

\* Threads that take n elements each: guard "idx * n + n <= size".
GuardedWide(size, threads, n) ==
  {p \in (0 .. BlocksFor(size \div n, threads) - 1) \X (0 .. threads - 1) :
     (p[1] * threads + p[2]) * n + n <= size}

\* The indices thread idx visits in "for (i = idx; i < size; i += stride)".
Stride(idx, size, stride) == {i \in idx .. size - 1 : (i - idx) % stride = 0}

\* The sum of f over the consecutive indices from .. to - 1.
SumOver(f, from, to) ==
  LET s[i \in from .. to] == IF i = from THEN 0 ELSE s[i - 1] + f[i - 1]
  IN  IF from >= to THEN 0 ELSE s[to]

\* The sum of f over a finite set of indices below bound.
SumIn(f, S, bound) == SumOver([i \in 0 .. bound - 1 |-> IF i \in S THEN f[i] ELSE 0], 0, bound)

\* _mm_hadd: the pairs of the two operands are added.
HAdd(v) == LET h == [i \in 1 .. Len(v) \div 2 |-> v[2 * i - 1] + v[2 * i]] IN h \o h

\* The sum of the lanes of a register: its halves are added, then neighbours.
HorizontalSum(v) ==
  LET half == Len(v) \div 2
      low  == [i \in 1 .. half |-> v[i] + v[i + half]]
  IN  IF half = 4 THEN HAdd(HAdd(low))[1] ELSE HAdd(low)[1]

\* Each element of T is the image of exactly one step.
Once(S, f(_), T) ==
  /\ \A s \in S : f(s) \in T
  /\ \A t \in T : Cardinality({s \in S : f(s) = t}) = 1

----------------------------------------------------------------------------
(* What a kernel computes, and the tables of kernels.                       *)

Values == {-2, 1, 3}
Args == [a : Values, b : Values, c : Values, s : Values, t : Values]

Lo(x, y) == IF x < y THEN x ELSE y
Hi(x, y) == IF x > y THEN x ELSE y
Bit(p) == IF p THEN 1 ELSE 0
Over(x, y) == <<"/", x, y>>
Root(x) == <<"sqrt", x>>
Abs(x) == IF x < 0 THEN -x ELSE x

\* The pointers of a kernel of two arrays, of one array, and of none.
ABC == {"a", "b", "c"}
AC == {"a", "c"}
C == {"c"}

\* A body computes f and loads or stores the pointers on; a switch tests pointers and has a loop
\* without vectors.
Body(on, f(_)) == [on |-> on, near |-> FALSE, rest |-> [x \in Args |-> f(x)]]
Switch(tested, f(_)) == [tested |-> tested, plain |-> [x \in Args |-> f(x)]]
\* The lanes use the hardware's approximation of f, the rest computes f.
Near(on, f(_)) == [Body(on, f) EXCEPT !.near = TRUE]

----------------------------------------------------------------------------
(* Floats: the AVX2 bodies, eight lanes.                                    *)

SArithmetic ==
  [add |-> Body(ABC, LAMBDA x : x.a + x.b), sub |-> Body(ABC, LAMBDA x : x.a - x.b),
   mul |-> Body(ABC, LAMBDA x : x.a * x.b), div |-> Body(ABC, LAMBDA x : Over(x.a, x.b))]

SFused ==
  [fmadd |-> Body(ABC, LAMBDA x : x.a * x.b + x.c), fmsub |-> Body(ABC, LAMBDA x : x.a * x.b - x.c),
   fnmadd |-> Body(ABC, LAMBDA x : -(x.a * x.b) + x.c)]

SScalar ==
  [add_scalar |-> Body(AC, LAMBDA x : x.a + x.s), sub_scalar |-> Body(AC, LAMBDA x : x.a - x.s),
   mul_scalar |-> Body(AC, LAMBDA x : x.a * x.s), div_scalar |-> Body(AC, LAMBDA x : Over(x.a, x.s)),
   fill |-> Body(C, LAMBDA x : x.s)]

SUnary ==
  [sqrt |-> Body(AC, LAMBDA x : Root(x.a)), abs |-> Body(AC, LAMBDA x : Abs(x.a)),
   rsqrt |-> Near(AC, LAMBDA x : Over(1, Root(x.a))), rcp |-> Near(AC, LAMBDA x : Over(1, x.a))]

SCompare ==
  [min |-> Body(ABC, LAMBDA x : Lo(x.a, x.b)), max |-> Body(ABC, LAMBDA x : Hi(x.a, x.b)),
   scalar_max |-> Body(AC, LAMBDA x : Hi(x.a, x.s)),
   clamp |-> Body(AC, LAMBDA x : Hi(Lo(x.a, x.t), x.s)),
   equal |-> Body(ABC, LAMBDA x : Bit(x.a = x.b)), greater |-> Body(ABC, LAMBDA x : Bit(x.a > x.b))]

SMemory == [copy |-> Body(AC, LAMBDA x : x.a), zero |-> Body(C, LAMBDA x : 0)]

SNormalise ==
  [sub_mul_scalar |-> Body(AC, LAMBDA x : (x.a - x.s) * x.t),
   mul_add_scalar |-> Body(AC, LAMBDA x : x.a * x.s + x.t)]

(* Floats: the functions that choose between the bodies.                    *)

SArithmeticSwitch ==
  [add |-> Switch(ABC, LAMBDA x : x.a + x.b), sub |-> Switch(ABC, LAMBDA x : x.a - x.b),
   mul |-> Switch(ABC, LAMBDA x : x.a * x.b), div |-> Switch(ABC, LAMBDA x : Over(x.a, x.b)),
   fmadd |-> Switch(ABC, LAMBDA x : x.a * x.b + x.c),
   fmsub |-> Switch(ABC, LAMBDA x : x.a * x.b - x.c),
   fnmadd |-> Switch(ABC, LAMBDA x : -(x.a * x.b) + x.c)]

SScalarSwitch ==
  [add_scalar |-> Switch(AC, LAMBDA x : x.a + x.s), sub_scalar |-> Switch(AC, LAMBDA x : x.a - x.s),
   mul_scalar |-> Switch(AC, LAMBDA x : x.a * x.s),
   div_scalar |-> Switch(AC, LAMBDA x : Over(x.a, x.s)), fill |-> Switch(C, LAMBDA x : x.s)]

\* axpy has no aligned body: its lanes are always loaded unaligned.
SAxpy == [axpy |-> Body({}, LAMBDA x : x.s * x.a + x.c) @@ Switch({}, LAMBDA x : x.c + x.s * x.a)]

SUnarySwitch ==
  [sqrt |-> Switch(AC, LAMBDA x : Root(x.a)), rsqrt |-> Switch(AC, LAMBDA x : Over(1, Root(x.a))),
   rcp |-> Switch(AC, LAMBDA x : Over(1, x.a)), abs |-> Switch(AC, LAMBDA x : Abs(x.a))]

SCompareSwitch ==
  [min |-> Switch(ABC, LAMBDA x : Lo(x.a, x.b)), max |-> Switch(ABC, LAMBDA x : Hi(x.a, x.b)),
   scalar_max |-> Switch(AC, LAMBDA x : Hi(x.s, x.a)),
   clamp |-> Switch(AC, LAMBDA x : Hi(x.s, Lo(x.t, x.a))),
   equal |-> Switch(ABC, LAMBDA x : Bit(x.a = x.b)), greater |-> Switch(ABC, LAMBDA x : Bit(x.a > x.b))]

SMemorySwitch ==
  [copy |-> Switch(AC, LAMBDA x : x.a), zero |-> Switch(C, LAMBDA x : 0),
   sub_mul_scalar |-> Switch(AC, LAMBDA x : (x.a - x.s) * x.t),
   mul_add_scalar |-> Switch(AC, LAMBDA x : x.s * x.a + x.t)]

\* One pass of the AVX2 loop over the accumulators, the lanes added up, then the rest.
WideSum(f, size, n) ==
  LET end == WideEnd(0, size, n)
      lane(j) == SumIn(f, {i \in 0 .. end - 1 : i % n = j - 1}, size)
  IN  HorizontalSum([j \in 1 .. n |-> lane(j)]) + SumOver(f, end, size)

\* sum, dot_product and sum_squared_diff of floats.
SReductions(a, b, mean, size) ==
  [sum |-> WideSum(a, size, 8),
   dot_product |-> WideSum([i \in DOMAIN a |-> a[i] * b[i]], size, 8),
   sum_squared_diff |-> WideSum([i \in DOMAIN a |-> (a[i] - mean) * (a[i] - mean)], size, 8)]

\* The same through the functions that choose: the plain loops.
SReductionSwitch(a, b, mean, size) ==
  [sum |-> SumOver(a, 0, size),
   dot_product |-> SumOver([i \in DOMAIN a |-> a[i] * b[i]], 0, size),
   sum_squared_diff |-> SumOver([i \in DOMAIN a |-> (a[i] - mean) * (a[i] - mean)], 0, size)]

\* fill_normal draws u1 then u2 for each element, in the lanes and in the rest alike.
NormalDraws(size) ==
  [p \in Unrolled(0, size, 8) |->
     IF p \in Wide(0, size, 8) THEN <<2 * p[1] + 2 * p[2], 2 * p[1] + 2 * p[2] + 1>>
     ELSE LET spent == 2 * WideEnd(0, size, 8)
              e     == p[1] - WideEnd(0, size, 8)
          IN  <<spent + 2 * e, spent + 2 * e + 1>>]

----------------------------------------------------------------------------
(* Doubles: four lanes, no approximate reciprocals.                         *)

DArithmetic ==
  [add |-> Body(ABC, LAMBDA x : x.a + x.b), sub |-> Body(ABC, LAMBDA x : x.a - x.b),
   mul |-> Body(ABC, LAMBDA x : x.a * x.b), div |-> Body(ABC, LAMBDA x : Over(x.a, x.b))]

DFused ==
  [fmadd |-> Body(ABC, LAMBDA x : x.a * x.b + x.c), fmsub |-> Body(ABC, LAMBDA x : x.a * x.b - x.c),
   fnmadd |-> Body(ABC, LAMBDA x : -(x.a * x.b) + x.c)]

DScalar ==
  [add_scalar |-> Body(AC, LAMBDA x : x.a + x.s), sub_scalar |-> Body(AC, LAMBDA x : x.a - x.s),
   mul_scalar |-> Body(AC, LAMBDA x : x.a * x.s), div_scalar |-> Body(AC, LAMBDA x : Over(x.a, x.s)),
   fill |-> Body(C, LAMBDA x : x.s)]

DUnary == [sqrt |-> Body(AC, LAMBDA x : Root(x.a)), abs |-> Body(AC, LAMBDA x : Abs(x.a))]

DCompare ==
  [min |-> Body(ABC, LAMBDA x : Lo(x.a, x.b)), max |-> Body(ABC, LAMBDA x : Hi(x.a, x.b)),
   scalar_max |-> Body(AC, LAMBDA x : Hi(x.a, x.s)),
   clamp |-> Body(AC, LAMBDA x : Hi(Lo(x.a, x.t), x.s))]

DTests ==
  [equal |-> Body(ABC, LAMBDA x : Bit(x.a = x.b)), greater |-> Body(ABC, LAMBDA x : Bit(x.a > x.b)),
   copy |-> Body(AC, LAMBDA x : x.a), zero |-> Body(C, LAMBDA x : 0)]

DNormalise ==
  [sub_mul_scalar |-> Body(AC, LAMBDA x : (x.a - x.s) * x.t),
   mul_add_scalar |-> Body(AC, LAMBDA x : x.a * x.s + x.t)]

DArithmeticSwitch ==
  [add |-> Switch(ABC, LAMBDA x : x.a + x.b), sub |-> Switch(ABC, LAMBDA x : x.a - x.b),
   mul |-> Switch(ABC, LAMBDA x : x.a * x.b), div |-> Switch(ABC, LAMBDA x : Over(x.a, x.b)),
   fmadd |-> Switch(ABC, LAMBDA x : x.a * x.b + x.c),
   fmsub |-> Switch(ABC, LAMBDA x : x.a * x.b - x.c),
   fnmadd |-> Switch(ABC, LAMBDA x : -(x.a * x.b) + x.c)]

DScalarSwitch ==
  [add_scalar |-> Switch(AC, LAMBDA x : x.a + x.s), sub_scalar |-> Switch(AC, LAMBDA x : x.a - x.s),
   mul_scalar |-> Switch(AC, LAMBDA x : x.a * x.s),
   div_scalar |-> Switch(AC, LAMBDA x : Over(x.a, x.s)), fill |-> Switch(C, LAMBDA x : x.s)]

DAxpy == [axpy |-> Body({}, LAMBDA x : x.s * x.a + x.c) @@ Switch({}, LAMBDA x : x.c + x.s * x.a)]

DCompareSwitch ==
  [sqrt |-> Switch(AC, LAMBDA x : Root(x.a)), abs |-> Switch(AC, LAMBDA x : Abs(x.a)),
   min |-> Switch(ABC, LAMBDA x : Lo(x.a, x.b)), max |-> Switch(ABC, LAMBDA x : Hi(x.a, x.b)),
   scalar_max |-> Switch(AC, LAMBDA x : Hi(x.s, x.a)),
   clamp |-> Switch(AC, LAMBDA x : Hi(x.s, Lo(x.t, x.a))),
   equal |-> Switch(ABC, LAMBDA x : Bit(x.a = x.b)), greater |-> Switch(ABC, LAMBDA x : Bit(x.a > x.b))]

DMemorySwitch ==
  [copy |-> Switch(AC, LAMBDA x : x.a), zero |-> Switch(C, LAMBDA x : 0),
   sub_mul_scalar |-> Switch(AC, LAMBDA x : (x.a - x.s) * x.t),
   mul_add_scalar |-> Switch(AC, LAMBDA x : x.s * x.a + x.t)]

DReductions(a, b, mean, size) ==
  [sum |-> WideSum(a, size, 4),
   dot_product |-> WideSum([i \in DOMAIN a |-> a[i] * b[i]], size, 4),
   sum_squared_diff |-> WideSum([i \in DOMAIN a |-> (a[i] - mean) * (a[i] - mean)], size, 4)]

----------------------------------------------------------------------------
(* Every type: float and double go to their kernels, any other type to a    *)
(* plain loop.                                                              *)

FloatTypes == {"float", "double"}
Typed(own, f(_)) == [own |-> own, other |-> [x \in Args |-> f(x)]]

ArithmeticOf ==
  [add |-> Typed(FloatTypes, LAMBDA x : x.a + x.b), sub |-> Typed(FloatTypes, LAMBDA x : x.a - x.b),
   mul |-> Typed(FloatTypes, LAMBDA x : x.a * x.b), div |-> Typed(FloatTypes, LAMBDA x : Over(x.a, x.b)),
   fmadd |-> Typed(FloatTypes, LAMBDA x : x.a * x.b + x.c),
   fmsub |-> Typed(FloatTypes, LAMBDA x : (x.a * x.b) - x.c),
   fnmadd |-> Typed(FloatTypes, LAMBDA x : -(x.a * x.b) + x.c)]

ScalarOf ==
  [add_scalar |-> Typed(FloatTypes, LAMBDA x : x.a + x.s), sub_scalar |-> Typed(FloatTypes, LAMBDA x : x.a - x.s),
   mul_scalar |-> Typed(FloatTypes, LAMBDA x : x.a * x.s), div_scalar |-> Typed(FloatTypes, LAMBDA x : Over(x.a, x.s)),
   fill |-> Typed(FloatTypes, LAMBDA x : x.s), axpy |-> Typed(FloatTypes, LAMBDA x : x.c + x.s * x.a)]

\* The reciprocals have no double version: a double goes through the other loop.
UnaryOf ==
  [sqrt |-> Typed(FloatTypes, LAMBDA x : Root(x.a)), abs |-> Typed(FloatTypes, LAMBDA x : Abs(x.a)),
   rsqrt |-> Typed({"float"}, LAMBDA x : Over(1, Root(x.a))),
   rcp |-> Typed({"float"}, LAMBDA x : Over(1, x.a))]

CompareOf ==
  [min |-> Typed(FloatTypes, LAMBDA x : IF x.a < x.b THEN x.a ELSE x.b),
   max |-> Typed(FloatTypes, LAMBDA x : IF x.a > x.b THEN x.a ELSE x.b),
   scalar_max |-> Typed(FloatTypes, LAMBDA x : IF x.a > x.s THEN x.a ELSE x.s),
   clamp |-> Typed(FloatTypes, LAMBDA x : IF x.a < x.s THEN x.s ELSE IF x.a > x.t THEN x.t ELSE x.a),
   equal |-> Typed(FloatTypes, LAMBDA x : Bit(x.a = x.b)), greater |-> Typed(FloatTypes, LAMBDA x : Bit(x.a > x.b))]

\* copy is a memcpy whatever the type.
MemoryOf ==
  [copy |-> Typed({}, LAMBDA x : x.a), zero |-> Typed(FloatTypes, LAMBDA x : 0),
   sub_mul_scalar |-> Typed(FloatTypes, LAMBDA x : (x.a - x.s) * x.t),
   mul_add_scalar |-> Typed(FloatTypes, LAMBDA x : (x.a * x.s) + x.t)]

ReductionsOf(a, b, mean, size) ==
  [sum |-> SumOver(a, 0, size),
   dot_product |-> SumOver([i \in DOMAIN a |-> a[i] * b[i]], 0, size),
   sum_squared_diff |-> SumOver([i \in DOMAIN a |-> (a[i] - mean) * (a[i] - mean)], 0, size),
   norm_squared |-> SumOver([i \in DOMAIN a |-> a[i] * a[i]], 0, size)]

\* bswap: the first half of the bytes is exchanged with the second.
Swapped(bytes) ==
  LET n == Len(bytes)
      swap[j \in 0 .. n \div 2] ==
        IF j = 0 THEN bytes
        ELSE [swap[j - 1] EXCEPT ![j] = swap[j - 1][n + 1 - j], ![n + 1 - j] = swap[j - 1][j]]
  IN  swap[n \div 2]

\* check_equals: no element further than eps from the other.
ChecksEqual(a, b, size, eps) == \A i \in 0 .. size - 1 : Abs(a[i] - b[i]) <= eps

----------------------------------------------------------------------------
(* What must hold of the CPU kernels.                                       *)

SBodies == SArithmetic @@ SFused @@ SScalar @@ SUnary @@ SCompare @@ SMemory @@ SNormalise @@ SAxpy
SSwitches == SArithmeticSwitch @@ SScalarSwitch @@ SAxpy @@ SUnarySwitch @@ SCompareSwitch @@ SMemorySwitch
DBodies == DArithmetic @@ DFused @@ DScalar @@ DUnary @@ DCompare @@ DTests @@ DNormalise @@ DAxpy
DSwitches == DArithmeticSwitch @@ DScalarSwitch @@ DAxpy @@ DCompareSwitch @@ DMemorySwitch
AllTypes == ArithmeticOf @@ ScalarOf @@ UnaryOf @@ CompareOf @@ MemoryOf

\* Arguments a kernel may be called with: clamp's bounds are in order.
Called == {x \in Args : x.s <= x.t}

\* A kernel computes the same with AVX2 and in the plain loop; only the hardware's reciprocals are
\* approximate, and only in the lanes.
BodiesMatchLoops ==
  \A T \in {<<SBodies, SSwitches>>, <<DBodies, DSwitches>>} :
    /\ DOMAIN T[1] = DOMAIN T[2]
    /\ \A k \in DOMAIN T[1], x \in Called :
         /\ T[1][k].rest[x] = T[2][k].plain[x]
         /\ T[1][k].near => k \in {"rsqrt", "rcp"}

\* The aligned body is chosen only when every pointer it loads or stores was tested.
AlignedIsTested ==
  /\ \A k \in DOMAIN SBodies : SBodies[k].on \subseteq SSwitches[k].tested
  /\ \A k \in DOMAIN DBodies : DBodies[k].on \subseteq DSwitches[k].tested

\* Floats, doubles and every other type compute the same kernel.
TypesAgree ==
  /\ DOMAIN SBodies = DOMAIN AllTypes
  /\ \A k \in DOMAIN AllTypes, x \in Called :
       /\ AllTypes[k].other[x] = SBodies[k].rest[x]
       /\ "double" \in AllTypes[k].own => AllTypes[k].other[x] = DBodies[k].rest[x]

\* A kernel a type is sent to exists.
TypesFindKernels ==
  \A k \in DOMAIN AllTypes : "double" \in AllTypes[k].own => k \in DOMAIN DBodies

\* The two loops of a body touch every index once, for eight and for four lanes.
LoopsCover ==
  \A size \in 0 .. 20, n \in {4, 8} : Once(Unrolled(0, size, n), At, 0 .. size - 1)

KernelSizes == {0, 1, 3, 4, 7, 8, 9, 15, 16, 19}
Weights == [i \in 0 .. 19 |-> i * i + 1]
Small == [i \in 0 .. 19 |-> (i % 3) - 1]

\* The reductions by lanes give the sums of the plain loops: no element twice, none left out.
ReductionsAgree ==
  \A size \in KernelSizes :
    LET all == ReductionsOf(Weights, Small, 2, size)
    IN  /\ SReductionSwitch(Weights, Small, 2, size) = SReductions(Weights, Small, 2, size)
        /\ SReductions(Weights, Small, 2, size) = DReductions(Weights, Small, 2, size)
        /\ \A k \in {"sum", "dot_product", "sum_squared_diff"} :
             all[k] = SReductions(Weights, Small, 2, size)[k]

\* Each element of a normal fill has its own two numbers of the generator.
DrawsAreFresh ==
  \A size \in KernelSizes : LET d == NormalDraws(size) IN
    \A p, q \in DOMAIN d : p # q => {d[p][1], d[p][2]} \cap {d[q][1], d[q][2]} = {}

\* Swapping bytes twice gives them back, and turns a big-endian number into a little-endian one.
SwapIsReversal ==
  \A n \in 1 .. 8 : Swapped([i \in 1 .. n |-> i]) = [i \in 1 .. n |-> n + 1 - i]

ASSUME BodiesMatchLoops
ASSUME AlignedIsTested
ASSUME TypesFindKernels
ASSUME TypesAgree
ASSUME LoopsCover
ASSUME ReductionsAgree
ASSUME DrawsAreFresh
ASSUME SwapIsReversal
=============================================================================
