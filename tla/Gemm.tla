-------------------------------- MODULE Gemm --------------------------------
(* Matrix products: the blocked AVX2 loops for floats and doubles           *)
(* (math/cpu/sgemm.cpp, dgemm.cpp), the plain loop for other types          *)
(* (gemm.hpp), the cuBLAS wrappers (math/cuda/gemm.cu) and the cuDNN graphs *)
(* (cudnn_gemm.cu).  A product is the set of its multiplications: where the *)
(* element of C is, and the elements of A and B multiplied into it; "at"    *)
(* keeps the steps of the loops apart, so that a product done twice shows.  *)
EXTENDS VectorKernels

DEFAULT_BLOCK_SIZE == 8    \* 32 in the code
TRANSPOSE_BLOCK == 4       \* 64 in the code
FloatLanes == 8
DoubleLanes == 4

Least(x, y) == IF x < y THEN x ELSE y

\* What a kernel does in a region: its multiplications, and where its vector loads and stores start.
\* Rows go four at a time, columns by vectors: nn and tn.
RowsByVectors(r, lanes, a(_, _), b(_, _), ldc) ==
  LET rows == Unrolled(r.i, r.i_max, 4)
      cols == Unrolled(r.j, r.j_max, lanes)
      ks   == r.k .. r.k_max - 1
      wide == {p[1] : p \in Wide(r.j, r.j_max, lanes)}
  IN  [terms |-> {[at |-> s, c |-> At(s[1]) * ldc + At(s[2]), a |-> a(At(s[1]), s[3]),
                   b |-> b(s[3], At(s[2]))] : s \in rows \X cols \X ks},
       vectors |-> {b(k, j) : k \in ks, j \in wide} \cup {At(p) * ldc + j : p \in rows, j \in wide}]

\* Rows one by one, columns four at a time, the depth by vectors whose lanes are added up: nt.
DotProducts(r, lanes, a(_, _), b(_, _), ldc) ==
  LET rows == r.i .. r.i_max - 1
      cols == Unrolled(r.j, r.j_max, 4)
      ks   == Unrolled(r.k, r.k_max, lanes)
      wide == {p[1] : p \in Wide(r.k, r.k_max, lanes)}
  IN  [terms |-> {[at |-> s, c |-> s[1] * ldc + At(s[2]), a |-> a(s[1], At(s[3])),
                   b |-> b(At(s[3]), At(s[2]))] : s \in rows \X cols \X ks},
       vectors |-> {a(i, k) : i \in rows, k \in wide} \cup {b(k, At(p)) : k \in wide, p \in cols}]

\* The kernels of floats; lda, ldb and ldc are the lengths of the rows in memory.
sgemm_kernel_nn(r, lda, ldb, ldc) ==
  RowsByVectors(r, FloatLanes, LAMBDA i, k : i * lda + k, LAMBDA k, j : k * ldb + j, ldc)

sgemm_kernel_nn_aligned(r, M, N, K) ==
  RowsByVectors(r, FloatLanes, LAMBDA i, k : i * K + k, LAMBDA k, j : k * N + j, N)

sgemm_kernel_nt(r, lda, ldb, ldc) ==
  DotProducts(r, FloatLanes, LAMBDA i, k : i * lda + k, LAMBDA k, j : j * ldb + k, ldc)

sgemm_kernel_nt_aligned(r, M, N, K) ==
  DotProducts(r, FloatLanes, LAMBDA i, k : i * K + k, LAMBDA k, j : j * K + k, N)

sgemm_kernel_tn(r, lda, ldb, ldc) ==
  RowsByVectors(r, FloatLanes, LAMBDA i, k : k * lda + i, LAMBDA k, j : k * ldb + j, ldc)

sgemm_kernel_tn_aligned(r, M, N, K) ==
  RowsByVectors(r, FloatLanes, LAMBDA i, k : k * M + i, LAMBDA k, j : k * N + j, N)

\* The kernels of doubles.
dgemm_kernel_nn(r, M, N, K) ==
  RowsByVectors(r, DoubleLanes, LAMBDA i, k : i * K + k, LAMBDA k, j : k * N + j, N)

dgemm_kernel_nn_aligned(r, M, N, K) ==
  RowsByVectors(r, DoubleLanes, LAMBDA i, k : i * K + k, LAMBDA k, j : k * N + j, N)

dgemm_kernel_nt(r, M, N, K) ==
  DotProducts(r, DoubleLanes, LAMBDA i, k : i * K + k, LAMBDA k, j : j * K + k, N)

dgemm_kernel_nt_aligned(r, M, N, K) ==
  DotProducts(r, DoubleLanes, LAMBDA i, k : i * K + k, LAMBDA k, j : j * K + k, N)

dgemm_kernel_tn(r, M, N, K) ==
  RowsByVectors(r, DoubleLanes, LAMBDA i, k : k * M + i, LAMBDA k, j : k * N + j, N)

dgemm_kernel_tn_aligned(r, M, N, K) ==
  RowsByVectors(r, DoubleLanes, LAMBDA i, k : k * M + i, LAMBDA k, j : k * N + j, N)

\* One task per block of C (parallel_for_2d), each running the kernel for the blocks of the depth.
Tiles(M, N, K, bm, bn, bk, kernel(_)) ==
  {[task |-> t,
    does |-> kernel([i |-> t[1] * bm, j |-> t[2] * bn, k |-> k, i_max |-> Least(t[1] * bm + bm, M),
                     j_max |-> Least(t[2] * bn + bn, N), k_max |-> Least(k + bk, K)])] :
     t \in (0 .. BlocksFor(M, bm) - 1) \X (0 .. BlocksFor(N, bn) - 1),
     k \in {x \in 0 .. K - 1 : x % bk = 0}}

\* Every multiplication of a product, with the task and the element of C in it.
Terms(tiles) ==
  UNION {{[at |-> <<x.task, t.at>>, c |-> t.c, a |-> t.a, b |-> t.b] : t \in x.does.terms} : x \in tiles}

Vectors(tiles) == UNION {x.does.vectors : x \in tiles}

\* transpose_matrix: the moves of each task, from an index of the source to one of the target.
transpose_matrix(rows, cols) ==
  LET B == TRANSPOSE_BLOCK
  IN  UNION {{<<i * cols + j, j * rows + i>> :
                i \in t[1] * B .. Least(t[1] * B + B, rows) - 1,
                j \in t[2] * B .. Least(t[2] * B + B, cols) - 1} :
               t \in (0 .. BlocksFor(rows, B) - 1) \X (0 .. BlocksFor(cols, B) - 1)}

\* beta is applied to C before the products are added.
Prepared(beta, c) == IF beta = 0 THEN 0 ELSE IF beta # 1 THEN c * beta ELSE c

sgemm_all_aligned(bases, M, N, K) == bases /\ N % 8 = 0 /\ M % 8 = 0 /\ K % 8 = 0

sgemm_nn(M, N, K, aligned) ==
  LET b == DEFAULT_BLOCK_SIZE
  IN  Tiles(M, N, K, b, b, 2 * b,
            LAMBDA r : IF aligned THEN sgemm_kernel_nn_aligned(r, M, N, K)
                       ELSE sgemm_kernel_nn(r, K, N, N))

sgemm_nt(M, N, K, aligned) ==
  LET b == DEFAULT_BLOCK_SIZE
  IN  Tiles(M, N, K, b \div 2, b \div 2, b * 16,
            LAMBDA r : IF aligned THEN sgemm_kernel_nt_aligned(r, M, N, K)
                       ELSE sgemm_kernel_nt(r, K, K, N))

sgemm_tn(M, N, K, aligned) ==
  LET b == DEFAULT_BLOCK_SIZE
  IN  Tiles(M, N, K, b, b, b,
            LAMBDA r : IF aligned THEN sgemm_kernel_tn_aligned(r, M, N, K)
                       ELSE sgemm_kernel_tn(r, M, N, N))

\* Both transposed: D = B A is computed, turned, and added to C.
sgemm_tt(M, N, K, aligned) ==
  LET turned == transpose_matrix(N, M)
  IN  {[at |-> t.at, c |-> (CHOOSE m \in turned : m[1] = t.c)[2], a |-> t.b, b |-> t.a] :
         t \in Terms(sgemm_nn(N, M, K, aligned))}

\* The code without AVX2.
sgemm_plain(M, N, K, trans_A, trans_B) ==
  LET b == DEFAULT_BLOCK_SIZE IN
  Tiles(M, N, K, b, b, b,
        LAMBDA r : [terms |-> {[at |-> s, c |-> s[1] * N + s[2],
                                a |-> IF trans_A THEN s[3] * M + s[1] ELSE s[1] * K + s[3],
                                b |-> IF trans_B THEN s[2] * K + s[3] ELSE s[3] * N + s[2]] :
                                 s \in (r.i .. r.i_max - 1) \X (r.j .. r.j_max - 1) \X (r.k .. r.k_max - 1)},
                    vectors |-> {}])

\* Doubles: the aligned kernels are chosen by the base pointers alone.
dgemm_all_aligned(bases, M, N, K) == bases

dgemm_nn(M, N, K, aligned) ==
  LET b == DEFAULT_BLOCK_SIZE
  IN  Tiles(M, N, K, b, b, 2 * b,
            LAMBDA r : IF aligned THEN dgemm_kernel_nn_aligned(r, M, N, K) ELSE dgemm_kernel_nn(r, M, N, K))

dgemm_nt(M, N, K, aligned) ==
  LET b == DEFAULT_BLOCK_SIZE
  IN  Tiles(M, N, K, b \div 2, b \div 2, b * 16,
            LAMBDA r : IF aligned THEN dgemm_kernel_nt_aligned(r, M, N, K) ELSE dgemm_kernel_nt(r, M, N, K))

dgemm_tn(M, N, K, aligned) ==
  LET b == DEFAULT_BLOCK_SIZE
  IN  Tiles(M, N, K, b, b, 2 * b,
            LAMBDA r : IF aligned THEN dgemm_kernel_tn_aligned(r, M, N, K) ELSE dgemm_kernel_tn(r, M, N, K))

dgemm_tt(M, N, K) ==
  {[at |-> s, c |-> s[1] * N + s[2], a |-> s[3] * M + s[1], b |-> s[2] * K + s[3]] :
     s \in (0 .. M - 1) \X (0 .. N - 1) \X (0 .. K - 1)}

\* Any other type: the flags are not looked at.
legacy_gemm(M, N, K, trans_A, trans_B) ==
  {[at |-> s, c |-> s[1] * N + s[2], a |-> s[1] * K + s[3], b |-> s[3] * N + s[2]] :
     s \in (0 .. M - 1) \X (0 .. N - 1) \X (0 .. K - 1)}

\* External: cuBLAS multiplies matrices stored by columns.
cublasGemm(opA, opB, m, n, k, lda, ldb, ldc) ==
  {[at |-> s, c |-> s[1] + s[2] * ldc,
    a |-> IF opA THEN s[3] + s[1] * lda ELSE s[1] + s[3] * lda,
    b |-> IF opB THEN s[2] + s[3] * ldb ELSE s[3] + s[2] * ldb] :
     s \in (0 .. m - 1) \X (0 .. n - 1) \X (0 .. k - 1)}

\* gemm_ex hands cuBLAS the operands in the other order, the matrices being stored by rows.
gemm_ex(M, N, K, trans_A, trans_B, lda, ldb, ldc) ==
  {[at |-> t.at, c |-> t.c, a |-> t.b, b |-> t.a] :
     t \in cublasGemm(trans_B, trans_A, N, M, K, ldb, lda, ldc)}

gemm_strided_batched_ex(M, N, K, trans_A, trans_B, lda, ldb, ldc, strideA, strideB, strideC, count) ==
  UNION {{[at |-> <<n, t.at>>, c |-> t.c + n * strideC, a |-> t.b + n * strideA, b |-> t.a + n * strideB] :
            t \in cublasGemm(trans_B, trans_A, N, M, K, ldb, lda, ldc)} : n \in 0 .. count - 1}

\* External: a cuDNN matmul of tensors given by their strides; its output is packed.
Matmul(batch, rows, cols, depth, x, y) ==
  {[at |-> s, c |-> (s[1] * rows + s[2]) * cols + s[3],
    a |-> s[1] * x[1] + s[2] * x[2] + s[4] * x[3], b |-> s[1] * y[1] + s[4] * y[2] + s[3] * y[3]] :
     s \in (0 .. batch - 1) \X (0 .. rows - 1) \X (0 .. cols - 1) \X (0 .. depth - 1)}

\* The graphs of a dense layer: weights are shared by the batches.
fwd_graph(batch, m, n, k) == Matmul(batch, m, n, k, <<m * k, k, 1>>, <<0, 1, k>>)

dgrad_graph(batch, m, n, k) == Matmul(batch, m, k, n, <<m * n, n, 1>>, <<0, k, 1>>)

wgrad_graph(batch, m, n, k) == Matmul(batch, n, k, m, <<m * n, 1, n>>, <<m * k, k, 1>>)

----------------------------------------------------------------------------
(* What must hold of a product.                                             *)

\* Reference: op(A) op(B), the matrices stored by rows.
Product(M, N, K, trans_A, trans_B) ==
  {<<i * N + j, IF trans_A THEN k * M + i ELSE i * K + k, IF trans_B THEN j * K + k ELSE k * N + j>> :
     i \in 0 .. M - 1, j \in 0 .. N - 1, k \in 0 .. K - 1}

\* The multiplications of the product, each done once.
IsProduct(terms, M, N, K, trans_A, trans_B) ==
  /\ {<<t.c, t.a, t.b>> : t \in terms} = Product(M, N, K, trans_A, trans_B)
  /\ Cardinality(terms) = M * N * K

\* No two tasks add to the same element of C.
TasksApart(tiles) ==
  \A x, y \in tiles : x.task # y.task =>
    {t.c : t \in x.does.terms} \cap {t.c : t \in y.does.terms} = {}

GemmSizes == {<<1, 1, 1>>, <<4, 8, 16>>, <<8, 8, 8>>, <<9, 5, 17>>, <<5, 9, 3>>, <<3, 16, 9>>, <<16, 8, 8>>}

\* Floats: whatever is transposed and aligned, the product is computed, by tasks that do not collide.
SgemmMultiplies ==
  \A d \in GemmSizes, bases \in BOOLEAN :
    LET al == sgemm_all_aligned(bases, d[1], d[2], d[3])
        nn == sgemm_nn(d[1], d[2], d[3], al)
        nt == sgemm_nt(d[1], d[2], d[3], al)
        tn == sgemm_tn(d[1], d[2], d[3], al)
    IN  /\ IsProduct(Terms(nn), d[1], d[2], d[3], FALSE, FALSE) /\ TasksApart(nn)
        /\ IsProduct(Terms(nt), d[1], d[2], d[3], FALSE, TRUE) /\ TasksApart(nt)
        /\ IsProduct(Terms(tn), d[1], d[2], d[3], TRUE, FALSE) /\ TasksApart(tn)
        /\ IsProduct(sgemm_tt(d[1], d[2], d[3], al), d[1], d[2], d[3], TRUE, TRUE)
        /\ \A p, q \in BOOLEAN : IsProduct(Terms(sgemm_plain(d[1], d[2], d[3], p, q)), d[1], d[2], d[3], p, q)

\* Floats: a vector the aligned kernels load or store starts at a multiple of its length.
SgemmAligned ==
  \A d \in GemmSizes : sgemm_all_aligned(TRUE, d[1], d[2], d[3]) =>
    \A tiles \in {sgemm_nn(d[1], d[2], d[3], TRUE), sgemm_nt(d[1], d[2], d[3], TRUE),
                  sgemm_tn(d[1], d[2], d[3], TRUE)} :
      \A v \in Vectors(tiles) : v % FloatLanes = 0

\* Doubles compute the product too...
DgemmMultiplies ==
  \A d \in GemmSizes, al \in BOOLEAN :
    LET nn == dgemm_nn(d[1], d[2], d[3], al)
        nt == dgemm_nt(d[1], d[2], d[3], al)
        tn == dgemm_tn(d[1], d[2], d[3], al)
    IN  /\ IsProduct(Terms(nn), d[1], d[2], d[3], FALSE, FALSE) /\ TasksApart(nn)
        /\ IsProduct(Terms(nt), d[1], d[2], d[3], FALSE, TRUE) /\ TasksApart(nt)
        /\ IsProduct(Terms(tn), d[1], d[2], d[3], TRUE, FALSE) /\ TasksApart(tn)
        /\ IsProduct(dgemm_tt(d[1], d[2], d[3]), d[1], d[2], d[3], TRUE, TRUE)

\* ... but their aligned kernels are right only for rows of a multiple of four: with other sizes
\* and aligned matrices a vector starts where the hardware does not allow it.
DgemmAlignment ==
  \A d \in GemmSizes :
    LET aligned(tiles) == \A v \in Vectors(tiles) : v % DoubleLanes = 0
        chosen == dgemm_all_aligned(TRUE, d[1], d[2], d[3])
    IN  /\ d[2] % 4 = 0 /\ d[3] % 4 = 0 =>
             /\ aligned(dgemm_nn(d[1], d[2], d[3], chosen))
             /\ aligned(dgemm_nt(d[1], d[2], d[3], chosen))
             /\ aligned(dgemm_tn(d[1], d[2], d[3], chosen))
        /\ d = <<9, 5, 17>> => ~ aligned(dgemm_nn(d[1], d[2], d[3], chosen))

\* The plain loop of the other types is a product only when nothing is transposed (or the shape
\* makes the two the same).
OthersIgnoreFlags ==
  /\ IsProduct(legacy_gemm(2, 3, 2, FALSE, FALSE), 2, 3, 2, FALSE, FALSE)
  /\ ~ IsProduct(legacy_gemm(2, 3, 2, FALSE, TRUE), 2, 3, 2, FALSE, TRUE)
  /\ ~ IsProduct(legacy_gemm(2, 3, 2, TRUE, FALSE), 2, 3, 2, TRUE, FALSE)

\* cuBLAS, called with rows as long as the matrices, computes the same product, for one matrix
\* and for a batch.
CublasMultiplies ==
  \A p, q \in BOOLEAN :
    LET lda == IF p THEN 2 ELSE 4
        ldb == IF q THEN 4 ELSE 3
        batched == gemm_strided_batched_ex(2, 3, 4, p, q, lda, ldb, 3, 8, 12, 6, 2)
    IN  /\ IsProduct(gemm_ex(2, 3, 4, p, q, lda, ldb, 3), 2, 3, 4, p, q)
        /\ \A n \in {0, 1} :
             IsProduct({[at |-> t.at, c |-> t.c - n * 6, a |-> t.a - n * 8, b |-> t.b - n * 12] :
                          t \in {x \in batched : x.at[1] = n}}, 2, 3, 4, p, q)

\* The three cuDNN graphs of a dense layer are the products the other engines compute with gemm:
\* input and weight turned, gradient and weight, gradient turned and input.
CudnnMultiplies ==
  /\ IsProduct(fwd_graph(1, 2, 3, 4), 2, 3, 4, FALSE, TRUE)
  /\ IsProduct(dgrad_graph(1, 2, 3, 4), 2, 4, 3, FALSE, FALSE)
  /\ IsProduct(wgrad_graph(1, 2, 3, 4), 3, 4, 2, TRUE, FALSE)

\* C is multiplied by beta, a C that holds no numbers yet being cleared by a beta of zero.
BetaApplied == \A beta \in {0, 1, 2}, c \in {-1, 0, 3} : Prepared(beta, c) = beta * c

ASSUME SgemmMultiplies
ASSUME SgemmAligned
ASSUME DgemmMultiplies
ASSUME DgemmAlignment
ASSUME OthersIgnoreFlags
ASSUME CublasMultiplies
ASSUME CudnnMultiplies
ASSUME BetaApplied
=============================================================================
