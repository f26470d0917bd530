---------------------------- MODULE ImageTensors ----------------------------
(* Copies between tensors of images (tensor/cpu/ops.hpp, tensor/cuda/ops.cu *)
(* and the transposes and slices of the engines): each as the set of its    *)
(* moves <<to, from>>.  Zero stands for a cell that is cleared, and Word is *)
(* where a size_t wraps.  A copy is right when every cell of the result is  *)
(* written by one move.                                                     *)
EXTENDS CudaKernels

Word == 1000
Unsigned(x) == x % Word
Zero == -1

Below(n) == 0 .. n - 1
CudaIndices(total) == {(p[1] * Threads) + p[2] : p \in Guarded(total, Threads)}

\* The index of <<n, c, h, w>> in a tensor whose last three dimensions are given.
At4(n, c, h, w, cs, hs, ws) == (((((n * cs) + c) * hs) + h) * ws) + w

OutputSize(size, pad, kernel, stride) == ((size + (2 * pad) - kernel) \div stride) + 1
output_h(g) == OutputSize(g.height, g.pad_h, g.kernel_h, g.stride_h)
output_w(g) == OutputSize(g.width, g.pad_w, g.kernel_w, g.stride_w)

\* The rows of the output that meet the image under row k of the kernel; the same for columns.
SpanStart(pad, k, stride) == IF pad > k THEN (pad - k + stride - 1) \div stride ELSE 0
SpanEnd(out, size, pad, k, stride) == Lo(out, Unsigned(size + pad - k + stride - 1) \div stride)

\* The column matrix: a row for each channel and cell of the kernel, a column for each cell of the output.
ColRow(g, c, kh, kw) == (((c * g.kernel_h) + kh) * g.kernel_w) + kw
ColAt(g, n, c, kh, kw, h, w) ==
  (ColRow(g, c, kh, kw) * g.batch_size * output_h(g) * output_w(g)) + (n * output_h(g) * output_w(g)) + (h * output_w(g)) + w

ColumnCells(g) == g.batch_size * g.channels * g.kernel_h * g.kernel_w * output_h(g) * output_w(g)
KernelCells(g) == Below(g.kernel_h) \X Below(g.kernel_w)

cpu_im2col(g) ==
  LET oh == output_h(g)
      ow == output_w(g)
      block(n, c, kh, kw) ==
        LET base == ColAt(g, n, c, kh, kw, 0, 0)
            h0   == SpanStart(g.pad_h, kh, g.stride_h)
            h1   == SpanEnd(oh, g.height, g.pad_h, kh, g.stride_h)
            w0   == SpanStart(g.pad_w, kw, g.stride_w)
            w1   == SpanEnd(ow, g.width, g.pad_w, kw, g.stride_w)
            zeros(from, to) == {<<base + x, Zero>> : x \in from .. to - 1}
        IN  zeros(0, h0 * ow) \cup zeros(h1 * ow, oh * ow)
              \cup UNION {zeros(h * ow, (h * ow) + w0) \cup zeros((h * ow) + w1, (h * ow) + ow) : h \in h0 .. h1 - 1}
              \cup {<<base + (h * ow) + w,
                      At4(n, c, (h * g.stride_h) + kh - g.pad_h, (w * g.stride_w) + kw - g.pad_w,
                          g.channels, g.height, g.width)>> : h \in h0 .. h1 - 1, w \in w0 .. w1 - 1}
  IN  UNION {block(n, c, k[1], k[2]) : n \in Below(g.batch_size), c \in Below(g.channels), k \in KernelCells(g)}

cuda_im2col(g) ==
  LET oh     == output_h(g)
      ow     == output_w(g)
      height == g.channels * g.kernel_h * g.kernel_w
      move(idx) ==
        LET w   == idx % ow
            h   == (idx \div ow) % oh
            row == (idx \div (ow * oh)) % height
            n   == idx \div (ow * oh * height)
            kw  == row % g.kernel_w
            kh  == (row \div g.kernel_w) % g.kernel_h
            c   == row \div (g.kernel_w * g.kernel_h)
            y   == (h * g.stride_h) - g.pad_h + kh
            x   == (w * g.stride_w) - g.pad_w + kw
        IN  <<(row * g.batch_size * oh * ow) + (n * oh * ow) + (h * ow) + w,
              IF y \in Below(g.height) /\ x \in Below(g.width) THEN At4(n, c, y, x, g.channels, g.height, g.width)
              ELSE Zero>>
  IN  {move(idx) : idx \in CudaIndices(g.batch_size * height * oh * ow)}

\* The additions to a result that is zero: <<to, from>>, with the task or thread that does them.
cpu_col2im(g) ==
  UNION {LET kh == k[1] kw == k[2] IN
         {[task |-> <<n, c>>,
           to   |-> At4(n, c, (h * g.stride_h) + kh - g.pad_h, (w * g.stride_w) + kw - g.pad_w, g.channels, g.height, g.width),
           from |-> ColAt(g, n, c, kh, kw, h, w)] :
            h \in SpanStart(g.pad_h, kh, g.stride_h) .. SpanEnd(output_h(g), g.height, g.pad_h, kh, g.stride_h) - 1,
            w \in SpanStart(g.pad_w, kw, g.stride_w) .. SpanEnd(output_w(g), g.width, g.pad_w, kw, g.stride_w) - 1} :
           n \in Below(g.batch_size), c \in Below(g.channels), k \in KernelCells(g)}

\* Each thread gathers; the host starts a thread for every cell of the column matrix.
cuda_col2im(g) ==
  LET thread(idx) ==
        LET x == idx % g.width
            y == (idx \div g.width) % g.height
            c == (idx \div (g.width * g.height)) % g.channels
            n == idx \div (g.width * g.height * g.channels)
        IN  {[task |-> idx, to |-> idx,
              from |-> ColAt(g, n, c, k[1], k[2], (y + g.pad_h - k[1]) \div g.stride_h, (x + g.pad_w - k[2]) \div g.stride_w)] :
               k \in {q \in KernelCells(g) :
                        LET hb == y + g.pad_h - q[1] wb == x + g.pad_w - q[2] IN
                        /\ hb >= 0 /\ hb % g.stride_h = 0 /\ hb \div g.stride_h < output_h(g)
                        /\ wb >= 0 /\ wb % g.stride_w = 0 /\ wb \div g.stride_w < output_w(g)}}
  IN  UNION {thread(idx) : idx \in {i \in Below(BlocksFor(ColumnCells(g), Threads) * Threads) :
                                      i < g.batch_size * g.channels * g.height * g.width}}

\* The version for a kernel of 3 with padding and stride of 1, whose rows are copied eight at a time.
im2col_pad_1_stride_1_kernel_3(g) ==
  LET width == g.width
      stop  == (Unsigned(width - 2) \div 8) * 8
      steps == {p \in Below(stop) \X Below(8) : p[1] % 8 = 0} \cup {<<w, 0>> : w \in stop .. width - 2}
      row(base, image) ==
        {<<base[1], Zero>>, <<base[3] + width - 1, Zero>>, <<base[2] + width - 1, image + width - 1>>}
          \cup {<<base[1] + 1 + At(p), image + At(p)>> : p \in steps}
          \cup {<<base[2] + At(p), image + At(p)>> : p \in steps}
          \cup {<<base[3] + At(p), image + 1 + At(p)>> : p \in steps}
      bases(n, c, kh, h) == [kw \in 1 .. 3 |-> ColAt(g, n, c, kh, kw - 1, h, 0)]
      blank(n, c, kh, h) == {<<bases(n, c, kh, h)[kw] + At(p), Zero>> : kw \in 1 .. 3, p \in Unrolled(0, width, 8)}
      image(n, c, h) == At4(n, c, h, 0, g.channels, g.height, width)
  IN  UNION {blank(n, c, 0, 0) \cup blank(n, c, 2, g.height - 1)
               \cup UNION {row(bases(n, c, 0, h), image(n, c, h - 1)) : h \in 1 .. g.height - 1}
               \cup UNION {row(bases(n, c, 1, h), image(n, c, h)) : h \in Below(g.height)}
               \cup UNION {row(bases(n, c, 2, h), image(n, c, h + 1)) : h \in Below(g.height - 1)} :
               n \in Below(g.batch_size), c \in Below(g.channels)}

----------------------------------------------------------------------------
(* Borders; Zero stands for the value of the padding.                       *)

PaddedH(g) == g.height + (2 * g.pad_h)
PaddedW(g) == g.width + (2 * g.pad_w)

\* Rows above, rows with their two sides, rows below.
cpu_pad(g) ==
  LET at(n, c, h, w) == At4(n, c, h, w, g.channels, PaddedH(g), PaddedW(g))
      border(n, c, rows, cols) == {<<at(n, c, h, w), Zero>> : h \in rows, w \in cols}
      middle == g.pad_h .. g.height + g.pad_h - 1
  IN  UNION {border(n, c, Below(g.pad_h), Below(PaddedW(g)))
               \cup {<<at(n, c, h + g.pad_h, w + g.pad_w), At4(n, c, h, w, g.channels, g.height, g.width)>> :
                       h \in Below(g.height), w \in Below(g.width)}
               \cup border(n, c, middle, Below(g.pad_w))
               \cup border(n, c, middle, g.pad_w + g.width .. PaddedW(g) - 1)
               \cup border(n, c, g.height + g.pad_h .. PaddedH(g) - 1, Below(PaddedW(g))) :
               n \in Below(g.batch_size), c \in Below(g.channels)}

cuda_pad(g) ==
  LET move(idx) ==
        LET w  == idx % PaddedW(g)
            h  == (idx \div PaddedW(g)) % PaddedH(g)
            nc == idx \div (PaddedW(g) * PaddedH(g))
        IN  <<idx, IF h < g.pad_h \/ h >= g.height + g.pad_h \/ w < g.pad_w \/ w >= g.width + g.pad_w THEN Zero
                   ELSE At4(nc \div g.channels, nc % g.channels, h - g.pad_h, w - g.pad_w, g.channels, g.height, g.width)>>
  IN  {move(idx) : idx \in CudaIndices(g.batch_size * g.channels * PaddedH(g) * PaddedW(g))}

cpu_unpad(g) ==
  {<<At4(n, c, h, w, g.channels, g.height, g.width), At4(n, c, h + g.pad_h, w + g.pad_w, g.channels, PaddedH(g), PaddedW(g))>> :
     n \in Below(g.batch_size), c \in Below(g.channels), h \in Below(g.height), w \in Below(g.width)}

cuda_unpad(g) ==
  LET move(idx) ==
        LET nc == idx \div (g.width * g.height)
        IN  <<idx, At4(nc \div g.channels, nc % g.channels, ((idx \div g.width) % g.height) + g.pad_h,
                       (idx % g.width) + g.pad_w, g.channels, PaddedH(g), PaddedW(g))>>
  IN  {move(idx) : idx \in CudaIndices(g.batch_size * g.channels * g.height * g.width)}

\* The window of new_h rows and new_w columns that starts at <<start_h, start_w>>.
cpu_crop(g, start_h, start_w, new_h, new_w) ==
  {<<At4(n, c, h, w, g.channels, new_h, new_w), At4(n, c, h + start_h, w + start_w, g.channels, g.height, g.width)>> :
     n \in Below(g.batch_size), c \in Below(g.channels), h \in Below(new_h), w \in Below(new_w)}

cuda_crop(g, start_h, start_w, new_h, new_w) ==
  LET move(idx) ==
        LET nc == idx \div (new_w * new_h)
        IN  <<idx, At4(nc \div g.channels, nc % g.channels, ((idx \div new_w) % new_h) + start_h,
                       (idx % new_w) + start_w, g.channels, g.height, g.width)>>
  IN  {move(idx) : idx \in CudaIndices(g.batch_size * g.channels * new_h * new_w)}

----------------------------------------------------------------------------
(* Transposes, slices and the columns of a softmax.                         *)

MoveBlock == 2    \* 64 on the CPU, tiles of 32 by 32 on CUDA

\* One task per block of the matrix.
cpu_transpose_2d(rows, cols) ==
  UNION {{<<(j * rows) + i, (i * cols) + j>> :
            i \in b[1] * MoveBlock .. Lo((b[1] * MoveBlock) + MoveBlock, rows) - 1,
            j \in b[2] * MoveBlock .. Lo((b[2] * MoveBlock) + MoveBlock, cols) - 1} :
           b \in Below(BlocksFor(rows, MoveBlock)) \X Below(BlocksFor(cols, MoveBlock))}

\* A tile of a block of threads: what each thread reads into it, and after a barrier writes from it.
\* Untouched is in a cell that no thread has filled.
Untouched == -2
TileMoves(rows, cols, source(_, _), target(_, _)) ==
  LET T     == MoveBlock
      cells == Below(T) \X Below(T)
      tile(b) == [t \in cells |-> LET x == (b[1] * T) + t[2] y == (b[2] * T) + t[1] IN
                                  IF y < rows /\ x < cols THEN source(y, x) ELSE Untouched]
      moves(b) == {<<target((b[1] * T) + t[2], (b[2] * T) + t[1]), tile(b)[<<t[1], t[2]>>]>> :
                     t \in {q \in cells : (b[1] * T) + q[2] < cols /\ (b[2] * T) + q[1] < rows}}
  IN  UNION {moves(b) : b \in Below(BlocksFor(cols, T)) \X Below(BlocksFor(rows, T))}

\* Thread <<ty, tx>> writes tile[tx][ty] to row ty and column tx of the transposed block.
cuda_transpose_2d(rows, cols) ==
  TileMoves(rows, cols, LAMBDA y, x : (y * cols) + x, LAMBDA y, x : (y * rows) + x)

cpu_nchw_to_cnhw(ns, cs, hw) ==
  UNION {{<<(c * ns * hw) + (n * hw) + k, (n * cs * hw) + (c * hw) + k>> : k \in Below(hw)} : n \in Below(ns), c \in Below(cs)}
cpu_cnhw_to_nchw(ns, cs, hw) ==
  UNION {{<<(n * cs * hw) + (c * hw) + k, (c * ns * hw) + (n * hw) + k>> : k \in Below(hw)} : n \in Below(ns), c \in Below(cs)}

\* The tiles once for each of the hw cells of an image.
cuda_nchw_to_cnhw(ns, cs, hw) ==
  UNION {TileMoves(ns, cs, LAMBDA y, x : (y * cs * hw) + (x * hw) + k, LAMBDA y, x : (y * ns * hw) + (x * hw) + k) : k \in Below(hw)}
cuda_cnhw_to_nchw(ns, cs, hw) == cuda_nchw_to_cnhw(cs, ns, hw)

\* Strides of a shape, the last dimension being the closest.
Strides(shape) ==
  LET s[i \in 1 .. Len(shape)] == IF i = Len(shape) THEN 1 ELSE s[i + 1] * shape[i + 1] IN s
Volume(shape) == Strides(shape)[1] * shape[1]
SwapAt(s, d0, d1) == [i \in DOMAIN s |-> IF i = d0 THEN s[d1] ELSE IF i = d1 THEN s[d0] ELSE s[i]]
Dot(x, y) == SumOver([i \in Below(Len(x)) |-> x[i + 1] * y[i + 1]], 0, Len(x))

transpose_impl(shape, d0, d1) ==
  LET in  == Strides(shape)
      out == Strides(SwapAt(shape, d0, d1))
      coords(idx) == [i \in 1 .. Len(shape) |-> (idx \div in[i]) % shape[i]]
  IN  {<<Dot(SwapAt(coords(idx), d0, d1), out), idx>> : idx \in Below(Volume(shape))}

slice_fwd_impl(outer, inner, axis, start, length) ==
  {<<idx, ((idx \div (inner * length)) * axis * inner) + ((start + ((idx \div inner) % length)) * inner) + (idx % inner)>> :
     idx \in Below(outer * length * inner)}
slice_bwd_impl(outer, inner, axis, start, length) ==
  {<<((idx \div (inner * length)) * axis * inner) + ((start + ((idx \div inner) % length)) * inner) + (idx % inner), idx>> :
     idx \in Below(outer * length * inner)}

\* The elements from one batch to another, and the parts of a split; the last part takes the rest.
slice_batch(start, end, stride_0) == {<<i, (start * stride_0) + i>> : i \in Below((end - start) * stride_0)}
split(batch, parts, stride_0) ==
  [i \in Below(parts) |->
     slice_batch(i * (batch \div parts), IF i = parts - 1 THEN batch ELSE (i + 1) * (batch \div parts), stride_0)]

\* The cells a thread normalises: those of all classes in one place of one image.
softmax_column(idx, classes, height, width) ==
  LET base == (((((idx \div (width * height)) * classes * height) + ((idx \div width) % height)) * width) + (idx % width))
  IN  {base + (c * height * width) : c \in Below(classes)}

----------------------------------------------------------------------------
(* What must hold of them.                                                  *)

WrittenBy(moves, total) == {m[1] : m \in moves} = Below(total) /\ Cardinality(moves) = total
Turned(moves) == {<<m[2], m[1]>> : m \in moves}

ImageShape(n, c, h, w) == [batch_size |-> n, channels |-> c, height |-> h, width |-> w]
Kernel(kh, kw, sh, sw, ph, pw) ==
  [kernel_h |-> kh, kernel_w |-> kw, stride_h |-> sh, stride_w |-> sw, pad_h |-> ph, pad_w |-> pw]

Fits(g) == g.kernel_h <= PaddedH(g) /\ g.kernel_w <= PaddedW(g)

\* The spans of the CPU lie in the output and under the image only when the kernel reaches neither
\* a whole stride past the image nor past it from the first cell of the output.
SpanExact(size, kernel, stride, pad) ==
  /\ kernel <= size + pad + stride
  /\ SpanStart(pad, 0, stride) <= OutputSize(size, pad, kernel, stride)
ImageFits(g) == Fits(g) /\ SpanExact(g.height, g.kernel_h, g.stride_h, g.pad_h) /\ SpanExact(g.width, g.kernel_w, g.stride_w, g.pad_w)

Geometries ==
  {ImageShape(1, 1, h, 2) @@ Kernel(kh, 2, s, 1, p, 1) : h \in 1 .. 4, kh \in 1 .. 3, s \in 1 .. 3, p \in 0 .. 2}
    \cup {ImageShape(1, 1, 1, w) @@ Kernel(1, kw, 1, s, 0, p) : w \in 1 .. 3, kw \in 1 .. 5, s \in 1 .. 2, p \in 0 .. 2}
    \cup {ImageShape(2, 2, 3, 2) @@ Kernel(k, 1, s, 2, p, 0) : k \in {1, 3}, s \in 1 .. 2, p \in 0 .. 1}

\* Both devices fill the whole column matrix, with the same cells of the image and the same zeros.
ColumnsAgree ==
  \A g \in {x \in Geometries : ImageFits(x)} :
    /\ cpu_im2col(g) = cuda_im2col(g)
    /\ WrittenBy(cpu_im2col(g), ColumnCells(g))

\* The threads on CUDA are counted by the column matrix: with fewer cells there than in the image,
\* as strides above the kernel make it, threads are missing.
EnoughThreads(g) == BlocksFor(ColumnCells(g), Threads) * Threads >= g.batch_size * g.channels * g.height * g.width

\* Going back is the transpose of it, on both devices: each cell of the column matrix is added to
\* the cell it came from, once, by a task that no other shares the cell with.
ColumnsReturn ==
  LET returns(back, moves) ==
        /\ {<<t.from, t.to>> : t \in back} = moves
        /\ Cardinality(back) = Cardinality(moves)
        /\ \A s, t \in back : s.to = t.to => s.task = t.task
  IN  \A g \in {x \in Geometries : ImageFits(x)} :
        LET moves == {m \in cpu_im2col(g) : m[2] # Zero} IN
        returns(cpu_col2im(g), moves) /\ (EnoughThreads(g) => returns(cuda_col2im(g), moves))

\* Then gradients are lost.
ThreadsMissing ==
  \E g \in {x \in Geometries : ImageFits(x)} : ~ EnoughThreads(g) /\ Cardinality(cuda_col2im(g)) < Cardinality(cpu_col2im(g))

\* A wider kernel is taken wrongly on the CPU: the end of a span wraps below zero, or its start
\* lies behind the output.
SpansBreak ==
  \A g \in {x \in Geometries : Fits(x) /\ ~ ImageFits(x)} : cpu_im2col(g) # cuda_im2col(g)

\* The special case is the general one, for images of two columns and more; with one column the
\* end of its vector loop wraps.
SpecialCaseAgrees ==
  \A n, c \in 1 .. 2, h \in 1 .. 3, w \in {1, 2, 3, 9, 10, 11, 18} :
    LET g == ImageShape(n, c, h, w) @@ Kernel(3, 3, 1, 1, 1, 1) IN
    IF w >= 2 THEN im2col_pad_1_stride_1_kernel_3(g) = cpu_im2col(g) ELSE Unsigned(w - 2) > w

\* Padding writes every cell once and takes in the whole image; taking it away gives the image again.
BordersAgree ==
  \A n, c \in 1 .. 2, h, w \in 1 .. 3, p, q \in 0 .. 2 :
    LET g == ImageShape(n, c, h, w) @@ Kernel(1, 1, 1, 1, p, q) IN
    /\ cpu_pad(g) = cuda_pad(g) /\ WrittenBy(cpu_pad(g), n * c * PaddedH(g) * PaddedW(g))
    /\ cpu_unpad(g) = cuda_unpad(g)
    /\ Turned(cpu_unpad(g)) = {m \in cpu_pad(g) : m[2] # Zero}

\* A window is taken alike; the padded image's middle window is what is left without the padding.
WindowsAgree ==
  \A h, w \in 1 .. 3, sh, sw \in 0 .. 2 : sh < h /\ sw < w =>
    LET g == ImageShape(2, 2, h, w) IN
    \A nh \in 1 .. h - sh, nw \in 1 .. w - sw :
      /\ cpu_crop(g, sh, sw, nh, nw) = cuda_crop(g, sh, sw, nh, nw)
      /\ WrittenBy(cpu_crop(g, sh, sw, nh, nw), 4 * nh * nw)

\* Blocks and tiles, full or not, transpose; no thread writes a cell of the tile that none has read.
TransposesAgree ==
  \A n, c \in 1 .. 5 :
    /\ cpu_transpose_2d(n, c) = cuda_transpose_2d(n, c) /\ WrittenBy(cpu_transpose_2d(n, c), n * c)
    /\ cpu_transpose_2d(n, c) = transpose_impl(<<n, c>>, 1, 2)
    /\ \A k \in 1 .. 3 :
         /\ cpu_nchw_to_cnhw(n, c, k) = cuda_nchw_to_cnhw(n, c, k)
         /\ cpu_cnhw_to_nchw(n, c, k) = cuda_cnhw_to_nchw(n, c, k)
         /\ cpu_cnhw_to_nchw(n, c, k) = Turned(cpu_nchw_to_cnhw(n, c, k))
         /\ cpu_nchw_to_cnhw(n, c, k) = transpose_impl(<<n, c, k>>, 1, 2)

\* Swapping the dimensions again gives the tensor again.
SwapsReturn ==
  \A shape \in [1 .. 3 -> 1 .. 3], d0, d1 \in 1 .. 3 :
    /\ WrittenBy(transpose_impl(shape, d0, d1), Volume(shape))
    /\ transpose_impl(SwapAt(shape, d0, d1), d0, d1) = Turned(transpose_impl(shape, d0, d1))

\* A slice is a part of its tensor and its gradient goes to that part.
SlicesAgree ==
  \A outer, inner \in 1 .. 2, axis \in 1 .. 3 : \A start \in 0 .. axis - 1 : \A length \in 1 .. axis - start :
    LET fwd == slice_fwd_impl(outer, inner, axis, start, length) IN
    /\ WrittenBy(fwd, outer * length * inner)
    /\ {m[2] : m \in fwd} = {x \in Below(outer * axis * inner) : (x \div inner) % axis \in start .. start + length - 1}
    /\ slice_bwd_impl(outer, inner, axis, start, length) = Turned(fwd)

\* The parts of a split are the batch, cut; only the last may be larger than the others.
SplitsCover ==
  \A batch \in 1 .. 7, parts \in 1 .. 8, stride \in 1 .. 2 :
    LET p == split(batch, parts, stride) IN
    /\ UNION {{m[2] : m \in p[i]} : i \in DOMAIN p} = Below(batch * stride)
    /\ \A i, j \in DOMAIN p : i # j => {m[2] : m \in p[i]} \cap {m[2] : m \in p[j]} = {}
    /\ \A i \in Below(parts - 1) : Cardinality(p[i]) = (batch \div parts) * stride

\* Each cell is normalised by one thread, with the cells of its place and of no other.
SoftmaxColumnsApart ==
  \A n, classes, h, w \in 1 .. 3 :
    LET columns == [idx \in CudaIndices(n * h * w) |-> softmax_column(idx, classes, h, w)] IN
    /\ UNION {columns[i] : i \in DOMAIN columns} = Below(n * classes * h * w)
    /\ \A i, j \in DOMAIN columns : i # j => columns[i] \cap columns[j] = {}
    /\ \A i \in DOMAIN columns : columns[i] = {At4(i \div (h * w), c, (i \div w) % h, i % w, classes, h, w) : c \in Below(classes)}

ASSUME ColumnsAgree
ASSUME ColumnsReturn
ASSUME ThreadsMissing
ASSUME SpansBreak
ASSUME SpecialCaseAgrees
ASSUME BordersAgree
ASSUME WindowsAgree
ASSUME TransposesAgree
ASSUME SwapsReturn
ASSUME SlicesAgree
ASSUME SplitsCover
ASSUME SoftmaxColumnsApart
=============================================================================
