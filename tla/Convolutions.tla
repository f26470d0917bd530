---------------------------- MODULE Convolutions ----------------------------
(* Two-dimensional convolutions and their gradients (engines/cpu/conv.cpp,  *)
(* engines/cuda/conv.cu), and the older layer that multiplies a column      *)
(* matrix (layers_impl/legacy_conv2d.cpp).  A convolution is the set of its *)
(* multiplications: the cells of output, weight and input that meet, the    *)
(* task or thread that adds them up, and where in its loops ("at").         *)
EXTENDS ImageTensors, CudaKernels, Gemm

\* Images of the engines have their channels last.
InputAt(g, b, h, w, c) == At4(b, h, w, c, g.height, g.width, g.channels)
ResultAt(g, b, h, w, c) == At4(b, h, w, c, output_h(g), output_w(g), g.out_channels)
WeightAt(g, oc, kh, kw, ic) == At4(oc, kh, kw, ic, g.kernel_h, g.kernel_w, g.channels)

InputCells(g) == g.batch_size * g.height * g.width * g.channels
ResultCells(g) == g.batch_size * output_h(g) * output_w(g) * g.out_channels
WeightCells(g) == g.out_channels * g.kernel_h * g.kernel_w * g.channels

RowIn(g, s) == (s.oh * g.stride_h) + s.kh - g.pad_h
ColumnIn(g, s) == (s.ow * g.stride_w) + s.kw - g.pad_w

\* The steps of the nested loops that find a cell of the image.
Visited(g) ==
  {s \in [b : Below(g.batch_size), oh : Below(output_h(g)), ow : Below(output_w(g)), oc : Below(g.out_channels),
          kh : Below(g.kernel_h), kw : Below(g.kernel_w), ic : Below(g.channels)] :
     RowIn(g, s) \in Below(g.height) /\ ColumnIn(g, s) \in Below(g.width)}

Meeting(g, s, task) ==
  [task |-> task, at |-> s, o |-> ResultAt(g, s.b, s.oh, s.ow, s.oc), w |-> WeightAt(g, s.oc, s.kh, s.kw, s.ic),
   i |-> InputAt(g, s.b, RowIn(g, s), ColumnIn(g, s), s.ic)]

\* On the CPU: tasks by row of the output, by image, and by channel of the output.
conv2d_fwd_naive_impl(g) == {Meeting(g, s, <<s.b, s.oh>>) : s \in Visited(g)}
conv2d_dgrad_naive_impl(g) == {Meeting(g, s, <<s.b>>) : s \in Visited(g)}
conv2d_wgrad_naive_impl(g) == {Meeting(g, s, <<s.oc>>) : s \in Visited(g)}

\* On CUDA: one thread per cell of the output,
conv2d_naive_fwd_kernel(g) ==
  LET thread(x) ==
        LET oc == x % g.out_channels
            ow == (x \div g.out_channels) % output_w(g)
            oh == (x \div (g.out_channels * output_w(g))) % output_h(g)
            b  == x \div (g.out_channels * output_w(g) * output_h(g))
            ih(kh) == (oh * g.stride_h) + kh - g.pad_h
            iw(kw) == (ow * g.stride_w) + kw - g.pad_w
        IN  {[task |-> <<x>>, at |-> s, o |-> x, w |-> WeightAt(g, oc, s[1], s[2], s[3]),
              i |-> InputAt(g, b, ih(s[1]), iw(s[2]), s[3])] :
               s \in {q \in Below(g.kernel_h) \X Below(g.kernel_w) \X Below(g.channels) :
                        ~ (ih(q[1]) < 0 \/ ih(q[1]) >= g.height) /\ ~ (iw(q[2]) < 0 \/ iw(q[2]) >= g.width)}}
  IN  UNION {thread(x) : x \in CudaIndices(ResultCells(g))}

\* per cell of the input, which looks for the cells of the output it was used for,
conv2d_naive_dgrad_kernel(g) ==
  LET thread(x) ==
        LET ic == x % g.channels
            iw == (x \div g.channels) % g.width
            ih == (x \div (g.channels * g.width)) % g.height
            b  == x \div (g.channels * g.width * g.height)
            up(kh)   == ih + g.pad_h - kh
            left(kw) == iw + g.pad_w - kw
        IN  {[task |-> <<x>>, at |-> s, o |-> ResultAt(g, b, up(s[2]) \div g.stride_h, left(s[3]) \div g.stride_w, s[1]),
              w |-> WeightAt(g, s[1], s[2], s[3], ic), i |-> x] :
               s \in {q \in Below(g.out_channels) \X Below(g.kernel_h) \X Below(g.kernel_w) :
                        /\ up(q[2]) >= 0 /\ up(q[2]) % g.stride_h = 0 /\ up(q[2]) \div g.stride_h < output_h(g)
                        /\ left(q[3]) >= 0 /\ left(q[3]) % g.stride_w = 0 /\ left(q[3]) \div g.stride_w < output_w(g)}}
  IN  UNION {thread(x) : x \in CudaIndices(InputCells(g))}

\* and per weight.
conv2d_naive_wgrad_kernel(g) ==
  LET thread(x) ==
        LET ic == x % g.channels
            kw == (x \div g.channels) % g.kernel_w
            kh == (x \div (g.channels * g.kernel_w)) % g.kernel_h
            oc == x \div (g.channels * g.kernel_w * g.kernel_h)
            ih(oh) == (oh * g.stride_h) + kh - g.pad_h
            iw(ow) == (ow * g.stride_w) + kw - g.pad_w
        IN  {[task |-> <<x>>, at |-> s, o |-> ResultAt(g, s[1], s[2], s[3], oc), w |-> x,
              i |-> InputAt(g, s[1], ih(s[2]), iw(s[3]), ic)] :
               s \in {q \in Below(g.batch_size) \X Below(output_h(g)) \X Below(output_w(g)) :
                        ~ (ih(q[2]) < 0 \/ ih(q[2]) >= g.height) /\ ~ (iw(q[3]) < 0 \/ iw(q[3]) >= g.width)}}
  IN  UNION {thread(x) : x \in CudaIndices(WeightCells(g))}

\* The gradient of a bias is added to what it held.  On the CPU a task per channel adds up,
conv2d_bgrad_naive_impl(g, grad, held) ==
  [oc \in Below(g.out_channels) |->
     held[oc] + SumOver([x \in Below(ResultCells(g) \div g.out_channels) |-> grad[(x * g.out_channels) + oc]],
                        0, ResultCells(g) \div g.out_channels)]

\* on CUDA a warp per channel, of 128 threads a block.
BgradWarps == 2
bgrad_reduce_accumulate_kernel(g, grad, held) ==
  LET rows == ResultCells(g) \div g.out_channels
      blocks == BlocksFor(g.out_channels, BgradWarps)
      of(warp) == held[warp] + warp_reduce_sum([lane \in Below(Warp) |->
                    SumIn([x \in Below(rows) |-> grad[(x * g.out_channels) + warp]], Stride(lane, rows, Warp), rows)])[0]
  IN  [warp \in {w \in Below(blocks * BgradWarps) : w < g.out_channels} |-> of(warp)]

\* Kernels that nothing launches: a bias and its gradient for images with their channels first.
conv2d_add_bias_kernel(g) ==
  LET space == output_h(g) * output_w(g)
  IN  {<<x, (x % (g.out_channels * space)) \div space>> : x \in CudaIndices(ResultCells(g))}

\* The gradient does not count what was held.
conv2d_nchw_bgrad_kernel(g, grad) ==
  LET space == output_h(g) * output_w(g)
      total == g.batch_size * space
  IN  [c \in Below(g.out_channels) |->
         tree_reduce([t \in ThreadIds |->
           SumIn([x \in Below(total) |-> grad[((x \div space) * g.out_channels * space) + (c * space) + (x % space)]],
                 Stride(t, total, Threads), total)])]

----------------------------------------------------------------------------
(* The older layer, whose images have their channels first.                 *)

\* Products of doubles and floats; o, w and i stand for the three matrices.
LegacyColumns(g) == g.batch_size * output_h(g) * output_w(g)
LegacyDepth(g) == g.channels * g.kernel_h * g.kernel_w

legacy_conv2d_fwd(g) == Terms(sgemm_nn(g.out_channels, LegacyColumns(g), LegacyDepth(g), FALSE))
legacy_conv2d_wgrad(g) == Terms(sgemm_nt(g.out_channels, LegacyDepth(g), LegacyColumns(g), FALSE))
legacy_conv2d_dgrad(g) == Terms(sgemm_tn(LegacyDepth(g), LegacyColumns(g), g.out_channels, FALSE))

\* The bias is added, and its gradient summed, as if the channels were last: <<cell, bias>>.
legacy_conv2d_add_bias(g) == {<<(n * g.out_channels) + oc, oc>> : n \in Below(LegacyColumns(g)), oc \in Below(g.out_channels)}
legacy_conv2d_bgrad(g) == {<<(n * g.out_channels) + oc, oc>> : n \in Below(LegacyColumns(g)), oc \in Below(g.out_channels)}

\* A move or the product of two: the cell that comes to stand in x.
Source(moves, x) == (CHOOSE m \in moves : m[1] = x)[2]
InTwo(moves) == [x \in {m[1] : m \in moves} |-> Source(moves, x)]

\* Column matrix, product, and back from channels first: the cells of output, weight and image.
LegacyForward(g) ==
  LET image == InTwo(cpu_im2col(g))
      place == InTwo(Turned(cpu_cnhw_to_nchw(g.batch_size, g.out_channels, output_h(g) * output_w(g))))
  IN  {<<place[t.c], t.a, image[t.b]>> : t \in {u \in legacy_conv2d_fwd(g) : image[u.b] # Zero}}

\* The gradients; the image of the backward pass is computed from the output.
BackwardSize(out, stride, kernel, pad) == ((out - 1) * stride) + kernel - (2 * pad)
BackwardShape(g) ==
  [g EXCEPT !.height = BackwardSize(output_h(g), g.stride_h, g.kernel_h, g.pad_h),
            !.width = BackwardSize(output_w(g), g.stride_w, g.kernel_w, g.pad_w)]

LegacyWeightGradient(g) ==
  LET image == InTwo(cpu_im2col(g))
      grad  == InTwo(cpu_nchw_to_cnhw(g.batch_size, g.out_channels, output_h(g) * output_w(g)))
  IN  {<<grad[t.a], t.c, image[t.b]>> : t \in {u \in legacy_conv2d_wgrad(g) : image[u.b] # Zero}}

LegacyInputGradient(g) ==
  LET grad == InTwo(cpu_nchw_to_cnhw(g.batch_size, g.out_channels, output_h(g) * output_w(g)))
      back == cpu_col2im(BackwardShape(g))
  IN  UNION {{<<grad[t.b], t.a, r.to>> : r \in {q \in back : q.from = t.c}} : t \in legacy_conv2d_dgrad(g)}

----------------------------------------------------------------------------
(* What must hold of them.                                                  *)

Meetings(terms) == {<<t.o, t.w, t.i>> : t \in terms}
SingleHanded(terms, cell(_)) == \A s, t \in terms : cell(s) = cell(t) => s.task = t.task

ConvShapes ==
  {ImageShape(n, ic, h, 2) @@ Kernel(kh, kw, s, 1, p, q) @@ [out_channels |-> oc] :
     n \in {2}, ic \in {1, 2}, oc \in {1, 2}, h \in {3}, kh \in {2}, kw \in {1}, s \in {1, 2}, p \in {0, 1}, q \in {0}}
    \cup {ImageShape(1, 1, h, 2) @@ Kernel(kh, kw, s, 2, p, 1) @@ [out_channels |-> 1] :
            h \in {1, 4}, kh \in {1, 3}, kw \in {2}, s \in {1, 2, 3}, p \in {1, 2}}

\* Both devices multiply the same cells, each pair once, and no two tasks add to one cell.
ConvolutionsAgree ==
  \A g \in ConvShapes :
    LET cpu == conv2d_fwd_naive_impl(g) cuda == conv2d_naive_fwd_kernel(g) IN
    /\ Meetings(cpu) = Meetings(cuda) /\ Cardinality(cpu) = Cardinality(cuda)
    /\ Cardinality(Meetings(cpu)) = Cardinality(cpu)
    /\ SingleHanded(cpu, LAMBDA t : t.o) /\ SingleHanded(cuda, LAMBDA t : t.o)
    /\ {t.o : t \in cpu} \subseteq Below(ResultCells(g)) /\ {t.w : t \in cpu} \subseteq Below(WeightCells(g))
    /\ {t.i : t \in cpu} \subseteq Below(InputCells(g))

\* The gradients are those of the convolution: what met there meets here, once, on both devices, the
\* one of the input gathered on CUDA and scattered on the CPU; and no two tasks add to one cell.
GradientsAreAdjoint ==
  \A g \in ConvShapes :
    LET fwd == Meetings(conv2d_fwd_naive_impl(g))
        same(terms) == Meetings(terms) = fwd /\ Cardinality(terms) = Cardinality(fwd)
    IN  /\ \A t \in {conv2d_dgrad_naive_impl(g), conv2d_naive_dgrad_kernel(g)} : same(t) /\ SingleHanded(t, LAMBDA u : u.i)
        /\ \A t \in {conv2d_wgrad_naive_impl(g), conv2d_naive_wgrad_kernel(g)} : same(t) /\ SingleHanded(t, LAMBDA u : u.w)

\* The gradient of a bias counts every cell of its channel once, and what was held, on both devices.
BiasGradientsAgree ==
  \A g \in ConvShapes, held \in {0, 5} :
    LET grad == [x \in Below(ResultCells(g)) |-> (x * x) + 1]
        cpu  == conv2d_bgrad_naive_impl(g, grad, [c \in Below(g.out_channels) |-> held])
    IN  /\ cpu = bgrad_reduce_accumulate_kernel(g, grad, [c \in Below(g.out_channels) |-> held])
        /\ SumOver(cpu, 0, g.out_channels) = SumOver(grad, 0, ResultCells(g)) + (held * g.out_channels)

\* The older layer computes the same convolution of images with their channels first, and its
\* gradients; that of the input when the stride divides.
ChannelsFirst(g) ==
  {<<At4(s.b, s.oc, s.oh, s.ow, g.out_channels, output_h(g), output_w(g)),
     At4(s.oc, s.ic, s.kh, s.kw, g.channels, g.kernel_h, g.kernel_w),
     At4(s.b, s.ic, RowIn(g, s), ColumnIn(g, s), g.channels, g.height, g.width)>> : s \in Visited(g)}

SameImage(g) == BackwardShape(g).height = g.height /\ BackwardShape(g).width = g.width

LegacyConvolutionAgrees ==
  \A g \in {x \in ConvShapes : ImageFits(x)} :
    /\ LegacyForward(g) = ChannelsFirst(g)
    /\ LegacyWeightGradient(g) = ChannelsFirst(g)
    /\ SameImage(g) => LegacyInputGradient(g) = ChannelsFirst(g)

\* Otherwise the gradient is that of a smaller image: rows or columns that no output needed are missing.
GradientsCut ==
  /\ \A g \in ConvShapes : ~ SameImage(g) => BackwardShape(g).height < g.height \/ BackwardShape(g).width < g.width
  /\ \A g \in ConvShapes :
       SameImage(g) <=> /\ (g.height + (2 * g.pad_h) - g.kernel_h) % g.stride_h = 0
                        /\ (g.width + (2 * g.pad_w) - g.kernel_w) % g.stride_w = 0

\* Its bias meets the channel it belongs to, and its gradient comes from there, only with one channel
\* or images of one cell; CUDA's kernel without a caller is right about that.
LegacyBiasMisplaced ==
  \A g \in ConvShapes :
    LET space == output_h(g) * output_w(g)
        right == {<<x, (x \div space) % g.out_channels>> : x \in Below(ResultCells(g))}
    IN  /\ (legacy_conv2d_add_bias(g) = right) <=> (g.out_channels = 1 \/ space = 1)
        /\ legacy_conv2d_bgrad(g) = legacy_conv2d_add_bias(g)
        /\ conv2d_add_bias_kernel(g) = right

\* The other such kernel sums a channel, but forgets what was held.
ChannelSums ==
  \A g \in ConvShapes :
    LET space == output_h(g) * output_w(g)
        grad  == [x \in Below(ResultCells(g)) |-> (x * x) + 1]
    IN  conv2d_nchw_bgrad_kernel(g, grad) =
          [c \in Below(g.out_channels) |-> SumIn(grad, {x \in Below(ResultCells(g)) : (x \div space) % g.out_channels = c}, ResultCells(g))]

ASSUME ConvolutionsAgree
ASSUME GradientsAreAdjoint
ASSUME BiasGradientsAgree
ASSUME LegacyConvolutionAgrees
ASSUME GradientsCut
ASSUME LegacyBiasMisplaced
ASSUME ChannelSums

----------------------------------------------------------------------------
(* Averages and maxima over windows of an image and their gradients         *)
(* (engines/cpu/pool.cpp, engines/cuda/pool.cu).  The geometry is that of a *)
(* convolution, the kernel being the window.                                *)

\* The rows or columns of window k that lie in the image.
WindowStart(k, stride, pad) == (k * stride) - pad
WindowRows(g, oh) ==
  Hi(WindowStart(oh, g.stride_h, g.pad_h), 0) .. Lo(WindowStart(oh, g.stride_h, g.pad_h) + g.kernel_h, g.height) - 1
WindowColumns(g, ow) ==
  Hi(WindowStart(ow, g.stride_w, g.pad_w), 0) .. Lo(WindowStart(ow, g.stride_w, g.pad_w) + g.kernel_w, g.width) - 1

\* The difference of the bounds, which is below zero for a window beyond the image.
WindowExtent(start, size, kernel) == Lo(start + kernel, size) - Hi(start, 0)

LastAt(g, b, h, w, c) == At4(b, h, w, c, g.height, g.width, g.channels)
FirstAt(g, b, h, w, c) == At4(b, c, h, w, g.channels, g.height, g.width)

OutCells(g) == g.batch_size * output_h(g) * output_w(g) * g.channels

\* The place of an output cell with channels last, and with channels first.
LastPlace(g, x) ==
  [c |-> x % g.channels, ow |-> (x \div g.channels) % output_w(g),
   oh |-> (x \div (g.channels * output_w(g))) % output_h(g), b |-> x \div (g.channels * output_w(g) * output_h(g))]
FirstPlace(g, x) ==
  [b |-> x \div (g.channels * output_h(g) * output_w(g)), c |-> (x \div (output_h(g) * output_w(g))) % g.channels,
   oh |-> (x \div output_w(g)) % output_h(g), ow |-> x % output_w(g)]

OutPlaces(g) == [b : Below(g.batch_size), oh : Below(output_h(g)), ow : Below(output_w(g)), c : Below(g.channels)]

----------------------------------------------------------------------------
(* Averages: the cells of the image that a cell of the output is made of    *)
(* and what their sum is divided by.  With no cell the average is 0.        *)

Share(task, o, i, n) == [task |-> task, o |-> o, i |-> i, n |-> n]

\* The number of cells that were added up.
avgpool_fwd_impl(g) ==
  UNION {LET cells == WindowRows(g, s.oh) \X WindowColumns(g, s.ow) IN
         {Share(<<s.b, s.oh>>, At4(s.b, s.oh, s.ow, s.c, output_h(g), output_w(g), g.channels),
                LastAt(g, s.b, q[1], q[2], s.c), Cardinality(cells)) : q \in cells} : s \in OutPlaces(g)}

\* The product of the two extents; nothing happens when it is 0.
WindowCount(g, oh, ow) ==
  WindowExtent(WindowStart(oh, g.stride_h, g.pad_h), g.height, g.kernel_h)
    * WindowExtent(WindowStart(ow, g.stride_w, g.pad_w), g.width, g.kernel_w)

avgpool_bwd_impl(g) ==
  UNION {{Share(<<s.b>>, At4(s.b, s.oh, s.ow, s.c, output_h(g), output_w(g), g.channels),
                LastAt(g, s.b, q[1], q[2], s.c), WindowCount(g, s.oh, s.ow)) :
            q \in WindowRows(g, s.oh) \X WindowColumns(g, s.ow)} :
           s \in {u \in OutPlaces(g) : WindowCount(g, u.oh, u.ow) # 0}}

\* On CUDA a thread per cell of the output, which adds atomically in the backward pass.
avgpool_fwd_kernel(g) ==
  UNION {LET s == LastPlace(g, x) cells == WindowRows(g, s.oh) \X WindowColumns(g, s.ow) IN
         {Share(<<x>>, x, LastAt(g, s.b, q[1], q[2], s.c), Cardinality(cells)) : q \in cells} : x \in CudaIndices(OutCells(g))}

avgpool_dgrad_kernel(g) ==
  UNION {LET s == LastPlace(g, x) IN
         {Share(<<x>>, x, LastAt(g, s.b, q[1], q[2], s.c), WindowCount(g, s.oh, s.ow)) :
            q \in IF WindowCount(g, s.oh, s.ow) = 0 THEN {} ELSE WindowRows(g, s.oh) \X WindowColumns(g, s.ow)} :
           x \in CudaIndices(OutCells(g))}

\* Images with channels first: the older layer, and kernels without a caller.  All cells of a window
\* count, also those outside the image.
legacy_avgpool2d_fwd_impl(g) ==
  UNION {{Share(<<s.b, s.c>>, At4(s.b, s.c, s.oh, s.ow, g.channels, output_h(g), output_w(g)),
                FirstAt(g, s.b, q[1], q[2], s.c), g.kernel_h * g.kernel_w) :
            q \in WindowRows(g, s.oh) \X WindowColumns(g, s.ow)} : s \in OutPlaces(g)}

legacy_avgpool2d_bwd_impl(g) ==
  UNION {{Share(<<s.b, s.c>>, At4(s.b, s.c, s.oh, s.ow, g.channels, output_h(g), output_w(g)),
                FirstAt(g, s.b, q[1], q[2], s.c), g.kernel_h * g.kernel_w) :
            q \in WindowRows(g, s.oh) \X WindowColumns(g, s.ow)} : s \in OutPlaces(g)}

avgpool_nchw_fwd_kernel(g) ==
  UNION {LET s == FirstPlace(g, x) IN
         {Share(<<x>>, x, FirstAt(g, s.b, q[1], q[2], s.c), g.kernel_h * g.kernel_w) :
            q \in WindowRows(g, s.oh) \X WindowColumns(g, s.ow)} : x \in CudaIndices(OutCells(g))}

avgpool_nchw_dgrad_kernel(g) ==
  UNION {LET s == FirstPlace(g, x) IN
         {Share(<<x>>, x, FirstAt(g, s.b, q[1], q[2], s.c), g.kernel_h * g.kernel_w) :
            q \in WindowRows(g, s.oh) \X WindowColumns(g, s.ow)} : x \in CudaIndices(OutCells(g))}

----------------------------------------------------------------------------
(* Maxima: the value of each cell of the output and the mask that leads the *)
(* gradient back.  LowestValue is the lowest value of the type.                  *)

LowestValue == 0

\* The cells of a window in the order in which they are scanned.
Scanned(g, oh, ow) ==
  LET rows == WindowRows(g, oh)
      cols == WindowColumns(g, ow)
      n    == Cardinality(cols)
  IN  [k \in 1 .. Cardinality(rows) * n |->
         <<Hi(WindowStart(oh, g.stride_h, g.pad_h), 0) + ((k - 1) \div n), Hi(WindowStart(ow, g.stride_w, g.pad_w), 0) + ((k - 1) % n)>>]

\* The first cell of a scan whose value is above all before it and above LowestValue, or 0.
HighestIn(scan, value(_)) ==
  LET best[k \in 0 .. Len(scan)] ==
        IF k = 0 THEN 0
        ELSE IF value(scan[k]) > (IF best[k - 1] = 0 THEN LowestValue ELSE value(scan[best[k - 1]])) THEN k ELSE best[k - 1]
  IN  best[Len(scan)]

\* The mask counts in the window, the part outside the image included; -1 is no cell.
MaxOf(g, s, scan, k, value(_)) ==
  IF k = 0 THEN [value |-> LowestValue, mask |-> -1]
  ELSE [value |-> value(scan[k]),
        mask  |-> ((scan[k][1] - WindowStart(s.oh, g.stride_h, g.pad_h)) * g.kernel_w)
                    + (scan[k][2] - WindowStart(s.ow, g.stride_w, g.pad_w))]

maxpool2d_fwd_impl(g, f) ==
  [x \in Below(OutCells(g)) |->
     LET s == CHOOSE u \in OutPlaces(g) : At4(u.b, u.oh, u.ow, u.c, output_h(g), output_w(g), g.channels) = x
         scan == Scanned(g, s.oh, s.ow)
         value(q) == f[LastAt(g, s.b, q[1], q[2], s.c)]
     IN  MaxOf(g, s, scan, HighestIn(scan, value), value)]

maxpool_fwd_kernel(g, f) ==
  [x \in CudaIndices(OutCells(g)) |->
     LET s == LastPlace(g, x)
         scan == Scanned(g, s.oh, s.ow)
         value(q) == f[LastAt(g, s.b, q[1], q[2], s.c)]
     IN  MaxOf(g, s, scan, HighestIn(scan, value), value)]

\* Where they store: the CPU leaves a missing mask alone, the kernel does not ask.
Null == "null"
CpuStores(mask) == {"output"} \cup (IF mask # Null THEN {mask} ELSE {})
CudaStores(mask) == {"output", mask}
cpu_maxpool2d_infer == CpuStores(Null)
cuda_maxpool2d_infer == CudaStores(Null)

\* The additions of the backward pass, to a gradient that is zero: by image on the CPU,
Returned(g, x, s, m) ==
  LET h == WindowStart(s.oh, g.stride_h, g.pad_h) + (m \div g.kernel_w)
      w == WindowStart(s.ow, g.stride_w, g.pad_w) + (m % g.kernel_w)
  IN  IF m >= 0 /\ h \in Below(g.height) /\ w \in Below(g.width)
      THEN {[task |-> <<s.b>>, o |-> x, i |-> LastAt(g, s.b, h, w, s.c)]} ELSE {}

maxpool2d_bwd_impl(g, masks) ==
  LET each == output_h(g) * output_w(g) * g.channels
      place(b, i) == [b |-> b, c |-> i % g.channels, ow |-> (i \div g.channels) % output_w(g),
                      oh |-> (i \div (g.channels * output_w(g))) % output_h(g)]
  IN  UNION {Returned(g, (b * each) + i, place(b, i), masks[(b * each) + i]) : b \in Below(g.batch_size), i \in Below(each)}

\* and by thread on CUDA, atomically.
maxpool_dgrad_kernel(g, masks) == UNION {Returned(g, x, LastPlace(g, x), masks[x]) : x \in CudaIndices(OutCells(g))}

\* The older layer: the mask is the cell itself, and 0 is no cell, but also the first.
LegacyMax(g, s, f, first) ==
  LET scan == Scanned(g, s.oh, s.ow)
      at(q) == FirstAt(g, s.b, q[1], q[2], s.c)
      k == HighestIn(scan, LAMBDA q : f[at(q)])
      best == IF k = 0 /\ first /\ scan # <<>> THEN 1 ELSE k
  IN  IF best = 0 THEN [value |-> LowestValue, mask |-> 0] ELSE [value |-> f[at(scan[best])], mask |-> at(scan[best])]

legacy_maxpool2d_fwd_impl(g, f) ==
  [x \in Below(OutCells(g)) |->
     LET s == CHOOSE u \in OutPlaces(g) : At4(u.b, u.c, u.oh, u.ow, g.channels, output_h(g), output_w(g)) = x
     IN  LegacyMax(g, s, f, FALSE)]

\* CUDA's kernel takes the first cell of a window whatever it holds; nothing launches it.
maxpool_nchw_fwd_kernel(g, f) == [x \in CudaIndices(OutCells(g)) |-> LegacyMax(g, FirstPlace(g, x), f, TRUE)]

legacy_maxpool2d_bwd_impl(g, masks) ==
  LET space == output_h(g) * output_w(g)
  IN  {[task |-> <<n, c>>, o |-> (((n * g.channels) + c) * space) + i, i |-> masks[(((n * g.channels) + c) * space) + i]] :
         n \in Below(g.batch_size), c \in Below(g.channels), i \in Below(space)}
maxpool_nchw_dgrad_kernel(g, masks) == {[task |-> <<x>>, o |-> x, i |-> masks[x]] : x \in CudaIndices(OutCells(g))}

----------------------------------------------------------------------------
(* What must hold of them.                                                  *)

PoolShapes ==
  {ImageShape(2, c, h, 2) @@ Kernel(k, 2, s, 1, p, 1) : c \in {1, 2}, h \in {3}, k \in {2}, s \in {1, 2}, p \in {0, 1}}
    \cup {ImageShape(1, 1, h, 2) @@ Kernel(k, l, s, 1, p, 0) : h \in {1, 4}, k \in 1 .. 3, l \in {1}, s \in {1, 2}, p \in 0 .. 2}
PoolGeometries == {g \in PoolShapes : Fits(g)}

Shares(terms) == {<<t.o, t.i, t.n>> : t \in terms}
PoolImages(g) == {[x \in Below(InputCells(g)) |-> ((x * a) + b) % 4] : a \in {0, 1, 3}, b \in {0}}
Masks(max) == [x \in DOMAIN max |-> max[x].mask]

\* An average divides by the cells of the image in its window; both devices share it alike, and its
\* gradient goes back in the same shares, by tasks that share no cell (or add atomically).
AveragesAgree ==
  \A g \in PoolGeometries :
    LET fwd == avgpool_fwd_impl(g) IN
    /\ \A t \in fwd : t.n = Cardinality({u \in fwd : u.o = t.o})
    /\ \A terms \in {avgpool_fwd_kernel(g), avgpool_bwd_impl(g), avgpool_dgrad_kernel(g)} : Shares(terms) = Shares(fwd)
    /\ SingleHanded(fwd, LAMBDA t : t.o) /\ SingleHanded(avgpool_bwd_impl(g), LAMBDA t : t.i)

\* The older layer shares alike forwards and backwards, and its average is the other one's only
\* where no window reaches outside the image.
LegacyAverages ==
  \A g \in PoolGeometries :
    LET fwd == legacy_avgpool2d_fwd_impl(g) IN
    /\ \A terms \in {legacy_avgpool2d_bwd_impl(g), avgpool_nchw_fwd_kernel(g), avgpool_nchw_dgrad_kernel(g)} :
         Shares(terms) = Shares(fwd)
    /\ SingleHanded(fwd, LAMBDA t : t.o) /\ SingleHanded(fwd, LAMBDA t : t.i)
    /\ g.channels = 1 =>
         ((Shares(fwd) = Shares(avgpool_fwd_impl(g))) <=>
            \A t \in fwd : Cardinality({u \in fwd : u.o = t.o}) = g.kernel_h * g.kernel_w)

\* Both devices find the highest cell of each window, and its gradient returns to that cell, to no
\* other and not twice; a window whose cells are all as low as can be passes no gradient.
MaximaReturn ==
  \A g \in PoolGeometries : \A f \in PoolImages(g) :
    LET max  == maxpool2d_fwd_impl(g, f)
        back == maxpool2d_bwd_impl(g, Masks(max))
        seen(o) == {t.i : t \in {u \in avgpool_fwd_impl(g) : u.o = o}}
    IN  /\ max = maxpool_fwd_kernel(g, f)
        /\ SingleHanded(back, LAMBDA t : t.i)
        /\ {<<t.o, t.i>> : t \in maxpool_dgrad_kernel(g, Masks(max))} = {<<t.o, t.i>> : t \in back}
        /\ \A o \in DOMAIN max :
             /\ \A i \in seen(o) : f[i] <= max[o].value
             /\ {t \in back : t.o = o} = {} <=> max[o].value = LowestValue
             /\ \A t, u \in {r \in back : r.o = o} : t = u /\ t.i \in seen(o) /\ f[t.i] = max[o].value

\* CUDA writes a mask in inference, where there is none to write.
InferenceWritesNull == Null \in cuda_maxpool2d_infer /\ Null \notin cpu_maxpool2d_infer

\* The older layer finds the same maxima, but a window without a cell above the lowest sends its
\* gradient to the first cell of the whole batch, which another task may be adding to.
LegacyMaxima ==
  \A g \in PoolGeometries : \A f \in PoolImages(g) :
    LET max  == legacy_maxpool2d_fwd_impl(g, f)
        back == legacy_maxpool2d_bwd_impl(g, Masks(max))
        seen(o) == {t.i : t \in {u \in legacy_avgpool2d_fwd_impl(g) : u.o = o}}
    IN  /\ {<<t.o, t.i>> : t \in back} = {<<t.o, t.i>> : t \in maxpool_nchw_dgrad_kernel(g, Masks(max))}
        /\ \A o \in DOMAIN max :
             /\ \A i \in seen(o) : f[i] <= max[o].value
             /\ max[o].value # LowestValue => max[o].mask \in seen(o) /\ f[max[o].mask] = max[o].value
             /\ max[o].value = LowestValue => max[o].mask = 0
        /\ (\A o \in DOMAIN max : max[o].value # LowestValue) => SingleHanded(back, LAMBDA t : t.i)
        /\ \A o \in DOMAIN max : seen(o) # {} => maxpool_nchw_fwd_kernel(g, f)[o].mask \in seen(o)

LegacyMaximaCollide ==
  \E g \in PoolGeometries : \E f \in PoolImages(g) :
    ~ SingleHanded(legacy_maxpool2d_bwd_impl(g, Masks(legacy_maxpool2d_fwd_impl(g, f))), LAMBDA t : t.i)

\* The older layers make their gradient as large as the output says; when the stride does not
\* divide, a mask may point behind its end.
LegacyMaskBeyond ==
  LET beyond(g, f) == \E o \in DOMAIN legacy_maxpool2d_fwd_impl(g, f) :
                        legacy_maxpool2d_fwd_impl(g, f)[o].mask >= InputCells(BackwardShape(g))
  IN  /\ \A g \in PoolGeometries : SameImage(g) => \A f \in PoolImages(g) : ~ beyond(g, f)
      /\ \E g \in PoolGeometries : ~ SameImage(g) /\ \E f \in PoolImages(g) : beyond(g, f)

ASSUME AveragesAgree
ASSUME LegacyAverages
ASSUME MaximaReturn
ASSUME InferenceWritesNull
ASSUME LegacyMaxima
ASSUME LegacyMaximaCollide
ASSUME LegacyMaskBeyond
=============================================================================
