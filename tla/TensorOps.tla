------------------------------ MODULE TensorOps ------------------------------
(* What the operations on tensors ask for before they start a kernel        *)
(* (tensor/ops.hpp), views of tensors (tensor/tensor.hpp), copies between   *)
(* devices (kernel/kernel.cpp), saving and loading, and the arithmetic      *)
(* operators (tensor/arithmetic.hpp).  The kernels are in VectorKernels and *)
(* ImageTensors.                                                            *)
EXTENDS ImageTensors

\* Where the memory of a tensor lies, what its elements are, its extents and its memory.
Tensor(device, dtype, shape, storage) == [device |-> device, dtype |-> dtype, shape |-> shape, storage |-> storage]

device_type(device) == CASE device = "host" -> "CPU" [] device \in {"gpu0", "gpu1"} -> "CUDA" [] OTHER -> "UNKNOWN"
get_dtype_size(dtype) == IF dtype = "fp32" THEN 2 ELSE 1
size(t) == Volume(t.shape)
num_bytes(t) == size(t) * get_dtype_size(t.dtype)

\* What an operation answers: a reason to throw, or the kernel it starts, with how many bytes of
\* each of its tensors the kernel goes through.  There are kernels for two types of devices.
Throws(why) == [throws |-> why]
Runs(kernel, on, touched) ==
  IF on \in {"CPU", "CUDA"} THEN [kernel |-> kernel, on |-> on, touched |-> touched] ELSE Throws("unsupported")
Accepted(answer) == "kernel" \in DOMAIN answer

\* The functions that go through their tensors element by element, in the order of the file, with
\* the number of their tensors.
Arithmetic == [f \in {"add", "sub", "mul", "div"} |-> 3]
Fused == [f \in {"fmadd", "fmsub", "fnmadd"} |-> 3]
WithScalar == [f \in {"add_scalar", "sub_scalar", "mul_scalar", "div_scalar"} |-> 2]
Filled == [fill |-> 1, axpy |-> 2]
Rooted == [f \in {"sqrt", "rsqrt", "rcp", "abs"} |-> 2]
Bounded == [min |-> 3, max |-> 3, scalar_max |-> 2, clamp |-> 2]
Compared == [equal |-> 3, greater |-> 3]
Cleared == [bswap |-> 2, zero |-> 1]
Summed == [sum |-> 1, dot_product |-> 2, norm_squared |-> 1, sum_squared_diff |-> 1]
Affine == [sub_mul_scalar |-> 2, mul_add_scalar |-> 2, fill_uniform |-> 1, fill_normal |-> 1]

ElementFunctions ==
  Arithmetic @@ Fused @@ WithScalar @@ Filled @@ Rooted @@ Bounded @@ Compared @@ Cleared @@ Summed @@ Affine

\* All tensors are on the device of the first; how many elements there are and of which type is
\* taken from the first, too.
Elementwise(f, tensors) ==
  LET first == tensors[1]
  IN  IF \E i \in DOMAIN tensors : tensors[i].device # first.device THEN Throws("devices")
      ELSE Runs(f, device_type(first.device), {<<tensors[i], num_bytes(first)>> : i \in DOMAIN tensors})

tensor_check_equals(a, b) ==
  IF a.device # b.device THEN Throws("devices")
  ELSE IF size(a) # size(b) THEN Throws("sizes")
  ELSE Elementwise("check_equals", <<a, b>>)

\* Each side in its own type.
tensor_cast(a, b) ==
  IF a.device # b.device THEN Throws("devices")
  ELSE Runs("cast", device_type(a.device), {<<a, num_bytes(a)>>, <<b, size(a) * get_dtype_size(b.dtype)>>})

\* Between devices: the direction decides on the kernel; the bytes are those of a.
tensor_copy(a, c) ==
  LET from == device_type(a.device)
      to   == device_type(c.device)
      runs(kernel, on) == Runs(kernel, on, {<<t, num_bytes(a)>> : t \in {a, c}})
  IN  IF size(a) = 0 \/ size(c) = 0 THEN Runs("none", from, {})
      ELSE IF a.device = c.device THEN runs("copy", from)
      ELSE IF from = "CPU" /\ to = "CUDA" THEN runs("h2d_copy", to)
      ELSE IF from = "CUDA" /\ to = "CPU" THEN runs("d2h_copy", from)
      ELSE Throws("devices")

----------------------------------------------------------------------------
(* Operations on images; most compare only the types of the devices.        *)

SameKind(a, b) == device_type(a.device) = device_type(b.device)

\* The extents of an image of four dimensions.
Image(t) == ImageShape(t.shape[1], t.shape[2], t.shape[3], t.shape[4])
\* In bytes, the reach of moves on the side that is first or second in them.
Reach(moves, side, t) ==
  LET cells == {m[side] : m \in moves} \ {Zero}
  IN  IF cells = {} THEN 0 ELSE (1 + (CHOOSE c \in cells : \A d \in cells : d <= c)) * get_dtype_size(t.dtype)
Moves(kernel, input, result, moves) ==
  Runs(kernel, device_type(input.device), {<<input, Reach(moves, 2, input)>>, <<result, Reach(moves, 1, input)>>})

\* With a kernel wider than the padded image the size wraps; im2col and col2im are modelled for others.
WrappedSize(extent, pad, kernel, stride) == (Unsigned(extent + (2 * pad) - kernel) \div stride) + 1

tensor_im2col(input, col_data, k) ==
  IF col_data.device # input.device THEN Throws("devices")
  ELSE IF input.dtype # col_data.dtype THEN Throws("dtypes")
  ELSE IF Len(input.shape) # 4 THEN Throws("dims")
  ELSE Moves("im2col", input, col_data, cpu_im2col(Image(input) @@ k))

tensor_col2im(col_data, result, g) ==
  IF ~ SameKind(col_data, result) THEN Throws("devices")
  ELSE IF col_data.dtype # result.dtype THEN Throws("dtypes")
  ELSE Moves("col2im", col_data, result, {<<a.to, a.from>> : a \in cpu_col2im(g)})

tensor_pad(input, result, pad_h, pad_w) ==
  IF ~ SameKind(input, result) THEN Throws("devices")
  ELSE IF input.dtype # result.dtype THEN Throws("dtypes")
  ELSE IF Len(input.shape) # 4 THEN Throws("dims")
  ELSE Moves("pad", input, result, cpu_pad(Image(input) @@ [pad_h |-> pad_h, pad_w |-> pad_w]))

tensor_unpad(input, result, pad_h, pad_w) ==
  IF ~ SameKind(input, result) THEN Throws("devices")
  ELSE IF input.dtype # result.dtype THEN Throws("dtypes")
  ELSE IF Len(input.shape) # 4 THEN Throws("dims")
  ELSE IF input.shape[3] <= 2 * pad_h \/ input.shape[4] <= 2 * pad_w THEN Throws("range")
  ELSE LET g == ImageShape(input.shape[1], input.shape[2], input.shape[3] - (2 * pad_h), input.shape[4] - (2 * pad_w))
       IN  Moves("unpad", input, result, cpu_unpad(g @@ [pad_h |-> pad_h, pad_w |-> pad_w]))

\* The last row and column belong to the window.
CropMoves(input, from, to) == cpu_crop(Image(input), from[1], from[2], to[1] - from[1] + 1, to[2] - from[2] + 1)
tensor_crop(input, result, from, to) ==
  IF ~ SameKind(input, result) THEN Throws("devices")
  ELSE IF input.dtype # result.dtype THEN Throws("dtypes")
  ELSE IF Len(input.shape) # 4 THEN Throws("dims")
  ELSE IF to[1] >= input.shape[3] \/ to[2] >= input.shape[4] \/ from[1] > to[1] \/ from[2] > to[2] THEN Throws("range")
  ELSE Moves("crop", input, result, CropMoves(input, from, to))

\* The result is made anew, on the device and with the type of the input.
Cut(input, start, end) == Tensor(input.device, input.dtype, [input.shape EXCEPT ![1] = end - start], "new")
CutMoves(input, start, end) == slice_batch(start, end, Strides(input.shape)[1])

tensor_slice_batch(input, result, start, end) ==
  IF ~ SameKind(input, result) THEN Throws("devices")
  ELSE IF input.dtype # result.dtype THEN Throws("dtypes")
  ELSE IF end > input.shape[1] \/ start > end THEN Throws("range")
  ELSE Moves("copy", input, Cut(input, start, end), CutMoves(input, start, end))

tensor_split(input, num_splits) ==
  LET each == input.shape[1] \div num_splits
      end(i) == IF i = num_splits - 1 THEN input.shape[1] ELSE (i + 1) * each
  IN  IF num_splits = 0 \/ num_splits > input.shape[1] THEN <<Throws("range")>>
      ELSE [i \in 1 .. num_splits |->
              Moves("copy", input, Cut(input, (i - 1) * each, end(i - 1)), CutMoves(input, (i - 1) * each, end(i - 1)))]

\* Rearrangements by extents that are the caller's: rows and columns, or images, channels and the
\* size of an image.
Rearranged(kernel, input, output, extents) ==
  IF output.device # input.device THEN Throws("devices")
  ELSE IF input.dtype # output.dtype THEN Throws("dtypes")
  ELSE Moves(kernel, input, output,
             CASE kernel = "transpose_2d" -> cpu_transpose_2d(extents[1], extents[2])
               [] kernel = "nchw_to_cnhw" -> cpu_nchw_to_cnhw(extents[1], extents[2], extents[3])
               [] kernel = "cnhw_to_nchw" -> cpu_cnhw_to_nchw(extents[1], extents[2], extents[3]))

----------------------------------------------------------------------------
(* A view of a tensor: the memory from its first element on, as long as the *)
(* product of its extents.                                                  *)

span_offset(t, start) == Dot(start, Strides(t.shape))
span_throws(t, start, sizes) == span_offset(t, start) + Volume(sizes) > size(t)
span_cells(t, start, sizes) == span_offset(t, start) .. span_offset(t, start) + Volume(sizes) - 1

----------------------------------------------------------------------------
(* Saving and loading: a stream of what was written, in its units.  memory  *)
(* gives the elements of each storage.                                      *)

save(t, memory) == <<t.dtype, Len(t.shape)>> \o t.shape \o memory[t.storage]

\* An empty shape becomes one of a single 0.
MadeShape(shape) == IF shape = <<>> THEN <<0>> ELSE shape
\* What is loaded for a tensor on a device, and what is left of the stream.  Elements go to the
\* memory at once, or by way of a tensor on the host: both are the same number of them.
load(device, in) ==
  LET dims  == in[2]
      shape == SubSeq(in, 3, dims + 2)
      made  == MadeShape(shape)
      n     == Volume(made)
  IN  [tensor |-> Tensor(device, in[1], made, "new"), elements |-> SubSeq(in, dims + 3, dims + 2 + n),
       rest |-> SubSeq(in, dims + 3 + n, Len(in))]

----------------------------------------------------------------------------
(* Arithmetic operators.  A copy of a tensor shares its memory.             *)

Assigned(op, lhs, rhs, memory) ==
  [memory EXCEPT ![lhs.storage] = [i \in DOMAIN memory[lhs.storage] |-> op[memory[lhs.storage][i], memory[rhs.storage][i]]]]

\* lhs op= rhs: the reason to throw, or the memory afterwards.
assign_operator(op, lhs, rhs, memory) ==
  IF lhs.shape # rhs.shape THEN Throws("shapes")
  ELSE IF lhs.dtype # rhs.dtype THEN Throws("dtypes")
  ELSE IF lhs.device # rhs.device THEN Throws("devices")
  ELSE [memory |-> Assigned(op, lhs, rhs, memory)]

\* lhs op rhs: result is lhs, copied, then result op= rhs.
binary_operator(op, lhs, rhs, memory) == [result |-> lhs] @@ assign_operator(op, lhs, rhs, memory)

\* A clone has memory of its own.
clone(t, fresh, memory) == [result |-> [t EXCEPT !.storage = fresh], memory |-> (fresh :> memory[t.storage]) @@ memory]

----------------------------------------------------------------------------
(* What must hold of them.                                                  *)

SmallTensors ==
  {Tensor(d, t, s, "x") : d \in {"host", "gpu0", "gpu1", "other"}, t \in {"fp32", "fp16"}, s \in {<<1>>, <<2>>, <<1, 3>>}}

\* What every operation answers, by the number of its tensors.
Taking(n, tensors) == {Elementwise(f, tensors) : f \in {g \in DOMAIN ElementFunctions : ElementFunctions[g] = n}}
Several(a, b, c) ==
  Taking(3, <<a, b, c>>) \cup Taking(2, <<a, b>>) \cup {tensor_check_equals(a, b), tensor_cast(a, b), tensor_copy(a, b)}
Answers(a, b, c) == Several(a, b, c) \cup Taking(1, <<a>>)

StaysInside(answer) == \A p \in answer.touched : p[2] <= num_bytes(p[1])

\* A kernel runs where all of its tensors are; only copies join the host and a device.
KernelsRunAtHome ==
  \A a, b, c \in SmallTensors : \A r \in {q \in Answers(a, b, c) : Accepted(q)} :
    /\ \E p \in r.touched : device_type(p[1].device) = r.on
    /\ (\A p, q \in r.touched : p[1].device = q[1].device) \/ r.kernel \in {"h2d_copy", "d2h_copy"}

\* With tensors of one size and type, no operation throws on one device or leaves its tensors.
AlikeIsInside ==
  \A a, b, c \in SmallTensors :
    (a.dtype = b.dtype /\ b.dtype = c.dtype /\ size(a) = size(b) /\ size(b) = size(c)) =>
      \A r \in Answers(a, b, c) :
        IF Accepted(r) THEN StaysInside(r) ELSE \E t \in {a, b, c} : t.device # a.device \/ t.device = "other"

\* Otherwise nearly every operation does leave a smaller tensor than its first; check_equals does only
\* when the types differ, cast when the sizes do.
SizesUnchecked ==
  LET leaves(a, b, c) == {r.kernel : r \in {q \in Answers(a, b, c) : Accepted(q) /\ ~ StaysInside(q)}}
      small == Tensor("host", "fp32", <<1>>, "x")
      large == Tensor("host", "fp32", <<2>>, "x")
      half  == Tensor("host", "fp16", <<2>>, "x")
      kernels == {r.kernel : r \in Several(large, large, large)}
  IN  /\ leaves(large, small, small) = kernels \ {"check_equals"}
      /\ leaves(large, half, half) = kernels \ {"cast"}
      /\ leaves(small, large, large) = {}

ImageTensor(device, h, w) == Tensor(device, "fp32", <<2, 1, h, w>>, "x")

\* Operations on images leave neither their input nor a result of the right extents; without the
\* range checks they would.  A window that is cut as the border was added is the image.
GuardsFit ==
  \A h, w \in 1 .. 4, p, q \in 0 .. 2 :
    LET image  == ImageTensor("host", h, w)
        padded == ImageTensor("host", h + (2 * p), w + (2 * q))
        back   == tensor_unpad(padded, image, p, q)
        large  == h > 2 * p /\ w > 2 * q
        small  == ImageTensor("host", h - (2 * p), w - (2 * q))
    IN  /\ StaysInside(tensor_pad(image, padded, p, q)) /\ StaysInside(back)
        /\ Accepted(tensor_unpad(image, image, p, q)) = large
        /\ large => StaysInside(tensor_unpad(image, small, p, q))
        /\ [back EXCEPT !.kernel = "crop"] = tensor_crop(padded, image, <<p, q>>, <<p + h - 1, q + w - 1>>)
        /\ \A from, to \in (0 .. 4) \X {0, 3} :
             LET cut == tensor_crop(image, ImageTensor("host", to[1] - from[1] + 1, to[2] - from[2] + 1), from, to)
             IN  IF Accepted(cut) THEN StaysInside(cut)
                 ELSE \/ from[1] > to[1] \/ from[2] > to[2]
                      \/ Reach(CropMoves(image, from, to), 2, image) > num_bytes(image)
                      \/ to[1] >= h \/ to[2] >= w

\* Several of them take tensors of two devices of one type.
TwoDevicesTaken ==
  LET there == ImageTensor("gpu1", 3, 3)
      here  == ImageTensor("gpu0", 3, 3)
  IN  /\ \A r \in {tensor_pad(here, there, 0, 0), tensor_unpad(here, there, 0, 0), tensor_crop(here, there, <<0, 0>>, <<1, 1>>)} :
           Accepted(r)
      /\ ~ Accepted(tensor_im2col(here, there, Kernel(1, 1, 1, 1, 0, 0)))
      /\ ~ Accepted(Rearranged("transpose_2d", here, there, <<3, 3>>))

\* The column matrix goes back into the image it was made from, and both stay inside.
ColumnsStayInside ==
  \A h, k, s \in 1 .. 3, p \in 0 .. 1 :
    LET image == ImageTensor("host", h, 2)
        kern  == Kernel(k, 1, s, 1, p, 0)
        g     == Image(image) @@ kern
    IN  /\ Fits(g) <=> WrappedSize(h, p, k, s) = output_h(g)
        /\ ImageFits(g) =>
             LET cols == Tensor("host", "fp32", <<ColumnCells(g)>>, "y")
             IN  StaysInside(tensor_im2col(image, cols, kern)) /\ StaysInside(tensor_col2im(cols, image, g))

\* The parts of a batch are in the batch and as large as what is copied into them; together they are it.
PartsStayInside ==
  \A n \in 1 .. 5, inner \in 1 .. 2 :
    LET t == Tensor("host", "fp32", <<n, inner>>, "x") IN
    /\ \A start, end \in 0 .. n + 1 :
         LET r == tensor_slice_batch(t, t, start, end) IN
         IF start <= end /\ end <= n THEN Accepted(r) /\ StaysInside(r) ELSE ~ Accepted(r)
    /\ \A k \in 1 .. n : \A i \in 1 .. k : StaysInside(tensor_split(t, k)[i])
    /\ tensor_split(t, n + 1) = <<Throws("range")>>

\* A view has the elements of its box only when every dimension behind the first one with several
\* of them is taken in full; a box in the tensor is never refused.
BoxCells(t, start, sizes) ==
  {Dot(p, Strides(t.shape)) : p \in {q \in [1 .. Len(sizes) -> 0 .. 3] :
     \A i \in DOMAIN sizes : q[i] \in start[i] .. start[i] + sizes[i] - 1}}
SpansAreBoxes ==
  \A shape, start, sizes \in [1 .. 3 -> 0 .. 2] :
    LET t == Tensor("host", "fp32", shape, "x") IN
    (\A i \in 1 .. 3 : sizes[i] > 0 /\ start[i] + sizes[i] <= shape[i]) =>
      /\ ~ span_throws(t, start, sizes)
      /\ (span_cells(t, start, sizes) = BoxCells(t, start, sizes))
           <=> \A i, j \in 1 .. 3 : i < j /\ sizes[i] > 1 => sizes[j] = shape[j]

\* What is saved comes back, one tensor after the other, whatever device it is loaded to; only a
\* tensor without dimensions comes back with one.
SavedComesBack ==
  LET shapes   == {<<>>, <<0>>, <<1>>, <<2>>, <<2, 1>>, <<1, 2>>, <<2, 0>>}
      volume(s) == IF s = <<>> THEN 0 ELSE Volume(s)
  IN  \A s1, s2 \in shapes, t1, t2 \in {"fp32", "fp16"}, d \in {"host", "gpu0"} :
        LET memory == [x |-> [i \in 1 .. volume(s1) |-> 10 + i], y |-> [i \in 1 .. volume(s2) |-> 20 + i]]
            stream == save(Tensor("host", t1, s1, "x"), memory) \o save(Tensor("gpu0", t2, s2, "y"), memory)
            one    == load(d, stream)
            two    == load(d, one.rest)
        IN  /\ one.tensor = Tensor(d, t1, MadeShape(s1), "new") /\ one.elements = memory.x
            /\ two.tensor = Tensor(d, t2, MadeShape(s2), "new") /\ two.elements = memory.y
            /\ two.rest = <<>>

\* The result of an operator is right, but it is its left operand: that is overwritten.  With a clone
\* of it in its place, it is kept.
OperatorsOverwrite ==
  LET a == Tensor("host", "fp32", <<2>>, "x")
      b == Tensor("host", "fp32", <<2>>, "y")
  IN  \A memory \in [{"x", "y"} -> [1 .. 2 -> 1 .. 2]] :
        LET sum == [x, y \in 1 .. 2 |-> x + y]
            r  == binary_operator(sum, a, b, memory)
            c  == clone(a, "z", memory)
            rc == binary_operator(sum, c.result, b, c.memory)
            right(mem, t) == \A i \in 1 .. 2 : mem[t.storage][i] = memory["x"][i] + memory["y"][i]
        IN  /\ right(r.memory, r.result) /\ r.memory["x"] # memory["x"] /\ r.memory["y"] = memory["y"]
            /\ right(rc.memory, rc.result) /\ rc.memory["x"] = memory["x"] /\ rc.memory["y"] = memory["y"]

ASSUME KernelsRunAtHome
ASSUME AlikeIsInside
ASSUME SizesUnchecked
ASSUME GuardsFit
ASSUME TwoDevicesTaken
ASSUME ColumnsStayInside
ASSUME PartsStayInside
ASSUME SpansAreBoxes
ASSUME SavedComesBack
ASSUME OperatorsOverwrite
=============================================================================
