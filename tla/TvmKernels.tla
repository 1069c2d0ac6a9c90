------------------------------ MODULE TvmKernels ------------------------------
(***************************************************************************)
(* The kernels of the two microTVM models the samples run                  *)
(* (src/samples/common/tvm/src/sine.c and magic_wand.c) as index           *)
(* algorithms: for every output element, which products of an input and a  *)
(* weight its loops add up.  The loops, blocks, packed copies and paddings *)
(* are the code's, with its real sizes; the values are left out, and with  *)
(* them the fixed-point scaling, the clipping and the relu at the end.     *)
(*                                                                         *)
(* An inference runs the nodes of a graph (src/samples/common/tvm/model)   *)
(* one after the other, here one iteration of a kernel's outermost loop    *)
(* per step.  Nodes share storage as the graph says, and what an earlier   *)
(* inference left in it stays until it is overwritten.                     *)
(***************************************************************************)
EXTENDS Integers, Sequences

CONSTANT Models   \* the models to run, of "quantized", "sine2" and "magic_wand"

ASSUME ModelAssumption == Models \subseteq {"quantized", "sine2", "magic_wand"}

NoIndex == -1

\* A product of input x and weight w, and the addition of bias b
Mul(x, w) == <<x, w>>
Bias(b)   == <<NoIndex, b>>
Copy(x)   == <<x, NoIndex>>

----------------------------------------------------------------------------
(* Dense layers: k inputs, n outputs in blocks of bn; the packed weights of the largest *)
(* one lie on the heap *)

\* What the packing loop leaves in place i = z * (bn * k) + y * bn + x of packed_weight
PackSource(k, bn, i) ==
  LET z == i \div (bn * k)
      y == (i % (bn * k)) \div bn
      x == i % bn
  IN z * (bn * k) + x * k + y

\* Block b: compute_global[x] collects its products, then the bias is added
DenseBlock(k, bn, b) ==
  [o \in (b * bn)..(b * bn + bn - 1) |->
     LET x == o - b * bn IN
     {Mul(y, PackSource(k, bn, b * (bn * k) + y * bn + x)) : y \in 0..(k - 1)} \union {Bias(o)}]

Dense(k, n, bn, heap) ==
  [heap |-> heap,
   in   |-> 0..(k - 1), out |-> 0..(n - 1), weights |-> 0..(k * n - 1), biases |-> 0..(n - 1),
   rows |-> [b \in 1..(n \div bn) |-> DenseBlock(k, bn, b - 1)],
   sum  |-> [o \in 0..(n - 1) |-> {Mul(y, o * k + y) : y \in 0..(k - 1)} \union {Bias(o)}]]

fused_nn_dense_add_fixed_point_multiply_add_clip_cast   == Dense(1, 16, 8, FALSE)
fused_nn_dense_add_fixed_point_multiply_add_clip_cast_1 == Dense(16, 16, 8, FALSE)
fused_nn_dense_add_fixed_point_multiply_add_clip_cast_2 == Dense(16, 1, 1, FALSE)
fused_nn_dense_add         == Dense(16, 4, 4, FALSE)
fused_nn_dense_add_nn_relu == Dense(224, 16, 8, TRUE)

----------------------------------------------------------------------------
(* Convolutions over h rows of w columns and ic channels, to oc channels, with kernels of *)
(* kh rows and kw columns; one row of padding above, and pw columns on the left *)

InImageTooFar(c, i, j) == 1 <= i /\ i <= c.h + 1 /\ c.pw <= j /\ j < c.w + c.pw  \* mutant
\* The test for padding
InImage(c, i, j) == 1 <= i /\ i < c.h + 1 /\ c.pw <= j /\ j < c.w + c.pw

\* Where the code reads element (i, j, ch) of PadInput for a row and a column of the output
PadSource(c, row, col, i, j, ch) ==
  i * (c.w * c.ic) + row * (c.w * c.ic) + (j + col) * c.ic + ch - (c.w + c.pw) * c.ic

\* One row of the output: conv[oci] collects kernel row i, kernel column j, channel ch.
\* Where PadInput is 0 the product adds nothing.
ConvRow(c, row) ==
  [o \in (row * (c.w * c.oc))..((row + 1) * (c.w * c.oc) - 1) |->
     LET col == (o % (c.w * c.oc)) \div c.oc
         oci == o % c.oc
         pad == {p \in (0..(c.kh - 1)) \X (0..(c.kw - 1)) : InImage(c, p[1] + row, p[2] + col)}
     IN {Mul(PadSource(c, row, col, t[1][1], t[1][2], t[2]),
             t[1][1] * (c.kw * c.ic * c.oc) + t[1][2] * (c.ic * c.oc) + t[2] * c.oc + oci)
           : t \in pad \X (0..(c.ic - 1))} \union {Bias(oci)}]

\* The convolution as it is defined: coordinates first
ConvSum(c, o) ==
  LET y == o \div (c.w * c.oc)
      x == (o \div c.oc) % c.w
      oci == o % c.oc
  IN {Mul(((y + t[1] - 1) * c.w + (x + t[2] - c.pw)) * c.ic + t[3],
          ((t[1] * c.kw + t[2]) * c.ic + t[3]) * c.oc + oci)
        : t \in {k \in (0..(c.kh - 1)) \X (0..(c.kw - 1)) \X (0..(c.ic - 1)) :
                   (y + k[1] - 1) \in 0..(c.h - 1) /\ (x + k[2] - c.pw) \in 0..(c.w - 1)}}
     \union {Bias(oci)}

Conv(c) ==
  [heap |-> FALSE,
   in   |-> 0..(c.h * c.w * c.ic - 1), out |-> 0..(c.h * c.w * c.oc - 1),
   weights |-> 0..(c.kh * c.kw * c.ic * c.oc - 1), biases |-> 0..(c.oc - 1),
   rows |-> [r \in 1..c.h |-> ConvRow(c, r - 1)],
   sum  |-> [o \in 0..(c.h * c.w * c.oc - 1) |-> ConvSum(c, o)]]

fused_nn_conv2d_add_nn_relu ==
  Conv([h |-> 128, w |-> 3, ic |-> 1, oc |-> 8, kh |-> 4, kw |-> 3, pw |-> 1])
fused_nn_conv2d_add_nn_relu_1 ==
  Conv([h |-> 42, w |-> 1, ic |-> 8, oc |-> 16, kh |-> 4, kw |-> 1, pw |-> 0])

----------------------------------------------------------------------------
(* Max-pooling windows of kh rows and kw columns that do not overlap; a row has kw columns *)

PoolRow(kh, kw, ch, row) ==
  [o \in (row * ch)..(row * ch + ch - 1) |->
     {Copy(row * (kh * kw * ch) + rv[1] * (kw * ch) + rv[2] * ch + (o - row * ch))
        : rv \in (0..(kh - 1)) \X (0..(kw - 1))}]

PoolSum(kh, kw, ch, o) ==
  {Copy((y * kw + x) * ch + (o % ch))
     : y \in ((o \div ch) * kh)..((o \div ch) * kh + kh - 1), x \in 0..(kw - 1)}

\* Rows of the input that fill no window (the last two of 128) are not read.
Pool(rows, kh, kw, ch, h) ==
  [heap |-> FALSE,
   in   |-> 0..(h * kw * ch - 1), out |-> 0..(rows * ch - 1), weights |-> {}, biases |-> {},
   rows |-> [r \in 1..rows |-> PoolRow(kh, kw, ch, r - 1)],
   sum  |-> [o \in 0..(rows * ch - 1) |-> PoolSum(kh, kw, ch, o)]]

fused_nn_max_pool2d   == Pool(42, 3, 3, 8, 128)
fused_nn_max_pool2d_1 == Pool(14, 3, 1, 16, 42)

----------------------------------------------------------------------------
(* Element by element, n in each of the rows; and softmax, where every output needs all *)

Elementwise(rows, n) ==
  [heap |-> FALSE,
   in   |-> 0..(rows * n - 1), out |-> 0..(rows * n - 1), weights |-> {}, biases |-> {},
   rows |-> [r \in 1..rows |->
               [o \in ((r - 1) * n)..(r * n - 1) |-> {Copy((r - 1) * n + (o % n))}]],
   sum  |-> [o \in 0..(rows * n - 1) |-> {Copy(o)}]]

fused_reshape_cast_subtract   == Elementwise(1, 1)
fused_reshape_cast_subtract_1 == Elementwise(1, 16)

fused_nn_softmax ==
  LET All == {Copy(i) : i \in 0..3} IN
  [heap |-> FALSE, in |-> 0..3, out |-> 0..3, weights |-> {}, biases |-> {},
   rows |-> << [o \in 0..3 |-> All] >>, sum |-> [o \in 0..3 |-> All]]

\* The kernels of the second sine model
sine2_fused_nn_dense_add_fixed_point_multiply_add_clip_cast   == Dense(1, 16, 8, FALSE)
sine2_fused_nn_dense_add_fixed_point_multiply_add_clip_cast_1 == Dense(16, 16, 8, FALSE)
sine2_fused_nn_dense_add_fixed_point_multiply_add_clip_cast_2 == Dense(16, 1, 1, FALSE)
sine2_fused_reshape_cast_subtract   == Elementwise(1, 1)
sine2_fused_reshape_cast_subtract_1 == Elementwise(1, 16)

----------------------------------------------------------------------------
(* The graphs *)

\* A node that calls a kernel: what it reads is the output of its first input, with the
\* weights and the bias of the next two.  The other nodes are the model's input, 0, and its
\* parameters.
Op(id, kernel, inputs) == [id |-> id, kernel |-> kernel, inputs |-> inputs]

\* A node with func_name __nop calls nothing: it is its input in another shape.
nop == [heap |-> FALSE, in |-> {}, out |-> {}, weights |-> {}, biases |-> {},
        rows |-> << >>, sum |-> << >>]

Graph ==
  [quantized |->
     << Op(2, fused_reshape_cast_subtract, <<0, 1>>),
        Op(6, fused_nn_dense_add_fixed_point_multiply_add_clip_cast, <<2, 3, 4, 5>>),
        Op(7, fused_reshape_cast_subtract_1, <<6, 1>>),
        Op(10, fused_nn_dense_add_fixed_point_multiply_add_clip_cast_1, <<7, 8, 9, 5>>),
        Op(11, fused_reshape_cast_subtract_1, <<10, 1>>),
        Op(14, fused_nn_dense_add_fixed_point_multiply_add_clip_cast_2, <<11, 12, 13>>) >>,
   sine2 |->
     << Op(2, sine2_fused_reshape_cast_subtract, <<0, 1>>),
        Op(6, sine2_fused_nn_dense_add_fixed_point_multiply_add_clip_cast, <<2, 3, 4, 5>>),
        Op(7, sine2_fused_reshape_cast_subtract_1, <<6, 1>>),
        Op(10, sine2_fused_nn_dense_add_fixed_point_multiply_add_clip_cast_1, <<7, 8, 9, 5>>),
        Op(11, sine2_fused_reshape_cast_subtract_1, <<10, 1>>),
        Op(14, sine2_fused_nn_dense_add_fixed_point_multiply_add_clip_cast_2, <<11, 12, 13>>) >>,
   magic_wand |->
     << Op(3, fused_nn_conv2d_add_nn_relu, <<0, 1, 2>>),
        Op(4, fused_nn_max_pool2d, <<3>>),
        Op(7, fused_nn_conv2d_add_nn_relu_1, <<4, 5, 6>>),
        Op(8, fused_nn_max_pool2d_1, <<7>>),
        Op(9, nop, <<8>>),
        Op(12, fused_nn_dense_add_nn_relu, <<9, 10, 11>>),
        Op(15, fused_nn_dense_add, <<12, 13, 14>>),
        Op(16, fused_nn_softmax, <<15>>) >>]

\* The storage a node's output lies in, and how many elements its shape has
StorageId ==
  [quantized  |-> <<0, 1, 2, 3, 4, 5, 6, 2, 7, 8, 6, 2, 9, 10, 6>>,
   sine2      |-> <<0, 1, 2, 3, 4, 5, 6, 2, 7, 8, 6, 2, 9, 10, 6>>,
   magic_wand |-> <<0, 1, 2, 3, 4, 5, 6, 3, 4, 4, 7, 8, 9, 10, 11, 12, 9>>]

Shape ==
  [quantized  |-> <<1, 1, 1, 16, 16, 1, 16, 16, 256, 16, 16, 16, 16, 1, 1>>,
   sine2      |-> <<1, 1, 1, 16, 16, 1, 16, 16, 256, 16, 16, 16, 16, 1, 1>>,
   magic_wand |-> <<384, 96, 8, 3072, 336, 512, 16, 672, 224, 224, 3584, 16, 16, 64, 4, 4, 4>>]

Ids(m)           == 0..(Len(StorageId[m]) - 1)
StorageOf(m, id) == StorageId[m][id + 1]
Entry(m, id)     == 0..(Shape[m][id + 1] - 1)

\* The storages that the kernels write, each with room for the largest output that lies in it;
\* the parameters lie in others, and are left out with their values.
Written(m) == {StorageOf(m, Graph[m][n].id) : n \in DOMAIN Graph[m]}
Room(m, s) == UNION {Entry(m, id) : id \in {j \in Ids(m) : StorageOf(m, j) = s}}

----------------------------------------------------------------------------
(* Inferences *)

VARIABLES
  model,      \* the model that runs
  node, row,  \* the place in its graph, and the iterations of the kernel's outermost loop done
  storage,    \* which node wrote an element last, or Stale if an earlier inference did
  made,       \* elements of the kernel's output written so far
  twice,      \* some output was written by two iterations
  got,        \* what the last iteration added up, by output
  workspace,  \* the kernel holds its workspace
  failed      \* a kernel of this inference has returned -1

kernelVars == <<model, node, row, storage, made, twice, got, workspace, failed>>

Stale == -1

Inferring == node <= Len(Graph[model])
Node    == Graph[model][node]
Kernel  == Node.kernel
Done    == row = Len(Kernel.rows)

\* The element of a node's output is in its storage, written in this inference.
Holds(id, i) == i \in Entry(model, id) /\ storage[StorageOf(model, id)][i] = id

\* The element of a parameter is where it was loaded: nothing is written to its storage.
Loaded(id, i) == i \in Entry(model, id) /\ StorageOf(model, id) \notin DOMAIN storage

\* The model is loaded with its parameters and the first input.
KernelInit ==
  /\ model \in Models
  /\ node = 1 /\ row = 0
  /\ storage = [s \in {StorageOf(model, 0)} \union Written(model) |->
                  [i \in Room(model, s) |-> IF s = StorageOf(model, 0) THEN 0 ELSE Stale]]
  /\ made = {} /\ twice = FALSE /\ got = <<>>
  /\ workspace = FALSE /\ failed = FALSE

\* TVMBackendAllocWorkspace returns memory of the heap ...
TakeWorkspace ==
  /\ Inferring /\ row = 0 /\ Kernel.heap /\ ~workspace
  /\ workspace' = TRUE
  /\ UNCHANGED <<model, node, row, storage, made, twice, got, failed>>

\* The executor goes on to the next node.
Advance ==
  /\ node' = node + 1
  /\ row' = 0 /\ made' = {} /\ got' = <<>>
  /\ UNCHANGED <<model, twice>>

\* ... or NULL, and the kernel returns -1, which TVMGraphExecutor_Run does not look at.
NoWorkspace ==
  /\ Inferring /\ row = 0 /\ Kernel.heap /\ ~workspace
  /\ failed' = TRUE
  /\ Advance /\ UNCHANGED <<storage, workspace>>

\* The next iteration of the kernel's outermost loop
Iterate ==
  /\ Inferring /\ row < Len(Kernel.rows) /\ (Kernel.heap => workspace)
  /\ row' = row + 1
  /\ got' = Kernel.rows[row + 1]
  /\ made' = made \union DOMAIN got'
  /\ twice' = (twice \/ made \intersect DOMAIN got' # {})
  /\ storage' = [storage EXCEPT ![StorageOf(model, Node.id)] =
                   [i \in DOMAIN @ |-> IF i \in DOMAIN got' THEN Node.id ELSE @[i]]]
  /\ UNCHANGED <<model, node, workspace, failed>>

\* The kernel frees its workspace and returns 0.
Return ==
  /\ Inferring /\ Kernel.rows # << >> /\ Done
  /\ workspace' = FALSE
  /\ Advance /\ UNCHANGED <<storage, failed>>

\* The executor has made no call for __nop: what the storage holds of its input now counts as
\* its output.
Skip ==
  /\ Inferring /\ Kernel.rows = << >>
  /\ storage' = [storage EXCEPT ![StorageOf(model, Node.id)] =
                   [i \in DOMAIN @ |-> IF @[i] = Node.inputs[1] THEN Node.id ELSE @[i]]]
  /\ Advance /\ UNCHANGED <<workspace, failed>>

\* model_load_input copies the next input, and model_run starts over.  What the kernels of the
\* inference before have written stays where it is, be it whole or not.
LoadInputAndRun ==
  /\ ~Inferring
  /\ node' = 1 /\ failed' = FALSE
  /\ storage' = [s \in DOMAIN storage |->
                   [i \in DOMAIN storage[s] |-> IF s = StorageOf(model, 0) THEN 0 ELSE Stale]]
  /\ UNCHANGED <<model, row, made, twice, got, workspace>>

KernelNext == TakeWorkspace \/ NoWorkspace \/ Iterate \/ Return \/ Skip \/ LoadInputAndRun

----------------------------------------------------------------------------

KernelTypeOK ==
  /\ model \in Models /\ node \in 1..(Len(Graph[model]) + 1)
  /\ Inferring => /\ row \in 0..Len(Kernel.rows) /\ (workspace => Kernel.heap)
                  /\ made \subseteq Entry(model, Node.id)
                  /\ Entry(model, Node.id) \subseteq DOMAIN storage[StorageOf(model, Node.id)]
  /\ ~Inferring => row = 0 /\ ~workspace
  /\ twice \in BOOLEAN /\ workspace \in BOOLEAN /\ failed \in BOOLEAN

\* Blocks, packed copies and paddings change the order in which a layer is computed, not
\* the layer: every output is the sum, or the maximum, its definition asks for, and a kernel
\* that returns has written each of its outputs once.  Unless a kernel of this inference has
\* failed, none reads beside its weights, its bias or its input, nor what another node or an
\* earlier inference has left in the storage they share; and what is read as the output is all
\* of this inference.  At the edges of the image that hangs on the test for padding, and after
\* an inference in which a kernel failed on every element being written again (sine.c:67-98,
\* magic_wand.c:133-177, 345-381, magic-wand-graph.json:94-105, 200-203).
KernelsComputeTheLayer ==
  /\ \A o \in DOMAIN got : got[o] = Kernel.sum[o]
  /\ (Inferring /\ Done) => made = Kernel.out
  /\ ~twice
  /\ ~failed => \A o \in DOMAIN got : \A t \in got[o] :
       /\ t[1] # NoIndex => Holds(Node.inputs[1], t[1])
       /\ (t[1] # NoIndex /\ t[2] # NoIndex) => Loaded(Node.inputs[2], t[2])
       /\ t[1] = NoIndex => Loaded(Node.inputs[3], t[2])
  /\ (~failed /\ ~Inferring) =>
       LET head == Graph[model][Len(Graph[model])].id
       IN \A i \in Entry(model, head) : Holds(head, i)
=============================================================================
