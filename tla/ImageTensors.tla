----------------------------- MODULE ImageTensors -----------------------------
(***************************************************************************)
(* Frames, tensors, the preprocess nodes and the batch concatenation: the  *)
(* sizes and offsets they compute, in size_t arithmetic that wraps at      *)
(* SizeMax, and the bytes they reach.  A result that may fail is a set     *)
(* with one element, or none; the only variable is the input chosen.       *)
(*                                                                         *)
(* A buffer is its capacity; shapes and strides are sequences; a frame is  *)
(* [offset, width, height, stride, format, capacity], and a tensor         *)
(* [offset, bytes, type, shape, strides, layout, capacity].                *)
(***************************************************************************)
EXTENDS Integers, Sequences, FiniteSets, SequencesExt

CONSTANTS SizeMax,    \* largest size_t
          UIntMax,    \* largest uint32_t
          IntMax,     \* largest int
          VectorMax,  \* most elements that a vector can have, or memory holds
          Samples     \* the inputs to choose from

ASSUME SizeMaxAssumption == SizeMax \in Nat \ {0}
ASSUME LimitsAssumption ==
    /\ UIntMax \in Nat /\ IntMax \in 0 .. UIntMax
    /\ VectorMax \in Nat \ {0} /\ VectorMax + 2 <= SizeMax

VARIABLE sample

SampleInit == sample \in Samples

SampleSpec == SampleInit /\ [][UNCHANGED sample]_sample

Wrap(n) == n % (SizeMax + 1)
Narrow(n) == n % (UIntMax + 1)  \* to uint32_t

Only(condition, value) == IF condition THEN {value} ELSE {}

-----------------------------------------------------------------------------
(* Buffer pools.  One that does not fit, even as a vector, is refused. *)

CreatePool(count, capacity) == count \in 1 .. VectorMax /\ capacity > 0

-----------------------------------------------------------------------------
(* Tensor shapes and layouts *)

DataTypeSize == [UInt8 |-> 1, UInt16 |-> 2, Float32 |-> 4]

IsConcrete(shape) == \A i \in DOMAIN shape : shape[i] > 0

(* 0 when a dimension is not positive or the product does not fit.         *)
ElementCount(shape) ==
    FoldLeft(LAMBDA count, d : IF count = 0 \/ d <= 0 \/ count > SizeMax \div d THEN 0 ELSE count * d,
             1, shape)

ContiguousByteStrides(shape, type) ==
    LET size == DataTypeSize[type]
        Inner(i) == ElementCount(SubSeq(shape, i + 1, Len(shape)))
    IN  IF ElementCount(shape) \in 1 .. SizeMax \div size
        THEN [i \in DOMAIN shape |-> size * Inner(i)] ELSE << >>

(* The bytes from the first to the last element, the strides checked one   *)
(* after the other.                                                        *)
RequiredBytes(size, shape, strides) ==
    FoldLeft(LAMBDA total, i :
                UNION {LET extent == shape[i] - 1
                       IN  Only(extent = 0 \/ strides[i] <= (SizeMax - sum) \div extent,
                                Wrap(sum + extent * strides[i])) : sum \in total},
             {size}, [i \in DOMAIN shape |-> i])

ValidateMetadata(type, shape, given) ==
    LET size == DataTypeSize[type]
        count == ElementCount(shape)
        strides == IF given = << >> THEN ContiguousByteStrides(shape, type) ELSE given
    IN  IF IsConcrete(shape) /\ count > 0 /\ count <= SizeMax \div size /\ Len(strides) = Len(shape)
        THEN {[bytes |-> bytes, strides |-> strides] : bytes \in RequiredBytes(size, shape, strides)}
        ELSE {}

CreateTensor(capacity, offset, type, shape, layout, strides) ==
    {[offset |-> offset, bytes |-> m.bytes, type |-> type, shape |-> shape, strides |-> m.strides,
      layout |-> layout, capacity |-> capacity] :
        m \in {m \in ValidateMetadata(type, shape, strides) :
                  offset <= capacity /\ m.bytes <= capacity - offset}}

Subview(tensor, relative, shape) ==
    IF relative > tensor.bytes THEN {}
    ELSE {t \in CreateTensor(tensor.capacity, Wrap(tensor.offset + relative), tensor.type, shape, "Any", << >>) :
             t.bytes <= tensor.bytes - relative}

IsContiguous(tensor) == tensor.strides = ContiguousByteStrides(tensor.shape, tensor.type)

-----------------------------------------------------------------------------
(* concatBatchTensors() and splitBatchOutputs(); a map of tensors is a     *)
(* function of their names, and `data` gives the bytes that one has.       *)

Concat(inputs) ==
    LET first == inputs[1]
        Batch(name) ==
            LET t == first[name].tensor
                members == [i \in DOMAIN inputs |-> inputs[i][name].data]
            IN  {[tensor |-> b, data |-> FlattenSeq(members)] :
                    b \in CreateTensor(Wrap(t.bytes * Len(inputs)), 0, t.type,
                                       [t.shape EXCEPT ![1] = Len(inputs)], t.layout, << >>)}
        Fits(name) == /\ first[name].tensor.shape # << >> /\ first[name].tensor.shape[1] = 1
                      /\ \A i \in DOMAIN inputs :
                            name \in DOMAIN inputs[i] /\ inputs[i][name].tensor.bytes = first[name].tensor.bytes
                      /\ Batch(name) # {}
    IN  Only(inputs # << >> /\ \A name \in DOMAIN first : Fits(name),
             [name \in DOMAIN first |-> CHOOSE b \in Batch(name) : TRUE])

(* The i-th sample's tensor of a batch. *)
View(b, size, i) ==
    Subview(b.tensor, Wrap((i - 1) * (b.tensor.bytes \div size)), [b.tensor.shape EXCEPT ![1] = 1])

Split(outputs, size) ==
    LET Sliced(b) == b.tensor.shape # << >> /\ b.tensor.shape[1] = size /\ b.tensor.bytes % size = 0
        Sample(b, t) == [tensor |-> t, data |-> SubSeq(b.data, t.offset + 1, t.offset + t.bytes)]
    IN  Only(\A n \in DOMAIN outputs : Sliced(outputs[n]) /\ \A i \in 1 .. size : View(outputs[n], size, i) # {},
             [i \in 1 .. size |-> [n \in DOMAIN outputs |->
                 Sample(outputs[n], CHOOSE t \in View(outputs[n], size, i) : TRUE)]])

-----------------------------------------------------------------------------
(* Frames *)

PixelFormatSize == [Gray8 |-> 1, Gray16 |-> 2, Bgr8 |-> 3, Rgb8 |-> 3, Bgra8 |-> 4, Rgba8 |-> 4]

CreateFrame(capacity, width, height, format, given, offset) ==
    LET pixel == PixelFormatSize[format]
        row == Wrap(width * pixel)
        stride == IF given = 0 THEN row ELSE given
        bytes == Wrap((height - 1) * stride + row)
    IN  IF width = 0 \/ height = 0 \/ width > SizeMax \div pixel \/ stride < row THEN {}
        ELSE Only(/\ height - 1 <= (SizeMax - row) \div stride
                  /\ offset <= capacity /\ bytes <= capacity - offset,
                  [offset |-> offset, bytes |-> bytes, width |-> width, height |-> height,
                   stride |-> stride, format |-> format, capacity |-> capacity])

(* BusinessFramePool::create(): the capacity of its buffers. *)
BusinessPool(count, width, height, format, given) ==
    LET row == Wrap(width * PixelFormatSize[format])
        stride == IF given = 0 THEN row ELSE given
    IN  IF width = 0 \/ height = 0 \/ width > SizeMax \div PixelFormatSize[format] \/ stride < row THEN {}
        ELSE Only(height <= SizeMax \div stride /\ CreatePool(count, height * stride), Wrap(height * stride))

-----------------------------------------------------------------------------
(* Preprocess nodes.  build() turns a context [size, tensor], each a set   *)
(* with what is known, into the next one.                                  *)

Build(node, context) ==
    CASE node.kind = "resize" ->
            Only(node.short > 0 /\ node.long >= node.short /\ node.buffers > 0, [context EXCEPT !.size = {}])
      [] node.kind = "crop" ->
            Only(node.width > 0 /\ node.height > 0,
                 [context EXCEPT !.size = {[width |-> Narrow(node.width), height |-> Narrow(node.height)]}])
      [] node.kind = "tensor" ->
            UNION {Only(/\ node.name # "" /\ node.channels \in {1, 3}
                        /\ s.width > 0 /\ s.height > 0 /\ s.width <= SizeMax \div s.height
                        /\ s.width * s.height <= SizeMax \div (node.channels * DataTypeSize["Float32"])
                        /\ CreatePool(node.buffers, s.width * s.height * node.channels * DataTypeSize["Float32"]),
                        [context EXCEPT !.tensor = {node.name}]) : s \in context.size}
      [] node.kind = "normalize" ->
            Only(context.tensor # {} /\ node.finite /\ node.means > 0 /\ node.means = node.deviations, context)

BuildChain(nodes) ==
    FoldLeft(LAMBDA contexts, node : UNION {Build(node, c) : c \in contexts},
             {[size |-> {}, tensor |-> {}]}, nodes)

CvFormats == {"Gray8", "Bgr8", "Bgra8"}

Resize(node, frame) ==
    LET short == IF frame.width <= frame.height THEN frame.width ELSE frame.height
        Side(n) == IF n = short THEN node.short ELSE Wrap(node.short * n) \div short
        width == Side(frame.width)
        height == Side(frame.height)
        row == Wrap(width * PixelFormatSize[frame.format])
        bytes == Wrap(height * row)
    IN  IF /\ frame.format \in CvFormats
           /\ width <= node.long /\ height <= node.long /\ width <= IntMax /\ height <= IntMax
           /\ height <= SizeMax \div row /\ CreatePool(node.buffers, bytes)
        THEN CreateFrame(bytes, width, height, frame.format, row, 0) ELSE {}

RoundHalfToEven(n) == LET lower == n \div 2 IN IF n % 2 = 1 /\ lower % 2 = 1 THEN lower + 1 ELSE lower

Left(frame, size) == RoundHalfToEven(frame.width - size.width)
Top(frame, size) == RoundHalfToEven(frame.height - size.height)

CenterCrop_Mutant(size, frame) ==
    IF size.width > frame.width \/ size.height > frame.height \/ frame.format \notin CvFormats THEN {}
    ELSE CreateFrame(frame.capacity, size.width, size.height, frame.format, frame.stride,
                     Wrap(Top(frame, size) * frame.stride + Left(frame, size) * PixelFormatSize[frame.format]))

CenterCrop(size, frame) ==
    IF size.width > frame.width \/ size.height > frame.height \/ frame.format \notin CvFormats THEN {}
    ELSE CreateFrame(frame.capacity, size.width, size.height, frame.format, frame.stride,
                     Wrap(frame.offset + Top(frame, size) * frame.stride
                            + Left(frame, size) * PixelFormatSize[frame.format]))

(* The tensor of a frame of the size that was built for, and the byte of   *)
(* the buffer from which each of its elements is read.                     *)
ToTensor(node, size, frame) ==
    IF /\ frame.width = size.width /\ frame.height = size.height
       /\ frame.format \in CvFormats /\ (node.channels = 1 => frame.format = "Gray8")
    THEN CreateTensor(size.width * size.height * node.channels * 4, 0, "Float32",
                      <<1, node.channels, size.height, size.width>>, "Nchw", << >>)
    ELSE {}

ReadFrom(frame, c, x, y) ==
    LET row == frame.offset + y * frame.stride
    IN  IF frame.format = "Gray8" THEN row + x ELSE row + x * PixelFormatSize[frame.format] + 2 - c

NormalizeAccepts(node, tensor) ==
    /\ tensor.type = "Float32" /\ tensor.layout = "Nchw" /\ Len(tensor.shape) = 4
    /\ tensor.shape[1] = 1 /\ tensor.shape[2] = node.means /\ IsContiguous(tensor)

(* One node of a chain that was built; `size` is what its build() saw.     *)
Process(node, size, state) ==
    CASE node.kind = "resize" -> {[state EXCEPT !.frame = f] : f \in Resize(node, state.frame)}
      [] node.kind = "crop" -> {[state EXCEPT !.frame = f] : f \in CenterCrop(node, state.frame)}
      [] node.kind = "tensor" ->
            {[state EXCEPT !.tensor = t] : t \in UNION {ToTensor(node, s, state.frame) : s \in size}}
      [] node.kind = "normalize" -> Only(NormalizeAccepts(node, state.tensor), state)

Run(nodes, frame) ==
    FoldLeft(LAMBDA states, i :
                UNION {Process(nodes[i], UNION {c.size : c \in BuildChain(SubSeq(nodes, 1, i - 1))}, s) : s \in states},
             {[frame |-> frame, tensor |-> << >>]}, [i \in DOMAIN nodes |-> i])

-----------------------------------------------------------------------------
(* The inputs: every header of a frame with its buffer, a chain as the     *)
(* loaders make it with a frame that Frame::create() made, and members of  *)
(* a batch, whose leading dimension is one.                                *)

Sizes == 0 .. SizeMax
Formats == DOMAIN PixelFormatSize
DataTypes == DOMAIN DataTypeSize

FrameInputs ==
    [kind : {"frame"}, width : Sizes, height : Sizes, format : Formats, stride : Sizes, offset : Sizes, capacity : Sizes]

FrameRecords ==
    [offset : Nat, bytes : Nat, width : Nat \ {0}, height : Nat \ {0}, stride : Nat, format : Formats, capacity : Nat]

FramesMade ==
    {f \in FrameRecords : /\ f.capacity \in Sizes
                          /\ f \in CreateFrame(f.capacity, f.width, f.height, f.format, f.stride, f.offset)}

ResizeNodes == [kind : {"resize"}, short : Nat, long : Nat, buffers : Nat]
CropNodes == [kind : {"crop"}, width : Nat, height : Nat]
TensorNodes == [kind : {"tensor"}, name : STRING, buffers : Nat, channels : Nat]
NormalizeNodes == [kind : {"normalize"}, means : Nat, deviations : Nat, finite : BOOLEAN]

ChainInputs ==
    [kind : {"chain"}, frame : FramesMade, nodes : ResizeNodes \X CropNodes \X TensorNodes \X NormalizeNodes]

BatchInputs ==
    [kind : {"batch"}, size : Nat \ {0}, names : SUBSET STRING, bytes : Nat, type : DataTypes,
     shape : {s \in Seq(Int) : s # << >> /\ s[1] = 1}]

Inputs == FrameInputs \cup ChainInputs \cup BatchInputs

-----------------------------------------------------------------------------

(* A frame's view ends in its buffer, and the last pixel at its end. *)
Within(f) ==
    /\ f.offset + f.bytes <= f.capacity
    /\ (f.height - 1) * f.stride + f.width * PixelFormatSize[f.format] = f.bytes

(* A crop is the middle of its frame, and is never refused when it fits;   *)
(* every byte that ToTensor reads is one of its view's, and the frame's at *)
(* the place from which the crop was taken.                                *)
CropSound(f, size, channels) ==
    /\ \E c \in CenterCrop(size, f) :
          Within(c) /\ c.offset + c.bytes <= f.offset + f.bytes
    /\ \A c \in CenterCrop(size, f), k \in 0 .. channels - 1, x \in 0 .. size.width - 1, y \in 0 .. size.height - 1 :
          ToTensor([channels |-> channels], size, c) # {} =>
              /\ ReadFrom(c, k, x, y) \in c.offset .. c.offset + c.bytes - 1
              /\ ReadFrom(c, k, x, y) = ReadFrom(f, k, x + Left(f, size), y + Top(f, size))
    /\ Left(f, size) + size.width <= f.width
    /\ 2 * Left(f, size) + size.width - f.width \in -1 .. 1

(* A buffer of a business pool holds the frames that the pool is for.      *)
FrameSound(o) ==
    /\ \A capacity \in BusinessPool(1, o.width, o.height, o.format, o.stride) :
          CreateFrame(capacity, o.width, o.height, o.format, o.stride, 0) # {}
    /\ \A f \in CreateFrame(o.capacity, o.width, o.height, o.format, o.stride, o.offset) :
          /\ Within(f)
          /\ o.format \in CvFormats =>
                \A w \in 1 .. o.width, h \in 1 .. o.height, channels \in {1, 3} :
                    CropSound(f, [width |-> w, height |-> h], channels)

(* The chain of the assembler, once built, yields a normalized tensor for  *)
(* every frame that is large enough and has the channels it was built for, *)
(* although the tensor's size is the crop's narrowed to 32 bits.  What     *)
(* cv::Mat makes of a frame whose side is no int is left to OpenCV.        *)
ChainSound(o) ==
    BuildChain(o.nodes) # {} =>
        LET scaled == Resize(o.nodes[1], o.frame)
            fits == \E f \in scaled : f.width >= o.nodes[2].width /\ f.height >= o.nodes[2].height
            gray == o.nodes[3].channels = 1 => o.frame.format = "Gray8"
            plain == o.frame.width <= IntMax /\ o.frame.height <= IntMax
        IN  /\ \A f \in scaled : Within(f)
            /\ plain /\ fits /\ gray /\ o.nodes[4].means = o.nodes[3].channels => Run(o.nodes, o.frame) # {}

(* Members of a batch that are alike, and small enough to be in memory     *)
(* together, are concatenated, and the i-th slice of the batch has the     *)
(* bytes of the i-th member and its shape.                                 *)
BatchSound(o) ==
    \A t \in CreateTensor(o.bytes, 0, o.type, o.shape, "Nchw", << >>) :
        LET members == [i \in 1 .. o.size |-> [n \in o.names |->
                          [tensor |-> t, data |-> [k \in 1 .. t.bytes |-> <<i, n, k>>]]]]
        IN  t.bytes * o.size <= SizeMax =>
                \E batch \in Concat(members) : \E samples \in Split(batch, o.size) :
                    \A i \in 1 .. o.size, n \in o.names :
                        /\ samples[i][n].data = members[i][n].data
                        /\ samples[i][n].tensor.shape = o.shape

(* No byte goes astray on the way from a frame to a member of a batch, and *)
(* no size that wraps or is narrowed is taken for another one.             *)
NoByteAstray ==
    CASE sample.kind = "frame" -> FrameSound(sample)
      [] sample.kind = "chain" -> ChainSound(sample)
      [] sample.kind = "batch" -> BatchSound(sample)
      [] OTHER -> TRUE

=============================================================================
