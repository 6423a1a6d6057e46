----------------------------- MODULE ServiceParts -----------------------------
(***************************************************************************)
(* Model checking of the parts around the executors, side by side: `part`  *)
(* names the one that runs in a behaviour.  Every part is a component's    *)
(* module with small constants and the component's own initial states,     *)
(* next-state relation and fairness, and stays in one of its initial       *)
(* states when it is off.                                                  *)
(***************************************************************************)
EXTENDS EndpointRegistry, FramePipeline, VisionService, FrameExecutor, Assembly

VARIABLE part

vars == <<part, frameVars, ServiceVars, registryVars, pipelineVars, sample>>

FrameOff == FrameInit /\ run.options.files.recursive /\ run.options.count \cup run.options.duration = {}
PipelineOff == PipelineInit /\ pool.policy = "Drop" /\ timing.mode = "run" /\ timing.camera = "AfterPostprocess"
(* A sample that is refused at once. *)
AnySample == CHOOSE s \in Samples : s.kind = "frame" /\ s.stride = 5 /\ s.width = 4 /\ s.format = "Bgra8"
SampleOff == sample = AnySample

-----------------------------------------------------------------------------
(* FrameExecutor over a directory: three images, two written at the same   *)
(* time, one not readable, one in a subdirectory; a file of another kind.  *)

Extension(name, dot, upper) == [name |-> name, dot |-> dot, upper |-> upper]

ImageFile(path, written, extension, nested, type) ==
    [path |-> path, written |-> written, extension |-> extension, nested |-> nested,
     regular |-> TRUE, type |-> type]

Images ==
    [exists |-> TRUE, readable |-> TRUE,
     files |-> {ImageFile(1, 3, Extension("jpg", TRUE, FALSE), FALSE, "CV_8UC3"),
                ImageFile(2, 3, Extension("jpg", TRUE, TRUE), FALSE, "unreadable"),
                ImageFile(3, 1, Extension("jpg", TRUE, FALSE), TRUE, "CV_8UC1"),
                ImageFile(4, 4, Extension("txt", TRUE, FALSE), FALSE, "CV_8UC1")}]

FrameOption(loop, drop, broken, count, duration) ==
    [files |-> [directory |-> TRUE, interval |-> 0, extensions |-> {Extension("jpg", FALSE, FALSE)},
                recursive |-> drop, loop |-> loop,
                order |-> IF drop THEN "Lexicographical" ELSE "LastWriteTime"],
     count |-> count, duration |-> duration, interval |-> 0,
     policy |-> IF drop THEN "Skip" ELSE "Stop", drop |-> drop, broken |-> broken]

FrameOptions ==
    {FrameOption(FALSE, drop, FALSE, {}, {}) : drop \in BOOLEAN}
    \cup {FrameOption(TRUE, drop, FALSE, {2}, {}) : drop \in BOOLEAN}
    \cup {FrameOption(TRUE, drop, broken, {}, {5}) : drop, broken \in BOOLEAN}
    \cup {FrameOption(TRUE, FALSE, FALSE, {0}, {}), FrameOption(TRUE, TRUE, FALSE, {2}, {5})}

FramesInit == FrameInit /\ part = "frame" /\ ServiceInit /\ RegistryInit /\ PipelineOff /\ SampleOff

FrameStep(A) == part = "frame" /\ A /\ UNCHANGED <<part, ServiceVars, registryVars, pipelineVars, sample>>

-----------------------------------------------------------------------------
(* VisionService with two finite sources, two loads and up to three starts *)
(* of each; a stop is always one of the session.stop command.  As long as  *)
(* it is off it stays as it begins, without a profile.                     *)

ServingInit == ServiceInit /\ part = "service" /\ FrameOff /\ RegistryInit /\ PipelineOff /\ SampleOff

ServiceStep(A) ==
    part = "service" /\ Running /\ A /\ UNCHANGED <<part, frameVars, registryVars, pipelineVars, sample>>

-----------------------------------------------------------------------------
(* EndpointRegistry with a state and a stream. *)

Endpoints == [s |-> "State", f |-> "Stream"]

EndpointsInit == RegistryInit /\ part = "registry" /\ FrameOff /\ ServiceInit /\ PipelineOff /\ SampleOff

EndpointsStep(A) == part = "registry" /\ A /\ UNCHANGED <<part, frameVars, ServiceVars, pipelineVars, sample>>

-----------------------------------------------------------------------------
(* FramePipeline: two packets and a pool of one buffer. *)

PacketsInit == PipelineInit /\ part = "pipeline" /\ FrameOff /\ ServiceInit /\ RegistryInit /\ SampleOff

PacketsStep(A) == part = "pipeline" /\ A /\ UNCHANGED <<part, frameVars, ServiceVars, registryVars, sample>>

-----------------------------------------------------------------------------
(* ImageTensors.  size_t has 20 bits, uint32_t half as many and int one     *)
(* less: small frames, and rows so long that two of them, or one of more    *)
(* than a byte a pixel, do not fit.                                         *)

FrameSamples ==
    {[kind |-> "frame", width |-> w, height |-> h, format |-> f, stride |-> s, offset |-> o, capacity |-> c] :
        w \in {1, 3, 4}, h \in {1, 2, 4}, f \in {"Gray8", "Gray16", "Bgr8", "Bgra8"}, s \in {0, 5, 13, 524288},
        o \in {0, 2}, c \in {12, 40}}
    \cup {[kind |-> "frame", width |-> 262144, height |-> h, format |-> "Bgra8", stride |-> s, offset |-> 0, capacity |-> 40] :
            h \in 1 .. 2, s \in {0, 5}}

GrayFrame(w, h) == [offset |-> 0, bytes |-> w * h, width |-> w, height |-> h, stride |-> w, format |-> "Gray8", capacity |-> w * h]

Chain(frame, short, long, width, height, buffers, channels, means) ==
    [kind |-> "chain", frame |-> frame,
     nodes |-> << [kind |-> "resize", short |-> short, long |-> long, buffers |-> 2],
                  [kind |-> "crop", width |-> width, height |-> height],
                  [kind |-> "tensor", name |-> "in", buffers |-> buffers, channels |-> channels],
                  [kind |-> "normalize", means |-> means, deviations |-> means, finite |-> TRUE] >>]

(* Small chains; and crops around the widths of the integers, the frame    *)
(* scaled to a side that is one too long for an int, for an uint32_t, or   *)
(* whose picture fits and whose tensor does not.                           *)
ChainSamples ==
    {Chain(GrayFrame(w, h), short, long, cw, ch, b, n, m) :
        w \in {1, 2, 4}, h \in {1, 3}, short \in {0, 1, 3, 349526}, long \in {5, SizeMax},
        cw \in {0, 1, 2, 3}, ch \in 1 .. 2, b \in {0, 2}, n, m \in {1, 3}}
    \cup {Chain(GrayFrame(w, 1), short, SizeMax, cw, ch, 2, n, n) :
             w \in {1, 4}, short \in {256, IntMax, IntMax + 1},
             cw \in {2, IntMax, UIntMax, UIntMax + 1, UIntMax + 3, SizeMax}, ch \in {1, IntMax, UIntMax + 2}, n \in {1, 3}}

BatchSamples ==
    {[kind |-> "batch", size |-> n, names |-> names, bytes |-> b, type |-> type, shape |-> shape] :
        n \in 1 .. 3, names \in {{"a"}, {"a", "b"}}, b \in {4, 8, 12}, type \in {"UInt8", "Float32"},
        shape \in {<<1>>, <<1, 2>>, <<1, 3, 2>>}}

TensorSamples == FrameSamples \cup ChainSamples \cup BatchSamples

-----------------------------------------------------------------------------
(* Assembly, with the sizes of a real network, whose tensor fits.  Every   *)
(* sample differs from one that is accepted in what one document, or two   *)
(* of them, say.                                                           *)

Number(n) == [is |-> "number", value |-> n]
Nan == [is |-> "nan", value |-> 0]
Infinite == [is |-> "infinite", value |-> 0]

Empty == << >>

Source(id, type, settings) == [id |-> id, type |-> type, malformed |-> FALSE, images |-> TRUE, settings |-> settings]

Dir(id) == Source(id, "directory", Empty)
Cam(id, settings) == Source(id, "camera", settings)
Serial(s) == [serial |-> s]

SourceLists ==
    { << >>, <<Dir("a")>>, <<Dir("a"), Dir("a")>>, <<Dir("a"), Cam("b", Serial("c1"))>>, <<Dir("")>>,
      <<[Dir("a") EXCEPT !.images = FALSE]>>, <<Source("a", "folder", Empty)>>, <<Cam("a", Empty)>>,
      <<Cam("a", Serial("c1")), Cam("b", Serial("c2"))>>, <<Cam("a", Serial("c1")), Cam("b", Serial("c1"))>>,
      <<Cam("a", [ip |-> "ip2", frames |-> -1])>>, <<Cam("a", [ip |-> "ip2", serial |-> "c2"])>>,
      <<Cam("a", [ip |-> "ip2", format |-> "yuv"])>>, <<Cam("a", [ip |-> "ip2", gain |-> {Nan}])>>,
      <<Cam("a", [ip |-> "ip2", exposure |-> {Number(0)}])>>, <<Cam("a", [ip |-> "ip2", rate |-> {Number(0)}])>>,
      <<Cam("a", [ip |-> "ip2", mode |-> "timedTrigger", timeout |-> 0])>>, <<Cam("a", [ip |-> "ip2", mode |-> "timedTrigger"])>> }

Pipelines ==
    { Empty, [stage |-> 0], [stage |-> -1], [stage |-> -2], [stage |-> -3], [queue |-> 0], [queue |-> -1], [batch |-> -1], [policy |-> "reject"], [policy |-> "block"],
      [batch |-> 4, stage |-> 32], [means |-> 3], [means |-> 3, deviations |-> 3], [short |-> 0], [width |-> 0], [width |-> -1],
      [finite |-> FALSE], [threshold |-> Nan] }

Profile(sources, pipeline, endpoints) ==
    [malformed |-> FALSE, major |-> 1, sources |-> sources, pipeline |-> pipeline, endpoints |-> endpoints,
     backend |-> [id |-> "onnx", device |-> "cpu", plugins |-> "plugins"]]

Exposures ==
    { << >>, <<[name |-> <<"stream", "a">>, access |-> "engineer"]>>, <<[name |-> <<"stream", "z">>, access |-> "operator"]>>,
      <<[name |-> <<"session", "stop">>, access |-> "anyone"]>> }

Profiles ==
    {Profile(sources, pipeline, endpoints) : sources \in SourceLists, pipeline \in Pipelines, endpoints \in Exposures}
    \cup {[Profile(<<Dir("a")>>, Empty, << >>) EXCEPT !.malformed = TRUE], [Profile(<<Dir("a")>>, Empty, << >>) EXCEPT !.major = 2]}

Tensor(name, layout, shape) == [name |-> name, type |-> "float32", layout |-> layout, shape |-> shape]

Artifact(id, path) == [id |-> id, backend |-> "onnx", kind |-> "onnx", devices |-> <<"cpu", "cuda">>, absolute |-> FALSE,
                       path |-> path, regular |-> TRUE]

GoodPackage == [malformed |-> FALSE, major |-> 1, id |-> "m", version |-> "1", root |-> <<"p">>, artifactsRoot |-> <<"p", "artifacts">>,
                inputs |-> <<Tensor("in", "nchw", <<1, 1, 224, 224>>)>>, outputs |-> <<Tensor("out", "scalar", <<1>>)>>,
                artifacts |-> <<Artifact("x", <<"p", "artifacts", "m">>)>>]

Packages ==
    { GoodPackage, [GoodPackage EXCEPT !.inputs = <<Tensor("in", "nchw", <<1, 2, 224, 224>>)>>],
      [GoodPackage EXCEPT !.inputs = <<Tensor("in", "scalar", <<1>>)>>], [GoodPackage EXCEPT !.outputs = << >>],
      [GoodPackage EXCEPT !.inputs = <<Tensor("in", "nchw", <<1, 3, 224, 224>>)>>], [GoodPackage EXCEPT !.version = ""],
      [GoodPackage EXCEPT !.artifacts = @ \o <<Artifact("y", <<"p", "artifacts", "n">>)>>],
      [GoodPackage EXCEPT !.artifacts = @ \o @], [GoodPackage EXCEPT !.artifacts = <<Artifact("x", <<"p", "m">>)>>],
      [GoodPackage EXCEPT !.artifacts = << >>], [GoodPackage EXCEPT !.artifactsRoot = <<"q">>] }

GoodPlugin == [loads |-> TRUE, exports |-> TRUE, size |-> 6, major |-> 1, minor |-> 0,
               table |-> {"create", "destroy", "infer"}, id |-> "onnx", created |-> "OK", handle |-> TRUE]

Plugins == {GoodPlugin, [GoodPlugin EXCEPT !.loads = FALSE], [GoodPlugin EXCEPT !.minor = 1], [GoodPlugin EXCEPT !.id = "other"],
            [GoodPlugin EXCEPT !.table = {"create", "infer"}], [GoodPlugin EXCEPT !.handle = FALSE]}

CameraList == << [transport |-> "GigE", serial |-> "c1", ip |-> "ip1"], [transport |-> "GigE", serial |-> "c2", ip |-> "ip2"],
                 [transport |-> "Usb", serial |-> "", ip |-> ""] >>

ProfileSample(profile, package, plugin) ==
    [kind |-> "profile", profile |-> profile, package |-> package, plugin |-> plugin, cameras |-> CameraList]

ProfileSamples ==
    {ProfileSample(profile, GoodPackage, GoodPlugin) : profile \in Profiles}
    \cup {ProfileSample(Profile(<<Dir("a")>>, pipeline, << >>), package, plugin) :
            pipeline \in Pipelines, package \in Packages, plugin \in Plugins}

GoodDeployment == [malformed |-> FALSE, major |-> 1, backend |-> [id |-> "onnx", device |-> "cpu", plugins |-> "plugins"],
                   performance |-> "serial", policy |-> "block", queue |-> 16, stage |-> 2]

Deployments == {GoodDeployment, [GoodDeployment EXCEPT !.stage = 0], [GoodDeployment EXCEPT !.queue = -1],
                [GoodDeployment EXCEPT !.queue = VectorMax + 1], [GoodDeployment EXCEPT !.stage = VectorMax + 1],
                [GoodDeployment EXCEPT !.queue = VectorMax + 1, !.performance = "pipelineParallel"],
                [GoodDeployment EXCEPT !.stage = SizeMax, !.performance = "pipelineParallel"],
                [GoodDeployment EXCEPT !.backend.device = ""], [GoodDeployment EXCEPT !.backend.device = "npu"],
                [GoodDeployment EXCEPT !.performance = "batch"], [GoodDeployment EXCEPT !.policy = "reject"]}

PresetSamples ==
    {[kind |-> "preset", deployment |-> d, package |-> k, plugin |-> GoodPlugin, cameras |-> CameraList,
      source |-> [type |-> "directory", images |-> images, settings |-> [interval |-> 0]],
      threshold |-> threshold, timed |-> TRUE, opens |-> opens] :
        d \in Deployments, k \in Packages, images, opens \in BOOLEAN, threshold \in {Number(0), Nan}}

SettingSamples ==
    {[kind |-> "setting", name |-> name, type |-> type, value |-> value, attached |-> attached] :
        name \in {"exposureMicroseconds", "gain"}, type \in {"Decimal", "Text"},
        value \in {Number(-1), Number(0), Number(1), Number(101), Nan, Infinite}, attached \in BOOLEAN}

Room(name, type, shape, bytes) == [name |-> name, type |-> type, shape |-> shape, bytes |-> bytes]

Inferences == {Room("out", "Float32", <<1>>, 4), Room("out", "Float32", << >>, 4), Room("out", "Float32", <<1, 2>>, 8),
          Room("out", "Float32", <<1>>, 8), Room("out", "UInt8", <<1>>, 1), Room("map", "Float32", <<2, 2>>, 16)}

InferenceSamples ==
    {[kind |-> "inference", calls |-> calls, status |-> status, output |-> "out", threshold |-> Number(1), score |-> score,
      inputs |-> [in |-> [type |-> "Float32", kind |-> "Host", contiguous |-> contiguous]]] :
        calls \in UNION {[1 .. n -> Inferences] : n \in 0 .. 2}, status \in {"OK", "INVALID_ARGUMENT"},
        score \in {Number(0), Number(1), Nan}, contiguous \in BOOLEAN}

Documents == ProfileSamples \cup PresetSamples \cup SettingSamples \cup InferenceSamples

-----------------------------------------------------------------------------

AllSamples == TensorSamples \cup Documents

(* They are of the kinds that the theorems about samples are for.          *)
ASSUME SamplesAssumption == \A s \in Samples : s \in Inputs \/ DocumentTyped(s)

SamplesInit == SampleInit /\ part = "sample" /\ FrameOff /\ ServiceInit /\ RegistryInit /\ PipelineOff

-----------------------------------------------------------------------------

Init == FramesInit \/ ServingInit \/ EndpointsInit \/ PacketsInit \/ SamplesInit

Next ==
    \/ FrameStep(FrameNext)
    \/ ServiceStep(ServiceNext)
    \/ EndpointsStep(RegistryNext)
    \/ PacketsStep(PipelineNext)

(* The fairness of the components.  Only one of them runs in a behaviour,  *)
(* so that one thread of each can share a conjunct.                        *)
ServiceOthers(A) == ServiceStep(A /\ UNCHANGED <<met, live>>)

Fairness ==
    /\ WF_vars(FrameStep(Main) \/ ServiceStep(Client))
    /\ WF_vars(FrameStep(Timer) \/ ServiceStep(ControlStep \/ Callback))
    /\ WF_vars(FrameStep(Complete) \/ ServiceOthers(Feed(2)))
    /\ WF_vars(FrameStep(Stop("caller")) \/ ServiceStep(Live))
    /\ WF_vars(FrameStep(Worker) \/ ServiceOthers(Feed(1)))
    /\ WF_vars(ServiceOthers(Watch))

Spec == Init /\ [][Next]_vars /\ Fairness

=============================================================================
