------------------------------- MODULE Assembly -------------------------------
(***************************************************************************)
(* What stands between a document and a running session: the loaders of    *)
(* profile, model package and deployment, the factories of sources and     *)
(* executors, the session assembler and the anomaly preset, the camera     *)
(* parameters behind the endpoints, and an inference through a plugin.     *)
(*                                                                         *)
(* A result that may fail is a set with one element, or none.  `malformed` *)
(* says that a document lacks a key or has a value of another type.  Real  *)
(* numbers are [is, value], where `is` tells nan and infinite ones from    *)
(* numbers.  External: the file system, the camera and its SDK, plugins.   *)
(***************************************************************************)
EXTENDS ImageTensors

CONSTANT FloatMax  \* largest float

ASSUME FloatMaxAssumption == FloatMax \in Nat

Finite(x) == x.is = "number"

(* What a document gives, and defaults for what it does not. *)
Completed(given, defaults) ==
    [key \in DOMAIN given \cup DOMAIN defaults |-> IF key \in DOMAIN given THEN given[key] ELSE defaults[key]]

InjectiveBy(Key(_), list) == \A i, j \in DOMAIN list : Key(list[i]) = Key(list[j]) => i = j

-----------------------------------------------------------------------------
(* ProfileLoader.  A negative integer read as size_t wraps. *)

SourceDefaults ==
    [directory |-> [interval |-> 0, loop |-> TRUE, recursive |-> FALSE],
     camera |-> [serial |-> "", ip |-> "", format |-> "gray8", frames |-> 6, mode |-> "continuous",
                 exposure |-> {}, gain |-> {}, rate |-> {}, interval |-> 100, timeout |-> 1000]]

ParseSource(s) ==
    Only(s.id # "" /\ s.type \in DOMAIN SourceDefaults /\ ~s.malformed,
         LET settings == Completed(s.settings, SourceDefaults[s.type])
         IN  [s EXCEPT !.settings = [key \in DOMAIN settings |->
                 IF key = "frames" THEN Wrap(settings[key]) ELSE settings[key]]])

(* The default threshold, one half, is rounded down. *)
PipelineDefaults ==
    [short |-> 256, width |-> 224, height |-> 224, means |-> 1, deviations |-> 1, finite |-> TRUE,
     threshold |-> [is |-> "number", value |-> 0], batch |-> 0, flush |-> 20, queue |-> 16, stage |-> 1,
     policy |-> "drop"]

ReadProfile(d) ==
    LET pipeline == Completed(d.pipeline, PipelineDefaults)
        sizes == {"short", "width", "height", "batch", "queue", "stage"}
    IN  Only(/\ ~d.malformed /\ d.major = 1 /\ Len(d.sources) \in 1 .. VectorMax
             /\ \A i \in DOMAIN d.sources : ParseSource(d.sources[i]) # {},
             [d EXCEPT !.sources = [i \in DOMAIN @ |-> CHOOSE s \in ParseSource(@[i]) : TRUE],
                       !.pipeline = [key \in DOMAIN pipeline |->
                           IF key \in sizes THEN Wrap(pipeline[key]) ELSE pipeline[key]]])

-----------------------------------------------------------------------------
(* ModelPackageLoader and ConfigLoader.  A path is a sequence of names,    *)
(* and a capacity above the largest int64_t is read as a negative one.     *)

ParseTensors(tensors) ==
    /\ tensors # << >> /\ InjectiveBy(LAMBDA t : t.name, tensors)
    /\ \A i \in DOMAIN tensors :
          /\ tensors[i].type = "float32" /\ tensors[i].layout \in {"nchw", "embedding", "scalar"}
          /\ tensors[i].name # "" /\ tensors[i].shape # << >> /\ IsConcrete(tensors[i].shape)

ArtifactAccepted(package, a) ==
    /\ "" \notin {a.id, a.backend, a.kind}
    /\ a.devices # << >> /\ "" \notin Range(a.devices) /\ IsInjective(a.devices)
    /\ ~a.absolute /\ IsPrefix(package.artifactsRoot, a.path) /\ a.regular

LoadPackage(package) ==
    Only(/\ ~package.malformed /\ package.major = 1 /\ "" \notin {package.id, package.version}
         /\ IsPrefix(package.root, package.artifactsRoot)
         /\ ParseTensors(package.inputs) /\ ParseTensors(package.outputs)
         /\ InjectiveBy(LAMBDA a : a.id, package.artifacts)
         /\ \A i \in DOMAIN package.artifacts : ArtifactAccepted(package, package.artifacts[i]),
         package)

SelectArtifact(package, backend) ==
    LET matching == {a \in Range(package.artifacts) : a.backend = backend.id /\ backend.device \in Range(a.devices)}
    IN  IF Cardinality(matching) = 1 THEN matching ELSE {}

LoadDeployment(d) ==
    Only(/\ ~d.malformed /\ d.major = 1 /\ "" \notin {d.backend.id, d.backend.device, d.backend.plugins}
         /\ d.performance \in {"serial", "pipelineParallel"} /\ d.policy \in {"drop", "block"}
         /\ {d.queue, d.stage} \subseteq 1 .. SizeMax \div 2,
         d)

-----------------------------------------------------------------------------
(* Cameras and frame sources *)

FloatSetting(x, allowZero) ==
    Finite(x) /\ x.value >= 0 /\ (x.value = 0 => allowZero) /\ x.value <= FloatMax

NoCamera == [transport |-> "none", serial |-> "", ip |-> ""]

Enumerate(cameras) ==
    SelectSeq(cameras, LAMBDA c : c.transport \in {"GigE", "Usb"} /\ c.serial # "")

SelectCamera(o, cameras) ==
    LET found == SelectSeq(Enumerate(cameras), LAMBDA c : o.serial \in {"", c.serial} /\ o.ip \in {"", c.ip})
        named == o.serial # "" \/ o.ip # ""
    IN  Only(found # << >> /\ (Len(found) = 1 \/ named), Last(found))

MvsPixelFormat == {"Gray8", "Gray16", "Rgb8", "Bgr8", "Rgba8", "Bgra8"}

(* A camera opens once, for exclusive access. *)
CreateDevice(o, cameras, opened) ==
    IF (o.serial # "" /\ o.ip # "") \/ o.frames \notin 1 .. UIntMax \/ o.format \notin MvsPixelFormat THEN {}
    ELSE {c \in SelectCamera(o, cameras) :
             /\ c \notin opened
             /\ \A x \in o.exposure : FloatSetting(x, FALSE)
             /\ \A x \in o.gain : FloatSetting(x, TRUE)}

OptionsValid(o) ==
    IF o.mode = "timedTrigger" THEN o.interval >= 0 /\ o.timeout > 0
    ELSE \A rate \in o.rate : Finite(rate) /\ rate.value > 0

(* FrameSourceFactory, from options that a program sets itself. *)
CreateSource(s, cameras) ==
    IF s.type = "directory" THEN Only(s.settings.interval >= 0 /\ s.images, NoCamera)
    ELSE IF OptionsValid(s.settings) THEN CreateDevice(s.settings, cameras, {}) ELSE {}

ParsePixelFormat == [gray8 |-> "Gray8", gray16 |-> "Gray16", bgr8 |-> "Bgr8",
                     rgb8 |-> "Rgb8", bgra8 |-> "Bgra8", rgba8 |-> "Rgba8"]

BuildDirectorySource(s) == Only(s.settings.interval >= 0 /\ s.images, NoCamera)

BuildCameraSource(s, cameras, opened) ==
    LET o == s.settings
    IN  IF o.format \notin DOMAIN ParsePixelFormat THEN {}
        ELSE {c \in CreateDevice([o EXCEPT !.format = ParsePixelFormat[@]], cameras, opened) : OptionsValid(o)}

(* Every source first registers a stream of its name, which must be new.   *)
BuildSources(sources, cameras) ==
    LET Devices(built) == {built[i].device : i \in DOMAIN built}
        Source(s, built) == IF s.type = "directory" THEN BuildDirectorySource(s)
                            ELSE BuildCameraSource(s, cameras, Devices(built) \ {NoCamera})
        Add(builds, s) == UNION {{Append(built, [id |-> s.id, device |-> d]) : d \in Source(s, built)} :
                                    built \in {b \in builds : \A i \in DOMAIN b : b[i].id # s.id}}
    IN  FoldLeft(Add, {<< >>}, sources)

-----------------------------------------------------------------------------
(* Plugins *)

ApiSize == 6  \* fields of the function table, version 1

CreateBackend(plugin, id) ==
    /\ plugin.loads /\ plugin.exports
    /\ plugin.size >= ApiSize /\ plugin.major = 1 /\ plugin.minor <= 0
    /\ {"create", "destroy", "infer"} \subseteq plugin.table
    /\ plugin.id = id /\ plugin.created = "OK" /\ plugin.handle

(* One call of the plugin for room for an output; outputs are tensors by   *)
(* name, and a call that is refused adds none.                             *)
AllocateOutput(outputs, call) ==
    LET room == {m \in ValidateMetadata("Float32", call.shape, << >>) : m.bytes = call.bytes}
    IN  IF call.type = "Float32" /\ room # {} /\ call.name \notin DOMAIN outputs
        THEN [name \in DOMAIN outputs \cup {call.name} |->
                 IF name = call.name THEN [type |-> call.type, shape |-> call.shape, bytes |-> call.bytes]
                 ELSE outputs[name]]
        ELSE outputs

PluginAccepts(inputs) ==
    \A name \in DOMAIN inputs :
        inputs[name].type = "Float32" /\ inputs[name].kind = "Host" /\ inputs[name].contiguous

(* The plugin's own status decides, whatever it was refused. *)
PluginInfer(inputs, calls, status) ==
    Only(PluginAccepts(inputs) /\ status = "OK", FoldLeft(AllocateOutput, << >>, calls))

CreatePostprocessor(name, threshold) == name # "" /\ Finite(threshold)

AnomalyDecision(name, threshold, outputs, score) ==
    Only(/\ name \in DOMAIN outputs /\ outputs[name].type = "Float32" /\ ElementCount(outputs[name].shape) = 1,
         IF Finite(score) /\ score.value >= threshold.value THEN "Ng" ELSE "Ok")

-----------------------------------------------------------------------------
(* Sessions *)

CreateExecutor_Mutant(queue, stage, slots) == Only(queue > 0, IF slots <= VectorMax THEN "made" ELSE "length_error")

(* The constructor makes its queues' vectors, of `slots` elements each; the *)
(* exception of one that is too long is caught nowhere.                    *)
CreateExecutor(queue, stage, slots) ==
    Only(queue > 0 /\ stage > 0, IF slots <= VectorMax THEN "made" ELSE "length_error")

(* What the assembler and the preset both make of a model.  Either makes a *)
(* set with the session, with one whose executor threw, or with none.      *)
Nodes(p, input, channels) ==
    << [kind |-> "resize", short |-> p.short, long |-> 4096, buffers |-> 2],
       [kind |-> "crop", width |-> p.width, height |-> p.height],
       [kind |-> "tensor", name |-> input.name, buffers |-> Wrap(p.stage + 2), channels |-> channels],
       [kind |-> "normalize", means |-> p.means, deviations |-> p.deviations, finite |-> p.finite] >>

Assemble(profile, modelPackage, plugin, cameras) ==
    LET p == profile.pipeline
        sources == BuildSources(profile.sources, cameras)
        CanRun(package) ==
            LET input == package.inputs[1]
                output == package.outputs[1]
            IN  /\ p.policy \in {"block", "drop"}
                /\ input.layout = "nchw" /\ Len(input.shape) = 4
                /\ BuildChain(Nodes(p, input, input.shape[2])) # {}
                /\ CreateBackend(plugin, profile.backend.id)
                /\ CreatePostprocessor(output.name, p.threshold)
    IN  {[sources |-> s, queue |-> p.queue, stage |-> p.stage, tensors |-> Wrap(p.stage + 2), policy |-> p.policy,
          batch |-> IF p.batch > 0 THEN p.batch ELSE Len(s), artifact |-> a, threshold |-> p.threshold, executor |-> e] :
            s \in sources, e \in CreateExecutor(p.queue, p.stage, p.stage),
            a \in UNION {SelectArtifact(k, profile.backend) : k \in {k \in LoadPackage(modelPackage) : CanRun(k)}}}

(* VisionService: endpoints that the profile exposes, under these names.   *)
CoreEndpoints == {<<"session", "start">>, <<"session", "stop">>, <<"session", "state">>,
                  <<"session", "summary">>, <<"metrics", "performance">>}

CameraEndpoints(id) == {<<"camera", id, p>> : p \in {"exposureMicroseconds", "gain", "softwareTrigger"}}

ApplyEndpointExposure(session, exposures) ==
    LET ids == {session.sources[i].id : i \in DOMAIN session.sources}
        registered == CoreEndpoints \cup {<<"stream", id>> : id \in ids} \cup UNION {CameraEndpoints(id) : id \in ids}
    IN  \A i \in DOMAIN exposures :
            exposures[i].name \in registered /\ exposures[i].access \in {"operator", "engineer", "administrator"}

LoadAndAssemble(o) ==
    {session \in UNION {Assemble(p, o.package, o.plugin, o.cameras) : p \in ReadProfile(o.profile)} :
        session.executor = "made" => ApplyEndpointExposure(session, o.profile.endpoints)}

ValidateManifest(package) ==
    LET input == package.inputs[1]
        output == package.outputs[1]
    IN  /\ Len(package.inputs) = 1 /\ Len(package.outputs) = 1
        /\ input.layout = "nchw" /\ Len(input.shape) = 4 /\ Tail(input.shape) = <<1, 224, 224>>
        /\ output.layout = "scalar" /\ output.shape = <<1>>

PresetSources == <<[id |-> "", device |-> NoCamera]>>  \* one, without a name

(* AnomalyPreset::create() with a deployment that was loaded from a file.  *)
CreatePreset(o) ==
    LET d == o.deployment
        p == [PipelineDefaults EXCEPT !.stage = d.stage]
        CanRun(package) ==
            /\ LoadDeployment(d) # {} /\ ValidateManifest(package) /\ CreateSource(o.source, o.cameras) # {}
            /\ BuildChain(Nodes(p, package.inputs[1], 1)) # {}
            /\ CreateBackend(o.plugin, d.backend.id)
            /\ CreatePostprocessor(package.outputs[1].name, o.threshold)
            /\ o.timed => o.opens
    IN  {[sources |-> PresetSources, queue |-> d.queue, stage |-> d.stage, policy |-> d.policy,
          tensors |-> Wrap(d.stage + 2), batch |-> 1, artifact |-> a, threshold |-> o.threshold, executor |-> e] :
            e \in CreateExecutor(d.queue, d.stage, IF d.performance = "serial" THEN d.queue ELSE d.stage),
            a \in UNION {SelectArtifact(k, d.backend) : k \in {k \in LoadPackage(o.package) : CanRun(k)}}}

-----------------------------------------------------------------------------
(* The camera's parameters as endpoints *)

Descriptors == [exposureMicroseconds |-> [type |-> "Decimal", minimum |-> 1],
                gain |-> [type |-> "Decimal", minimum |-> 0]]

(* A nan is not below a minimum. *)
WriteParameter(name, type, x) ==
    type = Descriptors[name].type /\ ~(Finite(x) /\ x.value < Descriptors[name].minimum)

CameraWrites(name, attached, x) ==
    /\ Finite(x) /\ (IF name = "gain" THEN x.value >= 0 ELSE x.value > 0)
    /\ attached

(* The value that reaches the SDK, if any. *)
Written(o) ==
    Only(/\ WriteParameter(o.name, o.type, o.value) /\ CameraWrites(o.name, o.attached, o.value)
         /\ FloatSetting(o.value, o.name = "gain"),
         o.value)

-----------------------------------------------------------------------------

(* What is taken for granted of a document: a profile has a list of        *)
(* sources, its sizes are whole numbers, a path is one, and a number is a  *)
(* number.                                                                 *)
IsList(s) == s \in Seq(Range(s))

ProfileTyped(profile) ==
    /\ {"sources", "pipeline"} \subseteq DOMAIN profile /\ IsList(profile.sources)
    /\ \A key \in {"stage", "batch"} \cap DOMAIN profile.pipeline : profile.pipeline[key] \in Int

PackageTyped(package) ==
    /\ {package.root, package.artifactsRoot} \subseteq Seq(STRING)
    /\ IsList(package.artifacts)
    /\ \A i \in DOMAIN package.artifacts : package.artifacts[i].path \in Seq(STRING)

CallRecords == [name : STRING, type : DataTypes, shape : Seq(Int), bytes : Nat]

DocumentTyped(o) ==
    \/ o.kind = "profile" /\ ProfileTyped(o.profile) /\ PackageTyped(o.package)
    \/ o.kind = "preset" /\ PackageTyped(o.package)
    \/ o.kind = "setting" /\ o.value.value \in Int
    \/ o.kind = "inference" /\ o.calls \in Seq(CallRecords)

-----------------------------------------------------------------------------

(* An executor and a batch that are made work only with sizes above zero,  *)
(* a pool only with the two buffers more than the stage queue has slots    *)
(* (no size_t may have wrapped), and a queue only with a policy it knows;  *)
(* streams are told apart by name, and a camera is opened once.            *)
SessionRunnable(session) ==
    /\ session.queue > 0 /\ session.stage > 0 /\ session.batch > 0
    /\ session.tensors = session.stage + 2 /\ session.tensors <= VectorMax
    /\ session.policy \in {"block", "drop"} /\ Finite(session.threshold)
    /\ InjectiveBy(LAMBDA s : s.id, session.sources)
    /\ \A i, j \in DOMAIN session.sources :
          session.sources[i].device = session.sources[j].device => i = j \/ session.sources[i].device = NoCamera

(* What becomes of a session that nobody refused.  Its queues and its pool *)
(* fit; that its batch is longer than a vector, which ends the process at  *)
(* the first frame that reaches it, can only be what the profile asks for. *)
(* Executors throw for no other number than these: a stageQueueCapacity of *)
(* SizeMax, read from -1, whose pool has one buffer; and a queueCapacity   *)
(* longer than a vector with the preset's serial policy.                   *)
ProfileOutcome(o, session) ==
    CASE session.executor = "made" ->
            /\ SessionRunnable(session) /\ IsPrefix(o.package.root, session.artifact.path)
            /\ session.batch > VectorMax => session.batch = Wrap(o.profile.pipeline.batch)
      [] session.executor = "length_error" -> session.stage = SizeMax

PresetOutcome(o, session) ==
    CASE session.executor = "made" ->
            /\ SessionRunnable(session) /\ IsPrefix(o.package.root, session.artifact.path)
            /\ session.batch = 1
      [] session.executor = "length_error" -> o.deployment.performance = "serial" /\ session.queue > VectorMax

(* Whatever the documents say, loading refuses them, makes a session that  *)
(* can run, or meets one of the sizes named above; a setting that reaches  *)
(* a camera is one it can take; and a decision was made from the one       *)
(* number that the plugin was given room for.                              *)
AssembledIsRunnable ==
    CASE sample.kind = "profile" -> \A session \in LoadAndAssemble(sample) : ProfileOutcome(sample, session)
      [] sample.kind = "preset" -> \A session \in CreatePreset(sample) : PresetOutcome(sample, session)
      [] sample.kind = "setting" -> \A x \in Written(sample) :
            x.value \in 0 .. FloatMax /\ (x.value = 0 => sample.name = "gain")
      [] sample.kind = "inference" ->
            \A outputs \in PluginInfer(sample.inputs, sample.calls, sample.status) :
                AnomalyDecision(sample.output, sample.threshold, outputs, sample.score) # {} =>
                    outputs[sample.output].bytes = DataTypeSize["Float32"]
      [] OTHER -> TRUE

=============================================================================
