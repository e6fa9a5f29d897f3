--------------------------- MODULE BackendRuntime ---------------------------
(***************************************************************************)
(* The choice of a backend: BackendRuntime of src/src/backend.cc in a      *)
(* build with plugins, on Linux.  It probes the hardware of each family,   *)
(* searches a plugin in six places, loads it, compares the memory of the   *)
(* devices found and keeps one plugin; GpuPlacement of                     *)
(* src/src/score_cmd.cc then picks a GPU.  What the machine and the file   *)
(* system hold is found out on the way, a choice at each step.             *)
(***************************************************************************)
EXTENDS Integers, Sequences, SequencesExt

CONSTANTS
  Limit,     \* the largest std::uint64_t
  Amounts    \* bound: the memory a device has free, and the model's size

VARIABLES
  request,   \* the arguments of the constructor
  at,        \* where the constructor is
  family,    \* LoadPlugin's backend
  hardware,  \* family -> what its probe found
  fd,        \* LoadPlugin's prepared->backing_fd is open
  driver,    \* its driver_handle is
  plugins,   \* gpu_plugins, by family
  devices,   \* family -> the free memory of its devices
  selected,  \* selected_
  placement, \* how a GPU was picked
  error,     \* what was thrown, and about which family
  held       \* what the process has open: <<thing, family>>

runtimeVars == <<request, at, family, hardware, fd, driver, plugins, devices,
                 selected, placement, error, held>>
locals == <<family, fd, driver>>
outcome == <<devices, selected, placement>>

Families == {"cuda", "rocm"}

\* ResolveExecutionOptions: a number of layers may be given or not.
Options == [backend : {"auto", "cpu"} \cup Families,
            layers : {<<>>, <<-1>>, <<0>>, <<1>>}, force_cpu : BOOLEAN]
OnCpu(o) == o.force_cpu \/ o.backend = "cpu"
Contradictory(o) ==
  \/ o.force_cpu /\ o.backend \in Families
  \/ OnCpu(o) /\ o.layers \notin {<<>>, <<0>>}
  \/ o.backend \in Families /\ o.layers = <<0>>
Resolved(o) ==
  IF OnCpu(o) \/ o.layers = <<0>> THEN [backend |-> "cpu", layers |-> 0]
  ELSE [backend |-> o.backend,
        layers |-> IF o.layers = <<>> THEN -1 ELSE Head(o.layers)]

\* ShouldFetchBackend and --no-download decide whether a bundle may be fetched.
Init ==
  /\ \E o \in Options, directory, fetch \in BOOLEAN :
       LET execution == Resolved(o) IN
       /\ ~Contradictory(o)
       /\ fetch => execution.backend # "cpu"
       /\ request = [backend |-> execution.backend, layers |-> execution.layers,
                     directory |-> directory, fetch |-> fetch]
  /\ at = "start" /\ family = "none"
  /\ hardware = [f \in Families |-> "unknown"]
  /\ fd = FALSE /\ driver = FALSE /\ plugins = [f \in {} |-> 0]
  /\ devices = [f \in Families |-> <<>>]
  /\ selected = "none" /\ placement = <<>> /\ error = <<>> /\ held = {}

Wants(f) == request.backend \in {f, "auto"}
\* The families are tried, and their plugins looked at, in this order.
First(families) == IF "cuda" \in families THEN "cuda" ELSE "rocm"
Required == request.backend = family

Go(place) == at' = place

-----------------------------------------------------------------------------
\* How a call of LoadPlugin ends.
CloseDriver == held \ {<<"driver", family>>}

Record(registry, detected, missing, failure) ==
  /\ plugins' = [f \in {family} \cup DOMAIN plugins |->
       IF f # family THEN plugins[f]
       ELSE [registry |-> registry,
             fd |-> registry /\ fd, driver |-> registry /\ driver,
             detected |-> detected, missing |-> missing, failure |-> failure]]
  /\ Go("next")
  /\ UNCHANGED error

Throw(what, f) ==
  /\ error' = <<what, f>>
  /\ Go("unwind")

\* A family that was asked for by name must work, any other one is recorded.
Fails(what, detected) ==
  /\ fd' = FALSE /\ driver' = FALSE
  /\ IF Required THEN Throw(what, family) /\ UNCHANGED plugins
     ELSE Record(FALSE, detected, FALSE, what)
  /\ UNCHANGED <<request, family, outcome>>

\* catch (...)
Broken == Fails("broken", TRUE) /\ held' = CloseDriver /\ UNCHANGED hardware

-----------------------------------------------------------------------------
ValidateBackendDirectory ==
  /\ at = "start" /\ request.directory /\ \E f \in Families : Wants(f)
  /\ error' = <<"directory", "none">>
  /\ Go("failed")
  /\ UNCHANGED <<request, hardware, locals, plugins, outcome, held>>

NextFamily ==
  LET left == {f \in Families \ DOMAIN plugins : Wants(f)} IN
  /\ at \in {"start", "next"}
  /\ fd' = FALSE /\ driver' = FALSE
  /\ IF left = {} THEN Go("inventory") /\ family' = "none"
     ELSE /\ family' = First(left)
          /\ Go(IF First(left) = "cuda" THEN "driver" ELSE "topology")
  /\ UNCHANGED <<request, hardware, plugins, outcome, error, held>>

LoadDriver ==
  /\ at = "driver"
  /\ driver' = TRUE /\ held' = held \cup {<<"driver", "cuda">>}
  /\ Go("probe")
  /\ UNCHANGED <<request, family, hardware, fd, plugins, outcome, error>>

LoadDriverFails ==
  /\ at = "driver"
  /\ hardware' = [hardware EXCEPT !["cuda"] = "absent"]
  /\ Fails("unavailable", FALSE)
  /\ UNCHANGED held

\* cuInit, cuDeviceGetCount
ProbeFails ==
  /\ at = "probe"
  /\ hardware' = [hardware EXCEPT !["cuda"] = "absent"]
  /\ held' = CloseDriver
  /\ Fails("unavailable", FALSE)

Probed ==
  /\ \/ at = "probe" /\ hardware' = [hardware EXCEPT !["cuda"] = "ready"]
     \/ at = "topology" /\ \E found \in {"unsure", "ready"} :
          hardware' = [hardware EXCEPT !["rocm"] = found]
  /\ Go("configured")
  /\ UNCHANGED <<request, locals, plugins, outcome, error, held>>

\* No AMD GPU: not a failure, even when one was asked for.
NoTopology ==
  /\ at = "topology"
  /\ hardware' = [hardware EXCEPT !["rocm"] = "absent"]
  /\ Record(FALSE, FALSE, FALSE, "none")
  /\ UNCHANGED <<request, locals, outcome, held>>

\* An unknown architecture, or no access to /dev/kfd.
UnusableTopology ==
  /\ at = "topology"
  /\ \E found \in {"unsupported", "denied"} :
       hardware' = [hardware EXCEPT !["rocm"] = found]
  /\ Fails("unusable", TRUE)
  /\ UNCHANGED held

-----------------------------------------------------------------------------
\* ResolveBackendPlugin: the places, and where a miss leads.
After == [configured |-> "embedded", embedded |-> "installed",
          installed |-> "beside", beside |-> "cache", cache |-> "fetch"]
\* "An inconclusive hardware probe must not initiate a network download."
Fetches == request.fetch /\ hardware[family] # "unsure"
Searched == at = "configured" /\ request.directory
Fetched == at = "fetch" /\ Fetches

FindsNothing ==
  /\ at \in DOMAIN After
  /\ Go(After[at])
  /\ UNCHANGED <<request, hardware, locals, plugins, outcome, error, held>>

FindsBundle ==
  /\ Searched \/ Fetched \/ at \in {"installed", "cache"}
  /\ Go("prepare")
  /\ UNCHANGED <<request, hardware, locals, plugins, outcome, error, held>>

FindsLibrary ==
  /\ Searched \/ at = "beside"
  /\ Go("load")
  /\ UNCHANGED <<request, hardware, locals, plugins, outcome, error, held>>

\* The payload of the executable or of a bundle: a file in memory for CUDA,
\* which stays open, a directory for ROCm.
Prepare ==
  /\ at \in {"embedded", "prepare"}
  /\ fd' = (family = "cuda")
  /\ held' = IF family = "cuda" THEN held \cup {<<"fd", family>>} ELSE held
  /\ Go("load")
  /\ UNCHANGED <<request, family, hardware, driver, plugins, outcome, error>>

\* A bad bundle in the cache is fetched again when it can be.
FindsInvalid ==
  \/ /\ at = "cache" /\ Fetches
     /\ Go("fetch")
     /\ UNCHANGED <<request, hardware, locals, plugins, outcome, error, held>>
  \/ /\ Searched \/ Fetched \/ at \in {"embedded", "installed", "cache", "prepare"}
     /\ at = "cache" => ~Fetches
     /\ Broken

\* MissingBackendPluginError
Missing ==
  /\ at = "fetch" /\ ~Fetches
  /\ LET detected == hardware[family] = "ready"
     IN  IF Required THEN Throw("missing", family) /\ UNCHANGED plugins
         ELSE Record(FALSE, detected, detected, "none")
  /\ fd' = FALSE /\ driver' = FALSE /\ held' = CloseDriver
  /\ UNCHANGED <<request, family, hardware, outcome>>

Load ==
  /\ at = "load"
  /\ held' = held \cup {<<"registry", family>>}
  /\ Record(TRUE, FALSE, FALSE, "none")
  /\ UNCHANGED <<request, hardware, locals, outcome>>

\* A slip that the checks notice: the file in memory is forgotten.
LeftByDriver == CloseDriver
ClosedAfterLoad == held \ {<<"fd", family>>, <<"driver", family>>}

LoadFails ==
  /\ at = "load"
  /\ Fails("broken", TRUE)
  /\ held' = ClosedAfterLoad
  /\ UNCHANGED hardware

-----------------------------------------------------------------------------
\* UnloadPlugin
Handles(f) ==
  {<<thing, f>> : thing \in {t \in {"registry", "fd", "driver"} : plugins[f][t]}}

\* The plugins one of which an error is about, when there are no devices.
Culprits ==
  LET missing == {f \in DOMAIN plugins : plugins[f].missing}
      failed == {f \in DOMAIN plugins : plugins[f].failure # "none"}
      detected == {f \in failed : plugins[f].detected}
  IN  IF missing # {} THEN missing ELSE IF detected # {} THEN detected ELSE failed

Inventory ==
  /\ at = "inventory"
  /\ \E found \in [Families -> {<<>>} \cup {<<m>> : m \in Amounts}
                                \cup (Amounts \X Amounts)] :
       /\ \A f \in Families : found[f] # <<>> =>
            f \in DOMAIN plugins /\ plugins[f].registry
       /\ devices' = found
       /\ IF (\A f \in Families : found[f] = <<>>) /\ Culprits # {}
          THEN LET culprit == First(Culprits) IN
               Throw(IF plugins[culprit].missing THEN "missing"
                     ELSE plugins[culprit].failure, culprit)
          ELSE Go("select") /\ UNCHANGED error
  /\ UNCHANGED <<request, hardware, locals, plugins, selected, placement, held>>

Added(sum, memory) == IF memory > Limit - sum THEN Limit ELSE sum + memory

Memory(f) == FoldLeft(Added, 0, devices[f])

SelectBackend ==
  LET usable == {f \in Families : Wants(f) /\ devices[f] # <<>>} IN
  /\ at = "select"
  /\ IF request.backend # "cpu" /\ usable = {}
     THEN Throw("nothing", request.backend) /\ UNCHANGED selected
     ELSE /\ selected' = IF usable = {} THEN "cpu"
                         ELSE IF /\ "cuda" \in usable
                                 /\ "rocm" \in usable => Memory("cuda") >= Memory("rocm")
                                THEN "cuda" ELSE "rocm"
          /\ Go("selected")
          /\ UNCHANGED error
  /\ UNCHANGED <<request, hardware, locals, plugins, devices, placement, held>>

Unload(doomed) == held \ UNION {Handles(f) : f \in doomed}

Unwind ==
  /\ at = "unwind"
  /\ held' = Unload(DOMAIN plugins)
  /\ Go("failed")
  /\ UNCHANGED <<request, hardware, locals, plugins, outcome, error>>

\* The constructor returns: its variables end with it.
Adopt ==
  /\ at = "selected"
  /\ held' = Unload(DOMAIN plugins \ {selected})
  /\ plugins' = [f \in DOMAIN plugins \cap {selected} |-> plugins[f]]
  /\ devices' = [f \in Families |-> <<>>]
  /\ hardware' = [f \in Families |-> "unknown"]
  /\ Go("running")
  /\ UNCHANGED <<request, locals, selected, placement, error>>

\* A session insists on a device once more; the constructor gives up by hand.
NoDevice ==
  /\ at = "selected" /\ request.layers # 0
  /\ error' = <<"nothing", selected>>
  /\ held' = Unload(DOMAIN plugins)
  /\ Go("failed")
  /\ UNCHANGED <<request, hardware, locals, plugins, outcome>>

\* ~BackendRuntime
Destroy ==
  /\ at = "running"
  /\ held' = Unload(DOMAIN plugins)
  /\ Go("destroyed")
  /\ UNCHANGED <<request, hardware, locals, plugins, outcome, error>>

-----------------------------------------------------------------------------
\* GpuPlacement, of the scorer that owns the runtime.
Selections == [policy : {"preserve", "most-free"}, device : {"any", "GPU1", "GPU2"},
               min_free : Amounts \cup {0}]
Name(i) == IF i = 1 THEN "GPU1" ELSE "GPU2"

\* ValidateGpuSelection
Unsound(o) ==
  LET chosen == o.device # "any" \/ o.policy # "preserve" IN
  \/ o.min_free # 0 /\ ~chosen
  \/ request.layers = 0 /\ (chosen \/ o.min_free # 0)

\* The weights and a tenth, rounded up, when every layer is offloaded.
GpuMemoryRequirement(o, bytes) ==
  LET margin == bytes \div 10 + (IF bytes % 10 # 0 THEN 1 ELSE 0)
      full == IF request.layers = -1 THEN Added(margin, bytes) ELSE 0
  IN  IF full > o.min_free THEN full ELSE o.min_free

\* The index of a GPU; none is picked by "preserve", which leaves it to ggml.
Picks(o, gpus) ==
  IF o.device # "any" THEN {i \in DOMAIN gpus : Name(i) = o.device}
  ELSE IF o.policy = "preserve" THEN {}
  ELSE {i \in DOMAIN gpus : (\A j \in 1..(i - 1) : gpus[j] < gpus[i])
                            /\ \A j \in DOMAIN gpus : gpus[j] <= gpus[i]}

SelectGpuDevice(o, bytes, gpus) ==
  IF Unsound(o) THEN "invalid"
  ELSE IF request.layers = 0 THEN "left"
  ELSE IF Picks(o, gpus) = {}
         THEN IF o.device = "any" /\ o.policy = "preserve" THEN "left" ELSE "no such GPU"
  ELSE LET i == CHOOSE i \in Picks(o, gpus) : TRUE
       IN  IF gpus[i] < GpuMemoryRequirement(o, bytes) THEN "too small" ELSE Name(i)

\* The memory is read anew; on the CPU no device is looked at.
GpuPlacement ==
  /\ at = "running" /\ placement = <<>>
  /\ \E o \in Selections, bytes \in Amounts,
        gpus \in {<<>>} \cup {<<m>> : m \in Amounts} \cup (Amounts \X Amounts) :
       /\ request.layers = 0 => gpus = <<>>
       /\ placement' = <<o, bytes, gpus, SelectGpuDevice(o, bytes, gpus)>>
  /\ UNCHANGED <<request, at, hardware, locals, plugins, devices, selected, error, held>>

-----------------------------------------------------------------------------
LoadPlugin ==
  \/ LoadDriver \/ LoadDriverFails \/ ProbeFails \/ Probed \/ NoTopology
  \/ UnusableTopology \/ FindsNothing \/ FindsBundle \/ FindsLibrary \/ Prepare
  \/ FindsInvalid \/ Missing \/ Load \/ LoadFails

Run ==
  \/ ValidateBackendDirectory \/ NextFamily \/ LoadPlugin \/ Inventory
  \/ SelectBackend \/ Unwind \/ Adopt \/ NoDevice
  \/ GpuPlacement \/ Destroy

RuntimeSpec == Init /\ [][Run]_runtimeVars

-----------------------------------------------------------------------------
(***************************************************************************)
(* LoadPlugin ends in ten places, each with its own handles to close, and  *)
(* an exception ends the constructor with the plugins loaded so far.       *)
(* Whatever was thrown, nothing stays open; a running backend has the      *)
(* handles of its own plugin and no others; and a CUDA plugin never        *)
(* outlives its driver, nor the file in memory it was loaded from.         *)
(***************************************************************************)
HandlesReturned ==
  /\ at \in {"failed", "destroyed"} => held = {}
  /\ at = "running" =>
       /\ (<<"registry", selected>> \in held) = (selected # "cpu")
       /\ \A handle \in held : handle[2] = selected
       /\ held = UNION {Handles(f) : f \in DOMAIN plugins}
  /\ <<"registry", "cuda">> \in held => <<"driver", "cuda">> \in held

\* Sums without a limit, to compare with.
Total(sizes) == FoldLeft(LAMBDA a, m : a + m, 0, sizes)
AtMost(n) == IF n > Limit THEN Limit ELSE n

Detected(f) == hardware[f] \in {"unsupported", "denied", "ready"}
Usable(f) == f \in DOMAIN plugins /\ plugins[f].registry

(***************************************************************************)
(* Offloaded work never ends on the CPU, nor on a family without devices;  *)
(* of two families the one with more memory is taken, even where their     *)
(* sums exceed 64 bits.  When there is none, the error is about hardware   *)
(* that was detected and cannot be used, if there is such hardware, rather *)
(* than about a family the machine does not have.                          *)
(***************************************************************************)
BackendChosen ==
  /\ at = "selected" =>
       /\ (selected = "cpu") = (request.layers = 0)
       /\ selected # "cpu" =>
            /\ Wants(selected) /\ Usable(selected) /\ devices[selected] # <<>>
            /\ \A f \in Families : Wants(f) =>
                 AtMost(Total(devices[f])) <= AtMost(Total(devices[selected]))
  /\ /\ at = "unwind" /\ request.backend = "auto" /\ error[2] \in Families
     /\ \E f \in Families : Detected(f) /\ ~Usable(f)
     => Detected(error[2])

(***************************************************************************)
(* A model is put on a GPU only if the GPU has the memory that was asked   *)
(* for and, with all layers on it, the model and ten per cent more.        *)
(***************************************************************************)
ModelFits ==
  placement # <<>> =>
    LET o == placement[1]  bytes == placement[2]
        gpus == placement[3]  chosen == placement[4]
        free == IF chosen = "GPU1" THEN gpus[1] ELSE gpus[2]
    IN  chosen \in {"GPU1", "GPU2"} =>
          /\ free >= o.min_free
          /\ request.layers = -1 => free = Limit \/ 10 * free >= 11 * bytes
          /\ o.device = "any" => \A i \in DOMAIN gpus : gpus[i] <= free

RuntimeRight == HandlesReturned /\ BackendChosen /\ ModelFits
=============================================================================
