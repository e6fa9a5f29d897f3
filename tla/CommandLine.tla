----------------------------- MODULE CommandLine -----------------------------
(***************************************************************************)
(* What the command lines of `llm-cc`, `llm-cc score` and `llm-cc compare` *)
(* mean, and two ways in which one of them is passed on: the CPU command   *)
(* that is proposed after a GPU failed (backend_policy.cc), and the        *)
(* scoring that a comparison plan records for its workers                  *)
(* (compare/identity.cc).  An argument is a string; it is typed one after  *)
(* the other and read as main.cc, score_cmd.cc and compare/cli.cc do.      *)
(***************************************************************************)
EXTENDS Naturals, Sequences

CONSTANTS
  Programs,      \* bound: the commands that are run
  Typed,         \* bound: the arguments typed where an option is expected
  Given,         \* bound: those typed as a value
  ResponseFile,  \* the lines of the file that @args names
  MaxArguments   \* bound: the arguments of a command line

VARIABLES
  program,  \* the command
  argv,     \* its arguments
  parsed,   \* what the parser has made of them
  answer,   \* how the command takes them
  scoring,  \* the scoring in the plan, of a comparison
  again     \* the second command's environment, and how it takes what it gets

commandVars == <<program, argv, parsed, answer, scoring, again>>

Comparisons == {"identity", "prepare", "run"}

-----------------------------------------------------------------------------
\* Options with a value, and what the value may be.

Numbers == {"-1", "0", "1"}
\* ParseGpuSelectionOption
Selecting == {"--gpu-policy", "--device", "--gpu-min-free"}
\* ParseExecutionOption, SetExecutionOption
Executing == Selecting \cup
  {"--gpu-layers", "--backend", "--backend-dir", "--batch-size",
   "--entropy-reduction", "--flash-attn", "--kv-cache-type", "--kv-offload"}
\* ParseScoringOption
Scoring == Executing \cup {"--context", "--hierarchy", "--tau-percentile", "--tau", "--alpha"}
\* ParsePlanning
Planning ==
  {"--repo", "--head", "--target", "--identity", "--output-dir", "--cache",
   "--store-options", "--cache-concurrency", "--refresh-days", "--expire-days",
   "--max-workers", "--max-file-bytes", "--default-rules", "--presentation"}

ValuedOptions ==
  CASE program = "analyze" ->
         Scoring \cup {"--hotspots", "--score", "--format", "--progress", "--lang",
                       "--model", "--model-name"}
    [] program = "score" ->
         Executing \cup {"--context-size", "--threads", "--model", "--model-name",
                         "--prompt", "--file", "--bos", "--progress"}
    [] program = "identity" ->
         Scoring \cup {"--model", "--model-name", "--model-sha256", "--model-bytes",
                       "--execution-host", "--scorer-image"}
    [] program = "prepare" ->
         Scoring \cup Planning \cup
         {"--model", "--model-name", "--model-sha256", "--model-bytes",
          "--execution-host", "--scorer-image"}
    [] program = "run" ->
         Scoring \cup Planning \cup
         {"--model", "--model-name", "--deadline-seconds", "--progress"}

Modes == {"auto", "always", "never"}
Takes(option, value) ==
  CASE option \in {"--gpu-layers", "--tau", "--tau-percentile", "--alpha",
                   "--cache-concurrency", "--refresh-days", "--expire-days",
                   "--max-workers"} -> value \in Numbers
    [] option \in {"--context", "--context-size", "--batch-size", "--threads"} -> value = "1"
    [] option \in {"--gpu-min-free", "--hotspots", "--model-bytes",
                   "--max-file-bytes", "--deadline-seconds"} -> value \in {"0", "1"}
    [] option \in {"--progress", "--bos"} -> value \in Modes
    [] option = "--backend" -> value \in {"auto", "cpu", "cuda", "rocm"}
    [] option = "--gpu-policy" -> value \in {"preserve", "most-free"}
    [] option = "--entropy-reduction" -> value \in {"auto", "host", "device"}
    [] option = "--flash-attn" -> value \in {"auto", "on", "off"}
    [] option = "--kv-cache-type" -> value \in {"f16", "q8_0", "q4_0"}
    [] option = "--kv-offload" -> value \in {"on", "off"}
    [] option = "--hierarchy" -> value \in {"structural", "reference"}
    [] option = "--score" -> value \in {"raw", "lmcc", "density", "mean"}
    [] option = "--format" -> value \in {"jsonl", "json", "text"}
    [] option = "--lang" -> value \in {"auto", "python"}
    [] OTHER -> TRUE   \* taken as it is

FlagsOf ==
  CASE program = "analyze" ->
         {"--force-cpu", "--assume-yes", "-y", "--no-download", "--include-headers",
          "--no-ignore", "--no-cache", "--backend-diagnostics"}
    [] program = "score" ->
         {"--entropy", "--force-cpu", "--assume-yes", "-y", "--no-download",
          "--override-memory-check", "--backend-diagnostics"}
    [] program \in Comparisons -> {"--no-download", "--force-cpu"}

\* Headers are always included.
Meaning(flag) == CASE flag = "-y" -> {"--assume-yes"}
                   [] flag = "--include-headers" -> {}
                   [] OTHER -> {flag}

Spelled(value) == IF value = "json" THEN "jsonl" ELSE value

-----------------------------------------------------------------------------
\* The parser, an argument at a time.

Empty == [status |-> "reading", pending |-> "none", options |-> <<>>, flags |-> {},
          sources |-> <<>>]
\* Help, the version, or an error and the usage.
Ended == [Empty EXCEPT !.status = "ended"]

\* --prompt and --file, --model and --model-name exclude each other.
Excluded(options) ==
  \E pair \in {{"--prompt", "--file"}, {"--model", "--model-name"}} :
    pair \subseteq DOMAIN options

\* The last value of an option counts.
With(options, option, value) ==
  [o \in DOMAIN options \cup {option} |-> IF o = option THEN value ELSE options[o]]

\* SetAnalyzeOption, SetOption, ParseScoring, ParseModel, ParsePlanning.
SetOption(p, value) ==
  LET options == With(p.options, p.pending, Spelled(value)) IN
  IF ~Takes(p.pending, value) \/ Excluded(options) THEN Ended
  ELSE [p EXCEPT !.pending = "none", !.options = options]

IsOption(argument) ==
  argument \in Scoring \cup Planning \cup
    {"--hotspots", "--score", "--format", "--progress", "--lang", "--model",
     "--model-name", "--context-size", "--threads", "--prompt", "--file", "--bos",
     "--entropy", "--force-cpu", "--assume-yes", "-y", "--no-download",
     "--include-headers", "--no-ignore", "--no-cache", "--override-memory-check",
     "--backend-diagnostics", "-1", "-h"}

Read(p, argument) ==
  IF p.status # "reading" THEN p
  ELSE IF p.pending # "none" THEN SetOption(p, argument)
  ELSE IF argument \in FlagsOf
    THEN [p EXCEPT !.flags = @ \cup Meaning(argument)]
  ELSE IF argument \in ValuedOptions THEN [p EXCEPT !.pending = argument]
  ELSE IF program = "analyze" /\ ~IsOption(argument)
    THEN [p EXCEPT !.sources = Append(@, argument)]
  ELSE Ended

\* A comparison reads further arguments from a file where it expects an option.
ReadResponse(p) ==
  LET read[i \in 0..Len(ResponseFile)] ==
        IF i = 0 THEN p ELSE Read(read[i - 1], ResponseFile[i])
  IN  read[Len(ResponseFile)]

ReadArgument(p, argument) ==
  IF program \in Comparisons /\ p.pending = "none" /\ argument = "@args"
  THEN ReadResponse(p)
  ELSE Read(p, argument)

ParseArguments(arguments) ==
  LET read[i \in 0..Len(arguments)] ==
        IF i = 0 THEN Empty ELSE ReadArgument(read[i - 1], arguments[i])
  IN  read[Len(arguments)]

-----------------------------------------------------------------------------
\* What is checked when all of them are read.

Value(options, option, default) ==
  IF option \in DOMAIN options THEN options[option] ELSE default

\* ResolveExecutionOptions
Contradictory(backend, layers, forced) ==
  LET accelerator == backend \in {"cuda", "rocm"} IN
  \/ forced /\ accelerator
  \/ (forced \/ backend = "cpu") /\ layers \notin {"none", "0"}
  \/ accelerator /\ layers = "0"
ResolveExecution(backend, layers, forced) ==
  IF forced \/ backend = "cpu" \/ layers = "0" THEN <<"cpu", "0">>
  ELSE <<backend, IF layers = "none" THEN "-1" ELSE layers>>

ShouldFetchBackend(execution) ==
  execution[1] \in {"cuda", "rocm"} \/ (execution[1] = "auto" /\ execution[2] # "0")

\* ValidateGpuSelection
Unsound(options, layers) ==
  LET chosen == "--device" \in DOMAIN options
                \/ Value(options, "--gpu-policy", "preserve") # "preserve"
      floor == Value(options, "--gpu-min-free", "0") # "0"
  IN  (floor /\ ~chosen) \/ (layers = "0" /\ (chosen \/ floor))

\* ApplyBackendDirectoryEnvironment: LLM_CC_BACKEND_DIR is "unset", the name
\* of a "directory", or of one that is "missing".
Directory(options, execution, environment) ==
  IF "--backend-dir" \in DOMAIN options THEN "directory"
  ELSE IF ShouldFetchBackend(execution) THEN environment ELSE "unset"

\* ValidateScoringSettings, and the checks of ParseArguments that score has
\* instead.
BadScoring(options, execution, environment) ==
  \/ Unsound(options, execution[2])
  \/ Directory(options, execution, environment) = "missing"
  \/ {"--tau", "--tau-percentile"} \subseteq DOMAIN options
  \/ /\ Value(options, "--kv-cache-type", "q8_0") # "f16"
     /\ Value(options, "--flash-attn", "on") = "off"
  \/ \E o \in {"--tau", "--tau-percentile", "--alpha"} : Value(options, o, "0") = "-1"
  \/ /\ program = "score" /\ execution[2] # "-1"
     /\ Value(options, "--entropy-reduction", "auto") = "device"

Answer(p, accepted, execution, directory) ==
  [accepted |-> accepted, execution |-> execution, directory |-> directory,
   options |-> p.options, flags |-> p.flags, sources |-> p.sources]
Refused == Answer(Empty, FALSE, <<"none", "none">>, "unset")

Validate(p, environment) ==
  LET backend == Value(p.options, "--backend", "auto")
      layers == Value(p.options, "--gpu-layers", "none")
      forced == "--force-cpu" \in p.flags
      execution == ResolveExecution(backend, layers, forced)
  IN  IF \/ Contradictory(backend, layers, forced)
         \/ BadScoring(p.options, execution, environment)
      THEN Refused
      ELSE Answer(p, TRUE, execution, Directory(p.options, execution, environment))

\* What else each command asks for.
Requires(p) ==
  CASE program = "analyze" -> p.sources # <<>>
    [] program = "score" -> \E o \in {"--model", "--model-name"} : o \in DOMAIN p.options
    [] program = "identity" -> TRUE
    [] program = "prepare" -> {"--head", "--target", "--identity", "--output-dir"}
                                \subseteq DOMAIN p.options
    [] program = "run" -> {"--target", "--output-dir"} \subseteq DOMAIN p.options
KnownModel(p) == Value(p.options, "--model-name", "qwen") = "qwen"

Accept(p, environment) ==
  IF p.status = "reading" /\ p.pending = "none" /\ Requires(p) /\ KnownModel(p)
  THEN Validate(p, environment)
  ELSE Refused

Init ==
  /\ program \in Programs
  /\ argv = <<>> /\ parsed = Empty
  /\ answer = Refused /\ scoring = <<>> /\ again = <<>>

\* A refused command line is forgotten.
Type(argument) ==
  /\ parsed.status = "reading" /\ answer = Refused
  /\ Len(argv) < MaxArguments
  /\ argument \in (IF parsed.pending = "none" THEN Typed ELSE Given)
  /\ parsed' = ReadArgument(parsed, argument)
  /\ argv' = IF parsed'.status = "reading" THEN Append(argv, argument) ELSE <<>>
  /\ UNCHANGED <<program, answer, scoring, again>>

Enter ==
  /\ parsed.status = "reading" /\ answer = Refused
  /\ \E environment \in {"unset", "directory", "missing"} :
       answer' = Accept(parsed, environment)
  /\ UNCHANGED <<program, argv, parsed, scoring, again>>

-----------------------------------------------------------------------------
\* CpuRecoveryCommand

Placing == Selecting \cup {"--backend", "--gpu-layers", "--backend-dir",
                           "--entropy-reduction"}

\* A slip that the checks notice: a flag that the command line has and this
\* list has not.
FlagsBefore ==
  {"--assume-yes", "-y", "--no-download", "--include-headers", "--no-ignore",
   "--entropy", "--override-memory-check", "--backend-diagnostics"}

Flags ==
  {"--assume-yes", "-y", "--no-download", "--include-headers", "--no-ignore",
   "--no-cache", "--entropy", "--override-memory-check", "--backend-diagnostics"}

\* Option values are data even when they spell an execution option.
Recover(r, argument) ==
  IF r.skip THEN [r EXCEPT !.skip = FALSE]
  ELSE IF r.copy THEN [r EXCEPT !.copy = FALSE, !.command = Append(@, argument)]
  ELSE IF argument \in Placing THEN [r EXCEPT !.skip = TRUE]
  ELSE IF argument = "--force-cpu" THEN r
  ELSE [r EXCEPT !.copy = IsOption(argument) /\ argument \notin Flags,
                 !.command = Append(@, argument)]

Recovered(arguments) ==
  LET recovered[i \in 0..Len(arguments)] ==
        IF i = 0 THEN [skip |-> FALSE, copy |-> FALSE, command |-> <<>>]
        ELSE Recover(recovered[i - 1], arguments[i])
  IN  recovered[Len(arguments)]

CpuRecoveryCommand(arguments) == Append(Recovered(arguments).command, "--force-cpu")

\* The GPU failed (main.cc:1246, score_cmd.cc:1824) and the user tries again.
Rerun ==
  /\ program \notin Comparisons
  /\ answer.accepted /\ answer.execution[2] # "0" /\ again = <<>>
  /\ \E environment \in {"unset", "directory", "missing"} :
       again' = <<environment,
                  Accept(ParseArguments(CpuRecoveryCommand(argv)), environment)>>
  /\ UNCHANGED <<program, argv, parsed, answer, scoring>>

-----------------------------------------------------------------------------
\* A comparison: ResolveScoring of compare/cli.cc.

Reduction(options) == Value(options, "--entropy-reduction", "auto")

\* RequireExplicitScoring and CheckDeviceReduction
Explicit(options, execution) ==
  /\ execution[1] # "auto"
  /\ Reduction(options) # "auto"
  /\ Value(options, "--flash-attn", "on") # "auto"
  /\ Reduction(options) = "device" => execution[2] = "-1"

Pinned(options) == {"--model-sha256", "--model-bytes"} \subseteq DOMAIN options
ModelNamedOnce(options) ==
  /\ ("--model-sha256" \in DOMAIN options) = ("--model-bytes" \in DOMAIN options)
  /\ Pinned(options) => /\ {"--model", "--model-name"} \cap DOMAIN options = {}
                        /\ options["--model-bytes"] # "0"

\* What the session of this machine finds for "auto": a GPU of either family,
\* and the reducer that goes with the layers (analysis_session.cc:108).
Settled(options, execution, family) ==
  [backend |-> IF execution[1] = "auto" THEN family ELSE execution[1],
   reduction |-> IF Reduction(options) # "auto" THEN Reduction(options)
                 ELSE IF execution[2] = "-1" THEN "device" ELSE "host"]

\* ScoringJson, with BackendCacheIdentity and ComparisonTau
Absent == "null"
ScoringJson(options, execution) ==
  [backend |-> IF execution = <<"cpu", "0">> THEN <<"cpu">> ELSE execution,
   context |-> Value(options, "--context", "default"),
   batch_size |-> Value(options, "--batch-size", "default"),
   entropy_reduction |-> Reduction(options),
   flash_attn |-> Value(options, "--flash-attn", "on"),
   kv_cache_type |-> Value(options, "--kv-cache-type", "q8_0"),
   kv_offload |-> Value(options, "--kv-offload", "on"),
   hierarchy |-> Value(options, "--hierarchy", "structural"),
   tau |-> IF "--tau-percentile" \in DOMAIN options THEN Absent
           ELSE Value(options, "--tau", "default"),
   tau_percentile |-> Value(options, "--tau-percentile", Absent),
   alpha |-> Value(options, "--alpha", "default")]

\* Only `run` settles "auto"; the stages of a pipeline must be told.
ResolveScoring ==
  /\ program \in Comparisons
  /\ answer.accepted /\ scoring = <<>>
  /\ answer.directory = "unset" /\ ModelNamedOnce(answer.options)
  /\ program # "run" => Explicit(answer.options, answer.execution)
  /\ \E family \in {"cuda", "rocm"} :
       LET settled == Settled(answer.options, answer.execution, family)
           options == With(With(answer.options, "--backend", settled.backend),
                           "--entropy-reduction", settled.reduction)
           layers == Value(answer.options, "--gpu-layers", "none")
           forced == "--force-cpu" \in answer.flags
           execution == IF answer.execution[1] = "auto"
                        THEN ResolveExecution(settled.backend, layers, forced)
                        ELSE answer.execution
       IN  /\ Explicit(options, execution)
           /\ scoring' = ScoringJson(options, execution)
  /\ UNCHANGED <<program, argv, parsed, answer, again>>

\* SettingsFromScoring, of a worker with an environment of its own.
ReadBack(s) ==
  [o \in {"--backend", "--gpu-layers", "--context", "--batch-size", "--entropy-reduction",
          "--flash-attn", "--kv-cache-type", "--kv-offload", "--hierarchy", "--alpha"}
         \cup (IF s.tau = Absent THEN {} ELSE {"--tau"})
         \cup (IF s.tau_percentile = Absent THEN {} ELSE {"--tau-percentile"}) |->
     CASE o = "--backend" -> s.backend[1]
       [] o = "--gpu-layers" -> IF s.backend = <<"cpu">> THEN "0" ELSE s.backend[2]
       [] o = "--context" -> s.context
       [] o = "--batch-size" -> s.batch_size
       [] o = "--entropy-reduction" -> s.entropy_reduction
       [] o = "--flash-attn" -> s.flash_attn
       [] o = "--kv-cache-type" -> s.kv_cache_type
       [] o = "--kv-offload" -> s.kv_offload
       [] o = "--hierarchy" -> s.hierarchy
       [] o = "--tau" -> s.tau
       [] o = "--tau-percentile" -> s.tau_percentile
       [] o = "--alpha" -> s.alpha]

SettingsFromScoring(s, environment) ==
  LET read == Validate([Empty EXCEPT !.options = ReadBack(s)], environment) IN
  IF read.accepted /\ Explicit(read.options, read.execution)
     /\ ScoringJson(read.options, read.execution) = s
  THEN read ELSE Refused

\* Score: RequireBuiltInBackends too.
Work ==
  /\ scoring # <<>> /\ again = <<>>
  /\ \E environment \in {"unset", "directory", "missing"} :
       LET settings == SettingsFromScoring(scoring, environment) IN
       again' = <<environment,
                  IF settings.directory = "unset" THEN settings ELSE Refused>>
  /\ UNCHANGED <<program, argv, parsed, answer, scoring>>

Command == (\E argument \in Typed \cup Given : Type(argument))
           \/ Enter \/ Rerun \/ ResolveScoring \/ Work

CommandSpec == Init /\ [][Command]_commandVars

-----------------------------------------------------------------------------
\* The rerun is accepted wherever it is typed, runs on the CPU, and is in all
\* other respects what the user had asked for.
OnCpu(environment, rerun) ==
  /\ rerun.accepted
  /\ rerun.execution = <<"cpu", "0">> /\ rerun.directory = "unset"
  /\ rerun.sources = answer.sources
  /\ rerun.flags = answer.flags \cup {"--force-cpu"}
  /\ DOMAIN rerun.options = DOMAIN answer.options \ Placing
  /\ \A o \in DOMAIN rerun.options : rerun.options[o] = answer.options[o]

\* A worker reads from the plan the scoring that the coordinator was given, or
\* refuses it because of LLM_CC_BACKEND_DIR.
AsPlanned(environment, worker) ==
  /\ environment = "unset" \/ answer.execution[1] = "cpu" => worker.accepted
  /\ worker.accepted =>
       /\ worker.directory = "unset"
       /\ worker.execution[2] = answer.execution[2]
       /\ answer.execution[1] \in {"auto", worker.execution[1]}
       /\ \A o \in (DOMAIN answer.options \cap Scoring)
                  \ (Selecting \cup {"--backend-dir", "--backend", "--gpu-layers"}) :
            answer.options[o] \in {"auto", worker.options[o]}

(***************************************************************************)
(* A command line that is passed on means the same to whoever gets it: the *)
(* user who is told to try the CPU (backend_policy.cc:129) and the worker  *)
(* that reads the plan (compare/identity.cc:233).                          *)
(***************************************************************************)
PassedOn ==
  again # <<>> =>
    IF program \in Comparisons THEN AsPlanned(again[1], again[2])
    ELSE OnCpu(again[1], again[2])
=============================================================================
