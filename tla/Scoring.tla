------------------------------- MODULE Scoring -------------------------------
(***************************************************************************)
(* EntropyScorer of src/src/score_cmd.cc: one loaded model scores input    *)
(* after input.  An input longer than the context is decoded in windows    *)
(* that overlap by half a context; the tokens of the overlap are decoded   *)
(* again but not scored again.  The inference context outlives the input   *)
(* it was created for and is reused when it is large enough.               *)
(***************************************************************************)
EXTENDS Naturals, Sequences

CONSTANTS
  MaxContext,  \* bound: tokens of a context
  MaxBatch,    \* bound: tokens of a batch
  MaxTokens,   \* bound: tokens of an input
  MaxInputs    \* bound: inputs

VARIABLES
  settings,  \* context_limit_, batch_size_, use_gpu_, and whether the model
             \* wants a BOS token; on a GPU the entropies are reduced there
  input,     \* the input in progress: its number, and its tokens with BOS
  stage,     \* where ScoreInput is
  window,    \* window_index
  source,    \* local_source
  capacity,  \* context_capacity_, 0 without a context
  memory,    \* the tokens in the context, in the order of their positions
  targets,   \* device_state.targets
  records,   \* the records of the input so far
  ended      \* how the last input ended

scorerVars == <<settings, input, stage, window, source, capacity, memory,
                targets, records, ended>>

Least(a, b) == IF a <= b THEN a ELSE b
Most(a, b) == IF a >= b THEN a ELSE b

-----------------------------------------------------------------------------
\* How an input is cut into windows.

\* PlanScoreWindows, for a context of at least two tokens.
WindowCount(tokens, context) ==
  IF tokens < 2 THEN 0
  ELSE IF tokens <= context THEN 1
  ELSE 2 + (tokens - context - 1) \div (context \div 2)

WindowEnd(tokens, context, begin) ==
  IF tokens - begin < context THEN tokens ELSE begin + context

\* A slip that the checks notice: a window scores all of its tokens.
WindowRescored(tokens, context, index) ==
  LET begin == index * (context \div 2)
  IN  [begin |-> begin, end |-> WindowEnd(tokens, context, begin),
       scored |-> begin + 1]

\* ScoreWindowAt: what the window before has scored is not scored again.
ScoreWindowAt(tokens, context, index) ==
  LET stride == context \div 2
      begin  == index * stride
  IN  [begin |-> begin, end |-> WindowEnd(tokens, context, begin),
       scored |-> IF index = 0 THEN 1
                  ELSE WindowEnd(tokens, context, begin - stride)]

ContextRequestCapacity(limit, batch, required) ==
  Least(limit, Most(required, batch))

ScoreMetadata(tokens, context) ==
  [stride |-> context \div 2, windows |-> WindowCount(tokens, context)]

\* MetadataFromRecords: what a cached entry says of the run that made it.
MetadataFromRecords(scored, context) ==
  LET bos      == IF scored # <<>> /\ scored[1].entropy THEN 1 ELSE 0
      inferred == Len(scored) + bos
      stride   == context \div 2
  IN  [stride |-> stride,
       windows |-> IF context < 2 \/ inferred < 2 THEN 0
                   ELSE IF inferred <= context THEN 1
                   ELSE 1 + (inferred - context + stride - 1) \div stride]

-----------------------------------------------------------------------------
Init ==
  /\ settings \in [context : 1..MaxContext, batch : 1..MaxBatch,
                   gpu : BOOLEAN, bos : BOOLEAN]
  /\ input = [number |-> 0, tokens |-> 0]
  /\ stage = "idle"
  /\ window = 0 /\ source = 0 /\ capacity = 0
  /\ memory = <<>> /\ targets = <<>> /\ records = <<>>
  /\ ended = "none"

Bos == IF settings.bos THEN 1 ELSE 0
Window == ScoreWindowAt(input.tokens, settings.context, window)
\* The token at this place of the input.
TokenAt(i) == [input |-> input.number, token |-> i]

\* ScoreRecordsWithMetadata up to the first window.
Start ==
  /\ stage = "idle" /\ input.number < MaxInputs
  /\ \E text \in 0..MaxTokens :
       input' = [number |-> input.number + 1, tokens |-> text + Bos]
  /\ records' = <<>>
  /\ stage' = "plan"
  /\ UNCHANGED <<settings, window, source, capacity, memory, targets, ended>>

Done == stage' = "idle" /\ ended' = "scored"

\* The first token of an input without BOS has no context to be scored in.
Plan ==
  /\ stage = "plan"
  /\ input.tokens < 2 \/ settings.context >= 2
  /\ records' = IF input.tokens > 0 /\ ~settings.bos
                  THEN <<[token |-> 0, entropy |-> FALSE, seen |-> <<>>]>>
                  ELSE <<>>
  /\ IF input.tokens < 2
       THEN Done /\ UNCHANGED <<window, source>>
       ELSE /\ stage' = "prepare" /\ window' = 0 /\ source' = 0
            /\ UNCHANGED ended
  /\ UNCHANGED <<settings, input, capacity, memory, targets>>

\* An exception: the context is given up, and on a GPU that has begun to
\* infer the caller is told that the CPU may help.
Thrown(started) ==
  /\ stage' = "idle"
  /\ ended' = IF settings.gpu /\ started THEN "recoverable" ELSE "thrown"
  /\ capacity' = 0 /\ memory' = <<>>
  /\ UNCHANGED <<settings, input, window, source, targets, records>>

PlanFails ==
  /\ stage = "plan"
  /\ input.tokens >= 2 /\ settings.context < 2
  /\ Thrown(FALSE)

\* PrepareContext; llama.cpp may allocate more than it was asked for.
Required == Window.end - Window.begin
ReuseContext ==
  /\ stage = "prepare"
  /\ capacity >= Required
  /\ memory' = <<>>
  /\ stage' = "decode"
  /\ UNCHANGED <<settings, input, window, source, capacity, targets, records,
                 ended>>

CreateContext ==
  /\ stage = "prepare"
  /\ capacity < Required
  /\ \E padding \in 0..1 :
       capacity' = padding + ContextRequestCapacity(settings.context,
                                                    settings.batch, Required)
  /\ memory' = <<>>
  /\ stage' = "decode"
  /\ UNCHANGED <<settings, input, window, source, targets, records, ended>>

CreateContextFails ==
  /\ stage = "prepare"
  /\ capacity < Required
  /\ Thrown(TRUE)

\* A batch does not mix tokens that are scored with others.
FirstScored == Window.scored - Window.begin - 1
Scoring == source >= FirstScored
BatchSize ==
  LET available == Required - 1 - source
  IN  Least(Least(settings.batch, Required - 1),
            IF Scoring THEN available ELSE Least(available, FirstScored - source))

\* The loop's next round, or the next window.
Advance(count) ==
  IF source + count + 1 < Required
    THEN /\ source' = source + count
         /\ stage' = "decode" /\ UNCHANGED <<window, ended>>
    ELSE /\ source' = 0
         /\ window' = window + 1
         /\ IF window + 1 < WindowCount(input.tokens, settings.context)
              THEN stage' = "prepare" /\ UNCHANGED ended
              ELSE Done

\* llama_decode appends the batch to what the context holds.
Batch(count) == [i \in 1..count |-> TokenAt(Window.begin + source + i - 1)]

Decode ==
  /\ stage = "decode"
  /\ memory' = memory \o Batch(BatchSize)
  /\ targets' = IF settings.gpu /\ Scoring
                  THEN [i \in 1..BatchSize |-> Window.begin + source + i]
                  ELSE <<>>
  /\ IF Scoring
       THEN stage' = "reduce" /\ UNCHANGED <<window, source, ended>>
       ELSE Advance(BatchSize)
  /\ UNCHANGED <<settings, input, capacity, records>>

\* The scores of a batch: the sampler has computed them on the device for the
\* targets it was given, or they are computed here from the rows of logits.
Score(i) ==
  [token |-> IF settings.gpu THEN targets[i] ELSE Window.begin + source + i,
   entropy |-> TRUE, seen |-> SubSeq(memory, 1, source + i)]

Reduce ==
  /\ stage = "reduce"
  /\ records' = records \o [i \in 1..BatchSize |-> Score(i)]
  /\ Advance(BatchSize)
  /\ UNCHANGED <<settings, input, capacity, memory, targets>>

\* The decoder fails, attention would run on the CPU, a row is missing or
\* unsound.
InferenceFails ==
  /\ stage \in {"decode", "reduce"}
  /\ Thrown(TRUE)

ScoreInput ==
  \/ Start \/ Plan \/ PlanFails
  \/ ReuseContext \/ CreateContext \/ CreateContextFails
  \/ Decode \/ Reduce \/ InferenceFails

Spec == Init /\ [][ScoreInput]_scorerVars

-----------------------------------------------------------------------------
(***************************************************************************)
(* Whatever was scored or failed before, an input that ends well has one   *)
(* record for each of its tokens, in order, and each token was scored with *)
(* the tokens of this input that come right before it in the context, at   *)
(* least half a context of them where there are as many, and with nothing  *)
(* else; the context never has to hold more than it was made for           *)
(* (score_cmd.cc:1093-1399, 1637-1645); and the metadata that is           *)
(* reconstructed when the records come from the cache is that of this run  *)
(* (analyze.cc:186, score_cmd.cc:1260, 1706).                              *)
(***************************************************************************)
EveryTokenScored ==
  /\ Len(memory) <= capacity
  /\ ended = "scored" /\ stage = "idle" =>
       /\ [i \in DOMAIN records |-> records[i].token] =
            [i \in 1..(input.tokens - Bos) |-> i - 1 + Bos]
       /\ \A r \in {records[i] : i \in DOMAIN records} : r.entropy =>
            /\ Len(r.seen) >= Least(r.token, settings.context \div 2)
            /\ r.seen = [i \in 1..Len(r.seen) |-> TokenAt(r.token - Len(r.seen) + i - 1)]
       /\ MetadataFromRecords(records, settings.context) =
            ScoreMetadata(input.tokens, settings.context)
=============================================================================
