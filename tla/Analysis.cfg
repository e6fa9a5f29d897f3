SPECIFICATION MCSpec
CONSTANTS
  MaxContext = 4
  MaxBatch = 3
  MaxTokens = 6
  MaxInputs = 2
  Limit = 6
  MaxSource = 6
  MaxRemovals = 2
  MaxNodes = 6
  SyntaxDepths = {3}
  Layouts <- MCLayouts
  MaxEvents = 2
  Depths = {1, 2}
  Letters = {"x"}
  MaxText = 4
  MaxMemory = 20
  Amounts = {2, 11, 13, 20}
  Programs = {"analyze", "score", "identity", "run"}
  Typed = {"src", "--model", "--backend", "--gpu-layers", "--device",
           "--entropy-reduction", "--flash-attn", "--tau", "--tau-percentile",
           "--force-cpu", "--no-cache", "--entropy", "-y", "@args"}
  Given = {"cuda", "auto", "1", "-1", "0", "device", "host", "off", "--backend",
           "--no-cache"}
  ResponseFile <- MCResponse
  MaxArguments = 5
  Wide = 16
  MaxFile = 9
  Magic = 1
  Footer = 2
  Header = 1
  EntryHeader = 1
  MaxPath = 2
  MaxEntries = 2
  MaxFileBytes = 2
  Top = 1
  MaxFiles = 2
  MaxMissing = 1
INVARIANTS EveryTokenScored ScopesTrue PreparedTrue
           HierarchyTrue AlignedTrue RuntimeRight PassedOn EntriesWithin ReportAddsUp
CHECK_DEADLOCK FALSE
