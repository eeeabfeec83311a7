SPECIFICATION Spec
CONSTANTS
  outer = outer  inner = inner  None = None
  Calls <- MCCalls
  Parent <- MCParent
  Outermost <- Recorder
  Middle <- NoCapability
  Innermost <- Guardrail
  PolicyEnabled = TRUE
  Reraise = {"denial"}
  Overrides <- MCOverrides
  Raises <- MCRaises
  ToolRaises <- MCToolRaises
  MaxEntries <- OuterAgain
CHECK_DEADLOCK FALSE
INVARIANTS TypeOK OneRecordPerRun ConversionComesLast FailuresAreContained
