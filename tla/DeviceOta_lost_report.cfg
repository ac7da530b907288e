SPECIFICATION Spec
CONSTANTS
  Versions = {1, 2}
  Factory = 1
  MaxTrialBoots = 3
  Soak = 1
  Deadline = 2
  AdoptedConfig = FALSE
  ResetPoints <- SafePoints
INVARIANT OutcomeReported
