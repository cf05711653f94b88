SPECIFICATION Spec
CONSTANTS
  Handles = {llm, publish}
  Budgeted = {llm}
  Intents = {publish}
  Calls = {c1, c2, c3}
  Submissions = {s1, s2, s3}
  Keys = {k1}
  MaxCalls = 2
  MaxTokens = 1
  MaxUsage = 2
  None = None
SYMMETRY Symmetry
CHECK_DEADLOCK FALSE
INVARIANTS OvershootBounded LedgerIsWhatRan CommitsOnce
