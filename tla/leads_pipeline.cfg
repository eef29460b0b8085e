\* Every provider, payload and failure; scores on both sides of every threshold.
SPECIFICATION FairSpec
CONSTANTS
  Requests = {r1}
  MaxRetries = 4
  Timeout = 2
  BaseDelay = 2
  Slow = 4
  Stored = {None, "gemini", "openai", "anthropic", "deepseek", "mistral"}
  FernetKeys = {"current", "changed", "unset"}
  Scores <- EdgeScores
  Faults = TRUE
  None = None
INVARIANTS TypeOK AnswerMatchesTable WithinDeadline GivesUpAfterAllRetries
PROPERTIES EveryLeadAnswered KeepsPromise
