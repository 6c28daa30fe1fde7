CONSTANTS
  Calls = {c1}
  Actions <- MCActions
  Advices <- MCAdvices
  Contexts <- MCContexts
  AllowedLabels = {"ads"}
  ContainClasses = {"malicious"}
  Answers <- MCAnswers
  EvaluatorLists <- MCLists
  WrapperOf <- MCWrapperOf
  Opinions <- MCOpinions
  SandboxAllowsTool = TRUE
  MaxRevision = 2
  NoDigest = "none"
SPECIFICATION FairSpec
INVARIANTS TypeOK TokenNeedsConsensus VerdictHasCause RedactionSurvives VerdictIgnoresOrder RevisionReproducible ThreatOnlyTightens
PROPERTIES DecideTerminates
CHECK_DEADLOCK FALSE
