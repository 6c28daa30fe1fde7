CONSTANTS
  Calls = {c1}
  Actions <- MCActions
  Advices <- MCAdvices
  Contexts <- MCContexts
  AllowedLabels = {"ads"}
  ContainClasses = {"malicious"}
  Answers <- MCAnswers
  EvaluatorLists <- MCLists
  WrapperOf <- MCWrapperOf
  Opinions <- MCOpinions
  SandboxAllowsTool = TRUE
  MaxRevision = 2
  NoDigest = "none"
SPECIFICATION FairSpec
INVARIANTS EvaluatorOrderCarriesNoMeaning
CHECK_DEADLOCK FALSE
