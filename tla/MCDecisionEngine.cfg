CONSTANTS
  block = block
  isolate = isolate
  Sources = {s1, s2}
  Playbooks = {block, isolate}
  Allowed <- MCAllowed
  Proposals <- MCProposals
  ModelLists <- MCModelLists
  MaxAttempts = 2
  Window = 1
  Faults = {"retrieval", "history_write", "graph"}
  MaxAlerts = 2
  MaxTime = 2
SPECIFICATION FairSpec
INVARIANTS TypeOK EveryPlanRecorded RepeatTruthful ProvenanceTrue
PROPERTY ImplementsService
CHECK_DEADLOCK FALSE
