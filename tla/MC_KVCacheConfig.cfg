SPECIFICATION PlanSpec
CONSTANTS
    None = None
    max_num_batched_tokens = 4
    Cases <- MCCases
INVARIANTS PlanFitsMemory LayersKeepApart GroupsAreServable AutoFitIsLongest EnoughBlocks
CHECK_DEADLOCK FALSE
