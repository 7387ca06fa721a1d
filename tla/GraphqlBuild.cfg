SPECIFICATION Spec
CONSTANTS
    Requests = {r1}
    Members <- MCMembers
    Supplemented <- MCSupplemented
    InitInstances <- MCInstances
    Generations <- MCGenerations
    Queries <- MCQueries
    Depth <- MCDepth
    MaxRefreshes = 2
INVARIANTS
    AnswerIsEvaluation
    ErrorIffInvalid
    
