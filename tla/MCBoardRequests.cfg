CONSTANTS
    DefaultOrderOffset = 2
    NoNeighbor = NoNeighbor
    Workflows = {w1, w2}
    Statuses = {s1, s2, s3}
    Stories = {x1, x2}
    NoWorkflow = NoWorkflow
    NoStatus = NoStatus
    NoStory = NoStory
    TemplateSize = 1
    MaxNumWorkflows = 2
    StatusOrders <- MCStatusOrders
    StoryOrders <- MCStoryOrders
    Requests = {r1, r2}
    Ops <- AllOps
    OverlapOps <- OpsWithinWorkflows
    MaxOverlapStories = 1
    MaxOverlapStatuses = 2
    NoRequest = NoRequest
    Nothing = Nothing
SPECIFICATION BoardSpec
SYMMETRY Symmetry
INVARIANT StoriesAreInTheirWorkflow
PROPERTY SerialBoard
