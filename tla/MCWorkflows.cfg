CONSTANTS
    DefaultOrderOffset = 2
    NoNeighbor = NoNeighbor
    Workflows = {w1, w2}
    Statuses = {s1, s2, s3}
    Stories = {x1,x2,x3,x4}
    NoWorkflow = NoWorkflow
    NoStatus = NoStatus
    NoStory = NoStory
    TemplateSize = 1
    MaxNumWorkflows = 2
    StatusOrders <- MCFewOrders
    StoryOrders <- MCOrders
SPECIFICATION Spec
SYMMETRY Symmetry
INVARIANTS
    NoTies
    StoriesAreInTheirWorkflow
    FollowersSeeTheBoard
    BoardPagesFit
