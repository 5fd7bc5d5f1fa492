\* Pull requests close, reopen and merge, tags are pushed and operators dispatch
\* while earlier runs wait for their reviewers; one dispatch, review or delivery fails.
SPECIFICATION FairSpec
CONSTANTS
    PullRequests <- MCPullRequests
    PullRequest <- MCPullRequest
    Tags = {"v1", "v2"}
    None = "none"
    Faults = {"request", "reject", "deliver"}
    MaxFaults = 1
    MaxEvents = 3
INVARIANTS
    TypeOK
    OneDeliveryAtATime
    OnlyPromotionsDelivered
PROPERTIES
    PromotionsDelivered
    PushedTagsPublished
\* All events are over and all runs have ended.
CHECK_DEADLOCK FALSE
