------------------------------ MODULE ReleaseLanes -----------------------------
(***************************************************************************)
(* The release lanes of the home: tag-promoted-release.yml, hotfix-delivery*)
(* .yml and publish-release-artifacts.yml under .github/workflows.  A pull *)
(* request that closes starts a detection in both delivery lanes; a        *)
(* detection that finds a merged promotion dispatches a second run on the  *)
(* main line, which reviewers admit and which delivers the branch.         *)
(* Operators dispatch the same runs by hand, and tags start the publication*)
(* of their release.  A merge commit is named by the number of the pull    *)
(* request whose merge it is.                                              *)
(*                                                                         *)
(* GitHub queues runs by the concurrency group each workflow names: one run*)
(* of a group is in progress and one is pending, and a newer pending run   *)
(* cancels the older one.  What a delivery or a publication does is the    *)
(* reusable workflow of another home; here it happens, or it fails.        *)
(***************************************************************************)
EXTENDS Naturals, FiniteSets

CONSTANTS
    PullRequests,    \* pull request numbers
    PullRequest,     \* number |-> [kind, branch, toMain, ownRepository]
    Tags,            \* the v<semver> tags
    None,            \* what a run or an event does not have: a pull request,
                     \* a ref, a merge commit
    Faults,          \* which of "request", "reject", "deliver" can happen
    MaxFaults,       \* bound on the faults of a behavior
    MaxEvents        \* bound on what starts runs: closed pull requests, tags
                     \* and operators' dispatches

VARIABLES
    state,           \* number |-> "open", "closed" or "merged"
    pushed,          \* the tags pushed
    runs,            \* the workflow runs that have not ended
    delivered,       \* what was delivered: lane, branch or tag, merge commit
    requested,       \* what of it an operator dispatched (auxiliary)
    superseded,      \* what a newer dispatch of its branch took the place of
                     \* while it waited (auxiliary)
    failed,          \* what a fault happened to (auxiliary)
    faults, events   \* how many there were (auxiliary: bounds them)

vars == <<state, pushed, runs, delivered, requested, superseded, failed, faults,
          events>>

DeliveryLanes == {"release", "hotfix"}

Branches == {PullRequest[n].branch : n \in PullRequests}

ASSUME LanesAssumption ==
    /\ \A n \in PullRequests :
          PullRequest[n] \in [kind : DeliveryLanes \cup {"ticket"}, branch : Branches,
                             toMain : BOOLEAN, ownRepository : BOOLEAN]
    /\ (PullRequests \cup Tags \cup Branches) \cap {None, "main"} = {}
    /\ PullRequests \cap Branches = {}
    /\ MaxFaults \in Nat /\ MaxEvents \in Nat

(* The runs, with what their events say: a closed pull request whether it    *)
(* was merged and its merge commit, at that time; a dispatch its inputs; a   *)
(* publication the ref it runs on.                                           *)
Detection(lane, n, merged, sha) ==
    [lane |-> lane, event |-> "pull_request", number |-> n, ref |-> None,
     subject |-> PullRequest[n].branch, merge |-> sha, merged |-> merged,
     status |-> "pending"]

Delivery(lane, branch, sha) ==
    [lane |-> lane, event |-> "dispatch", number |-> None, ref |-> None,
     subject |-> branch, merge |-> sha, merged |-> FALSE, status |-> "pending"]

Publication(event, ref, tag) ==
    [lane |-> "publish", event |-> event, number |-> None, ref |-> ref,
     subject |-> tag, merge |-> None, merged |-> FALSE, status |-> "pending"]

(* What a run delivers or leads to the delivery of.  Only the release lane is*)
(* told the merge commit; a hotfix is delivered by its branch.               *)
Key(run) ==
    <<run.lane, run.subject, IF run.lane = "release" THEN run.merge ELSE None>>

-------------------------------------------------------------------------------
(* Mutation: the group of a dispatch does not name its branch. *)
GroupOfNumber(run) ==
    <<run.lane,
      IF run.event = "pull_request" THEN run.number
      ELSE IF run.event = "dispatch" THEN "main" ELSE run.ref>>

(* Mutation: the group of a dispatch is the merge it names. *)
GroupOfMerge(run) ==
    <<run.lane, run.event,
      IF run.lane = "publish" THEN run.ref
      ELSE IF run.event = "pull_request" THEN run.number ELSE run.merge>>

(* Mutation: the publication names one group. *)
GroupOfWorkflow(run) ==
    <<run.lane,
      IF run.event = "pull_request" THEN run.number
      ELSE IF run.lane = "publish" THEN "main" ELSE run.subject>>

(* The concurrency group: the pull request's number or the dispatched branch,*)
(* and in the publication lane the ref the run is on: the tag pushed, or the *)
(* line or tag an operator dispatches on, whatever tag the input names.      *)
Group(run) ==
    <<run.lane,
      IF run.event = "pull_request" THEN run.number
      ELSE IF run.lane = "publish" THEN run.ref
      ELSE run.subject>>

(* GitHub starts a run unless its group has one in progress; then it waits,  *)
(* in the place of the one that waited before it.                            *)
Admitted(live, run) ==
    LET group == {r \in live : Group(r) = Group(run)}
        busy == \E r \in group : r.status # "pending"
    IN  (live \ {r \in group : r.status = "pending"})
            \cup {[run EXCEPT !.status = IF busy THEN "pending" ELSE "running"]}

(* A run that ends makes place for the one that waits.                       *)
Ended(live, run) ==
    LET waiting == {r \in live : Group(r) = Group(run) /\ r.status = "pending"}
    IN  (live \ ({run} \cup waiting))
            \cup {[r EXCEPT !.status = "running"] : r \in waiting}

(* What is lost when this dispatch is admitted: the one of its branch that   *)
(* waits, if it is for another merge.                                        *)
Superseded(live, run) ==
    {Key(r) : r \in {other \in live : /\ other.event = "dispatch"
                                     /\ other.status = "pending"
                                     /\ other.lane = run.lane
                                     /\ other.subject = run.subject}} \ {Key(run)}

-------------------------------------------------------------------------------
Init ==
    /\ state = [n \in PullRequests |-> "open"]
    /\ pushed = {}
    /\ runs = {}
    /\ delivered = {} /\ requested = {} /\ superseded = {} /\ failed = {}
    /\ faults = 0 /\ events = 0

Event == events < MaxEvents /\ events' = events + 1

(* A pull request into the main line closes, merged or not; both lanes start *)
(* their detection.  A merged request has its merge commit; one that is only *)
(* closed has that of the merge GitHub tried, or none.                       *)
ClosePullRequest(n, how) ==
    /\ Event
    /\ state[n] = "open"
    /\ state' = [state EXCEPT ![n] = how]
    /\ IF PullRequest[n].toMain
       THEN \E sha \in IF how = "merged" THEN {n} ELSE {n, None} :
               runs' = Admitted(Admitted(runs,
                                         Detection("release", n, how = "merged", sha)),
                                Detection("hotfix", n, how = "merged", sha))
       ELSE UNCHANGED runs
    /\ UNCHANGED <<pushed, delivered, requested, superseded, failed, faults>>

ReopenPullRequest(n) ==
    /\ Event
    /\ state[n] = "closed"
    /\ state' = [state EXCEPT ![n] = "open"]
    /\ UNCHANGED <<pushed, runs, delivered, requested, superseded, failed, faults>>

PushTag(tag) ==
    /\ Event
    /\ tag \notin pushed
    /\ pushed' = pushed \cup {tag}
    /\ runs' = Admitted(runs, Publication("push", tag, tag))
    /\ UNCHANGED <<state, delivered, requested, superseded, failed, faults>>

(* An operator dispatches a run by hand.                                     *)
Dispatch(run) ==
    /\ Event
    /\ requested' = requested \cup {Key(run)}
    /\ superseded' = superseded \cup Superseded(runs, run)
    /\ runs' = Admitted(runs, run)
    /\ UNCHANGED <<state, pushed, delivered, failed, faults>>

(* ... to redeliver a branch, in the release lane at the merge commit of any *)
(* request that was merged ...                                               *)
Redeliver(branch) ==
    \/ \E n \in PullRequests :
          state[n] = "merged" /\ Dispatch(Delivery("release", branch, n))
    \/ Dispatch(Delivery("hotfix", branch, None))

(* ... or to publish an existing tag, on the main line or on any tag.        *)
Republish(tag) ==
    /\ tag \in pushed
    /\ \E ref \in {"main"} \cup pushed : Dispatch(Publication("dispatch", ref, tag))

-------------------------------------------------------------------------------
(* A detection dispatches the delivery on the main line, for a merged        *)
(* promotion of this repository; else it has no job.                         *)

(* Mutation: a closed pull request counts as merged. *)
IsPromotionUnmerged(run) ==
    LET request == PullRequest[run.number]
    IN  /\ request.toMain /\ request.ownRepository /\ request.kind = run.lane
        /\ run.lane = "release" => run.merge # None

(* The release lane asks for the merge commit it passes on.                  *)
IsPromotion(run) ==
    LET request == PullRequest[run.number]
    IN  /\ run.merged
        /\ request.toMain /\ request.ownRepository
        /\ request.kind = run.lane
        /\ run.lane = "release" => run.merge # None

Detecting(run) == run.event = "pull_request" /\ run.status = "running"

(* Mutation: the dispatch names the pull request for its branch. *)
DetectNamingNumber(run) ==
    /\ Detecting(run)
    /\ IF IsPromotion(run)
       THEN /\ runs' = Admitted(Ended(runs, run),
                                Delivery(run.lane, run.number, Key(run)[3]))
            /\ UNCHANGED superseded
       ELSE runs' = Ended(runs, run) /\ UNCHANGED superseded
    /\ UNCHANGED <<state, pushed, delivered, requested, failed, faults, events>>

Detect(run) ==
    /\ Detecting(run)
    /\ IF IsPromotion(run)
       THEN LET dispatched == Delivery(run.lane, run.subject, Key(run)[3])
            IN  /\ runs' = Admitted(Ended(runs, run), dispatched)
                /\ superseded' = superseded \cup Superseded(runs, dispatched)
       ELSE runs' = Ended(runs, run) /\ UNCHANGED superseded
    /\ UNCHANGED <<state, pushed, delivered, requested, failed, faults, events>>

(* Every other run is admitted by the reviewers of its environment before it *)
(* delivers.                                                                 *)
Gated(run) == run.event # "pull_request" /\ run.status = "running"

Approve(run) ==
    /\ Gated(run)
    /\ runs' = (runs \ {run}) \cup {[run EXCEPT !.status = "delivering"]}
    /\ UNCHANGED <<state, pushed, delivered, requested, superseded, failed, faults,
                   events>>

Deliver(run) ==
    /\ run.status = "delivering"
    /\ runs' = Ended(runs, run)
    /\ delivered' = delivered \cup {Key(run)}
    /\ UNCHANGED <<state, pushed, requested, superseded, failed, faults, events>>

(* The request of the dispatch fails, the reviewers refuse, or the delivery  *)
(* ends in an error.                                                         *)
RunFails(run) ==
    /\ \/ Detecting(run) /\ IsPromotion(run) /\ "request" \in Faults
       \/ Gated(run) /\ "reject" \in Faults
       \/ run.status = "delivering" /\ "deliver" \in Faults
    /\ faults < MaxFaults /\ faults' = faults + 1
    /\ runs' = Ended(runs, run)
    /\ failed' = failed \cup {Key(run)}
    /\ UNCHANGED <<state, pushed, delivered, requested, superseded, events>>

RunStep(run) == Detect(run) \/ Approve(run) \/ Deliver(run)

Outside ==
    \/ \E n \in PullRequests :
          \/ \E how \in {"merged", "closed"} : ClosePullRequest(n, how)
          \/ ReopenPullRequest(n)
    \/ \E tag \in Tags : PushTag(tag) \/ Republish(tag)
    \/ \E branch \in Branches : Redeliver(branch)

Next == (\E run \in runs : RunStep(run) \/ RunFails(run)) \/ Outside

Spec == Init /\ [][Next]_vars

(* As long as a run can go on, some run does, and reviewers answer; nothing  *)
(* obliges anybody to close, push or dispatch.                               *)
FairSpec == Spec /\ WF_vars(\E run \in runs : RunStep(run))

-------------------------------------------------------------------------------
(* Properties.                                                               *)

(* Every variable keeps its type; what is delivered, requested, superseded or*)
(* failed is a branch in a delivery lane or a tag in the publication lane,   *)
(* and only a run of a pull request's event carries what became of it.       *)
TypeOK ==
    /\ state \in [PullRequests -> {"open", "closed", "merged"}]
    /\ pushed \subseteq Tags
    /\ \A run \in runs :
          /\ run.lane \in DeliveryLanes \cup {"publish"}
          /\ run.event \in {"pull_request", "dispatch", "push"}
          /\ run.number \in PullRequests \cup {None}
          /\ run.event = "pull_request" => run.number # None
          /\ run.ref \in Tags \cup {"main", None}
          /\ run.subject \in Branches \cup Tags
          /\ run.merge \in PullRequests \cup {None}
          /\ run.merged \in BOOLEAN
          /\ run.status \in {"pending", "running", "delivering"}
    /\ delivered \cup requested \cup superseded \cup failed
          \subseteq (DeliveryLanes \X Branches \X (PullRequests \cup {None}))
                        \cup ({"publish"} \X Tags \X {None})
    /\ faults \in 0..MaxFaults /\ events \in 0..MaxEvents

(* No two deliveries of one branch are under way at once, however detections *)
(* and operators dispatch them (concurrency of both delivery lanes).         *)
OneDeliveryAtATime ==
    \A run, other \in runs :
        /\ run.status = "delivering" /\ other.status = "delivering"
        /\ run.lane = other.lane /\ run.lane \in DeliveryLanes
        /\ run.subject = other.subject
        => run = other

(* What is delivered without an operator is the branch of a pull request of  *)
(* this repository that was merged into the main line and is of the lane's   *)
(* kind - not of one that was closed, though closing starts the same runs    *)
(* and a closed request may be reopened - and in the release lane it is      *)
(* delivered at that merge (the detect job's condition and request).         *)
Promotes(n, lane, branch, sha) ==
    /\ PullRequest[n] = [kind |-> lane, branch |-> branch,
                         toMain |-> TRUE, ownRepository |-> TRUE]
    /\ sha = IF lane = "release" THEN n ELSE None

OnlyPromotionsDelivered ==
    \A lane \in DeliveryLanes, branch \in Branches,
       sha \in PullRequests \cup {None} :
        <<lane, branch, sha>> \in delivered =>
            \/ <<lane, branch, sha>> \in requested
            \/ \E n \in PullRequests :
                  state[n] = "merged" /\ Promotes(n, lane, branch, sha)

(* Every merged promotion is delivered, in the release lane at its merge, or *)
(* a fault of it has been recorded: no detection and no dispatch is lost to  *)
(* the one that replaced it in its group - unless that was a newer dispatch  *)
(* of the same branch, and then the branch is delivered all the same.        *)
PromotionsDelivered ==
    \A n \in PullRequests, lane \in DeliveryLanes, branch \in Branches,
       sha \in PullRequests \cup {None} :
        Promotes(n, lane, branch, sha) =>
            /\ state[n] = "merged" ~>
                  <<lane, branch, sha>> \in delivered \cup failed \cup superseded
            /\ <<lane, branch, sha>> \in superseded ~>
                  \E other \in PullRequests \cup {None} :
                     <<lane, branch, other>> \in delivered \cup failed

(* Every pushed tag is published, or its failure recorded, however many tags *)
(* and dispatches wait at once, also dispatches on that tag for another one: *)
(* the group of a push is its tag, and no run can be in it before the push's *)
(* (publish-release-artifacts.yml:19).                                       *)
PushedTagsPublished ==
    \A tag \in Tags :
        tag \in pushed ~> <<"publish", tag, None>> \in delivered \cup failed
===============================================================================
