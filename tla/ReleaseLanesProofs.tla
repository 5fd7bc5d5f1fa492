--------------------------- MODULE ReleaseLanesProofs ---------------------------
(***************************************************************************)
(* What the release lanes deliver, and that no branch is delivered twice at*)
(* once, for any set of pull requests, tags and events.                    *)
(***************************************************************************)
EXTENDS ReleaseLanes, TLAPS

Statuses == {"pending", "running", "delivering"}

Shas == PullRequests \cup {None}

LaneRuns ==
    [lane : DeliveryLanes, event : {"pull_request", "dispatch"},
     number : PullRequests \cup {None}, ref : {None}, subject : Branches,
     merge : Shas, merged : BOOLEAN, status : Statuses]

PublicationRuns ==
    [lane : {"publish"}, event : {"dispatch", "push"}, number : {None},
     ref : Tags \cup {"main"}, subject : Tags, merge : {None},
     merged : BOOLEAN, status : Statuses]

Promoted(key, st) ==
    \E n \in PullRequests :
        st[n] = "merged" /\ Promotes(n, key[1], key[2], key[3])

(* What a run can be that stands in a queue while the pull requests are in   *)
(* these states and operators have dispatched these: a detection knows its   *)
(* branch and never delivers, one of a merge is of a merged request, and a   *)
(* dispatch of a delivery has a promotion or an operator behind it.          *)
Fit(run, st, req) ==
    /\ run \in LaneRuns \cup PublicationRuns
    /\ run.event = "pull_request" =>
          /\ run.number \in PullRequests
          /\ run.subject = PullRequest[run.number].branch
          /\ run.status # "delivering"
          /\ run.merged =>
                st[run.number] = "merged" /\ run.merge = run.number
    /\ run.event = "dispatch" /\ run.lane \in DeliveryLanes =>
          Key(run) \in req \/ Promoted(Key(run), st)

(* A concurrency group holds one run in progress and one that waits.         *)
Exclusive(live) ==
    \A r, s \in live :
        Group(r) = Group(s) /\ (r.status = "pending" <=> s.status = "pending")
        => r = s

Orderly(live, st, req) ==
    (\A run \in live : Fit(run, st, req)) /\ Exclusive(live)

(* The type invariant is one of the queue and of the other variables.        *)
TypedRest ==
    /\ state \in [PullRequests -> {"open", "closed", "merged"}]
    /\ pushed \subseteq Tags
    /\ delivered \cup requested \cup superseded \cup failed
          \subseteq (DeliveryLanes \X Branches \X Shas) \cup ({"publish"} \X Tags \X {None})
    /\ faults \in 0..MaxFaults /\ events \in 0..MaxEvents

LanesInv ==
    /\ TypedRest
    /\ Orderly(runs, state, requested)
    /\ OnlyPromotionsDelivered

-------------------------------------------------------------------------------
(* The queue.                                                                *)

Marked(run, status) == [run EXCEPT !.status = status]

(* Marking a run changes its status only, which is no part of its group.     *)
MarkedOnly(run, status) ==
    /\ Marked(run, status) \in LaneRuns \cup PublicationRuns
    /\ Marked(run, status).status = status
    /\ Marked(run, status).lane = run.lane
    /\ Marked(run, status).event = run.event
    /\ Marked(run, status).number = run.number
    /\ Marked(run, status).subject = run.subject
    /\ Marked(run, status).merge = run.merge
    /\ Marked(run, status).merged = run.merged
    /\ Key(Marked(run, status)) = Key(run)
    /\ Group(Marked(run, status)) = Group(run)

LEMMA MarkingMarksOnly ==
    ASSUME NEW run \in LaneRuns \cup PublicationRuns, NEW status \in Statuses
    PROVE  MarkedOnly(run, status)
  <1>1. CASE run \in LaneRuns
    BY <1>1 DEF LaneRuns, Group, Key, Marked, MarkedOnly
  <1>2. CASE run \in PublicationRuns
    BY <1>2 DEF PublicationRuns, Group, Key, Marked, MarkedOnly
  <1>3. QED
    BY <1>1, <1>2

LEMMA FitWhenWaitingOrRunning ==
    ASSUME NEW run, NEW st, NEW req, Fit(run, st, req),
           NEW status \in {"pending", "running"}
    PROVE  Fit(Marked(run, status), st, req) /\ MarkedOnly(run, status)
  <1>1. MarkedOnly(run, status)
    BY MarkingMarksOnly DEF Fit, Statuses
  <1> DEFINE marked == Marked(run, status)
  <1> HIDE DEF marked
  <1>2. /\ marked \in LaneRuns \cup PublicationRuns
        /\ marked.status = status /\ marked.lane = run.lane
        /\ marked.event = run.event /\ marked.number = run.number
        /\ marked.subject = run.subject /\ marked.merge = run.merge
        /\ marked.merged = run.merged /\ Key(marked) = Key(run)
    BY <1>1 DEF MarkedOnly, marked
  <1>3. Fit(marked, st, req)
    BY <1>2 DEF Fit
  <1>4. QED
    BY <1>1, <1>3 DEF marked

LEMMA AdmittedOrderly ==
    ASSUME NEW live, NEW run, NEW st, NEW req,
           Orderly(live, st, req), Fit(run, st, req)
    PROVE  Orderly(Admitted(live, run), st, req)
  <1> DEFINE group == {r \in live : Group(r) = Group(run)}
             busy == \E r \in group : r.status # "pending"
             kept == live \ {r \in group : r.status = "pending"}
             status == IF busy THEN "pending" ELSE "running"
  <1>1. Admitted(live, run) = kept \cup {Marked(run, status)}
    BY DEF Admitted, Marked
  <1>2. Fit(Marked(run, status), st, req) /\ MarkedOnly(run, status)
    <2>1. status \in {"pending", "running"}
      OBVIOUS
    <2> HIDE DEF status
    <2>2. QED
      BY <2>1, FitWhenWaitingOrRunning
  <1>3. ASSUME NEW r \in kept, Group(r) = Group(run)
        PROVE  r.status # "pending" /\ status = "pending"
    BY <1>3
  <1> HIDE DEF status
  <1>4. Exclusive(kept \cup {Marked(run, status)})
    BY <1>2, <1>3 DEF Exclusive, Orderly, MarkedOnly
  <1>5. QED
    BY <1>1, <1>2, <1>4 DEF Orderly

LEMMA EndedOrderly ==
    ASSUME NEW live, NEW run \in live, NEW st, NEW req,
           Orderly(live, st, req), run.status # "pending"
    PROVE  Orderly(Ended(live, run), st, req)
  <1> DEFINE waiting == {r \in live : Group(r) = Group(run) /\ r.status = "pending"}
             kept == live \ ({run} \cup waiting)
             started == {Marked(r, "running") : r \in waiting}
  <1>1. Ended(live, run) = kept \cup started
    BY DEF Ended, Marked
  <1>2. ASSUME NEW r \in waiting
        PROVE  /\ Fit(Marked(r, "running"), st, req)
               /\ Group(Marked(r, "running")) = Group(run)
    <2>1. Fit(r, st, req)
      BY DEF Orderly
    <2>2. Fit(Marked(r, "running"), st, req) /\ MarkedOnly(r, "running")
      BY <2>1, FitWhenWaitingOrRunning
    <2>3. QED
      BY <2>2 DEF MarkedOnly
  <1>3. ASSUME NEW r \in waiting, NEW s \in waiting
        PROVE  r = s
    BY DEF Orderly, Exclusive
  <1>4. ASSUME NEW r \in kept
        PROVE  Group(r) # Group(run)
    BY DEF Orderly, Exclusive
  <1>5. \A r \in started : Fit(r, st, req) /\ Group(r) = Group(run)
    BY <1>2
  <1>6. \A r, s \in started : r = s
    BY <1>3
  <1> HIDE DEF started
  <1>7. Exclusive(kept \cup started)
    <2>1. ASSUME NEW r \in kept \cup started, NEW s \in kept \cup started,
                 Group(r) = Group(s), r.status = "pending" <=> s.status = "pending"
          PROVE  r = s
      <3>1. CASE r \in kept /\ s \in kept
        BY <2>1, <3>1 DEF Orderly, Exclusive
      <3>2. CASE r \in started /\ s \in started
        BY <3>2, <1>6
      <3>3. CASE (r \in kept /\ s \in started) \/ (r \in started /\ s \in kept)
        BY <2>1, <3>3, <1>4, <1>5
      <3>4. QED
        BY <3>1, <3>2, <3>3
    <2>2. QED
      BY <2>1 DEF Exclusive
  <1>8. QED
    BY <1>1, <1>5, <1>7 DEF Orderly

LEMMA ApprovedOrderly ==
    ASSUME NEW live, NEW run \in live, NEW st, NEW req, Orderly(live, st, req),
           run.status = "running", run.event # "pull_request"
    PROVE  Orderly((live \ {run}) \cup {Marked(run, "delivering")}, st, req)
  <1>1. Fit(run, st, req)
    BY DEF Orderly
  <1>2. MarkedOnly(run, "delivering")
    BY <1>1, MarkingMarksOnly DEF Fit, Statuses
  <1>3. Fit(Marked(run, "delivering"), st, req)
    BY <1>1, <1>2 DEF Fit, MarkedOnly
  <1>4. Exclusive((live \ {run}) \cup {Marked(run, "delivering")})
    BY <1>2 DEF Exclusive, Orderly, MarkedOnly
  <1>5. QED
    BY <1>3, <1>4 DEF Orderly

(* Merges and operators' dispatches are never taken back.                    *)
LEMMA OrderlyStays ==
    ASSUME NEW live, NEW st, NEW req, NEW st2, NEW req2, Orderly(live, st, req),
           \A n \in PullRequests : st[n] = "merged" => st2[n] = "merged",
           req \subseteq req2
    PROVE  Orderly(live, st2, req2)
  <1>1. ASSUME NEW run \in live
        PROVE  Fit(run, st2, req2)
    BY DEF Orderly, Fit, Promoted
  <1>2. QED
    BY <1>1 DEF Orderly

-------------------------------------------------------------------------------
LEMMA InitLanesInv == Init => LanesInv
  BY LanesAssumption
     DEF Init, LanesInv, TypedRest, Orderly, Exclusive, OnlyPromotionsDelivered

(* What is delivered keeps its promotion or its operator.                    *)
LEMMA DeliveredStays ==
    ASSUME OnlyPromotionsDelivered, UNCHANGED delivered,
           \A n \in PullRequests : state[n] = "merged" => state'[n] = "merged",
           requested \subseteq requested'
    PROVE  OnlyPromotionsDelivered'
  BY DEF OnlyPromotionsDelivered

LEMMA OrderlyIsTyped ==
    ASSUME TypedRest, Orderly(runs, state, requested)
    PROVE  TypeOK
  <1>1. ASSUME NEW run \in runs
        PROVE  /\ run.lane \in DeliveryLanes \cup {"publish"}
               /\ run.event \in {"pull_request", "dispatch", "push"}
               /\ run.number \in PullRequests \cup {None}
               /\ run.event = "pull_request" => run.number # None
               /\ run.ref \in Tags \cup {"main", None}
               /\ run.subject \in Branches \cup Tags
               /\ run.merge \in PullRequests \cup {None}
               /\ run.merged \in BOOLEAN
               /\ run.status \in {"pending", "running", "delivering"}
    <2>1. CASE run \in LaneRuns
      BY <2>1, LanesAssumption DEF LaneRuns, Shas, Statuses, Orderly, Fit
    <2>2. CASE run \in PublicationRuns
      BY <2>2 DEF PublicationRuns, Statuses
    <2>3. QED
      BY <2>1, <2>2 DEF Orderly, Fit
  <1>2. QED
    BY <1>1 DEF TypeOK, TypedRest, Shas

-------------------------------------------------------------------------------
(* What starts runs.                                                         *)
LEMMA CloseKeepsInv ==
    ASSUME LanesInv, NEW n \in PullRequests, NEW how \in {"merged", "closed"},
           ClosePullRequest(n, how)
    PROVE  LanesInv'
  <1>1. /\ TypedRest' /\ requested' = requested
        /\ state'[n] = how
        /\ \A i \in PullRequests : state[i] = "merged" => state'[i] = "merged"
    BY LanesAssumption DEF LanesInv, TypedRest, ClosePullRequest, Event
  <1>2. OnlyPromotionsDelivered'
    BY <1>1, DeliveredStays DEF LanesInv, ClosePullRequest
  <1>3. Orderly(runs, state', requested')
    BY <1>1, OrderlyStays DEF LanesInv
  <1>4. ASSUME NEW lane \in DeliveryLanes, NEW sha \in Shas, how = "merged" => sha = n
        PROVE  Fit(Detection(lane, n, how = "merged", sha), state', requested')
    <2>1. PullRequest[n].branch \in Branches
      BY DEF Branches
    <2>2. QED
      BY <1>1, <1>4, <2>1 DEF Fit, Detection, LaneRuns, Statuses
  <1>5. ASSUME NEW sha \in Shas, how = "merged" => sha = n
        PROVE  Orderly(Admitted(Admitted(runs,
                                         Detection("release", n, how = "merged", sha)),
                                Detection("hotfix", n, how = "merged", sha)),
                       state', requested')
    <2>1. Orderly(Admitted(runs, Detection("release", n, how = "merged", sha)),
                  state', requested')
      BY <1>3, <1>4, <1>5, AdmittedOrderly DEF DeliveryLanes
    <2>2. QED
      BY <1>4, <1>5, <2>1, AdmittedOrderly DEF DeliveryLanes
  <1>6. \A sha \in IF how = "merged" THEN {n} ELSE {n, None} :
           sha \in Shas /\ (how = "merged" => sha = n)
    BY DEF Shas
  <1>7. Orderly(runs', state', requested')
    BY <1>3, <1>5, <1>6 DEF ClosePullRequest
  <1>8. QED
    BY <1>1, <1>2, <1>7 DEF LanesInv

LEMMA ReopenKeepsInv ==
    ASSUME LanesInv, NEW n \in PullRequests, ReopenPullRequest(n)
    PROVE  LanesInv'
  <1>1. /\ TypedRest' /\ requested' = requested
        /\ \A i \in PullRequests : state[i] = "merged" => state'[i] = "merged"
    BY LanesAssumption DEF LanesInv, TypedRest, ReopenPullRequest, Event
  <1>2. OnlyPromotionsDelivered'
    BY <1>1, DeliveredStays DEF LanesInv, ReopenPullRequest
  <1>3. Orderly(runs', state', requested')
    BY <1>1, OrderlyStays DEF LanesInv, ReopenPullRequest
  <1>4. QED
    BY <1>1, <1>2, <1>3 DEF LanesInv

LEMMA PushKeepsInv ==
    ASSUME LanesInv, NEW tag \in Tags, PushTag(tag)
    PROVE  LanesInv'
  <1> DEFINE new == Publication("push", tag, tag)
  <1>1. TypedRest' /\ UNCHANGED <<state, requested, delivered>>
    BY LanesAssumption DEF LanesInv, TypedRest, PushTag, Event
  <1>2. OnlyPromotionsDelivered'
    BY <1>1, DeliveredStays DEF LanesInv
  <1>3. Fit(new, state, requested)
    BY DEF Fit, Publication, PublicationRuns, Statuses
  <1>4. Orderly(Admitted(runs, new), state, requested)
    BY <1>3, AdmittedOrderly DEF LanesInv
  <1>5. QED
    BY <1>1, <1>2, <1>4 DEF LanesInv, PushTag

(* What a run stands for.                                                    *)
Keys == (DeliveryLanes \X Branches \X Shas) \cup ({"publish"} \X Tags \X {None})

LEMMA KeyOfRun ==
    ASSUME NEW run \in LaneRuns \cup PublicationRuns
    PROVE  Key(run) \in Keys
  BY DEF Key, Keys, LaneRuns, PublicationRuns, Shas, DeliveryLanes

LEMMA SupersededKeys ==
    ASSUME LanesInv, NEW run
    PROVE  Superseded(runs, run) \subseteq Keys
  BY KeyOfRun DEF Superseded, LanesInv, Orderly, Fit

LEMMA DispatchKeepsInv ==
    ASSUME LanesInv, NEW run \in LaneRuns \cup PublicationRuns, Dispatch(run),
           run.event = "dispatch"
    PROVE  LanesInv'
  <1>1. /\ TypedRest' /\ UNCHANGED <<state, delivered>>
        /\ requested' = requested \cup {Key(run)}
    BY LanesAssumption, KeyOfRun, SupersededKeys
       DEF LanesInv, TypedRest, Dispatch, Event, Keys
  <1>2. OnlyPromotionsDelivered'
    BY <1>1, DeliveredStays DEF LanesInv
  <1>3. Fit(run, state', requested')
    BY <1>1 DEF Fit
  <1>4. Orderly(runs, state', requested')
    BY <1>1, OrderlyStays DEF LanesInv
  <1>5. Orderly(Admitted(runs, run), state', requested')
    BY <1>3, <1>4, AdmittedOrderly
  <1>6. QED
    BY <1>1, <1>2, <1>5 DEF LanesInv, Dispatch

LEMMA OperatorKeepsInv ==
    ASSUME LanesInv,
           \/ \E branch \in Branches : Redeliver(branch)
           \/ \E tag \in Tags : Republish(tag)
    PROVE  LanesInv'
  <1>1. ASSUME NEW branch \in Branches, NEW lane \in DeliveryLanes, NEW sha \in Shas,
               Dispatch(Delivery(lane, branch, sha))
        PROVE  LanesInv'
    <2>1. /\ Delivery(lane, branch, sha) \in LaneRuns
          /\ Delivery(lane, branch, sha).event = "dispatch"
      BY DEF Delivery, LaneRuns, Statuses
    <2>2. QED
      BY <1>1, <2>1, DispatchKeepsInv
  <1>2. ASSUME NEW tag \in Tags, NEW ref \in {"main"} \cup pushed,
               Dispatch(Publication("dispatch", ref, tag))
        PROVE  LanesInv'
    <2>1. /\ Publication("dispatch", ref, tag) \in PublicationRuns
          /\ Publication("dispatch", ref, tag).event = "dispatch"
      BY DEF Publication, PublicationRuns, Statuses, LanesInv, TypedRest
    <2>2. QED
      BY <1>2, <2>1, DispatchKeepsInv
  <1>3. QED
    BY <1>1, <1>2 DEF Redeliver, Republish, Shas, DeliveryLanes

-------------------------------------------------------------------------------
(* What runs do.                                                             *)
LEMMA DetectKeepsInv ==
    ASSUME LanesInv, NEW run \in runs, Detect(run)
    PROVE  LanesInv'
  <1> DEFINE new == Delivery(run.lane, run.subject, Key(run)[3])
  <1>1. TypedRest' /\ UNCHANGED <<state, requested, delivered>>
    BY SupersededKeys DEF LanesInv, TypedRest, Detect, Keys
  <1>2. OnlyPromotionsDelivered'
    BY <1>1, DeliveredStays DEF LanesInv
  <1>3. Fit(run, state, requested)
    BY DEF LanesInv, Orderly
  <1>4. Orderly(Ended(runs, run), state, requested)
    BY EndedOrderly DEF LanesInv, Detect, Detecting
  <1>5. ASSUME IsPromotion(run)
        PROVE  Orderly(Admitted(Ended(runs, run), new), state, requested)
    <2>1. /\ run \in LaneRuns /\ run.number \in PullRequests
          /\ state[run.number] = "merged" /\ run.merge = run.number
          /\ run.subject = PullRequest[run.number].branch
      BY <1>3, <1>5 DEF Fit, PublicationRuns, Detect, Detecting, IsPromotion
    <2>2. PullRequest[run.number] = [kind |-> run.lane, branch |-> run.subject,
                                     toMain |-> TRUE, ownRepository |-> TRUE]
      BY <1>5, <2>1, LanesAssumption DEF IsPromotion
    <2>3. Promoted(Key(run), state)
      BY <2>1, <2>2 DEF Promoted, Promotes, Key
    <2>4. Key(run)[3] \in Shas
      BY <2>1 DEF Key, LaneRuns, Shas
    <2>5. /\ new \in LaneRuns /\ new.event = "dispatch"
          /\ new.lane = run.lane /\ new.subject = run.subject
      BY <2>1, <2>4 DEF Delivery, LaneRuns, Statuses
    <2>6. Key(new) = Key(run)
      BY DEF Key, Delivery
    <2>7. Fit(new, state, requested)
      BY <2>3, <2>5, <2>6 DEF Fit
    <2> HIDE DEF new
    <2>8. QED
      BY <1>4, <2>7, AdmittedOrderly
  <1>6. Orderly(runs', state, requested)
    BY <1>4, <1>5 DEF Detect
  <1>7. QED
    BY <1>1, <1>2, <1>6 DEF LanesInv

LEMMA ApproveKeepsInv ==
    ASSUME LanesInv, NEW run \in runs, Approve(run)
    PROVE  LanesInv'
  <1>1. TypedRest' /\ UNCHANGED <<state, requested, delivered>>
    BY DEF LanesInv, TypedRest, Approve
  <1>2. OnlyPromotionsDelivered'
    BY <1>1, DeliveredStays DEF LanesInv
  <1>3. Orderly(runs', state, requested)
    BY ApprovedOrderly DEF LanesInv, Approve, Gated, Marked
  <1>4. QED
    BY <1>1, <1>2, <1>3 DEF LanesInv

LEMMA KeyOfLiveRun ==
    ASSUME LanesInv, NEW run \in runs
    PROVE  Key(run) \in Keys
  BY KeyOfRun DEF LanesInv, Orderly, Fit

LEMMA DeliverKeepsInv ==
    ASSUME LanesInv, NEW run \in runs, Deliver(run)
    PROVE  LanesInv'
  <1>1. TypedRest' /\ UNCHANGED <<state, requested>>
    BY KeyOfLiveRun DEF LanesInv, TypedRest, Deliver, Keys
  <1>2. Orderly(runs', state, requested)
    BY EndedOrderly DEF LanesInv, Deliver
  <1>3. ASSUME run.lane \in DeliveryLanes
        PROVE  Key(run) \in requested \/ Promoted(Key(run), state)
    <2>1. Fit(run, state, requested)
      BY DEF LanesInv, Orderly
    <2>2. run.event = "dispatch"
      BY <1>3, <2>1 DEF Fit, LaneRuns, PublicationRuns, DeliveryLanes, Deliver
    <2>3. QED
      BY <1>3, <2>1, <2>2 DEF Fit
  <1>4. OnlyPromotionsDelivered'
    <2>1. SUFFICES ASSUME NEW lane \in DeliveryLanes, NEW branch \in Branches,
                          NEW sha \in PullRequests \cup {None},
                          <<lane, branch, sha>> \in delivered'
                   PROVE  <<lane, branch, sha>> \in requested
                             \/ Promoted(<<lane, branch, sha>>, state)
      BY <1>1 DEF OnlyPromotionsDelivered, Promoted
    <2>2. CASE <<lane, branch, sha>> \in delivered
      BY <2>2 DEF OnlyPromotionsDelivered, Promoted, LanesInv
    <2>3. CASE <<lane, branch, sha>> = Key(run)
      <3>1. run.lane \in DeliveryLanes
        BY <2>3 DEF Key
      <3>2. QED
        BY <1>3, <2>3, <3>1
    <2>4. QED
      BY <2>1, <2>2, <2>3 DEF Deliver
  <1>5. QED
    BY <1>1, <1>2, <1>4 DEF LanesInv

LEMMA FailureKeepsInv ==
    ASSUME LanesInv, NEW run \in runs, RunFails(run)
    PROVE  LanesInv'
  <1>1. TypedRest' /\ UNCHANGED <<state, requested, delivered>>
    BY KeyOfLiveRun, LanesAssumption DEF LanesInv, TypedRest, RunFails, Keys
  <1>2. OnlyPromotionsDelivered'
    BY <1>1, DeliveredStays DEF LanesInv
  <1>3. Orderly(runs', state, requested)
    BY EndedOrderly DEF LanesInv, RunFails, Detecting, Gated
  <1>4. QED
    BY <1>1, <1>2, <1>3 DEF LanesInv

LEMMA NextKeepsLanesInv == LanesInv /\ [Next]_vars => LanesInv'
  <1>1. LanesInv /\ UNCHANGED vars => LanesInv'
    BY DEF LanesInv, TypedRest, OnlyPromotionsDelivered, vars
  <1>2. LanesInv /\ Outside => LanesInv'
    BY CloseKeepsInv, ReopenKeepsInv, PushKeepsInv, OperatorKeepsInv DEF Outside
  <1>3. ASSUME LanesInv, NEW run \in runs, RunStep(run) \/ RunFails(run)
        PROVE  LanesInv'
    BY <1>3, DetectKeepsInv, ApproveKeepsInv, DeliverKeepsInv, FailureKeepsInv
       DEF RunStep
  <1>4. QED
    BY <1>1, <1>2, <1>3 DEF Next

(* Whatever a queue holds has a reason to: a detection of a merge is of a    *)
(* merged request, a dispatch of a delivery has a promotion or an operator   *)
(* behind it, and a group has one run in progress and one that waits.        *)
THEOREM LanesInvariant == Spec => []LanesInv
  BY InitLanesInv, NextKeepsLanesInv, PTL DEF Spec

(* Every variable keeps its type, whatever is queued and cancelled.          *)
THEOREM TypeCorrect == Spec => []TypeOK
  <1>1. LanesInv => TypeOK
    BY OrderlyIsTyped DEF LanesInv
  <1>2. QED
    BY LanesInvariant, <1>1, PTL

(* What is delivered without an operator is the branch of a pull request of  *)
(* this repository, of the lane's kind, that is merged into the main line,   *)
(* and in the release lane it is delivered at that merge (the detect jobs of *)
(* both delivery lanes).                                                     *)
THEOREM DeliveriesArePromotions == Spec => []OnlyPromotionsDelivered
  <1>1. LanesInv => OnlyPromotionsDelivered
    BY DEF LanesInv
  <1>2. QED
    BY LanesInvariant, <1>1, PTL

(* No two deliveries of one branch are under way at once, since deliveries   *)
(* are dispatched runs and the group of a dispatched run is its branch.      *)
THEOREM DeliveriesExclude == Spec => []OneDeliveryAtATime
  <1>1. ASSUME LanesInv, NEW run \in runs, NEW other \in runs,
               run.status = "delivering", other.status = "delivering",
               run.lane = other.lane, run.lane \in DeliveryLanes,
               run.subject = other.subject
        PROVE  run = other
    <2>1. ASSUME NEW r \in runs, r.status = "delivering", r.lane \in DeliveryLanes
          PROVE  Group(r) = <<r.lane, r.subject>>
      BY <1>1, <2>1
         DEF LanesInv, Orderly, Fit, LaneRuns, PublicationRuns, DeliveryLanes, Group
    <2>2. Group(run) = Group(other)
      BY <1>1, <2>1
    <2>3. QED
      BY <1>1, <2>2 DEF LanesInv, Orderly, Exclusive
  <1>2. LanesInv => OneDeliveryAtATime
    BY <1>1 DEF OneDeliveryAtATime
  <1>3. QED
    BY LanesInvariant, <1>2, PTL
===============================================================================
