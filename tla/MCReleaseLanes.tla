---------------------------- MODULE MCReleaseLanes -----------------------------
(***************************************************************************)
(* Instances of ReleaseLanes: two promotions of one release branch, one of *)
(* a hotfix, and a pull request of a fork whose branch has the name of the *)
(* release.                                                                *)
(***************************************************************************)
EXTENDS ReleaseLanes

Request(kind, branch, ownRepository) ==
    [kind |-> kind, branch |-> branch, toMain |-> TRUE,
     ownRepository |-> ownRepository]

MCPullRequests == {"#1", "#2", "#3", "#4"}

MCPullRequest ==
    [n \in MCPullRequests |->
        CASE n \in {"#1", "#2"} -> Request("release", "release/1", TRUE)
          [] n = "#3" -> Request("hotfix", "hotfix/2", TRUE)
          [] n = "#4" -> Request("release", "release/1", FALSE)]
===============================================================================
