---------------------------- MODULE MCProvisioner -----------------------------
(***************************************************************************)
(* Instances of Provisioner: the tenant trees a provisioning can meet, and *)
(* the flags it is started with, over the homes of MCRenderCore.           *)
(***************************************************************************)
EXTENDS Provisioner, MCRenderCore

CONSTANTS r1, r2

TwoBlocks == {<<>>, Local}
LicenseBlocks == {<<>>, <<Pattern("LICENSE*")>>}

RunSymmetry == Permutations({r1, r2})

(* Longer than what any surface but the conventions is written with.         *)
Stale == <<Text("prose"), Text("prose"), Text("prose")>>

(* Every surface there and drifted, the gitignore marked.                    *)
Drifted ==
    [path \in MCTenantPaths |->
        IF Fresh(Manifest1, "release1")[path] # Absent
        THEN Fresh(Manifest1, "release1")[path]
        ELSE IF path = ".gitignore" THEN <<Pattern("log"), Mark, LineFeed>> \o Local
        ELSE IF path = "codeql.yml" THEN Absent ELSE Stale]

Invocation(home, dryRun, yes, terminal) ==
    [home |-> home, dryRun |-> dryRun, yes |-> yes, terminal |-> terminal]

(* Every combination of flags, and every home tree in a confirmed run.       *)
EveryInvocation ==
    {Invocation(None, dryRun, yes, terminal) :
        dryRun \in BOOLEAN, yes \in BOOLEAN, terminal \in BOOLEAN}
    \cup {Invocation(home, FALSE, TRUE, FALSE) : home \in Releases}

EveryTree ==
    {Fresh(Manifest1, "release1"), Drifted, Provisioned,
     With(Drifted, ".gitignore", Local),
     With(Fresh(Manifest1, "release1"), "tools/go.mod", Absent)}

MarkedAndUnmarked == {Drifted, With(Drifted, ".gitignore", Local)}
FreshTree         == {Fresh(Manifest1, "release1")}
LicenseHubTrees   == {Fresh(LicenseHubManifest, "release1")}

TwoManifests        == {Manifest1, Manifest2}
JustManifest1       == {Manifest1}
LicenseHubManifests == {LicenseHubManifest}

ConsistentManifests ==
    {Manifest1, Manifest2, InvalidManifest, PendingManifest}

(* The hypotheses of the theorems hold of these instances.                   *)
ASSUME InstancesAreApart == TenantDataApart /\ GitignoresApart /\ SurfacesApart
ASSUME InstancesAreConsistent == CallersPublished /\ HomesAgree

ConfirmedInvocations == {Invocation(None, FALSE, TRUE, FALSE)}

ConfirmedOrAsked ==
    ConfirmedInvocations \cup {Invocation(None, FALSE, FALSE, TRUE)}
===============================================================================
