----------------------------- MODULE Provisioner ------------------------------
(***************************************************************************)
(* The provisioning CLI as a process: cmd/provision-canonical/main.go with *)
(* Provisioner.Plan and Provisioner.Apply (internal/canonical/provision.   *)
(* go), run against a tenant working tree that its owners edit and that    *)
(* other runs may write.                                                   *)
(*                                                                         *)
(* A run reads the manifest, resolves the home tree, plans every surface   *)
(* and, when the mutation is confirmed, writes the planned materials one   *)
(* after the other. An interactive run plans once for the preview and once *)
(* more for the mutation. The home tree is an immutable module directory,  *)
(* so the steps that only read it are atomic; each read of the tenant and  *)
(* each write of a file is a step of its own, and a write is two: the      *)
(* truncation of os.WriteFile, when it opens the file, and the arrival of  *)
(* the contents, laid over what the file holds by then.                    *)
(***************************************************************************)
EXTENDS RenderCore

CONSTANTS
    Runs,             \* invocations of the CLI on one tenant
    HomeTree,         \* release |-> home tree
    Published,        \* the releases a tooling module can pin
    TenantPaths,      \* the paths of the tenant working tree
    InitialTrees,     \* the tenant trees a behavior may begin with
    ProjectBlocks,    \* the project blocks the tenant's owners write
    Invocations,      \* the flags and the stdin a run may be started with
    None,             \* what is not set: a --home flag left out, a home
                      \* root not resolved, a manifest not decoded
    Faults,           \* which of "read", "write", "crash" can happen
    MaxFaults,        \* bound on the faults of a behavior
    EditsDuringRuns,  \* whether owners edit the tree while a run is active
    MaxEdits          \* bound on the owners' edits of a behavior

VARIABLES
    tenant,           \* the tenant working tree: path |-> contents or Absent
    pc,               \* run |-> where the process is
    flags,            \* run |-> the invocation, None before
    bound,            \* run |-> the decoded manifest, None before
    homeRoot,         \* run |-> the resolved release, None before
    applying,         \* run |-> whether the plan under way is Apply's
    materials,        \* run |-> the planned materials
    written,          \* run |-> how many of them are completely written
    shown,            \* run |-> the paths of the plan it printed
    exit,             \* run |-> the exit code, -1 before and for a killed run
    authored,         \* path |-> what the tenant's owners last left there
                      \* (auxiliary: no step of the CLI reads it)
    faults, edits     \* how many there were (auxiliary: bounds them)

program == <<flags, bound, homeRoot, applying, materials, written, shown>>
surroundings == <<authored, faults, edits>>
vars == <<tenant, pc, program, exit, surroundings>>

Paths(plan) == [i \in 1..Len(plan) |-> plan[i].path]

GitignorePaths == {b.files["gitignore"].path : b \in Manifests}

ToolsPaths == {b.tools.module : b \in Manifests}

(* Every path a manifest that validates can bind is a path of the tree.      *)
ASSUME TenantPathsAssumption ==
    {BindingsFileName} \cup ManifestPaths \cup WorkflowPaths
        \cup GitignorePaths \cup ToolsPaths \subseteq TenantPaths

ASSUME TreesAssumption ==
    /\ InitialTrees \subseteq [TenantPaths -> Contents \cup {Absent}]
    /\ ProjectBlocks \subseteq Contents
    /\ \A release \in Releases : TypedHome(HomeTree[release])

ASSUME ReleasesAssumption == Published \subseteq Releases /\ None \notin Releases

ASSUME InvocationsAssumption ==
    Invocations \subseteq [home : Releases \cup {None}, dryRun : BOOLEAN,
                          yes : BOOLEAN, terminal : BOOLEAN]

ASSUME BoundsAssumption == MaxFaults \in Nat /\ MaxEdits \in Nat

-------------------------------------------------------------------------------
Init ==
    /\ tenant \in InitialTrees
    /\ authored = tenant
    /\ pc = [r \in Runs |-> "idle"]
    /\ flags = [r \in Runs |-> None]
    /\ bound = [r \in Runs |-> None]
    /\ homeRoot = [r \in Runs |-> None]
    /\ applying = [r \in Runs |-> FALSE]
    /\ materials = [r \in Runs |-> <<>>]
    /\ written = [r \in Runs |-> 0]
    /\ shown = [r \in Runs |-> <<>>]
    /\ exit = [r \in Runs |-> -1]
    /\ faults = 0 /\ edits = 0

Goto(r, there) == pc' = [pc EXCEPT ![r] = there] /\ UNCHANGED exit

ExitWith(r, code) ==
    pc' = [pc EXCEPT ![r] = "exit"] /\ exit' = [exit EXCEPT ![r] = code]

(* The process starts with its flags parsed. --version and a usage error end *)
(* it before it reads anything.                                              *)
Start(r) ==
    /\ pc[r] = "idle"
    /\ flags' \in {[flags EXCEPT ![r] = invocation] : invocation \in Invocations}
    /\ Goto(r, "decode")
    /\ UNCHANGED <<tenant, bound, homeRoot, applying, materials, written, shown,
                   surroundings>>

DecodeTenantBindings(r) ==
    /\ pc[r] = "decode"
    /\ IF Decodes(tenant[BindingsFileName])
       THEN /\ bound' = [bound EXCEPT ![r] = tenant[BindingsFileName][1].bindings]
            /\ Goto(r, "home")
       ELSE ExitWith(r, 1) /\ UNCHANGED bound
    /\ UNCHANGED <<tenant, flags, homeRoot, applying, materials, written, shown,
                   surroundings>>

ResolveHomeRoot(r) ==
    /\ pc[r] = "home"
    /\ LET b == bound[r]
           resolved == IF flags[r].home # None THEN {flags[r].home}
                       ELSE PinnedReleases(tenant[b.tools.module],
                                           b.home.repository)
       IN  \/ \E release \in resolved :
                 /\ homeRoot' = [homeRoot EXCEPT ![r] = release]
                 /\ Goto(r, "mode")
           \/ /\ resolved = {}
              /\ ExitWith(r, 1)
              /\ UNCHANGED homeRoot
    /\ UNCHANGED <<tenant, flags, bound, applying, materials, written, shown,
                   surroundings>>

(* Mutation: a preview that --yes turns into a mutation. *)
ChooseModeIgnoringDryRun(r) ==
    /\ pc[r] = "mode"
    /\ IF flags[r].dryRun \/ flags[r].yes \/ flags[r].terminal
       THEN applying' = [applying EXCEPT ![r] = flags[r].yes] /\ Goto(r, "callers")
       ELSE ExitWith(r, 2) /\ UNCHANGED applying
    /\ UNCHANGED <<tenant, flags, bound, homeRoot, materials, written, shown,
                   surroundings>>

(* --dry-run wins over --yes; without either, only a terminal gets a plan.   *)
ChooseMode(r) ==
    /\ pc[r] = "mode"
    /\ IF flags[r].dryRun \/ flags[r].yes \/ flags[r].terminal
       THEN /\ applying' = [applying EXCEPT ![r] = flags[r].yes /\ ~ flags[r].dryRun]
            /\ Goto(r, "callers")
       ELSE ExitWith(r, 2) /\ UNCHANGED applying
    /\ UNCHANGED <<tenant, flags, bound, homeRoot, materials, written, shown,
                   surroundings>>

-------------------------------------------------------------------------------
(* Plan: a step either appends its materials and hands over to the next, or  *)
(* ends the run with an error.                                               *)
PlanStep(r, here, proven, appended, there) ==
    /\ pc[r] = here
    /\ IF proven
       THEN /\ materials' = [materials EXCEPT ![r] = @ \o appended]
            /\ Goto(r, there)
       ELSE ExitWith(r, 1) /\ UNCHANGED materials
    /\ UNCHANGED <<tenant, flags, bound, homeRoot, applying, written, shown,
                   surroundings>>

PlanCallers(r) ==
    LET h == HomeTree[homeRoot[r]]
    IN  PlanStep(r, "callers", CallersProven(h, bound[r]),
                 CallerMaterials(h, bound[r]), "topics")

PlanFileTopics(r) ==
    LET h == HomeTree[homeRoot[r]]
    IN  PlanStep(r, "topics", FileTopicsProven(h, bound[r]),
                 FileTopicMaterials(h, bound[r]), "gitignore")

(* Mutation: a file without the mark is taken for no file. *)
PlanGitignoreOverUnmarked(r) ==
    LET h == HomeTree[homeRoot[r]]
        existing == tenant[bound[r].files["gitignore"].path]
        kept == IF existing # Absent /\ HasMark(existing) THEN existing ELSE Absent
    IN  PlanStep(r, "gitignore", RegionProven(h, bound[r]),
                 <<GitignoreMaterial(h, bound[r], kept)>>, "codeowners")

(* Mutation: an empty file is taken for no file. *)
PlanGitignoreOverEmpty(r) ==
    LET h == HomeTree[homeRoot[r]]
        existing == tenant[bound[r].files["gitignore"].path]
        kept == IF existing = <<>> THEN Absent ELSE existing
    IN  PlanStep(r, "gitignore",
                 RegionProven(h, bound[r]) /\ GitignoreComposes(h, bound[r], kept),
                 <<GitignoreMaterial(h, bound[r], kept)>>, "codeowners")

PlanGitignore(r) ==
    LET h == HomeTree[homeRoot[r]]
        existing == tenant[bound[r].files["gitignore"].path]
    IN  PlanStep(r, "gitignore",
                 /\ RegionProven(h, bound[r])
                 /\ GitignoreComposes(h, bound[r], existing),
                 <<GitignoreMaterial(h, bound[r], existing)>>, "codeowners")

(* Mutation: a surface that exists is not planned again. *)
PlanCodeownersOnce(r) ==
    LET h == HomeTree[homeRoot[r]]
    IN  PlanStep(r, "codeowners", CodeownersRenders(h),
                 IF tenant[bound[r].codeowners.path] # Absent THEN <<>>
                 ELSE <<CodeownersMaterial(h, bound[r])>>, "conventions")

PlanCodeowners(r) ==
    LET h == HomeTree[homeRoot[r]]
    IN  PlanStep(r, "codeowners", CodeownersRenders(h),
                 <<CodeownersMaterial(h, bound[r])>>, "conventions")

(* Mutation: the tokens are not looked up in the template. *)
PlanConventionsReadable(r) ==
    LET h == HomeTree[homeRoot[r]]
        b == bound[r]
    IN  PlanStep(r, "conventions",
                 \/ b.conventions = Unbound
                 \/ /\ h[ConventionsTemplatePath] # Absent
                    /\ b.class.qualityGates \in ConventionsClasses,
                 ConventionsMaterials(h, b), "planned")

PlanConventions(r) ==
    LET h == HomeTree[homeRoot[r]]
    IN  PlanStep(r, "conventions", ConventionsProven(h, bound[r]),
                 ConventionsMaterials(h, bound[r]), "planned")

(* The complete plan returns: Apply goes on to write it, a preview prints    *)
(* it and ends or asks.                                                      *)
PlanReturns(r) ==
    /\ pc[r] = "planned"
    /\ IF applying[r] THEN Goto(r, "write") /\ UNCHANGED shown
       ELSE /\ shown' = [shown EXCEPT ![r] = Paths(materials[r])]
            /\ IF flags[r].dryRun THEN ExitWith(r, 0) ELSE Goto(r, "prompt")
    /\ UNCHANGED <<tenant, flags, bound, homeRoot, applying, materials, written,
                   surroundings>>

Confirm(r) ==
    /\ pc[r] = "prompt"
    /\ applying' = [applying EXCEPT ![r] = TRUE]
    /\ materials' = [materials EXCEPT ![r] = <<>>]
    /\ Goto(r, "callers")
    /\ UNCHANGED <<tenant, flags, bound, homeRoot, written, shown, surroundings>>

Decline(r) ==
    /\ pc[r] = "prompt"
    /\ ExitWith(r, 2)
    /\ UNCHANGED <<tenant, program, surroundings>>

-------------------------------------------------------------------------------
(* Apply's write loop.                                                       *)
(* Mutation: the write loop goes through the plan backwards. *)
CurrentFromLast(r) == materials[r][Len(materials[r]) - written[r]]

Current(r) == materials[r][written[r] + 1]

Holds(r, path) == pc[r] = "writing" /\ Current(r).path = path

Put(path, contents) == tenant' = [tenant EXCEPT ![path] = contents]

(* What arrives is written from the beginning of the opened file: if another *)
(* run has put more there since the truncation, the rest of that stays.  A   *)
(* file that was removed meanwhile does not come back.                       *)
Landed(contents, existing) ==
    IF existing = Absent THEN Absent
    ELSE contents \o After(existing, Len(contents))

(* Mutation: the file is opened without truncating it. *)
OpenFileAsItIs(r) ==
    /\ pc[r] = "write" /\ written[r] < Len(materials[r])
    /\ Put(Current(r).path,
           IF tenant[Current(r).path] = Absent THEN <<>> ELSE tenant[Current(r).path])
    /\ Goto(r, "writing")
    /\ UNCHANGED <<program, surroundings>>

OpenFile(r) ==
    /\ pc[r] = "write" /\ written[r] < Len(materials[r])
    /\ Put(Current(r).path, <<>>)
    /\ Goto(r, "writing")
    /\ UNCHANGED <<program, surroundings>>

WriteFile(r) ==
    /\ pc[r] = "writing"
    /\ Put(Current(r).path, Landed(Current(r).contents, tenant[Current(r).path]))
    /\ written' = [written EXCEPT ![r] = @ + 1]
    /\ Goto(r, "write")
    /\ UNCHANGED <<flags, bound, homeRoot, applying, materials, shown, surroundings>>

(* Mutation: the exit code is the number of files written. *)
FinishCounting(r) ==
    /\ pc[r] = "write" /\ written[r] = Len(materials[r])
    /\ ExitWith(r, written[r])
    /\ UNCHANGED <<tenant, program, surroundings>>

Finish(r) ==
    /\ pc[r] = "write" /\ written[r] = Len(materials[r])
    /\ ExitWith(r, 0)
    /\ UNCHANGED <<tenant, program, surroundings>>

(* The process is gone; its next invocation begins from nothing.             *)
Return(r) ==
    /\ pc[r] = "exit"
    /\ pc' = [pc EXCEPT ![r] = "idle"]
    /\ exit' = [exit EXCEPT ![r] = -1]
    /\ flags' = [flags EXCEPT ![r] = None]
    /\ bound' = [bound EXCEPT ![r] = None]
    /\ homeRoot' = [homeRoot EXCEPT ![r] = None]
    /\ applying' = [applying EXCEPT ![r] = FALSE]
    /\ materials' = [materials EXCEPT ![r] = <<>>]
    /\ written' = [written EXCEPT ![r] = 0]
    /\ shown' = [shown EXCEPT ![r] = <<>>]
    /\ UNCHANGED <<tenant, surroundings>>

-------------------------------------------------------------------------------
(* Faults. A failing read ends the run; a failing write ends it after any    *)
(* part of the contents arrived, or before the file was touched; a crash     *)
(* ends it anywhere.                                                         *)
Reading == {"decode", "home", "callers", "topics", "gitignore", "codeowners",
            "conventions"}

Fault(kind) == kind \in Faults /\ faults < MaxFaults /\ faults' = faults + 1

ReadFails(r) ==
    /\ Fault("read")
    /\ pc[r] \in Reading
    /\ ExitWith(r, 1)
    /\ UNCHANGED <<tenant, program, authored, edits>>

OpenFails(r) ==
    /\ Fault("write")
    /\ pc[r] = "write" /\ written[r] < Len(materials[r])
    /\ ExitWith(r, 1)
    /\ UNCHANGED <<tenant, program, authored, edits>>

PutsPart(r) ==
    LET path == Current(r).path
        contents == Current(r).contents
    IN  \E n \in 0..Len(contents) :
            Put(path, Landed(SubSeq(contents, 1, n), tenant[path]))

WriteFails(r) ==
    /\ Fault("write")
    /\ pc[r] = "writing"
    /\ PutsPart(r)
    /\ ExitWith(r, 1)
    /\ UNCHANGED <<program, authored, edits>>

Crash(r) ==
    /\ Fault("crash")
    /\ pc[r] \notin {"idle", "exit"}
    /\ IF pc[r] = "writing" THEN PutsPart(r) ELSE UNCHANGED tenant
    /\ ExitWith(r, -1)
    /\ UNCHANGED <<program, authored, edits>>

-------------------------------------------------------------------------------
(* The tenant's owners.                                                      *)
CanEdit == EditsDuringRuns \/ \A r \in Runs : pc[r] = "idle"

Author(path, contents) ==
    /\ CanEdit /\ edits < MaxEdits /\ edits' = edits + 1
    /\ Put(path, contents)
    /\ authored' = [authored EXCEPT ![path] = contents]
    /\ UNCHANGED <<pc, program, exit, faults>>

(* They write project additions: below the mark of a marked file, or in a    *)
(* file of their own where there is none.                                    *)
EditProjectBlock(path, block) ==
    /\ \/ tenant[path] = Absent /\ block # <<>> /\ Author(path, block)
       \/ /\ tenant[path] # Absent /\ HasMark(tenant[path])
          /\ Author(path, SubSeq(tenant[path], 1, FirstMark(tenant[path]))
                              \o <<LineFeed>> \o block)

(* They remove a gitignore the CLI refuses.                                  *)
RemoveUnmarked(path) ==
    /\ tenant[path] # Absent /\ ~ HasMark(tenant[path])
    /\ Author(path, Absent)

Rebind(b) == Author(BindingsFileName, ManifestFile(b))

RepinTools(path, release) ==
    \E repository \in Repositories :
        Author(path, <<Require(repository, release)>>)

TenantStep ==
    \/ \E path \in GitignorePaths :
          \/ \E block \in ProjectBlocks : EditProjectBlock(path, block)
          \/ RemoveUnmarked(path)
    \/ \E b \in Manifests : Rebind(b)
    \/ \E path \in ToolsPaths, release \in Published : RepinTools(path, release)

-------------------------------------------------------------------------------
RunStep(r) ==
    \/ DecodeTenantBindings(r) \/ ResolveHomeRoot(r) \/ ChooseMode(r)
    \/ PlanCallers(r) \/ PlanFileTopics(r) \/ PlanGitignore(r)
    \/ PlanCodeowners(r) \/ PlanConventions(r) \/ PlanReturns(r)
    \/ Confirm(r) \/ Decline(r)
    \/ OpenFile(r) \/ WriteFile(r) \/ Finish(r)

FaultStep(r) == ReadFails(r) \/ OpenFails(r) \/ WriteFails(r) \/ Crash(r)

Next ==
    \/ \E r \in Runs : Start(r) \/ RunStep(r) \/ Return(r) \/ FaultStep(r)
    \/ TenantStep

Spec == Init /\ [][Next]_vars

(* A started process leaves the place where it is.  Every RunStep does, and  *)
(* at each of these places one is enabled, whatever the tree holds.          *)
Moves(r) ==
    /\ pc[r] \notin {"idle", "exit"}
    /\ \E there \in {"mode", "planned", "prompt", "write", "writing", "exit"}
                      \cup Reading :
          there # pc[r] /\ pc' = [pc EXCEPT ![r] = there]

(* A started process runs on to its end; nothing obliges an owner to edit, a *)
(* user to start a run, or a fault to happen. A prompt is answered.  Moves   *)
(* stands for RunStep: it is fair under the same behaviors, and whether it is*)
(* enabled shows without planning anything.                                  *)
FairSpec ==
    Spec /\ \A r \in Runs : WF_pc(Moves(r)) /\ WF_vars(Return(r))

(* ... and the user starts another run whenever one has ended, and does not  *)
(* decline every prompt.                                                     *)
RetrySpec ==
    FairSpec /\ \A r \in Runs : WF_vars(Start(r)) /\ SF_vars(Confirm(r))

-------------------------------------------------------------------------------
(* Type invariant.                                                           *)
TypeOK ==
    /\ tenant \in [TenantPaths -> Contents \cup {Absent}]
    /\ authored \in [TenantPaths -> Contents \cup {Absent}]
    /\ pc \in [Runs -> {"idle", "mode", "planned", "prompt", "write", "writing",
                        "exit"} \cup Reading]
    /\ flags \in [Runs -> Invocations \cup {None}]
    /\ bound \in [Runs -> Manifests \cup {None}]
    /\ homeRoot \in [Runs -> Releases \cup {None}]
    /\ applying \in [Runs -> BOOLEAN]
    /\ materials \in [Runs -> Seq([path : TenantPaths, contents : Contents])]
    /\ written \in [Runs -> Nat]
    /\ \A r \in Runs : written[r] \in 0..Len(materials[r])
    /\ shown \in [Runs -> Seq(TenantPaths)]
    /\ exit \in [Runs -> {-1, 0, 1, 2}]
    /\ faults \in 0..MaxFaults /\ edits \in 0..MaxEdits

-------------------------------------------------------------------------------
(* Safety.                                                                   *)

(* No surface of a manifest is tenant data, and none but the gitignore is on *)
(* the path of a gitignore.  The validation relates no path of one section to*)
(* a path of another, so manifests can be otherwise.                         *)
BoundPaths(b) == Range(SurfaceOrder(b))

TenantDataApart ==
    \A b, other \in Manifests :
        ValidBindings(b) => BoundPaths(b) \cap TenantDataPaths(other) = {}

GitignoresApart ==
    \A b \in Manifests :
        ValidBindings(b) =>
            \A i \in 1..Len(SurfaceOrder(b)) :
                SurfaceOrder(b)[i] \in GitignorePaths => i = Len(b.callers) + 4

(* No two surfaces of a manifest are bound to one path.                      *)
SurfacesApart ==
    \A b \in Manifests :
        ValidBindings(b) =>
            \A i, j \in 1..Len(SurfaceOrder(b)) :
                SurfaceOrder(b)[i] = SurfaceOrder(b)[j] => i = j

(* Every proof of the plan but the one about the tenant's gitignore.         *)
HomeProves(h, b) ==
    /\ CallersProven(h, b) /\ FileTopicsProven(h, b) /\ RegionProven(h, b)
    /\ CodeownersRenders(h) /\ ConventionsProven(h, b)

(* A home publishes the digest of every caller it provides, and provides     *)
(* callers that pin the stand they are bound at.  The provisioner reads      *)
(* neither; the verifier reads both.                                         *)
CallersPublished ==
    \A release \in Releases, b \in Manifests :
        LET h == HomeTree[release]
        IN  ValidBindings(b) /\ CallersProven(h, b) =>
                \A i \in DOMAIN b.callers :
                    /\ b.callers[i].master \in DOMAIN PublishedCallerHashes(h)
                    /\ PublishedCallerHashes(h)[b.callers[i].master]
                          = b.callers[i].sha256
                    /\ CallerPinned(h[b.callers[i].master], b.home)

(* The homes that prove a manifest render its surfaces alike.  The digests   *)
(* leave only the two rendered ones to say it of.                            *)
HomesAgree ==
    \A one, other \in Releases, b \in Manifests :
        /\ ValidBindings(b)
        /\ HomeProves(HomeTree[one], b) /\ HomeProves(HomeTree[other], b)
        => /\ RenderedCodeowners(HomeTree[one], b)
                = RenderedCodeowners(HomeTree[other], b)
           /\ b.conventions # Unbound =>
                 RenderedConventions(HomeTree[one], b)
                   = RenderedConventions(HomeTree[other], b)

Applied(r) == pc[r] = "exit" /\ exit[r] = 0 /\ applying[r]

Unmarked(contents) == contents # Absent /\ ~ HasMark(contents)

(* What of a gitignore file is the tenant's own: the block below the mark,   *)
(* or all of a file without one.                                             *)
OwnedBlock(contents) ==
    IF contents = Absent THEN <<>>
    ELSE IF HasMark(contents) THEN ProjectBlock(contents)
    ELSE contents

(* A run that writes was told to: by --yes without --dry-run, or by the      *)
(* answer to a prompt that listed exactly the files this plan writes, though *)
(* the plan was made a second time after it (main.go:98-129).                *)
WritesAreConfirmed ==
    \A r \in Runs : pc[r] \in {"write", "writing"} =>
        /\ ~ flags[r].dryRun
        /\ \/ flags[r].yes
           \/ flags[r].terminal /\ shown[r] = Paths(materials[r])

(* The manifest, the config seam and the tooling module hold what the        *)
(* tenant's owners left there, whatever runs did (provision-canonical.md:    *)
(* "Tenant-authored data is never written").                                 *)
TenantDataNeverWritten ==
    \A path \in UNION {TenantDataPaths(b) : b \in Manifests} :
        tenant[path] = authored[path]

(* Whatever was planned, re-planned, written over or abandoned, the project  *)
(* block in the tree is the one its owners last wrote, except while a write  *)
(* of the file is under way (provision.go:116-121).                          *)
ProjectBlockKept ==
    \A path \in GitignorePaths :
        \/ \E r \in Runs : Holds(r, path)
        \/ OwnedBlock(tenant[path]) = OwnedBlock(authored[path])

(* No run overwrites a gitignore file without the mark, be it tenant-written *)
(* or what an interrupted write left behind (provision.go:152-153).          *)
UnmarkedNeverOverwritten ==
    [][\A path \in GitignorePaths :
          Unmarked(tenant[path]) /\ tenant'[path] # tenant[path] =>
              \/ \E r \in Runs : Holds(r, path)
              \/ authored'[path] = tenant'[path]]_vars

(* A run that reports success leaves a tenant that passes every surface      *)
(* proof of the verifier against the same home tree (provision.go:27-28).    *)
ProvisionedTenantConforms ==
    \A r \in Runs :
        Applied(r) => SurfacesConform(tenant, HomeTree[homeRoot[r]], bound[r])

(* Provisioning a tenant that already conforms rewrites every surface with   *)
(* the bytes it has: no block grows, no line is doubled.                     *)
ReapplyIsStable ==
    \A r \in Runs :
        /\ pc[r] = "write" /\ written[r] = 0
        /\ SurfacesConform(tenant, HomeTree[homeRoot[r]], bound[r])
        => \A i \in DOMAIN materials[r] :
              tenant[materials[r][i].path] = materials[r][i].contents

(* However runs over the same manifest and home tree overlap, when all have  *)
(* ended and one of them succeeded, the tenant conforms.                     *)
OverlappingRunsConverge ==
    /\ \A r \in Runs : pc[r] = "exit" /\ bound[r] # None /\ homeRoot[r] # None
    /\ \E r \in Runs : Applied(r)
    => \A r \in Runs :
          Applied(r) => SurfacesConform(tenant, HomeTree[homeRoot[r]], bound[r])

(* Every proof of every surface comes before the first write, and the tenant *)
(* changes only by the proven materials, in order (provision.go:67-81).      *)
Remaining(r) ==
    IF pc[r] \in {"write", "writing"}
    THEN SubSeq(materials[r], written[r] + 1, Len(materials[r]))
    ELSE <<>>

(* A plan is proven for a home tree and a manifest when it holds every       *)
(* surface in order, the hash-bound ones with contents of the bound digest,  *)
(* the gitignore with the digest-bound region as its prefix, the rendered    *)
(* ones with the render of the home template.                                *)
ProvenPlan(plan, h, b) ==
    LET callers == Len(b.callers)
        contents == [i \in DOMAIN plan |-> plan[i].contents]
    IN  /\ Paths(plan) = SurfaceOrder(b)
        /\ \A i \in 1..callers :
              Sum256Hex(contents[i]) = b.callers[i].sha256
        /\ \A i \in 1..3 :
              Sum256Hex(contents[callers + i]) = b.files[FileTopics[i]].sha256
        /\ RegionProven(h, b)
        /\ IsPrefix(BoundRegion(h, b), contents[callers + 4])
        /\ CodeownersRenders(h)
        /\ contents[callers + 5] = RenderedCodeowners(h, b)
        /\ b.conventions # Unbound =>
              /\ ConventionsRender(h, b)
              /\ contents[callers + 6] = RenderedConventions(h, b)

ProvenForTenant(plan) ==
    \E release \in Releases, b \in Manifests :
        ValidBindings(b) /\ ProvenPlan(plan, HomeTree[release], b)

Promised == INSTANCE ProvenWrites WITH
    Proven <- ProvenForTenant,
    approved <- [r \in Runs |-> Remaining(r)],
    TenantEdited <- {BindingsFileName} \cup GitignorePaths \cup ToolsPaths

ProofsBeforeWrites == Promised!Promise

-------------------------------------------------------------------------------
(* Liveness.                                                                 *)

(* Once faults and edits cease - they do, by their bounds - runs that are    *)
(* retried bring the tenant to conformance, wherever earlier runs stopped,   *)
(* and from then on it is out of conformance only while a file is being      *)
(* rewritten.  Provided the home tree it pins proves its manifest, and its   *)
(* gitignore is not one the CLI refuses.                                     *)
Provisionable(h, b) ==
    /\ HomeProves(h, b)
    /\ GitignoreComposes(h, b, tenant[b.files["gitignore"].path])

Settled ==
    \A b \in Manifests :
        \A release \in PinnedReleases(tenant[b.tools.module], b.home.repository) :
            /\ tenant[BindingsFileName] = ManifestFile(b)
            /\ ValidBindings(b)
            /\ Provisionable(HomeTree[release], b)
            => SurfacesConform(tenant, HomeTree[release], b)

RetriesConverge == <>[](Settled \/ \E r \in Runs : pc[r] = "writing")
===============================================================================
