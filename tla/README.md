# Verification of the canonical provisioning and conformance tooling

This directory holds TLA+ specifications of this repository's program: the two
CLIs that materialize and verify the canonical surfaces of a tenant repository
from a pinned home tree. TLC model-checks them on small instances; TLAPS proves
the most important properties for every instance.

    cd tla
    tlc -workers 2 -config Provision.cfg MCProvisioner     # one of the runs below
    tlc -workers 2 -config Verify.cfg MCVerifier
    tlapm ProvisionerProofs.tla                            # the proofs

## 1. The system

The repository is the *home*: it publishes caller masters, file topics, gitignore
fragments, templates, capability packs and a tool catalog. A *tenant* repository
carries a binding manifest (`repo-bindings.json`) that names, for every canonical
surface, the tenant path and the digest or render values it is bound to. The home
reaches a tenant as a Go module that the tenant's tooling module pins, hence as an
immutable directory of the module cache.

| part | state it keeps | operations | talks to |
|---|---|---|---|
| governed gitignore region (`gitignore.go`, `preserveGitignoreProjectBlock`) | none | validate fragments, render the region, find license violations, keep the project block | called by both exposures |
| command line of both CLIs (`cmd/*/main.go`) | the argument loop | switches, values, `--version`, usage errors | selects the root and the home of a process |
| binding manifest (`bindings.go`, `repo-bindings/v2` schema) | none; decoded once per process | decode strictly, validate | read by both exposures from the tenant tree |
| render core (`provision.go`, `callers.go`, `files.go`, `conventions.go`) | none | prove and render each surface | home tree (read only), tenant tree |
| provisioning CLI (`cmd/provision-canonical`) | the process: flags, manifest, home root, plan; the tenant tree outlives it | plan, preview, confirm, apply | tenant tree, `go mod download`/`go list`, the user |
| conformance verifier (`verify.go`, `cmd/verify-canonical`) | the process: manifest, findings | nine proof families, report | tenant tree, home tree, module cache, `go tool` |
| capability-pack registry (`extends.go`) | none | resolve pack references against two registries, prove their identity | config seam, module cache |
| tool pins and catalog (`tools.go`) | none | parse directives, prove admission and pins | tooling module, home catalog |
| license orchestration (`license.go`) | none | prove the wiring, resolve the hub, run the hub's verify command | license files, tooling module, `go tool` |
| toolchain directive (`toolchain.go`, `reusable-ci-go.yml`) | none | select the toolchain | `go.mod`, CI payload |
| module resolution (`production.go`) | the module cache | download, then list | Go toolchain |
| release lanes (`tag-promoted-release.yml`, `hotfix-delivery.yml`, `publish-release-artifacts.yml`) | runs in their concurrency groups, what was delivered | detect a promotion, dispatch, admit, deliver, publish | GitHub |
| other lanes (`hotfix-propagation.yml`, `release-control.yml`, ...) | none | pass the inputs of a dispatch to a reusable workflow | GitHub |
| conformance vectors, contract tests, other schemas | none | evidence for the above | tests |

Everything the two CLIs write is a file of the tenant tree, nothing is locked, and
nothing but that tree, and the module cache, survives a process. That is where the hard
behaviours are:

* **Order of proofs and writes.** Every surface is proven against its binding before
  the first write. One proof made too late would leave a half-provisioned tenant.
* **A plan that is made twice.** An interactive run plans for the preview and again
  for the mutation; the user agreed to the first.
* **Stale reads.** The gitignore is read while planning and written after every
  earlier surface. Owners, or another run, can change it in between.
* **Partial failure and crashes.** `os.WriteFile` truncates in place when it opens the
  file and then writes from its beginning; a failure leaves an empty or cut file, and
  some surfaces new and some old, and a second writer's bytes can stay behind a shorter write.
* **Repetition.** Runs follow each other over re-bound manifests and re-pinned homes.
  Each composes the region over the file the last one left; a project block must
  neither grow nor shrink however many there are.
* **Two exposures, one truth.** The provisioner claims that what it provisions
  passes the verifier, and proves less of a surface than the verifier does.
* **Missing evidence.** The verifier reads files, resolves modules over the network and
  runs a tool; the code answers a failure with a finding, by dropping a registry, or not
  at all. The config seam is read twice, `go.mod` twice, the tooling module up to four
  times. No failure may turn a refusal into a pass.
* **A verifier beside a writer.** The verifier reads one file after the other while a
  provisioning run truncates and rewrites them. A verdict could be put together from
  surfaces of different stands, or be stale when it is reported.
* **Two processes over one cache.** A module is downloaded by one command and listed by
  the next; others clean and fill the cache in between, owners edit the requirement.
* **Workflow runs that overtake each other.** A newer pending run of a concurrency group
  cancels the older one. Detections wait while their pull request is reopened, closed
  again and merged; a dispatch must not share a group with what it replaces.
* **Inputs that are read in part.** A missing key decodes as a zero value, a flag takes
  whatever follows it, a path is split by a loop that must reach one past its end.

What makes each part correct:

| part | properties |
|---|---|
| governed region | the project block survives every composition; composing twice equals composing once; a region never contains a second mark |
| command line | every argument plays one role, the same the whole line gives it |
| manifest | what the schema admits decodes; what decodes is what the schema admits, up to omissions; no bound path leaves the tenant |
| provisioner | writes only when told to, only what it showed, only proven and complete plans, never tenant data, never an unmarked gitignore; a success conforms; retries converge |
| verifier | an empty result only if every family was proven, whatever calls failed; a refusal only of what does not conform; beside a writer, the verdict of some one tree |
| registry | a passing reference has exactly one carrier at exactly its major, whichever registries answer |
| tool pins | every pinned tool is admitted by the canonical catalog or is the home's own |
| license | the hub's tool runs only on wired files at the pinned stand |
| toolchain | the Go selector and the payload's selector agree |
| module resolution | the outcome is the tooling module's, whatever the cache holds |
| release lanes | only merged promotions are delivered, at their merge commit, one delivery of a branch at a time, and no promotion and no pushed tag is lost in a queue but to a newer one of its branch |

## 2. Modules

| module | models | source |
|---|---|---|
| `GovernedRegion` | fragment list form, fail-closed render, license probes, project-block preservation | `gitignore.go`, `provision.go:148-163` |
| `Bindings` | the manifest and its validation, the order of the surfaces | `bindings.go`, `files.go:15-25` |
| `RenderCore` | what each surface renders to; the provisioner's and the verifier's proofs of it | `provision.go:83-205`, `callers.go`, `files.go`, `conventions.go` |
| `Provisioner` | the CLI as a process on a shared tenant tree, with faults, crashes and owners | `cmd/provision-canonical/main.go`, `provision.go` |
| `ProvenWrites` | the abstract promise of the write exposure | what `Apply` and `Plan` claim |
| `Verifier` | the conformance CLI as a process: nine families, the registry search, the report, failing calls | `cmd/verify-canonical/main.go`, `verify.go`, `quality.go`, `extends.go`, `tools.go`, `license.go`, `toolchain.go`, `setup-controlled-go/action.yml` |
| `Exposures` | a verification that reads surface by surface beside the runs of `Provisioner` | `verify.go:43-63`, `callers.go`, `files.go`, `conventions.go` |
| `AtomicVerification` | the abstract promise of a verdict: some one tree since the claim deserves it | what `Verify` claims |
| `CommandLine` | the argument loop, and the reading of a whole command line it is compared with | both `main.go` |
| `ManifestPath` | the path grammar, character by character, and where a path leads | `bindings.go:435-466` |
| `ManifestDocument` | the wire form of a manifest, its strict decoding, and the published schema | `bindings.go`, `schemas/repo-bindings/v2` |
| `Intake` | from the command line to a decoded manifest and a bound home | both `main.go` |
| `ModuleCache` | download and list by several processes over a shared cache | `production.go:67-91` |
| `CachelessResolution` | the abstract promise of a resolution, in which there is no cache | `self-sufficient-module-resolution.md` |
| `ReleaseLanes` | detections, dispatches, concurrency groups, admission, delivery, publication | the three lane workflows |
| `MCRenderCore`, `MCProvisioner`, `MCVerifier`, `MCExposures`, `MCIntake`, `MCModuleCache`, `MCReleaseLanes` | home releases, manifests, tenant trees, registries, documents, pull requests | instances only |
| `GovernedRegionProofs` | lemmas about the governed region | |
| `ProvisionerProofs` | inductive invariant, type correctness, confirmation; `Provisioner` implements `ProvenWrites` | |
| `TenantDataProofs` | tenant data, project blocks, unmarked files, re-applying | |
| `ConformanceProofs` | what a successful run leaves conforms, alone and beside others; `Exposures` implements `AtomicVerification`; what passed lasts | |
| `VerifierProofs` | types; what a pass proves, whatever fails; what a refusal proves | |
| `IntakeProofs` | types; the argument loop, the paths, the decoder against the schema in both directions | |
| `ModuleCacheProofs` | `ModuleCache` implements `CachelessResolution` | |
| `ReleaseLanesProofs` | the queue excludes, and only promotions are delivered | |

Each of `GovernedRegionProofs`, `ProvisionerProofs`, `TenantDataProofs`, `ConformanceProofs`
EXTENDS the one before it, and `VerifierProofs` and `IntakeProofs` the first, so a lemma is
proved once.

`RenderCore` EXTENDS `Bindings`, which EXTENDS `GovernedRegion`; `Provisioner` and
`Verifier` EXTEND `RenderCore`: both exposures apply one set of renders, as in the code.
`Exposures` EXTENDS `Provisioner` and runs the verification on the same `tenant`; it
instantiates `AtomicVerification`, as `Provisioner` does `ProvenWrites` and
`ModuleCache` does `CachelessResolution`, each under a refinement mapping. `Intake`
EXTENDS `CommandLine`, `ManifestPath` and `ManifestDocument` (hence `Bindings`) and ends
in the states `Provisioner` and `Verifier` begin in: a manifest that satisfies
`ValidBindings`, and a home handed over or pinned.

### How state and actions correspond to the code

A file is a sequence of *chunks*: a pattern line, a comment, the mark, a line feed, a
generated header, a fragment with its generated source header, a template token, a
text. A chunk is the unit of every byte comparison the code makes, so prefix, split
at the first mark, substring and equality of files are prefix, first occurrence,
membership and equality of sequences. A digest is the value `[sha256 |-> contents]`:
it names the contents it was taken from, and collisions are assumed away. The
grammars of single strings (paths, pins, coordinates) are constant sets: a string is
what it is tested for.

| variable of `Provisioner` | in the code |
|---|---|
| `tenant` | the working tree below `tenantRoot` |
| `pc[r]` | the point of `run` (main.go:49-139) that process `r` has reached; `exit` is the dead process |
| `flags[r]` | `--home`, `--dry-run`, `--yes` and whether stdin is a terminal |
| `bound[r]`, `homeRoot[r]` | `bindings` and `home` of `run` |
| `applying[r]` | whether `Apply`, and not the preview, called `Plan` |
| `materials[r]`, `written[r]` | `Plan`'s result, and the index of `Apply`'s loop |
| `shown[r]` | the paths `writePlan` printed |
| `exit[r]` | the exit code; -1 before it and for a killed process |
| `authored`, `faults`, `edits` | auxiliary: what owners last left at a path, and the bounds |

| action | code |
|---|---|
| `Start` | flag parsing; `--version` and usage errors end before anything is read |
| `DecodeTenantBindings`, `ResolveHomeRoot` | main.go:159-183, with `ResolveModuleDir` answering with the release the tooling module requires |
| `ChooseMode` | main.go:98-113: `--dry-run` over `--yes` over the terminal check |
| `PlanCallers` ... `PlanConventions` | the five steps of `Plan`; each proves, then appends, or ends the run with exit 1 |
| `PlanReturns`, `Confirm`, `Decline` | preview, prompt, and the second `Plan` of `Apply` |
| `OpenFile`, `WriteFile`, `Finish` | `Apply`'s loop; a write is a truncation and an arrival, laid over what the file holds by then (`Landed`) |
| `ReadFails`, `OpenFails`, `WriteFails`, `Crash` | error returns of the reads and writes; of a partial write any prefix lands |
| `EditProjectBlock`, `RemoveUnmarked`, `Rebind`, `RepinTools` | the tenant's owners |
| `Return` | the process is gone; the next invocation starts from nothing |

The steps of `Plan` that only read the home tree are atomic: it is a read-only
module directory. A read of the tenant tree and each half of a write is a step of
its own, so everything another process or an owner can do between them happens.

| variable of `Verifier` | in the code |
|---|---|
| `tenant`, `homeFlag` | the checkout and `--home`; neither changes |
| `pc` | the family `Verify` (verify.go:52-62) comes to next, or the point of `run` before and after |
| `bound`, `homeRoot` | `bindings` and `homeRoot` of `run` |
| `references`, `owners` | what the loops of `verifyExtends` and `resolveRegistries` have left |
| `identity`, `trees` | `module` and `search` of `resolveRegistries`; an unavailable registry is `None` |
| `findings` | the families in the collected list: the report only asks whether it is empty |
| `exit`, `faults` | the exit code; auxiliary bound |

| action | code |
|---|---|
| `DecodeTenantBindings`, `ResolveHomeRoot`, `Report` | `run` of `cmd/verify-canonical` |
| `VerifyCallers` ... `VerifyLicense` | one family each, atomic: it reads only a checkout and immutable module directories |
| `ReadReferences`, `RequireTooling`, `ReadIdentity` | `verifyExtends` up to `resolveRegistries`, and `tenantModuleIdentity` |
| `LocateRegistry`, `ResolvePack` | the loops over owners and over references |
| `ManifestReadFails`, `HomeResolutionFails` | end the run with 1 |
| `FamilyFails`, `ToolingReadFails`, `RegistryReadFails` | become a finding |
| `RegistryResolutionFails` | drops a registry (extends.go:213-216) |
| `RegistryVanishes` | a registry directory that is gone when it is searched, or never was one because stderr was mixed into it, counts as a registry without packs (extends.go:243) |
| `ReferencesReadFails`, `IdentityReadFails` | pass without a finding (extends.go:130-133, 178-181) |

`go.mod` files are sequences of lines, a registry is the set of its descriptors with
their locations and the identity each states, and the hub's CLI is external: it compares
the committed license with the render of the locked template.

| variable of `Exposures` | in the code |
|---|---|
| `place`, `position`, `finding` | which file `Verify` reads next, and whether its findings are still none |
| `claim`, `verdict` | the manifest and home of the verification under way, and the last exit |
| `deserved`, `quiet`, `standing` | auxiliary: the verdicts of the trees since the claim, whether no call failed since, and what passed last and still stands |

| action | code |
|---|---|
| `BeginVerification` | reads the manifest and binds the home |
| `VerifySurface` | one file: a caller, a file topic, the gitignore, CODEOWNERS, the conventions README |
| `ReportVerdict` | the report |
| `ProvisioningStep`, `ProvisioningFault`, `OwnersStep` | the actions of `Provisioner`, beside it |

| variable of `Intake` | in the code |
|---|---|
| `command`, `disk` | `os.Args`, and the manifests below the roots |
| `index`, `parsed` | the argument loop and its locals; `expects` is a flag whose value comes next |
| `stage`, `exit` | the point of `run`, and its result |
| `bindings`, `home` | what is decoded, and whether `--home` or the pin binds the home |

Its actions are `NextArgument` and `EndOfArguments` (the loop and `flagValue`), `ReadManifest`
(`decodeTenantBindings`) and `BindHome` (`resolveHomeRoot`). A document is the wire form of
every field (missing, null, of the wrong type, given, or given under a key of another letter
case, which Go's decoder takes), the framing of the whole, and its callers.

| variable of `ModuleCache` | in the code |
|---|---|
| `required` | the tooling module's requirements |
| `cache` | the module directories on disk |
| `place[p]`, `asked[p]`, `outcome[p]` | the command process `p` runs, for which module, and what `ResolveModuleDir` returned |
| `disturbed`, `disturbances` | auxiliary: whose calls were disturbed, and the bound |

`ResolveModuleDir` starts a call, `Download` and `List` are its two commands, `CommandFails`
their errors, `ListWarns` a listing that succeeds and writes to stderr too, which
`CombinedOutput` (production.go:60) makes part of the directory; `CleanCache`, `FillCache`
and `EditTooling` are other processes and owners.

| variable of `ReleaseLanes` | in the workflows |
|---|---|
| `state`, `pushed` | pull requests and tags of the repository |
| `runs` | the runs that have not ended, each with what its event says (the pull request, whether it was merged and its merge commit, or the inputs and the ref) and its status |
| `delivered` | what the reusable workflows delivered or published, in the release lane with the merge commit |
| `requested`, `superseded`, `failed`, `faults`, `events` | auxiliary: what operators asked for, what a newer dispatch of its branch replaced, what failed, the bounds |

`ClosePullRequest`, `ReopenPullRequest`, `PushTag`, `Redeliver` and `Republish` are events, the last
two a `Dispatch` by an operator: with the merge commit of any merged request, and on the main
line or on any tag. A merge commit is named by its pull request; a request that is only closed
has the commit of the merge GitHub tried, or none. `Detect` is the
`detect` job with the dispatch of its delivery, `Approve` the admission by the environment,
`Deliver` the delivery job, `RunFails` a failing one. `Group` is the `concurrency` expression
of each workflow; `Admitted` and `Ended` are GitHub's queue, which is external.

## 3. Model checking

| run | what it asks | distinct states |
|---|---|---|
| `Provision` | every flag combination, six home trees, five tenant trees, invalid and pending manifests, owners that edit, re-bind and re-pin between runs, failing reads | 56,404 |
| `Interrupted` | failing reads, partial writes and crashes anywhere in confirmed and interactive runs, which are retried | 67,333 |
| `Overlapping` | two runs at once without a lock | 10,320 |
| `Verify` | 196 checkouts that conform or diverge, every home tree, any two calls that fail | 103,537 |
| `Exposures` | a verification beside a run that writes, crashes once and is started again, and one edit | about 301,000 |
| `ModuleCache` | two processes resolve two modules over and over, two disturbances of any kind | 87,866 |
| `ReleaseLanes` | four pull requests and two tags, three events, one fault | 63,875 |
| `Inputs` | 22,222 command lines, 12,433 bound paths, and every manifest of up to two deviations | 193,596 |

The properties, and what would break them:

* `WritesAreConfirmed`: a run that writes was told to by `--yes` without `--dry-run`,
  or printed exactly these paths before it was answered. The second plan could list
  other files; it does not, because the manifest is read once. Proved.
* `ProofsBeforeWrites`: `Provisioner` implements `ProvenWrites`. Only a complete plan
  whose contents match every digest and render is ever approved, and the tenant
  changes only by truncations and by its materials in order, each laid over what is
  there, the last one possibly cut. Checked under faults and crashes too. Proved.
* `TenantDataNeverWritten`: manifest, config seam and tooling module hold what owners
  left there. Proved where no surface is bound to them, which the code does not enforce.
* `ProjectBlockKept`: after any history of runs, re-bindings and edits between runs,
  also with overlapping runs, the project block is the one the owners last wrote. Proved
  where writes end.
* `UnmarkedNeverOverwritten`: a file without the mark, be it an owner's or what an
  interrupted write left, is not touched by a run that did not begin its write
  already. Proved of one run at a time.
* `ReapplyIsStable`: provisioning a conforming tenant plans the bytes it has. Proved of
  one run at a time.
* `ProvisionedTenantConforms`: exit 0 implies that the verifier's surface proofs pass. Proved
  of one run at a time.
* `OverlappingRunsConverge`: when overlapping runs over one manifest and home have
  ended and one succeeded, the tenant conforms: runs that hold a file write the same into it,
  or a gitignore that begins with its region whatever stays behind it. Proved
  where opened files are written.
* `RetriesConverge` (liveness): once faults and edits have ceased, the tenant
  conforms from some point on, except while a file is being rewritten. Provided
  the pinned home proves the manifest and the gitignore is not one the CLI refuses.

* `PassIsSound`: exit 0 implies `Conforms`, which says of the whole tree at once what
  the process finds out in steps, whichever calls fail that the code answers with a
  finding. Its part about packs counts carriers over both registries as they are.
  Proved.
* `FailIsFounded`: without a failing call, exit 1 implies that the tree does not decode,
  has no home or does not conform. With `PassIsSound` the verdict is exact. Proved.
* `OnlyPacksCanBeSkipped`: with every kind of failing call, also the silent ones, no
  family but the packs is lost. Proved.
* `SearchedPacksAreCarried`: whatever calls fail, where the registries were searched, and
  for the right tenant, every declared pack of a passing tenant has a carrier at its major,
  with the identity of its place. A failing call can hide a second carrier, never conjure
  the first. Proved.
* `VerdictOfSomeTree`: `Exposures` implements `AtomicVerification`. A pass beside a
  writing run means that the whole tree conformed at one instant since the verification
  began, a failure that at one instant it did not: no verdict is put together from
  surfaces of different stands. It holds because what a single run writes conforms, and
  between two of its writes no file is open; overlapping runs leave no such instant. Proved.
* `PassLasts`: until an owner edits or a call fails, what passed conforms, except a file
  that is being rewritten, although the run that writes may have planned before the
  verification began. Proved of any number of runs.

* `CacheDoesNotMatter`: `ModuleCache` implements `CachelessResolution`. A resolution that
  answers, answers what is required at that instant; it fails only for what is not
  required, or if a command failed or warned, the cache was cleaned or the requirement
  edited while it ran. Proved.
* `ResolutionsRecover` (liveness): nothing a process or the cache remembers of
  disturbances outlasts them.

* `OneDeliveryAtATime`: no two deliveries of one branch are under way at once. Proved.
* `OnlyPromotionsDelivered`: without an operator nothing is delivered but the branch of a
  pull request of this repository that was merged, though closing starts the same
  runs and a closed request may be reopened; the release lane delivers it at that merge.
  Proved.
* `PromotionsDelivered`, `PushedTagsPublished` (liveness): no merged promotion and no
  pushed tag is lost to a run that replaced its own in the queue; it is delivered, or its
  failure recorded. The one exception is in the code: a waiting dispatch is replaced by
  a newer one of its branch, and then the branch is delivered, at the newer one's merge.

* `ArgumentsPlayOneRole`: the argument loop, which sees one argument at a time, agrees
  with the reading of the whole line: which argument ends it, which switches stand where no
  flag takes them for its value, and which value of a flag counts. Proved.
* `PublishedManifestsDecode` and `NothingElseByOmission`: every document of the schema
  in the published form decodes, and every decoded document is one of the schema once the
  omitted fields are filled with zero values: no other type, value, length or framing passes.
  Proved.
* `DecodedPathsStayBelow`: a decoded path leads from the root it is joined to, segment
  by segment, to a place below it. Proved.
* `PacksCarriedOnce`, `PassingToolchainInstalls`, `RequiredFieldsAreStated`: parts of what
  the code claims that it does not always keep, see below.

### Bounds and why they are enough

* Two releases that differ in pin, fragment and file topic: enough for a stale
  manifest, a stale pin, and a composition over another release's region. Five more
  trees fail one proof of the plan each, and one lacks the published record. A tenant tree
  that drifted holds files longer than what they are written with, so that what a write
  leaves behind it would show.
* At most two edits (`MaxEdits`): re-binding and re-pinning together are the shortest
  way from one consistent tenant to another. Two project blocks, empty or not. `Interrupted`
  and `Exposures`, which add faults and a verification, make do with one.
* At most two faults (`MaxFaults`): a retry that is interrupted once more; in `Exposures`
  one crash and one edit, since each begins the history of a verdict anew.
* Runs are not bounded in number: a process returns to `idle` and starts again.
* One caller and two fragments per manifest; lists of another length behave alike,
  which the proofs show for every length.
* `Overlapping` uses symmetry of the two runs, and no liveness property.
* A checkout diverges in the config seam, `go.mod` or tooling module in combination, since
  the families that read them share them, and in the other surfaces one at a time.
  Two references, two registries, two areas: enough for a pack that is unknown, carried
  twice (in two registries or two areas of one), misplaced or beyond the largest int
  (`MaxInt` = 3).
  With `--home`, only checkouts that conform but for their tooling module, and one that is
  not provisioned, vary over the home trees (`HomeTrees`).
* Two processes, two modules and two versions: enough for a process to find what another
  left, and for a module to be required at another version than before. Two disturbances:
  one in a call and one that undoes or hides it.
* Two promotions of one release branch, one of a hotfix, a fork's pull request that looks like
  one, two tags, and three events: a run under way, one pending, one that replaces it.
* Command lines of up to four arguments: two flags with their values, or a switch in every
  role. Paths of up to four characters of `/`, `\`, `.`, `:`, a letter and a control
  character: every reason for a refusal, next to every other. Two deviations of a manifest:
  a field that hides what is wrong with another. 0, 1, 2, 16 and 17 callers: both sides of the
  bounds.
* A verification ends with its report, an intake with a manifest or an exit code, and the
  lanes once all events are over, so `CHECK_DEADLOCK` is off in their configurations.

### Fairness

* `WF(Moves(r))` and `WF(Return(r))` of `Provisioner`: a process that runs keeps being
  scheduled, and a prompt is answered one way or the other. Nothing obliges an owner to
  edit or a fault to happen. `Moves(r)`, the process leaves its place, stands for
  `RunStep(r)`: each step of a run leaves its place, at each place of a started one some step is
  enabled, and what else moves a run is a fault, of which there are finitely many. So the
  two are fair under the same behaviors, but TLC need not plan to see that one is enabled.
* `RetrySpec` adds what is the user's part: `WF(Start(r))`, provisioning is re-run until it
  succeeds, as the CLI's documentation asks, and `SF(Confirm(r))`, the user does not
  decline every prompt. A weak fairness of `Confirm` would say nothing, since declining
  disables it.
* `WF(Command(p))` of `ModuleCache`: a command of the toolchain ends; and the weak fairness
  of resolving: a process that is through with a module resolves the next.
* `WF(\E run \in runs : RunStep(run))` of `ReleaseLanes`: as long as runs can go on, one of
  them does, and reviewers answer. It is the weakest form: nothing says that every
  run does, which follows since events are bounded.

### Where code and documentation differ

Four runs end in a counterexample. Each checks one statement of a comment or document
that the code does not keep:

| run | statement | what happens |
|---|---|---|
| `LicenseHub` | a provisioned tenant passes the verifier (provision.go:28) | the composed gitignore is not probed for the license family |
| `HiddenCarrier` | a pack exists exactly once across both registries (extends.go:24) | the second carrier's registry is unavailable, the ambiguity passes |
| `TwoPartToolchain` | the directive is what the payloads install exactly (toolchain.go:44) | the payload refuses `goX.Y` and more than one directive |
| `SchemaOmission` | the schema requires `class.licenseHub`, and is strictly decoded | a manifest without it decodes, and its license proof is skipped |

The passing runs exclude exactly these circumstances, and those of the list below: owners edit
between runs (`EditsDuringRuns = FALSE`), `ProjectBlockKept` is checked without write faults,
`ProvisionedTenantConforms` over manifests whose pin is the one in their masters and
project blocks that leave the license family alone, and everything of `Provisioner` over
manifests that satisfy `TenantDataApart` and `GitignoresApart`, as every manifest the home
publishes does. `PassIsSound` asks for no failure the code passes over, `VerdictOfSomeTree`
is checked beside one run at a time, and intake compares with the schema of omitted
fields filled in.

What else the models show of the code, without a run of its own:

* A gitignore is read while planning and written after every earlier surface: an edit in
  between is lost, and a file without the mark that appears in between is overwritten,
  although "the provisioner never overwrites unmarked content" (provision.go:152).
  `ProjectBlockKept` and `UnmarkedNeverOverwritten` fail with `EditsDuringRuns = TRUE`.
* A write cut short leaves a gitignore without its block, or with a part of it:
  `ProjectBlockKept` fails with the fault `"write"`. A file cut before the mark has none, so later
  runs refuse it until its owners restore it (`UnmarkedNeverOverwritten`). One cut behind
  the mark keeps it, and later runs compose over what is left of the block.
* Of two writes to one file the later lays its contents over the earlier's: with different
  contents the end of the longer one stays behind the shorter. It does not show where
  runs that overlap are bound by one manifest.
* The validation relates no path of one section to a path of another: a manifest may
  bind a surface to its own path, or to that of the tooling module, which provisioning
  then replaces. Where it does not, `TenantDataIsTheTenants` is proved.
* A manifest whose home pin is not the one in its caller masters is provisioned with
  exit 0 and fails the verifier: `planCallers` does not look at the pin.
* When the second reading of the config seam fails and the first did not, a tenant passes
  with its packs unproven (extends.go:130); so does one whose registry directory is gone
  when it is searched, if the other registry carries the pack too (extends.go:243):
  `PacksCarriedOnce` fails with the faults `"silent"` and `"vanish"`.
* A pack major beyond the integer range is taken for the largest int, since the error of
  `Atoi` is dropped (extends.go:48): `PacksCarriedOnce` fails once a registry has
  a pack of that major.
* Beside two overlapping runs, or owners that edit during a verification, a verdict can be
  one that no tree deserved: `VerdictOfSomeTree` fails.
* Publications dispatched by hand share a group with all dispatches from the same line
  (publish-release-artifacts.yml:19): of several that wait only the newest runs.
* The deliveries of one branch share a group, whatever merge they name
  (tag-promoted-release.yml:23): an operator's redelivery of an older merge replaces the
  waiting delivery of a newer one. `PromotionsDelivered` counts the newer as superseded.

## 4. Proofs

For every set of runs, home trees, manifests, tenant trees, processes, modules, pull
requests, tags, command lines, grammars and bounds:

| theorem | states |
|---|---|
| `TypeCorrect` | `Spec => []TypeOK`, of `Provisioner`, of `ModuleCache` and of `ReleaseLanes` |
| `ConfirmedWrites` | `Spec => []WritesAreConfirmed` |
| `ProvisionerKeepsThePromise` | `Spec => ProofsBeforeWrites`: `Provisioner` implements `ProvenWrites` |
| `InductiveInvariant` | `Spec => []IInv`, on which these and the next nine rest |
| `TenantDataIsTheTenants` | `Spec => []TenantDataNeverWritten`, if `TenantDataApart` |
| `ProjectBlockIsTheOwners` | `Spec => []ProjectBlockKept`, if `GitignoresApart`, `TenantDataApart`, owners wait for runs to end, and only reads fail |
| `UnmarkedIsKept` | `Spec => UnmarkedNeverOverwritten`, if `GitignoresApart` and one run at a time (`Alone`) |
| `ReapplyChangesNothing` | `Spec => []ReapplyIsStable`, under the same |
| `ProvisionedConforms` | `Spec => [](LicenseFamilyKept => ProvisionedTenantConforms)`, if `SurfacesApart`, `CallersPublished` and `Alone` |
| `OverlappingRunsAgree` | `Spec => [](LicenseFamilyKept => OverlappingRunsConverge)`, if besides `HomesAgree`, `TenantDataApart`, owners wait for runs to end, and only reads fail |
| `VerdictsAreOfSomeTree` | `ExposuresSpec /\ []LicenseFamilySpared => VerdictOfSomeTree`: `Exposures` implements `AtomicVerification`, if `SurfacesApart`, `HomesAgree`, `TenantDataApart` and `Alone` |
| `PassesLast` | `ExposuresSpec /\ []LicenseFamilySpared => []PassLasts`, under the same but for any number of runs |
| `ExposuresTypeCorrect` | `ExposuresSpec => []ExposuresTypeOK` |
| `PassProvesTheFamilies` | `Spec => []OnlyPacksCanBeSkipped`, of `Verifier` |
| `PassProvesConformance` | `Spec => []PassIsSound`, if `MajorsFit` |
| `PassCarriesSearchedPacks` | `Spec => []SearchedPacksAreCarried`, if `MajorsFit` |
| `RefusalsAreFounded` | `Spec => []FailIsFounded`, if `MajorsFit` |
| `VerifierTypeCorrect` | `Spec => []TypeOK`, of `Verifier` |
| `IntakeTypeCorrect` | `Spec => []TypeOK`, of `Intake` |
| `ArgumentsAreRead` | `Spec => []ArgumentsPlayOneRole` |
| `DecodedPathsAreBelow` | `Spec => []DecodedPathsStayBelow` |
| `PublishedAreDecoded` | `Spec => []PublishedManifestsDecode` |
| `OnlyOmissionsAreDecoded` | `Spec => []NothingElseByOmission` |
| `ResolutionsIgnoreTheCache` | `Spec => CacheDoesNotMatter`: `ModuleCache` implements `CachelessResolution` |
| `DeliveriesExclude` | `Spec => []OneDeliveryAtATime` |
| `DeliveriesArePromotions` | `Spec => []OnlyPromotionsDelivered` |
| `ProjectBlockSurvives` | composing a region over a preservable file keeps its project block |
| `ComposingAgainIsStable` | composing the same region again changes nothing |

**The inductive invariant.** None of the properties is inductive. `WritesAreConfirmed`
compares the plan being written with the one printed, and nothing in the state of a
run between `Confirm` and the first write says that the second will list the same
paths. `IInv` says what a run holds at each place: `Progress` (what is decoded and
resolved), `Planned` (the materials are exactly what the steps so far make of the
manifest, the home tree and some contents the gitignore may have had, and what was
proven of them), `Confirmed` (a run that applies was told to, or printed
`SurfaceOrder` of its manifest), and that a file is open only while one is left. The
paths of a complete plan are `SurfaceOrder` whatever the tree held when it was read
(`PathsOfPlan`), so the first plan and the second list the same. TLC checked `IInv` as an
invariant of `Provision`, `Interrupted` and `Overlapping` before it was proved.

**The refinement.** `approved[r]` is what a writing run has still to write. `PlanReturns`
of an applying run maps to `Approve`, and `CompletePlanIsProven` reads off `Planned` that
each digest, prefix and render of the plan holds. The truncation maps to `Truncate`, a completed
write to `Write`, a failed or crashed one to `BreakOff`, any other end of a run that applies to
`Stop`, and everything else stutters.

**The verifier's pass.** `PassInv` relates the place of the process to what it has judged:
every family in `Behind[pc]` has a finding or holds of the checkout, the manifest and the
home, none of which changes once read (`HoldsIsStable`). Each family's step adds itself,
the pack steps and every fault add nothing but findings, and `Report` passes only without
any. No assumption is used.

**The packs.** They are judged over several steps, by what is found of two registries.
`PlaceInv` says what the process holds at each place. `PackInv` follows the search: what the
loops over owners and references have left, that a located registry shows nothing but what
stands there, and all of it unless a failure was passed over (`RightTree`), and that every
reference behind the loop without a finding was `Carried`: pinned, shown by a registry, at its
major, under its own name. The counting of carriers is an equality of sets (`Carriers` is a
singleton), so no induction over numbers is needed. `FoundedInv` is the other direction:
as long as no call failed, a finding of a family means that the family does not hold. That the
loops end at the last reference is an induction over the positions of a list; since the
library's induction rules are beyond the provers, it is made of a set instead: what holds of the
first position, and of each after one it holds of, has no least counterexample (`UpTo`).

**What a success leaves.** `Right(h, b, i, contents)` says what the manifest and a home that
proves it determine of surface `i`, whichever run writes it: the digest of a caller or a file
topic, the region a gitignore begins with, the render of the other two. What a run is about to
write is right (`CurrentIsRight`, from `CompletePlanIsProven`). `SettledInv` follows the surfaces
a run has written until it is gone: each is right, or another run holds it open
and is about to make it right. That needs surfaces with paths of their own
(`SurfacesApart`), else a later write of the same run undoes an earlier one. A write lands over
what the file holds by then, so what arrives has to be shown right too (`ArrivingIsRight`): runs
that hold a surface at once write the same, since what is right for it is one thing
(`RightIsOne`), and then the held file is a beginning of it and nothing stays behind
(`HeldInv`); a gitignore may keep another run's end, and begins with its region all the same.
With several runs they have to agree on what is right: they were bound by the manifest the tree
still holds (`BoundInv`, from `TenantDataApart` and owners that wait), and
homes that prove it render alike (`HomesAgree`). What is right and what the verifier asks
differ in two places. The verifier compares a caller with the digest the home publishes and
looks for the pin, which the provisioner reads neither of (`CallersPublished`). And it probes the license
family in the whole gitignore of a license hub, while the provisioner composes the project block
unread: `LicenseFamilyKept` says in which states it makes no difference, and the run
`LicenseHub` shows that without it the theorem is false.

**The verdict.** A surface conforms if its home is proven for it (`SurfaceProven`, which no step
changes: `WalkInv`) and its file is right. `StandingLasts` says of what passed last that each surface
is right, or held by a run; `CurrentIsRight` closes it. For `VerdictOfSomeTree` the invariant is
`VerdictInv`: a finding was deserved by the tree at which it was made; without
one, either the whole tree has conformed at some instant since the claim, or a surface that does not conform
is still ahead of the walk. The step that could break it is the write that repairs the last such
surface behind the reader's back. But a single run writes in the order of the surfaces and
conforms when it has written the last, so either its whole tree conforms at that instant
(`WrittenTreeConforms`), or what it has not written yet lies ahead too. Two runs break it: one repairs
ahead while the other destroys behind, hence `Alone`. `LicenseFamilySpared` is a hypothesis on the
behaviour and not on the constants, since it depends on the project blocks owners write:
the project block of a license hub spares the license family at every instant. The blocks of the
instances satisfy it. TLC checked these invariants on `Exposures` before they were proved, and
`PassesLast`'s with two runs.

**The command line.** `ArgumentsPlayOneRole` speaks of the reading of the whole line, in which
of a row of value flags every second is a value: a parity. `ValuesAlternate` says how it
changes from one position to the next, which is what the loop's `expects` does, and `LoopInv`
relates the locals of the loop to the part of the line before the index: `expects` is set
exactly if the argument at the index is a value, nothing read so far ends the loop, a switch is
set exactly if it has been read, and of the values of a flag the last one bound counts
(`CountsLast`). When the loop ends early, the index is the first argument that ends it
(`FirstEnding`); when it does not, the part before the index is the line.

**The paths.** The decoder looks at the segments between slashes as a set, and
`DecodedPathsStayBelow` at a walk along the characters. `WalkInv` relates the two at every
position of the path: the segment collected so far is what lies after the last slash before
the position (`SegmentIsSplit`, `SegmentGrows`), so it is two dots only where the decoder
would have seen them, and the walk never goes up. That the walk exists as a function of
the position is proved too (`LoopRuns`), again without the library's induction.

**The decoder and the schema.** `ValidByField`, `ConventionsByField`, `CallersByField` and
`FragmentsByField` restate `ValidBindings` of a decoded document as one condition for each
field, as the schema has them. In one direction a given field has the value the schema takes
(`AdmittedField`, `PublishedIsDecoded`). In the other every valid value differs from the zero
value of its field, so it was given, if under another spelling of its key; the exceptions are the
flags and the release tag (`OmissionCompleted`). `DecodedInv` and `RefusedInv` carry both to the
process: a manifest it holds is the one that was decoded, and one it refused does not decode.

**What is the tenant's own.** Every write goes to a path of `SurfaceOrder` of the run's
manifest (`CurrentIsASurface`), which is all that tenant data needs. The project block needs
an invariant that follows it through the run: `BlockInv` says that what a run has planned
for the gitignore carries the owners' block from the moment it was read, and that the file
itself has the block unless a run has truncated it and not written it yet. Planning keeps it
by `ProjectBlockSurvives`; a file another run has truncated is not composed at all, since it
has no mark (`ComposedBlock`); later steps of the plan leave the composed material where it is
(`PlannedBehind`); and a write to a gitignore is the write of that material
(`GitignoreWrite`, from `GitignoresApart`). The material lands whole: runs that hold the
gitignore at once go by one manifest (`BoundInv`, from `TenantDataApart`), whose digest fixes the
region, and carry one block (`GitignoresConcur`), so the file is a beginning of what each is about
to write (`HeldInv`). For one run alone `ReadInv` says more: until the
gitignore is opened, the planned material is composed of the very file that is there. So that file has the mark, and if it conforms, composing gives it back (`PrefixAndAfter`). With
overlapping runs the last two are false, as a run may truncate a file another one planned for.

**The module cache.** `ModuleCache` maps to `CachelessResolution` by forgetting the cache and
the command a call has reached. The invariant that makes it work: a call that has come to
its second command finds the directory of what is required, or it was disturbed. A listing that
warned maps to the abstract answer that is no directory, which only a disturbed call gives.

**The release lanes.** The invariant (`Orderly`) has two parts. `Exclusive`: of the runs of
one group at most one is pending and at most one is not, kept by `Admitted` and `Ended`;
a delivery's group is its lane and branch, so deliveries exclude each other. `Fit`: a run of a pull request's
event names the request's branch and says of it only that it was merged if it is, and then its
merge commit, which
stays so as a merged request is not reopened; a dispatched run delivers what an operator
asked for, branch and commit, or a promotion that was merged, at its merge.

**Assumptions.** Named in the modules and evaluated by TLC in every run: manifests hold
sequences and render values are chunks (`ManifestsAssumption`), a missing file is not a file
(`AbsentAssumption`), home fragments are made of lines (`TreesAssumption`, `TypedHome`), every
bindable path is a path of the tenant tree (`TenantPathsAssumption`), invocations and releases
are well typed, no claim is `None` (`ClaimsAssumption`), decoded checkouts are bound by
manifests of the instance and pin releases of it, and a registry is not a missing one
(`CheckoutsAssumption`), versions are not errors (`CacheAssumption`), numbers, branches and tags are
different things (`LanesAssumption`), a flag that was not given has no value
(`NoValueAssumption`), no grammar takes the empty string (`GrammarsAssumption`), and the strings
taken for paths are paths (`PathsAssumption`). `Intake` begins with any command line over any
documents; `MCIntake` begins with some of them, and its `TypeOK` checks that they are what
`Init` allows. Nothing is assumed about which manifests validate, which
trees they agree with, how runs interleave or where faults occur; colliding paths, edits
during runs, and pins beyond the integer range are covered by all theorems but those that name
a hypothesis in the table. Those hypotheses are operators of the modules, and TLC
evaluates them on the instances: `TenantDataApart`, `GitignoresApart`, `SurfacesApart`
(`InstancesAreApart`), `CallersPublished`, `HomesAgree` (`InstancesAreConsistent`) and `MajorsFit`
(`InstancesFit`). None restates its conclusion: the first three relate paths of one manifest,
the next two what homes publish, the last is the range in which `Atoi` does not fail.

**Only model-checked.** Liveness under fairness lies beyond the provers: `RetriesConverge`,
`ResolutionsRecover`, `PromotionsDelivered` and `PushedTagsPublished`. Every other property of
the passing runs is a theorem. The hypotheses of the table are evaluated by TLC on the
instances, which is why they are definitions of the modules.

## 5. What is not modelled, and why

* The bytes of JSON (a document is the wire form of its fields), the character grammar of
  coordinates, versions and tags, file modes, directory creation, symbolic links, logging and
  wording: data the properties do not tell apart.
* The pattern engine's matching is the constant `Matches`; gitignore semantics are
  abstracted to the last matching pattern deciding, as in `GitignoreLicenseViolations`.
* The order in which validation reports its errors: every violation ends the process
  the same way.
* Conformance vectors, contract tests and the schemas of other documents: data and evidence.
* Lanes that only pass the inputs of a dispatch to a reusable workflow of another repository,
  and what those workflows do: they keep no state here and decide nothing here.
* Installing the selected toolchain, and workflow steps that are shell, network or GitHub's
  own.

Three hazards listed in `PROJECT.json` have no property. They are modelled, and the code has no
answer to them that could be stated: an owner's edit between the reading of the gitignore and
its write (excluded by owners that wait), a manifest that binds two surfaces, or a surface and
tenant data, to one path (excluded by `SurfacesApart`, `GitignoresApart` and `TenantDataApart`),
and publications dispatched by hand that cancel each other, of which no document promises more
than that an operator sees it. Two more are covered in part: that the pack proof can be
skipped, or a second carrier be missed, is what the code does; the properties say how far it
reaches.

## 6. Plan

In order; each step names what it composes with.

1. *(done)* `GovernedRegion`, `Bindings`, `RenderCore`, `Provisioner`, `ProvenWrites`, with proofs.
2. *(done)* `Verifier` with its families, the registry search, tool pins, license and
   toolchain; `PassProvesTheFamilies`.
3. *(done)* `Exposures` over `Provisioner`, with `AtomicVerification`.
4. *(done)* `CommandLine`, `ManifestPath`, `ManifestDocument`, composed in `Intake`.
5. *(done)* `ModuleCache` with `CachelessResolution`, and its proof.
6. *(done)* `ReleaseLanes`, and its proofs.
7. *(done)* `TenantDataProofs`.
8. *(done)* `ConformanceProofs`, also of `Exposures`, and the packs in `VerifierProofs`.
9. *(done)* `IntakeProofs`.
10. The tool directives of `tools.go` line by line, against a line automaton.
