------------------------------- MODULE Verifier --------------------------------
(***************************************************************************)
(* The conformance CLI as a process: cmd/verify-canonical/main.go with     *)
(* Verifier.Verify and Verifier.Report (internal/canonical/verify.go).  A  *)
(* run decodes the manifest, resolves the home tree, walks the proof       *)
(* families in their order, collects the families that have a finding, and *)
(* passes only without one.                                                *)
(*                                                                         *)
(* The tenant tree is a checkout that does not change while it is          *)
(* verified, so a family that reads only the tenant and the home tree is   *)
(* one step.  The capability packs are a loop over registries and          *)
(* references: what each step finds there decides what the next one sees.  *)
(* Any read, module resolution or tool call can fail, and the code answers *)
(* the failures differently: with a finding, by dropping a registry, or    *)
(* not at all.                                                             *)
(***************************************************************************)
EXTENDS RenderCore, FiniteSets

CONSTANTS
    HomeTree,       \* release |-> home tree
    Trees,          \* the tenant checkouts there are
    HomeFlags,      \* the --home flags a run may be given, None without
    None,           \* what is not set
    Authority,      \* the language territory home: registry and tool catalog
    Kernel,         \* the shared kernel: the other registry
    LicenseHub,     \* the module of the license hub
    ModuleTree,     \* module |-> release |-> what the verifier reads of it
    LicenseTool,    \* the package of the license CLI
    MaxInt,         \* the largest int
    Faults,         \* which of "read", "silent", "resolve", "vanish", "tool"
                    \* can happen
    MaxFaults       \* bound on the faults of a behavior

VARIABLES
    tenant,         \* the checkout
    homeFlag,       \* the --home flag
    pc,             \* the family that is proven next
    bound,          \* the decoded manifest
    homeRoot,       \* the resolved release
    references,     \* the pack references still to resolve
    owners,         \* the registry owners still to locate
    identity,       \* the module the tenant's go.mod declares
    trees,          \* owner |-> its registry tree, None if not located
    findings,       \* the families with a finding
    exit,           \* the exit code, -1 before
    faults          \* those there were, in their order (auxiliary)

world == <<tenant, homeFlag>>
program == <<bound, homeRoot>>
registry == <<references, owners, identity, trees>>
vars == <<world, pc, program, registry, findings, exit, faults>>

ASSUME VerifierAssumption ==
    /\ MaxInt \in Nat /\ MaxFaults \in Nat
    /\ HomeFlags \subseteq Releases \cup {None}
    /\ Authority # Kernel /\ None \notin {Authority, Kernel}

GoModPath == "go.mod"
HomeModulePath == <<"go.mod">>
CapabilitiesPath == "capabilities"
LicenseFiles == [values |-> "license.values.json", lock |-> "license.lock.json"]

-------------------------------------------------------------------------------
(* The config seam: one document, or what does not decode.                   *)
QualityDecodes(contents) ==
    contents # Absent /\ Len(contents) = 1 /\ contents[1].kind = "config"

QualityConforms(t, b) ==
    LET contents == t[b.quality.config]
    IN  QualityDecodes(contents)
        /\ contents[1].schemaVersion = b.quality.schemaVersion

(* go.mod is a sequence of lines. The first "module" line names the module.  *)
ModuleIdentity(contents) ==
    LET lines == SelectSeq(contents, LAMBDA line : line.kind = "module")
    IN  IF lines = <<>> THEN None ELSE lines[1].module

(* The first line that begins with "toolchain" decides. parts is the number  *)
(* of components of goX.Y or goX.Y.Z, and 0 if it is neither.                *)
ToolchainConforms(contents) ==
    LET lines == SelectSeq(contents, LAMBDA line : line.kind = "toolchain")
    IN  lines # <<>> /\ lines[1].parts \in {2, 3}

-------------------------------------------------------------------------------
(* Tool directives.                                                          *)

(* Line i is inside a tool block: the last bracket before it opened one.     *)
InBlock(contents, i) ==
    \E j \in 1..(i - 1) :
        /\ contents[j].kind = "toolBlock"
        /\ \A k \in (j + 1)..(i - 1) : contents[k].kind # "close"

Terminated(contents) == ~ InBlock(contents, Len(contents) + 1)

(* Inside a block every line but the bracket counts as a package, whatever   *)
(* it says; outside, only a "tool" line.                                     *)
ToolDirectives(contents) ==
    LET inside == {i \in DOMAIN contents : InBlock(contents, i)}
        entries == {i \in inside : contents[i].kind # "close"}
        single == {i \in DOMAIN contents \ inside : contents[i].kind = "tool"}
    IN  {IF contents[i].kind = "entry" THEN contents[i].package ELSE contents[i] :
            i \in entries}
        \cup {contents[i].package : i \in single}

(* A catalog that decodes, with the canonical schema identity.               *)
CanonicalCatalog(module) ==
    module.catalog # Absent /\ module.catalog.schema = "canonical"

(* The package of the home's own verifier; without a module line none, and   *)
(* the proof fails.                                                          *)
HomeTool(h) ==
    IF h[HomeModulePath] = Absent \/ ModuleIdentity(h[HomeModulePath]) = None
    THEN None
    ELSE [verifierOf |-> ModuleIdentity(h[HomeModulePath])]

UnadmittedTools(tools, catalog, homeTool) == tools \ (catalog.packages \cup {homeTool})

(* The module directories a resolution through the tooling module can answer.*)
Resolved(tooling, module) ==
    {ModuleTree[module][release] : release \in PinnedReleases(tooling, module)}

(* verifyTools, given the directories the catalog module resolves to. A      *)
(* tenant without a tooling module, or without directives, has nothing to    *)
(* admit.                                                                    *)
ToolsConform(t, h, b, catalogDirs) ==
    LET tooling == t[b.tools.module]
    IN  \/ tooling = Absent
        \/ /\ Terminated(tooling)
           /\ \/ ToolDirectives(tooling) = {}
              \/ \E module \in catalogDirs :
                    /\ CanonicalCatalog(module)
                    /\ HomeTool(h) # None
                    /\ UnadmittedTools(ToolDirectives(tooling), module.catalog,
                                       HomeTool(h)) = {}

-------------------------------------------------------------------------------
(* Capability packs. A registry is the set of its descriptors: each lies at  *)
(* a location (area, capability, major) and carries the identity it states   *)
(* of itself, None if it does not decode.                                    *)

(* A declaration is pinned, and then has a capability and a major, or it is  *)
(* not of the reference grammar. The loop keeps the pinned ones, in order.   *)
Parsed(declared) ==
    LET parsed[i \in 0..Len(declared)] ==
            IF i = 0 THEN <<>>
            ELSE IF declared[i].pinned THEN Append(parsed[i - 1], declared[i])
            ELSE parsed[i - 1]
    IN  parsed[Len(declared)]

(* The error of the conversion is dropped: a major beyond the largest int is *)
(* the largest int.                                                          *)
Major(reference) == IF reference.major > MaxInt THEN MaxInt ELSE reference.major

Located(packs, reference) ==
    {pack \in packs : /\ pack.capability = reference.capability
                      /\ pack.major = Major(reference)}

WellIdentified(pack) ==
    pack.identity = [area |-> pack.area, capability |-> pack.capability,
                     major |-> pack.major]

(* A home's own registry is its working tree; without one it carries nothing.*)
OwnPacks(t) == IF t[CapabilitiesPath] = Absent THEN {} ELSE t[CapabilitiesPath][1].packs

-------------------------------------------------------------------------------
(* The license family.                                                       *)
IsDocument(contents) ==
    contents # Absent /\ Len(contents) = 1 /\ contents[1].kind \in {"json", "lock"}

(* Values and lock decode, and the lock names a template, version and digest.*)
LicenseWired(t) ==
    /\ IsDocument(t[LicenseFiles.values])
    /\ IsDocument(t[LicenseFiles.lock])
    /\ t[LicenseFiles.lock][1].kind = "lock"

(* What has to hold before the hub is resolved and its tool runs.            *)
LicenseReady(t, b) ==
    /\ LicenseWired(t)
    /\ t[LicenseFiles.lock][1].template.prefixed
    /\ t[b.tools.module] # Absent
    /\ Terminated(t[b.tools.module])
    /\ LicenseTool \in ToolDirectives(t[b.tools.module])

(* The hub's CLI: the committed instance is the render of the locked template.*)
LicenseVerifies(t, hub) ==
    LET template == t[LicenseFiles.lock][1].template.path
    IN  template \in DOMAIN hub.templates /\ t["LICENSE"] = hub.templates[template]

LicenseConforms(t, b) ==
    b.class.licenseHub =>
        /\ LicenseReady(t, b)
        /\ \E hub \in Resolved(t[b.tools.module], LicenseHub) : LicenseVerifies(t, hub)

-------------------------------------------------------------------------------
(* What the documents of a checkout decode to, and what the module system    *)
(* answers: one directory at most for a module, since a build has one version*)
(* of it.                                                                    *)
ASSUME CheckoutsAssumption ==
    \A t \in Trees : Decodes(t[BindingsFileName]) =>
        LET b == t[BindingsFileName][1].bindings
        IN  /\ b \in Manifests
            /\ PinnedReleases(t[b.tools.module], b.home.repository) \subseteq Releases
            /\ QualityDecodes(t[b.quality.config]) =>
                  IsSequence(t[b.quality.config][1].extends)
            /\ t[GoModPath] # Absent /\ ModuleIdentity(t[GoModPath]) \in {Authority, Kernel}
                  => OwnPacks(t) # None
            /\ \A owner \in {Authority, Kernel} :
                  \A module, other \in Resolved(t[b.tools.module], owner) :
                      module = other /\ module.packs # None

-------------------------------------------------------------------------------
Init ==
    /\ tenant \in Trees
    /\ homeFlag \in HomeFlags
    /\ pc = "decode"
    /\ bound = None /\ homeRoot = None
    /\ references = <<>> /\ owners = <<Authority, Kernel>>
    /\ identity = None /\ trees = [owner \in {Authority, Kernel} |-> None]
    /\ findings = {}
    /\ exit = -1
    /\ faults = <<>>

home == HomeTree[homeRoot]
tooling == tenant[bound.tools.module]

Abort == pc' = "done" /\ exit' = 1

DecodeTenantBindings ==
    /\ pc = "decode"
    /\ IF Decodes(tenant[BindingsFileName])
       THEN /\ bound' = tenant[BindingsFileName][1].bindings
            /\ pc' = "home"
            /\ UNCHANGED exit
       ELSE Abort /\ UNCHANGED bound
    /\ UNCHANGED <<world, homeRoot, registry, findings, faults>>

ResolveHomeRoot ==
    /\ pc = "home"
    /\ LET resolved == IF homeFlag # None THEN {homeFlag}
                       ELSE PinnedReleases(tooling, bound.home.repository)
       IN  \/ /\ homeRoot' \in resolved
              /\ pc' = "callers"
              /\ UNCHANGED exit
           \/ /\ resolved = {}
              /\ Abort
              /\ UNCHANGED homeRoot
    /\ UNCHANGED <<world, bound, registry, findings, faults>>

(* The families that are one step, in their order.                           *)
FamilyAfter ==
    [callers |-> "files", files |-> "codeowners", codeowners |-> "conventions",
     conventions |-> "quality", quality |-> "extends",
     toolchain |-> "tools", tools |-> "license", license |-> "report"]

Judge(family, conforms) ==
    findings' = IF conforms THEN findings ELSE findings \cup {family}

Prove(family, conforms) ==
    /\ pc = family
    /\ Judge(family, conforms)
    /\ pc' = FamilyAfter[family]
    /\ UNCHANGED <<world, program, registry, exit, faults>>

VerifyCallers == Prove("callers", CallersConform(tenant, home, bound))

VerifyFiles ==
    Prove("files",
          /\ \A i \in DOMAIN FileTopics :
                FileTopicConforms(tenant, home, bound, FileTopics[i])
          /\ GitignoreConforms(tenant, home, bound))

VerifyCodeowners == Prove("codeowners", CodeownersConforms(tenant, home, bound))

VerifyConventions == Prove("conventions", ConventionsConform(tenant, home, bound))

VerifyQuality == Prove("quality", QualityConforms(tenant, bound))

VerifyToolchain ==
    Prove("toolchain", /\ tenant[GoModPath] # Absent
                       /\ ToolchainConforms(tenant[GoModPath]))

(* Mutation: a catalog that cannot be resolved admits every tool. *)
VerifyToolsWithoutCatalog ==
    LET dirs == Resolved(tooling, Authority)
    IN  Prove("tools", dirs = {} \/ ToolsConform(tenant, home, bound, dirs))

(* Mutation: the tooling module has to be there. *)
VerifyToolsWhenPresent ==
    Prove("tools", /\ tooling # Absent
                   /\ ToolsConform(tenant, home, bound, Resolved(tooling, Authority)))

VerifyTools ==
    Prove("tools",
          ToolsConform(tenant, home, bound, Resolved(tooling, Authority)))

VerifyLicense == Prove("license", LicenseConforms(tenant, bound))

-------------------------------------------------------------------------------
(* verifyExtends.                                                            *)

(* The config seam is read and decoded again. What the first reading has a   *)
(* finding for, the second passes over.                                      *)
ReadReferences ==
    /\ pc = "extends"
    /\ LET contents == tenant[bound.quality.config]
           declared == IF QualityDecodes(contents) THEN contents[1].extends ELSE <<>>
       IN  /\ references' = Parsed(declared)
           /\ Judge("packs", Len(Parsed(declared)) = Len(declared))
           /\ pc' = IF Parsed(declared) = <<>> THEN "toolchain" ELSE "tooling"
    /\ UNCHANGED <<world, program, owners, identity, trees, exit, faults>>

RequireTooling ==
    /\ pc = "tooling"
    /\ Judge("packs", tooling # Absent)
    /\ pc' = IF tooling = Absent THEN "toolchain" ELSE "identity"
    /\ UNCHANGED <<world, program, registry, exit, faults>>

ReadIdentity ==
    /\ pc = "identity"
    /\ identity' = IF tenant[GoModPath] = Absent THEN None
                   ELSE ModuleIdentity(tenant[GoModPath])
    /\ pc' = "locate"
    /\ UNCHANGED <<world, program, references, owners, trees, findings, exit, faults>>

(* The next owner's registry has these packs, or is unavailable: None.       *)
Locate(packs) ==
    /\ trees' = [trees EXCEPT ![Head(owners)] = packs]
    /\ owners' = Tail(owners)
    /\ pc' = IF Len(owners) = 1 THEN "packs" ELSE "locate"
    /\ UNCHANGED <<world, program, references, identity, findings, exit>>

(* The registry trees a resolution of the owner through the tooling module   *)
(* can answer; none is answered by an error.                                 *)
PinnedPacks(owner) ==
    LET packs == {module.packs : module \in Resolved(tooling, owner)}
    IN  IF packs = {} THEN {None} ELSE packs

(* Mutation: a home's registry comes from its tooling module, too. *)
LocateRegistryAtPin ==
    /\ pc = "locate"
    /\ \E packs \in PinnedPacks(Head(owners)) : Locate(packs)
    /\ UNCHANGED faults

LocateRegistry ==
    /\ pc = "locate"
    /\ IF identity = Head(owners) THEN Locate(OwnPacks(tenant))
       ELSE \E packs \in PinnedPacks(Head(owners)) : Locate(packs)
    /\ UNCHANGED faults

Available == {owner \in DOMAIN trees : trees[owner] # None}

Carriers(reference) ==
    UNION {{<<owner, pack>> : pack \in Located(trees[owner], reference)} :
              owner \in Available}

(* One reference is done: with a finding unless it resolved.                 *)
PackDone(resolves) ==
    /\ Judge("packs", resolves)
    /\ references' = Tail(references)
    /\ pc' = IF Len(references) = 1 THEN "toolchain" ELSE "packs"
    /\ UNCHANGED <<world, program, owners, identity, trees, exit>>

(* Mutation: any number of carriers is enough. *)
ResolvesAtLeastOnce(found) ==
    found # {} /\ \A match \in found : WellIdentified(match[2])

Resolves(found) ==
    \E match \in found : found = {match} /\ WellIdentified(match[2])

ResolvePack ==
    /\ pc = "packs"
    /\ PackDone(Resolves(Carriers(Head(references))))
    /\ UNCHANGED faults

(* Mutation: the exit code counts the families that failed. *)
ReportCount ==
    /\ pc = "report"
    /\ exit' = Cardinality(findings)
    /\ pc' = "done"
    /\ UNCHANGED <<world, program, registry, findings, faults>>

Report ==
    /\ pc = "report"
    /\ exit' = IF findings = {} THEN 0 ELSE 1
    /\ pc' = "done"
    /\ UNCHANGED <<world, program, registry, findings, faults>>

-------------------------------------------------------------------------------
(* Failing calls.                                                            *)
Fault(kind) ==
    kind \in Faults /\ Len(faults) < MaxFaults /\ faults' = Append(faults, kind)

(* Whether verifyTools gets as far as the catalog module.                    *)
NeedsCatalog ==
    tooling # Absent /\ Terminated(tooling) /\ ToolDirectives(tooling) # {}

(* The calls a family makes that can fail, and then are its finding.         *)
Calls(family) ==
    {kind \in {"read", "resolve", "tool"} :
        CASE kind = "read" ->
                /\ family = "conventions" => bound.conventions # Unbound
                /\ family = "license" => bound.class.licenseHub
          [] kind = "resolve" ->
                \/ family = "tools" /\ NeedsCatalog
                \/ family = "license" /\ bound.class.licenseHub /\ LicenseReady(tenant, bound)
          [] kind = "tool" ->
                /\ family = "license" /\ bound.class.licenseHub
                /\ LicenseReady(tenant, bound)
                /\ Resolved(tooling, LicenseHub) # {}}

FamilyFails ==
    /\ pc \in DOMAIN FamilyAfter
    /\ \E kind \in Calls(pc) : Fault(kind)
    /\ Judge(pc, FALSE)
    /\ pc' = FamilyAfter[pc]
    /\ UNCHANGED <<world, program, registry, exit>>

ManifestReadFails ==
    /\ pc = "decode"
    /\ Fault("read")
    /\ Abort
    /\ UNCHANGED <<world, program, registry, findings>>

HomeResolutionFails ==
    /\ pc = "home" /\ homeFlag = None
    /\ Fault("resolve")
    /\ Abort
    /\ UNCHANGED <<world, program, registry, findings>>

ToolingReadFails ==
    /\ pc = "tooling"
    /\ Fault("read")
    /\ Judge("packs", FALSE)
    /\ pc' = "toolchain"
    /\ UNCHANGED <<world, program, registry, exit>>

(* A registry is listed, or a descriptor read, in vain.                      *)
RegistryReadFails ==
    /\ pc = "packs"
    /\ Available # {}
    /\ PackDone(FALSE)
    /\ Fault("read")

(* The directory a registry was resolved to is not there when a reference is *)
(* searched, because the module cache was cleaned or the output of the       *)
(* resolution holds more than its directory: a registry that does not exist  *)
(* carries nothing, and is no finding.                                       *)
RegistryVanishes ==
    /\ pc = "packs"
    /\ \E owner \in Available \ {identity} :
          PackDone(Resolves({match \in Carriers(Head(references)) : match[1] # owner}))
    /\ Fault("vanish")

(* A registry that cannot be resolved is unavailable, and no finding.        *)
RegistryResolutionFails ==
    /\ pc = "locate" /\ identity # Head(owners)
    /\ Locate(None)
    /\ Fault("resolve")

(* The second reading of the config seam fails: no references.               *)
ReferencesReadFails ==
    /\ pc = "extends"
    /\ Fault("silent")
    /\ pc' = "toolchain"
    /\ UNCHANGED <<world, program, registry, findings, exit>>

(* The first reading of go.mod fails: not a registry owner.                  *)
IdentityReadFails ==
    /\ pc = "identity"
    /\ Fault("silent")
    /\ pc' = "locate"
    /\ UNCHANGED <<world, program, registry, findings, exit>>

-------------------------------------------------------------------------------
VerifyExtends ==
    ReadReferences \/ RequireTooling \/ ReadIdentity \/ LocateRegistry \/ ResolvePack

Step ==
    \/ DecodeTenantBindings \/ ResolveHomeRoot
    \/ VerifyCallers \/ VerifyFiles \/ VerifyCodeowners \/ VerifyConventions
    \/ VerifyQuality \/ VerifyExtends \/ VerifyToolchain \/ VerifyTools
    \/ VerifyLicense \/ Report

Failure ==
    \/ ManifestReadFails \/ HomeResolutionFails \/ FamilyFails
    \/ ToolingReadFails \/ RegistryReadFails \/ RegistryVanishes
    \/ RegistryResolutionFails \/ ReferencesReadFails \/ IdentityReadFails

Next == Step \/ Failure

Spec == Init /\ [][Next]_vars

-------------------------------------------------------------------------------
(* Properties.                                                               *)

Families == DOMAIN FamilyAfter \cup {"packs"}

(* Every variable keeps its type; the exit code is 0 or 1 once the process   *)
(* has ended (cmd/verify-canonical/main.go:41-88).                           *)
TypeOK ==
    /\ tenant \in Trees /\ homeFlag \in HomeFlags
    /\ pc \in {"decode", "home", "extends", "tooling", "identity", "locate",
               "packs", "report", "done"} \cup DOMAIN FamilyAfter
    /\ bound \in Manifests \cup {None}
    /\ homeRoot \in Releases \cup {None}
    /\ \A i \in DOMAIN references : references[i].pinned
    /\ owners \in {<<Authority, Kernel>>, <<Kernel>>, <<>>}
    /\ DOMAIN trees = {Authority, Kernel}
    /\ findings \subseteq Families
    /\ exit \in {-1, 0, 1}
    /\ faults \in BoundedSeq(Faults, MaxFaults)

(* The two registries at the tenant's pinned tool stand; the one the tenant  *)
(* owns, in its working tree.                                                *)
RegistryAtStand(t, b, owner) ==
    IF t[GoModPath] # Absent /\ ModuleIdentity(t[GoModPath]) = owner
    THEN OwnPacks(t)
    ELSE UNION {module.packs : module \in Resolved(t[b.tools.module], owner)}

(* Where the reference points, at exactly its major, lie these descriptors   *)
(* of the two registries.                                                    *)
CarriersAtStand(t, b, reference) ==
    UNION {{<<owner, pack>> : pack \in
               {p \in RegistryAtStand(t, b, owner) :
                   p.capability = reference.capability /\ p.major = reference.major}} :
           owner \in {Authority, Kernel}}

(* There is exactly one, and it says so itself.                              *)
CarriedOnce(t, b, reference) ==
    \E match \in CarriersAtStand(t, b, reference) :
        /\ CarriersAtStand(t, b, reference) = {match}
        /\ WellIdentified(match[2])

PacksConform(t, b) ==
    LET contents == t[b.quality.config]
    IN  QualityDecodes(contents) =>
            \A i \in DOMAIN contents[1].extends :
                /\ contents[1].extends[i].pinned
                /\ t[b.tools.module] # Absent
                /\ CarriedOnce(t, b, contents[1].extends[i])

(* What a conforming tenant is, said of the tree at once.                    *)
ConformsButForPacks(t, h, b) ==
    /\ SurfacesConform(t, h, b)
    /\ QualityConforms(t, b)
    /\ t[GoModPath] # Absent /\ ToolchainConforms(t[GoModPath])
    /\ ToolsConform(t, h, b, Resolved(t[b.tools.module], Authority))
    /\ LicenseConforms(t, b)

Conforms(t, h, b) == ConformsButForPacks(t, h, b) /\ PacksConform(t, b)

(* No registry carries a pack of the largest int's major, for which a larger *)
(* one of a declaration is taken.                                            *)
MajorsFit ==
    \A t \in Trees : Decodes(t[BindingsFileName]) =>
        \A owner \in {Authority, Kernel} :
            \A pack \in RegistryAtStand(t, t[BindingsFileName][1].bindings, owner) :
                pack.major \in 0..(MaxInt - 1)

(* A passing tenant has every declared capability pack exactly once across   *)
(* the union of the registries, at exactly its major (extends.go:20-28): no  *)
(* answer of a registry, and no failing call, passes another.                *)
PacksCarriedOnce == exit = 0 => PacksConform(tenant, bound)

(* Whatever calls fail: where the registries were searched at all, and for   *)
(* the tenant the checkout is, every declared pack of a passing tenant is    *)
(* carried by a registry at the stand, at exactly its major and with the     *)
(* identity of its location; a failing call can hide a second carrier, never *)
(* conjure the first (resolveRegistries and resolvePackReference,            *)
(* extends.go:190-301).                                                      *)
SearchedPacksAreCarried ==
    /\ exit = 0 /\ owners = <<>>
    /\ tenant[GoModPath] # Absent /\ identity = ModuleIdentity(tenant[GoModPath])
    => LET declared == tenant[bound.quality.config][1].extends
       IN  \A i \in DOMAIN declared :
              /\ declared[i].pinned
              /\ \E match \in CarriersAtStand(tenant, bound, declared[i]) :
                    WellIdentified(match[2])

(* The failures the code answers with no finding.                            *)
PassedOver == {"silent", "resolve", "vanish"}

(* An empty result is the only pass, and it is never the result of missing   *)
(* evidence (verify.go:43-63): whatever calls fail that the code answers     *)
(* with a finding, a run that exits 0 read a tree that conforms.             *)
PassIsSound ==
    exit = 0 /\ Range(faults) \cap PassedOver = {}
    => Decodes(tenant[BindingsFileName]) /\ Conforms(tenant, home, bound)

(* Whatever calls fail, also those whose failure the code passes over, a run *)
(* that exits 0 proved every family but the capability packs: no fault       *)
(* reaches beyond the proof it happens in (verify.go:43-63).                 *)
OnlyPacksCanBeSkipped ==
    exit = 0 => /\ Decodes(tenant[BindingsFileName])
                /\ ConformsButForPacks(tenant, home, bound)

(* A run in which no call fails exits 1 only for a tree that does not decode,*)
(* has no home, or does not conform: the nine families refuse nothing else.  *)
FailIsFounded ==
    exit = 1 /\ faults = <<>> =>
        \/ bound = None
        \/ homeRoot = None
        \/ ~ Conforms(tenant, home, bound)

(* The selector of the workflow payloads: exactly one toolchain line, with a *)
(* three-part version.                                                       *)
PayloadInstalls(contents) ==
    LET lines == SelectSeq(contents, LAMBDA line : line.kind = "toolchain")
    IN  Len(lines) = 1 /\ lines[1].parts = 3

(* The toolchain directive of a passing tenant is one the payloads resolve   *)
(* and install exactly (toolchain.go:43-46).                                 *)
PassingToolchainInstalls == exit = 0 => PayloadInstalls(tenant[GoModPath])
===============================================================================
