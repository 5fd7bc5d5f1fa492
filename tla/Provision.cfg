\* One CLI on one tenant: every combination of flags, every home tree, every
\* tenant tree, owners that edit, re-bind and re-pin between runs.
SPECIFICATION Spec
CONSTANTS
    Absent = Absent
    Unbound = Unbound
    Empty = Empty
    None = None
    CoreFragment = "core"
    AreaFragments <- MCAreaFragments
    SecretFamilies <- MCSecretFamilies
    Negations <- MCNegations
    Probes <- MCProbes
    Matches <- MCMatches
    ManifestPaths <- MCManifestPaths
    WorkflowPaths <- MCWorkflowPaths
    MasterPaths <- MCMasterPaths
    Pins = {"sha1", "sha2"}
    Repositories = {"home"}
    Texts <- MCTexts
    CallerHashRecords <- MCCallerHashRecords
    HomeTree <- MCHomeTree
    TenantPaths <- MCTenantPaths
    r1 = r1
    r2 = r2
    Releases <- ConsistentReleases
    Published <- TwoReleases
    Manifests <- ConsistentManifests
    InitialTrees <- EveryTree
    ProjectBlocks <- TwoBlocks
    Invocations <- EveryInvocation
    Runs = {r1}
    Faults = {"read"}
    MaxFaults = 1
    MaxEdits = 2
    EditsDuringRuns = FALSE
INVARIANTS
    TypeOK
    WritesAreConfirmed
    TenantDataNeverWritten
    ProjectBlockKept
    ProvisionedTenantConforms
    ReapplyIsStable
PROPERTIES
    ProofsBeforeWrites
