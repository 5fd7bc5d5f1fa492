\* Failing reads, failing and partial writes, and crashes at every point of a
\* confirmed or interactive run that is retried; owners edit between runs.
SPECIFICATION RetrySpec
CONSTANTS
    Absent = Absent
    Unbound = Unbound
    Empty = Empty
    None = None
    CoreFragment = "core"
    AreaFragments <- MCAreaFragments
    SecretFamilies <- MCSecretFamilies
    Negations <- MCNegations
    Probes <- MCProbes
    Matches <- MCMatches
    ManifestPaths <- MCManifestPaths
    WorkflowPaths <- MCWorkflowPaths
    MasterPaths <- MCMasterPaths
    Pins = {"sha1", "sha2"}
    Repositories = {"home"}
    Texts <- MCTexts
    CallerHashRecords <- MCCallerHashRecords
    HomeTree <- MCHomeTree
    TenantPaths <- MCTenantPaths
    r1 = r1
    r2 = r2
    Releases <- TwoReleases
    Published <- TwoReleases
    Manifests <- TwoManifests
    InitialTrees <- MarkedAndUnmarked
    ProjectBlocks <- TwoBlocks
    Invocations <- ConfirmedOrAsked
    Runs = {r1}
    Faults = {"read", "write", "crash"}
    MaxFaults = 2
    MaxEdits = 1
    EditsDuringRuns = FALSE
PROPERTIES
    ProofsBeforeWrites
    UnmarkedNeverOverwritten
    RetriesConverge
