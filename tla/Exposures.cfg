\* A verification that reads surface by surface beside a provisioning run that
\* writes, crashes and is started again.
SPECIFICATION ExposuresSpec
CONSTANTS
    Absent = Absent
    Unbound = Unbound
    Empty = Empty
    None = None
    CoreFragment = "core"
    AreaFragments <- MCAreaFragments
    SecretFamilies <- MCSecretFamilies
    Negations <- MCNegations
    Probes <- MCProbes
    Matches <- MCMatches
    ManifestPaths <- MCManifestPaths
    WorkflowPaths <- MCWorkflowPaths
    MasterPaths <- MCMasterPaths
    Pins = {"sha1", "sha2"}
    Repositories = {"home"}
    Texts <- MCTexts
    CallerHashRecords <- MCCallerHashRecords
    HomeTree <- MCHomeTree
    TenantPaths <- MCTenantPaths
    r1 = r1
    r2 = r2
    Releases <- TwoReleases
    Published <- TwoReleases
    Manifests <- TwoManifests
    InitialTrees <- StaleTrees
    ProjectBlocks <- TwoBlocks
    Invocations <- ConfirmedInvocations
    Runs = {r1}
    Faults = {"crash"}
    MaxFaults = 1
    MaxEdits = 1
    EditsDuringRuns = FALSE
INVARIANTS
    ExposuresTypeOK
    PassLasts
PROPERTIES
    VerdictOfSomeTree
