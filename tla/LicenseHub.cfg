\* A license-hub tenant whose project block ignores the license family.
SPECIFICATION Spec
CONSTANTS
    Absent = Absent
    Unbound = Unbound
    Empty = Empty
    None = None
    CoreFragment = "core"
    AreaFragments <- MCAreaFragments
    SecretFamilies <- MCSecretFamilies
    Negations <- MCNegations
    Probes <- MCProbes
    Matches <- MCMatches
    ManifestPaths <- MCManifestPaths
    WorkflowPaths <- MCWorkflowPaths
    MasterPaths <- MCMasterPaths
    Pins = {"sha1", "sha2"}
    Repositories = {"home"}
    Texts <- MCTexts
    CallerHashRecords <- MCCallerHashRecords
    HomeTree <- MCHomeTree
    TenantPaths <- MCTenantPaths
    r1 = r1
    r2 = r2
    Releases <- TwoReleases
    Published <- TwoReleases
    Manifests <- LicenseHubManifests
    InitialTrees <- LicenseHubTrees
    ProjectBlocks <- LicenseBlocks
    Invocations <- ConfirmedInvocations
    Runs = {r1}
    Faults = {}
    MaxFaults = 0
    MaxEdits = 1
    EditsDuringRuns = FALSE
INVARIANTS
    ProvisionedTenantConforms
