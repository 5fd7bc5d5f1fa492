\* A toolchain directive of two parts.
SPECIFICATION Spec
CONSTANTS
    Absent = Absent
    Unbound = Unbound
    Empty = Empty
    None = None
    CoreFragment = "core"
    AreaFragments <- MCAreaFragments
    SecretFamilies <- MCSecretFamilies
    Negations <- MCNegations
    Probes <- MCProbes
    Matches <- MCMatches
    ManifestPaths <- MCManifestPaths
    WorkflowPaths <- MCWorkflowPaths
    MasterPaths <- MCMasterPaths
    Pins = {"sha1", "sha2"}
    Repositories = {"home"}
    Texts <- MCTexts
    CallerHashRecords <- MCCallerHashRecords
    HomeTree <- MCVerifierHomeTree
    Releases <- AllReleases
    Manifests <- VerifierManifests
    Trees <- TwoPartTree
    HomeFlags <- PinnedHome
    Authority <- MCAuthority
    Kernel <- MCKernel
    LicenseHub <- MCLicenseHub
    LicenseTool <- MCLicenseTool
    ModuleTree <- DisjointModules
    MaxInt = 3
    Faults = {}
    MaxFaults = 0
INVARIANTS
    PassingToolchainInstalls
\* The process ends with its report.
CHECK_DEADLOCK FALSE
