\* One of two registries that carry the same pack is unavailable.
SPECIFICATION Spec
CONSTANTS
    Absent = Absent
    Unbound = Unbound
    Empty = Empty
    None = None
    CoreFragment = "core"
    AreaFragments <- MCAreaFragments
    SecretFamilies <- MCSecretFamilies
    Negations <- MCNegations
    Probes <- MCProbes
    Matches <- MCMatches
    ManifestPaths <- MCManifestPaths
    WorkflowPaths <- MCWorkflowPaths
    MasterPaths <- MCMasterPaths
    Pins = {"sha1", "sha2"}
    Repositories = {"home"}
    Texts <- MCTexts
    CallerHashRecords <- MCCallerHashRecords
    HomeTree <- MCVerifierHomeTree
    Releases <- AllReleases
    Manifests <- VerifierManifests
    Trees <- LintTree
    HomeFlags <- PinnedHome
    Authority <- MCAuthority
    Kernel <- MCKernel
    LicenseHub <- MCLicenseHub
    LicenseTool <- MCLicenseTool
    ModuleTree <- OverlappingModules
    MaxInt = 3
    Faults = {"resolve"}
    MaxFaults = 1
INVARIANTS
    PacksCarriedOnce
\* The process ends with its report.
CHECK_DEADLOCK FALSE
