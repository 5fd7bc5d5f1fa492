\* The verifier alone: every checkout, every home tree, every kind of failing call.
SPECIFICATION VerifySpec
CONSTANTS
    Absent = Absent
    Unbound = Unbound
    Empty = Empty
    None = None
    CoreFragment = "core"
    AreaFragments <- MCAreaFragments
    SecretFamilies <- MCSecretFamilies
    Negations <- MCNegations
    Probes <- MCProbes
    Matches <- MCMatches
    ManifestPaths <- MCManifestPaths
    WorkflowPaths <- MCWorkflowPaths
    MasterPaths <- MCMasterPaths
    Pins = {"sha1", "sha2"}
    Repositories = {"home"}
    Texts <- MCTexts
    CallerHashRecords <- MCCallerHashRecords
    HomeTree <- MCVerifierHomeTree
    Releases <- AllReleases
    Manifests <- VerifierManifests
    Trees <- EveryTree
    HomeFlags <- EveryHome
    Authority <- MCAuthority
    Kernel <- MCKernel
    LicenseHub <- MCLicenseHub
    LicenseTool <- MCLicenseTool
    ModuleTree <- DisjointModules
    MaxInt = 3
    Faults = {"read", "silent", "resolve", "vanish", "tool"}
    MaxFaults = 2
INVARIANTS
    TypeOK
    PassIsSound
    FailIsFounded
    SearchedPacksAreCarried
    OnlyPacksCanBeSkipped
\* The process ends with its report.
CHECK_DEADLOCK FALSE
