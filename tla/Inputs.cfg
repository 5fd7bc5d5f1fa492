\* Every command line of up to four arguments, every manifest two deviations from a good one.
SPECIFICATION MCSpec
CONSTANTS
    Absent = Absent
    Unbound = Unbound
    Empty = Empty
    NoValue = NoValue
    CoreFragment = "core"
    AreaFragments <- MCAreaFragments
    SecretFamilies = {}
    Negations = {}
    Probes = {}
    Matches <- MCMatches
    ManifestPaths <- MCManifestPaths
    WorkflowPaths <- MCWorkflowPaths
    MasterPaths <- MCMasterPaths
    Pins = {"sha1"}
    Repositories = {"home"}
    ReleaseTags = {"v1.0.0"}
    DefaultRoot <- Here
INVARIANTS
    TypeOK
    ArgumentsPlayOneRole
    PublishedManifestsDecode
    NothingElseByOmission
    DecodedPathsStayBelow
\* The intake ends with a manifest or an exit code.
CHECK_DEADLOCK FALSE
