\* What the schema requires against what the decoder requires.
SPECIFICATION MCSpec
CONSTANTS
    Absent = Absent
    Unbound = Unbound
    Empty = Empty
    NoValue = NoValue
    CoreFragment = "core"
    AreaFragments <- MCAreaFragments
    SecretFamilies = {}
    Negations = {}
    Probes = {}
    Matches <- MCMatches
    ManifestPaths <- MCManifestPaths
    WorkflowPaths <- MCWorkflowPaths
    MasterPaths <- MCMasterPaths
    Pins = {"sha1"}
    Repositories = {"home"}
    ReleaseTags = {"v1.0.0"}
    DefaultRoot <- Here
INVARIANTS
    RequiredFieldsAreStated
\* The intake ends with a manifest or an exit code.
CHECK_DEADLOCK FALSE
