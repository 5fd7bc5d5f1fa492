\* Two processes resolve modules again and again while commands fail or warn,
\* the cache is cleaned and filled, and requirements are edited.
SPECIFICATION FairSpec
CONSTANTS
    p1 = p1
    p2 = p2
    v1 = v1
    v2 = v2
    Processes <- MCProcesses
    Versions <- MCVersions
    Modules = {"catalog", "hub"}
    NotRequired = NotRequired
    Failed = Failed
    NoDirectory = NoDirectory
    MixedOutput = MixedOutput
    None = None
    Disturbances = {"network", "stderr", "clean", "edit"}
    MaxDisturbances = 2
INVARIANTS
    TypeOK
PROPERTIES
    CacheDoesNotMatter
    ResolutionsRecover
