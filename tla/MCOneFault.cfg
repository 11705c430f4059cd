\* Any one fault of any kind, two builds, two repositories.
SPECIFICATION Spec
CONSTANTS
    MaxBuilds = 2
    Repos = {r1, r2}
    Commits = {c1}
    Pids = {p1, p2}
    FaultKinds = {"restart", "db", "start", "builder", "fs", "github"}
    MaxFaults = 1
    HasGitHub = TRUE
    DeployRepos = {r1}
    Configs <- AlwaysConfigured
SYMMETRY PidSymmetry
INVARIANTS
    TypeOK
    RunningIffTracked
    NoFalseVerdict
    TrackedBuilderDirsKept
    CacheDirPresentUnlessDeath
    StatusesAreTrue
    EndedCommitsShowResults
    LiveBuildersAreTracked
    VerdictKept
PROPERTIES
    NoLatePending
    ImplementsLifecycle
