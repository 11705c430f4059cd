\* Three builds that copy one another's dirs while the cache moves; no faults.
SPECIFICATION Spec
CONSTANTS
    MaxBuilds = 3
    Repos = {r1}
    Commits = {c1}
    Pids = {p1, p2}
    FaultKinds = {}
    MaxFaults = 0
    HasGitHub = FALSE
    DeployRepos = {r1}
    Configs <- AlwaysConfigured
SYMMETRY PidSymmetry
INVARIANTS
    TrackedBuilderDirsKept
PROPERTIES
    ImplementsLifecycle
