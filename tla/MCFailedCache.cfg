\* A failed build of the default branch becomes the cache.
SPECIFICATION Spec
CONSTANTS
    MaxBuilds = 1
    Repos = {r1}
    Commits = {c1}
    Pids = {p1}
    FaultKinds = {}
    MaxFaults = 0
    HasGitHub = FALSE
    DeployRepos = {r1}
    Configs <- AlwaysConfigured
SYMMETRY PidSymmetry
INVARIANTS
    CacheFromSuccess
