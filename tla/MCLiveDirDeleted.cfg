\* The server restarts after it started a builder and before it recorded that.
SPECIFICATION Spec
CONSTANTS
    MaxBuilds = 1
    Repos = {r1}
    Commits = {c1}
    Pids = {p1, p2}
    FaultKinds = {"restart"}
    MaxFaults = 1
    HasGitHub = FALSE
    DeployRepos = {r1}
    Configs <- AlwaysConfigured
SYMMETRY PidSymmetry
INVARIANTS
    LiveBuilderDirsKept
