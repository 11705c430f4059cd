\* The server restarts between reading an exit code and recording the result.
SPECIFICATION Spec
CONSTANTS
    MaxBuilds = 1
    Repos = {r1}
    Commits = {c1}
    Pids = {p1, p2}
    FaultKinds = {"restart"}
    MaxFaults = 1
    HasGitHub = FALSE
    DeployRepos = {r1}
    Configs <- AlwaysConfigured
SYMMETRY PidSymmetry
INVARIANTS
    VerdictRecorded
