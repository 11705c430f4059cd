\* Any two restarts or database errors, at any point: what one
\* interrupted is retried, and hit by the other.
SPECIFICATION Spec
CONSTANTS
    MaxBuilds = 2
    Repos = {r1}
    Commits = {c1}
    Pids = {p1, p2}
    FaultKinds = {"restart", "db"}
    MaxFaults = 2
    HasGitHub = FALSE
    DeployRepos = {}
    Configs <- AlwaysConfigured
SYMMETRY PidSymmetry
INVARIANTS
    NoFalseVerdict
