\* Liveness: any one fault but a database error; a restart may find no
\* configuration; any request to GitHub and any command may hang.
SPECIFICATION FairSpec
CONSTANTS
    MaxBuilds = 2
    Repos = {r1}
    Commits = {c1}
    Pids = {p1, p2}
    FaultKinds = {"restart", "start", "builder", "fs", "github"}
    MaxFaults = 1
    HasGitHub = TRUE
    DeployRepos = {}
    Configs <- MaybeConfigured
PROPERTIES
    BuildsFinish
    UnusedDirsGo
    ResultsReachGitHub
