\* Forms sent to one repo, single files to another that is at its limit.
CONSTANTS
    u1 = u1
    u2 = u2
    c1 = c1
    c2 = c2
    root = root
    t1 = t1
    Uploaders = {u1, u2}
    Charts = {c1, c2}
    Repos = {root, t1}
    Root = root
    AllowOverwrite = FALSE
    MaxStorageObjects = 1
    UseStatefiles = TRUE
    FormRepos = {root}
    Absent = Absent
    Old = Old
    MaxFailures = 1
SYMMETRY Symmetry
SPECIFICATION Spec
INVARIANTS
    LimitOvershoot
    FailedLeavesNothing
