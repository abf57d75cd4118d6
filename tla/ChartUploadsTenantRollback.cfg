\* A form sent to a tenant's repo, with one failure of storage.
CONSTANTS
    u1 = u1
    c1 = c1
    root = root
    t1 = t1
    Uploaders = {u1}
    Charts = {c1}
    Repos = {t1}
    Root = root
    AllowOverwrite = FALSE
    MaxStorageObjects = 0
    UseStatefiles = FALSE
    FormRepos = {t1}
    Absent = Absent
    Old = Old
    MaxFailures = 1
SYMMETRY Symmetry
SPECIFICATION Spec
INVARIANTS
    FailedLeavesNothing
