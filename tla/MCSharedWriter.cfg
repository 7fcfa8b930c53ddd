SPECIFICATION Spec
CONSTANTS
    c1 = c1
    c2 = c2
    c3 = c3
    stdout = stdout
    stderr = stderr
    file = file
    Clients = {c1, c2, c3}
    Paths = {stdout, stderr, file}
    Shared = {stdout, stderr}
    PathsOf <- MCPathsOf
INVARIANTS TypeOK CountIsHolders WritesAreOpen AllOrNothing
PROPERTY IsRefCounted
