SPECIFICATION OperatorsSpec
CONSTANTS
    Task = {t1, t2, t3}
    Email = {anna, ben}
    Role = {server_owner, read_only}
    Owner = server_owner
    NoTask = no_task
    MaxRestarts = 1
SYMMETRY Symmetry
INVARIANTS
    OneAccountPerEmail
    SessionsWereStored
CHECK_DEADLOCK FALSE
