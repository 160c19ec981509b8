\* Password rotation without set_content failures.
CONSTANTS
    u1 = u1  u2 = u2  u3 = u3  p1 = p1  p2 = p2
    Operator = Operator  Backup = Backup  Monitor = Monitor
    None = None
    Unit <- MCUnit
    Pwd <- MCPwd
    MaxSets = 2
    MaxSetErrors = 0
SPECIFICATION Spec
INVARIANT SecretMatchesDb
PROPERTY AtomicPasswords
