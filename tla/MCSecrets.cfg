\* Write-backs of the secret cache with both failures of set_content.
CONSTANTS
    u1 = u1  u2 = u2  u3 = u3  p1 = p1  p2 = p2
    Operator = Operator  Backup = Backup  Monitor = Monitor
    None = None
    Unit <- MCUnit
    Pwd <- MCPwd
    MaxSets = 2
    MaxSetErrors = 1
SYMMETRY MCSymmetry
SPECIFICATION Spec
PROPERTY WriteBackKeepsOthers
