CONSTANTS
    u1 = u1
    u2 = u2
    k1 = k1
    k2 = k2
    c1 = c1
    c2 = c2
    None = None
    Unit <- MCUnit
    Key <- MCKey
    Cred <- MCCred
    MaxCredChanges = 2
    MaxErrors = 1
    PreAttempts = 2
    WaitInner = 2
    WaitOuter = 2
SPECIFICATION Spec
INVARIANT TypeOK QuiescentConfigured
