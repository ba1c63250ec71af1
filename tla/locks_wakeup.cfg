SPECIFICATION Spec
CONSTANTS
    s1 = s1  s2 = s2
    h1 = h1  h2 = h2  h3 = h3
    Server = {s1, s2}
    Handle = {h1, h2, h3}
    ServerOf <- Servers
    Pid = {1}
    Request = {1, 2, 3, 4}
    Space = 8
    Inputs <- WaitInputs
    SMB2 = FALSE
CHECK_DEADLOCK FALSE
INVARIANT NoLostWakeup
