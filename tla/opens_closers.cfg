SPECIFICATION FairSpec
CONSTANTS
    s1 = s1  s2 = s2  i1 = i1  i2 = i2
    Server = {s1, s2}
    Request = {1, 2, 3, 4}
    ServerOf <- Servers
    Addr = {1, 2}
    Inode = {i1, i2}
    None = None
    Inputs <- Sharing
    FirstLink = i1
CHECK_DEADLOCK FALSE
PROPERTY DeletedOnClose
