\* Three addresses, one of which does not parse, and two browsers of a user.
SPECIFICATION MCSpec
CONSTANTS
    b1 = b1  b2 = b2  x = x  y = y  z = z  h1 = h1  h2 = h2  None = None
    Address = {x, y, z}
    Unparsed = {z}
    Handler = {h1, h2}
    MaxToken = 2
    MaxFault = 1
    Browser = {b1, b2}
    Listener = {b1}
    MaxSession = 2
    Buffer = 1
    MaxEvent = 2
    MaxFailure = 1
INVARIANTS SessionsKept AddressIsProven TokenIsMailed ResetWorksOnce
PROPERTY EndedSocketCloses
CHECK_DEADLOCK FALSE
