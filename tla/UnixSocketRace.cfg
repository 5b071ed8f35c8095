SPECIFICATION LiveSpec
CONSTANTS
    Servers = {s1, s2}
    Inodes = {i1, i2, i3}
    None = None
    Exclusive = FALSE
PROPERTIES UnlinksItsOwn
CHECK_DEADLOCK FALSE
