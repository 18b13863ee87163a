SPECIFICATION PmmSpec
CONSTANT NPAGE = 5
INVARIANT default_check
