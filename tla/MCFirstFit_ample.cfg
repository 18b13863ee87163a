SPECIFICATION AmpleSpec
CONSTANT NPAGE = 5
INVARIANTS BlocksExact MaximalBlocks
