\* Three words of leaves, three goroutines; the leaves are set and built twice.
SPECIFICATION FairSpec
CONSTANTS
    NilLeaf = NilLeaf
    Zero = Zero
    Depth = 4
    Accounts <- MCAccounts
    WordBits = 4
    WorkersNum = 3
    Rounds = 2
INVARIANTS TypeOK BuiltIsMerkle ProofsVerify
PROPERTIES EventuallyBuilt
