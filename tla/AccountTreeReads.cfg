\* Leaves are set in a tree that is built: are its proofs what they were?
SPECIFICATION Spec
CONSTANTS
    NilLeaf = NilLeaf
    Zero = Zero
    Depth = 4
    Accounts <- MCAccounts
    WordBits = 4
    WorkersNum = 3
    Rounds = 2
PROPERTIES SetsInvisible
