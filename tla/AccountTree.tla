---------------------------- MODULE AccountTree ----------------------------
(***************************************************************************)
(* The account tree: a FixedDepthMerkleTree filled by buildAccountTree.    *)
(* Goroutines set the leaves, each a chunk of the accounts of a tier, and  *)
(* mark them in a bitset whose words they share; then goroutines compute   *)
(* the nodes of one level after the other, each a range of the words of    *)
(* that level's bitset.  A hash is the pair of what it hashes.             *)
(***************************************************************************)
EXTENDS Naturals, Sequences, FiniteSets

CONSTANTS
    Depth,     \* levels above the leaves (AccountTreeDepth)
    Accounts,  \* number of accounts of each asset tier, padding included
    WordBits,  \* bits of a word of a bitset (64)
    WorkersNum, \* goroutines that set leaves, and that build a level
    Rounds,    \* how often the leaves are set and the tree is built (1)
    NilLeaf,   \* NilAccountHash
    Zero       \* the bytes of a new buffer

ASSUME SizeAssumption ==
    /\ Depth \in Nat \ {0} /\ WorkersNum \in Nat \ {0} /\ Rounds \in Nat \ {0}
    /\ Accounts \in Seq(Nat)
    /\ WordBits \in Nat \ {0} /\ WordBits % 2 = 0

Workers == 0 .. WorkersNum - 1
CeilDiv(n, d) == (n + d - 1) \div d

AccountsBefore[t \in 1 .. Len(Accounts) + 1] ==
    IF t = 1 THEN 0 ELSE AccountsBefore[t-1] + Accounts[t-1]
Capacity == AccountsBefore[Len(Accounts) + 1]
Keys == 0 .. Capacity - 1

\* The keys below a node.
Pow2[l \in 0 .. Depth] == IF l = 0 THEN 1 ELSE 2 * Pow2[l-1]

\* The leaves fit, and there is one: no level's bitset is all zero.
ASSUME CapacityAssumption == Capacity \in 1 .. Pow2[Depth]

Hash(left, right) == <<left, right>>
NilHashes[level \in 0 .. Depth] ==
    IF level = 0 THEN NilLeaf ELSE Hash(NilHashes[level-1], NilHashes[level-1])

VARIABLES
    leaves,      \* the leaf buffer
    leavesDirty, \* its bitset: the bits set in each word
    levels,      \* the buffer of each internal level, empty before it is built
    levelDirty,  \* its bitset
    root,
    phase,       \* "set", "build" or "built"
    round,       \* how often leaves have been set so far
    tier,        \* the tier whose leaves are being set
    at,          \* the next account of each worker in its chunk
    pc,          \* "copy", "load" or "swap": the next step of its Set
    old,         \* the word it has loaded
    level,       \* the level being built
    word         \* the next word of each worker in its range

treeVars == <<leaves, leavesDirty, levels, levelDirty, root>>
setVars == <<tier, at, pc, old>>
buildVars == <<level, word>>
vars == <<treeVars, phase, round, setVars, buildVars>>

----------------------------------------------------------------------------
(* Bitsets.                                                                *)

Words(bs) == DOMAIN bs
BitGet(bs, i) == i % WordBits \in bs[i \div WordBits]

\* compressBits
Compressed(bits) == {b \div 2 : b \in bits}

\* Mutant: the length of the parent is rounded down.
ParentLenFloor(n) == (n * (WordBits \div 2)) \div WordBits

ParentLen(n) == CeilDiv(n * (WordBits \div 2), WordBits)

\* propagateDirty: word i of the child lands at bit i * WordBits/2 of the parent.
PropagateDirty(child) ==
    [j \in 0 .. ParentLen(Cardinality(Words(child))) - 1 |->
        {q \in 0 .. WordBits - 1 : \E i \in Words(child) : \E b \in Compressed(child[i]) :
            i * (WordBits \div 2) + b = j * WordBits + q}]

----------------------------------------------------------------------------
(* Reading the tree.                                                       *)

GetNodeAt(l, p) ==
    IF l = 0
    THEN IF p < Capacity /\ BitGet(leavesDirty, p) THEN leaves[p] ELSE NilHashes[0]
    ELSE IF p \div WordBits \in Words(levelDirty[l]) /\ BitGet(levelDirty[l], p)
         THEN levels[l][p] ELSE NilHashes[l]

Get(key) == IF key < Capacity /\ BitGet(leavesDirty, key) THEN leaves[key] ELSE NilHashes[0]

Sibling(p) == IF p % 2 = 0 THEN p + 1 ELSE p - 1

GetProof(key) == [l \in 0 .. Depth - 1 |-> GetNodeAt(l, Sibling(key \div Pow2[l]))]

\* The node at each level that a leaf and its proof lead to.
Climb(key, proof, leaf) ==
    LET node[l \in 0 .. Depth] ==
            IF l = 0 THEN leaf
            ELSE IF (key \div Pow2[l-1]) % 2 = 0 THEN Hash(node[l-1], proof[l-1])
            ELSE Hash(proof[l-1], node[l-1])
    IN  node[Depth]

VerifyProof(r, key, proof, leaf) == key < Pow2[Depth] /\ Climb(key, proof, leaf) = r

----------------------------------------------------------------------------
(* Setting the leaves.                                                     *)

\* The chunk of worker w in a tier, by account index.
ChunkStart(t, w) == AccountsBefore[t] + w * CeilDiv(Accounts[t], WorkersNum)
ChunkEnd(t, w) ==
    IF ChunkStart(t, w + 1) > AccountsBefore[t+1] THEN AccountsBefore[t+1]
    ELSE ChunkStart(t, w + 1)

Init ==
    /\ leaves = [k \in Keys |-> Zero]
    /\ leavesDirty = [i \in 0 .. CeilDiv(Capacity, WordBits) - 1 |-> {}]
    /\ levels = [l \in 1 .. Depth |-> <<>>]
    /\ levelDirty = [l \in 1 .. Depth |-> <<>>]
    /\ root = NilHashes[Depth]
    /\ phase = "set" /\ round = 1
    /\ tier = 1 /\ at = [w \in Workers |-> ChunkStart(1, w)]
    /\ pc = [w \in Workers |-> "copy"] /\ old = [w \in Workers |-> {}]
    /\ level = 1 /\ word = [w \in Workers |-> 0]

\* The hash of an account; another one in each round.
Leaf(key) == [account |-> key, round |-> round]

Copy(w) ==
    /\ phase = "set" /\ pc[w] = "copy" /\ at[w] < ChunkEnd(tier, w)
    /\ leaves' = [leaves EXCEPT ![at[w]] = Leaf(at[w])]
    /\ pc' = [pc EXCEPT ![w] = "load"]
    /\ UNCHANGED <<leavesDirty, levels, levelDirty, root, phase, round, tier, at, old, buildVars>>

\* atomicBitSetTrue: the word is loaded ...
Load(w) ==
    /\ phase = "set" /\ pc[w] = "load"
    /\ old' = [old EXCEPT ![w] = leavesDirty[at[w] \div WordBits]]
    /\ pc' = [pc EXCEPT ![w] = "swap"]
    /\ UNCHANGED <<treeVars, phase, round, tier, at, buildVars>>

SetBit(w) ==
    /\ leavesDirty' = [leavesDirty EXCEPT ![at[w] \div WordBits] = old[w] \cup {at[w] % WordBits}]
    /\ pc' = [pc EXCEPT ![w] = "copy"]
    /\ at' = [at EXCEPT ![w] = @ + 1]
    /\ UNCHANGED <<leaves, levels, levelDirty, root, phase, round, tier, old, buildVars>>

\* Mutant: bitSetTrue, the word is written whatever it is by now.
StoreBit(w) == phase = "set" /\ pc[w] = "swap" /\ SetBit(w)

\* ... and written if no other goroutine has changed it,
Swap(w) ==
    /\ phase = "set" /\ pc[w] = "swap" /\ leavesDirty[at[w] \div WordBits] = old[w]
    /\ SetBit(w)

\* Mutant: the word is not loaded again.
SwapAgain(w) ==
    /\ phase = "set" /\ pc[w] = "swap" /\ leavesDirty[at[w] \div WordBits] # old[w]
    /\ UNCHANGED vars

\* otherwise loaded again.
SwapFails(w) ==
    /\ phase = "set" /\ pc[w] = "swap" /\ leavesDirty[at[w] \div WordBits] # old[w]
    /\ pc' = [pc EXCEPT ![w] = "load"]
    /\ UNCHANGED <<treeVars, phase, round, tier, at, old, buildVars>>

\* wg.Wait: every chunk of the tier is set.
NextTier ==
    /\ phase = "set" /\ tier < Len(Accounts) /\ \A w \in Workers : at[w] >= ChunkEnd(tier, w)
    /\ tier' = tier + 1 /\ at' = [w \in Workers |-> ChunkStart(tier + 1, w)]
    /\ UNCHANGED <<treeVars, phase, round, pc, old, buildVars>>

----------------------------------------------------------------------------
(* Build.                                                                  *)

\* The range of worker w in a level of n words.
WordStart(n, w) == w * CeilDiv(n, WorkersNum)
WordEnd(n, w) == IF WordStart(n, w + 1) > n THEN n ELSE WordStart(n, w + 1)

\* A level gets its bitset and a new buffer.
BeginLevel(l, bs) ==
    /\ level' = l
    /\ levelDirty' = [levelDirty EXCEPT ![l] = bs]
    /\ levels' = [levels EXCEPT ![l] = [p \in 0 .. Cardinality(Words(bs)) * WordBits - 1 |-> Zero]]
    /\ word' = [w \in Workers |-> WordStart(Cardinality(Words(bs)), w)]

BeginBuild ==
    /\ phase = "set" /\ tier = Len(Accounts)
    /\ \A w \in Workers : at[w] >= ChunkEnd(tier, w)
    /\ phase' = "build"
    /\ BeginLevel(1, PropagateDirty(leavesDirty))
    /\ UNCHANGED <<leaves, leavesDirty, root, round, setVars>>

LevelWords == Cardinality(Words(levelDirty[level]))
Building(w) == phase = "build" /\ word[w] < WordEnd(LevelWords, w)

\* The nodes of one word.
BuildWord(w) ==
    /\ Building(w)
    /\ levels' = [levels EXCEPT ![level] =
                    [p \in DOMAIN @ |->
                        IF p \div WordBits = word[w] /\ BitGet(levelDirty[level], p)
                        THEN Hash(GetNodeAt(level - 1, 2 * p), GetNodeAt(level - 1, 2 * p + 1))
                        ELSE @[p]]]
    /\ word' = [word EXCEPT ![w] = @ + 1]
    /\ UNCHANGED <<leaves, leavesDirty, levelDirty, root, phase, round, setVars, level>>

\* Mutant: the next level is begun while this one is being built.
LevelDoneEarly == phase = "build"

LevelDone == phase = "build" /\ \A w \in Workers : ~Building(w)

NextLevel ==
    /\ LevelDone /\ level < Depth
    /\ BeginLevel(level + 1, PropagateDirty(levelDirty[level]))
    /\ UNCHANGED <<leaves, leavesDirty, root, phase, round, setVars>>

SetRoot ==
    /\ LevelDone /\ level = Depth
    /\ root' = IF BitGet(levelDirty[Depth], 0) THEN levels[Depth][0] ELSE NilHashes[Depth]
    /\ phase' = "built"
    /\ UNCHANGED <<leaves, leavesDirty, levels, levelDirty, round, setVars, buildVars>>

\* Leaves are set once more, in the tree as it is.
NextRound ==
    /\ phase = "built" /\ round < Rounds
    /\ phase' = "set" /\ round' = round + 1
    /\ tier' = 1 /\ at' = [w \in Workers |-> ChunkStart(1, w)]
    /\ UNCHANGED <<treeVars, pc, old, buildVars>>

Done == phase = "built" /\ round = Rounds /\ UNCHANGED vars

----------------------------------------------------------------------------
Set(w) == Copy(w) \/ Load(w) \/ Swap(w) \/ SwapFails(w)
Main == NextTier \/ BeginBuild \/ NextLevel \/ SetRoot

Next == Main \/ NextRound \/ Done \/ \E w \in Workers : Set(w) \/ BuildWord(w)

Spec == Init /\ [][Next]_vars

\* Goroutines are scheduled.
FairSpec == Spec /\ WF_vars(Main) /\ \A w \in Workers : WF_vars(Set(w) \/ BuildWord(w))

----------------------------------------------------------------------------
(* Properties.                                                             *)

\* The buffers have their sizes, and a bitset covers its level.
TypeOK ==
    /\ DOMAIN leaves = Keys
    /\ \A i \in Words(leavesDirty) : leavesDirty[i] \subseteq 0 .. WordBits - 1
    /\ \A l \in 1 .. Depth :
        /\ \A i \in Words(levelDirty[l]) : levelDirty[l][i] \subseteq 0 .. WordBits - 1
        /\ Cardinality(DOMAIN levels[l]) = WordBits * Cardinality(Words(levelDirty[l]))
        /\ l <= level /\ phase = "build" =>
            Cardinality(DOMAIN levels[l]) >= CeilDiv(Capacity, Pow2[l])
    /\ phase \in {"set", "build", "built"} /\ round \in 1 .. Rounds
    /\ tier \in 1 .. Len(Accounts) /\ at \in [Workers -> Nat]
    /\ pc \in [Workers -> {"copy", "load", "swap"}]
    /\ level \in 1 .. Depth /\ word \in [Workers -> Nat]

\* The Merkle tree over the accounts, by its definition.
Merkle[l \in 0 .. Depth] ==
    [p \in 0 .. Pow2[Depth - l] - 1 |->
        IF l = 0 THEN IF p < Capacity THEN [account |-> p, round |-> round] ELSE NilLeaf
        ELSE Hash(Merkle[l-1][2 * p], Merkle[l-1][2 * p + 1])]

\* A built tree has the root of the leaves that were set, whatever the
\* goroutines' schedule, the rounds before, and the chunks they worked on.
BuiltIsMerkle == phase = "built" => root = Merkle[Depth][0]

\* In a built tree every key has a proof, which verifies its leaf and no other.
ProofsVerify ==
    phase = "built" =>
        \A key \in 0 .. Pow2[Depth] - 1 : \A leaf \in {Get(k) : k \in 0 .. Pow2[Depth] - 1} :
            VerifyProof(root, key, GetProof(key), leaf) <=> leaf = Get(key)

\* No worker spins on a word for ever, and the tree gets built.
EventuallyBuilt == <>(phase = "built")

\* "GetProof/Root only reflect Sets that were followed by a Build() call.":
\* setting leaves of a built tree changes no proof.
SetsInvisible ==
    [][round > 1 /\ phase = "set" /\ phase' = "set" =>
        \A key \in 0 .. Pow2[Depth] - 1 : GetProof(key)' = GetProof(key)]_vars

=============================================================================
