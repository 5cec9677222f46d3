CONSTANTS
    t1 = t1  b1 = b1  b2 = b2  b3 = b3  h1 = h1  h2 = h2  p1 = p1
    ThreadIDs <- MCThreadIDs
    BranchIDs <- MCBranchIDs
    Handles <- MCHandles
    Payloads <- MCPayloads
    NoBranch = NoBranch
    NoPayload = NoPayload
    NoThread = NoThread
    NoLive = NoLive
    MaxSeq = 5
    MaxBatch = 2
SYMMETRY Symm
SPECIFICATION Spec
INVARIANTS TypeOK SeqsContiguous ForkTreeOrdered ImportRebuildsThread
PROPERTIES ForksAreIsolated ImplementsBranchedLog
