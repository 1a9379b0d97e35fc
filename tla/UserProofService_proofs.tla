---------------------- MODULE UserProofService_proofs ----------------------
(***************************************************************************)
(* Theorems about UserProofService, for any accounts and tiers, any sizes  *)
(* of segments, chunks and inserts, and any number of restarts.            *)
(***************************************************************************)
EXTENDS UserProofService, NumberFacts, FiniteSetTheorems, SequenceTheorems

----------------------------------------------------------------------------
(* The accounts before a tier.                                             *)

\* AccountsBefore satisfies its recursion and counts accounts, and no tier
\* begins after the end of the accounts.
LEMMA BeforeIs ==
    /\ Len(Accounts) \in Nat /\ AccountsBefore[1] = 0
    /\ \A t \in 1 .. Len(Accounts) :
         Accounts[t] \in Nat /\ AccountsBefore[t+1] = AccountsBefore[t] + Accounts[t]
    /\ \A t \in 1 .. Len(Accounts) + 1 :
         AccountsBefore[t] \in Nat /\ AccountsBefore[t] <= TotalAccounts
<1>1. Len(Accounts) \in Nat /\ \A t \in 1 .. Len(Accounts) : Accounts[t] \in Nat
  BY TiersAssumption, LenProperties, ElementOfSeq
<1>2. \E f : f = [t \in 1 .. Len(Accounts) + 1 |-> IF t = 1 THEN 0 ELSE f[t-1] + Accounts[t-1]]
  BY <1>1, RunningSumsExist DEF SumsBefore
<1>3. SumsBefore(AccountsBefore, Accounts, Len(Accounts))
  BY <1>2, Zenon DEF AccountsBefore, SumsBefore
<1>4. /\ AccountsBefore[1] = 0
      /\ \A t \in 1 .. Len(Accounts) : AccountsBefore[t+1] = AccountsBefore[t] + Accounts[t]
      /\ \A t \in 1 .. Len(Accounts) + 1 : AccountsBefore[t] \in Nat
      /\ \A t, u \in 1 .. Len(Accounts) + 1 : t <= u => AccountsBefore[t] <= AccountsBefore[u]
  BY <1>1, <1>3, RunningSums
<1>5. \A t \in 1 .. Len(Accounts) + 1 : AccountsBefore[t] <= TotalAccounts
  BY <1>1, <1>4 DEF TotalAccounts
<1> QED
  BY <1>1, <1>4, <1>5

LEMMA BeforeTotal == TotalAccounts \in Nat
  BY BeforeIs DEF TotalAccounts

----------------------------------------------------------------------------
(* Rows, and segments of rows.                                             *)

\* The rows are those of the accounts from first on.
Consecutive(rows, first) == \A k \in 1 .. Len(rows) : rows[k] = first + k - 1

\* The table with the rows of the first n accounts.
FirstRows(n) == [i \in Ids |-> IF i < n THEN i ELSE None]

\* How many rows it has, and where the service resumes with it.
LEMMA FirstRowsCount ==
    ASSUME NEW n \in 0 .. TotalAccounts, NEW t, t = FirstRows(n)
    PROVE  /\ {i \in Ids : t[i] # None} = 0 .. n - 1
           /\ Cardinality({i \in Ids : t[i] # None}) = n
           /\ \A i \in 0 .. n - 1 : t[i] = i
<1>1. TotalAccounts \in Nat
  BY BeforeTotal
<1>2. {i \in Ids : t[i] # None} = 0 .. n - 1 /\ \A i \in 0 .. n - 1 : t[i] = i
  BY <1>1, NoneAssumption DEF FirstRows, Ids
<1>3. Cardinality(0 .. n - 1) = n
  BY <1>1, FS_Interval
<1> QED
  BY <1>2, <1>3

LEMMA ResumesAfter ==
    ASSUME NEW n \in 0 .. TotalAccounts, table = FirstRows(n)
    PROVE  LatestCount = n
<1>1. Stored = 0 .. n - 1
  BY FirstRowsCount DEF Stored
<1>2. n \in Nat
  BY BeforeTotal
<1>3. CASE n = 0
  BY <1>1, <1>3 DEF LatestCount
<1>4. CASE n # 0
  <2>1. n - 1 \in Stored /\ \A j \in Stored : j <= n - 1
    BY <1>1, <1>2, <1>4
  <2>2. \A i \in Stored : (\A j \in Stored : j <= i) => i = n - 1
    BY <1>1, <1>2, <1>4
  <2>3. (CHOOSE i \in Stored : \A j \in Stored : j <= i) = n - 1
    BY <2>1, <2>2, Zenon
  <2>4. LatestCount = 1 + (n - 1)
    BY <2>1, <2>3, Zenon DEF LatestCount
  <2> QED
    BY <1>2, <2>4
<1> QED
  BY <1>3, <1>4

\* Inserting the rows that come next gives more first rows.
LEMMA InsertExtends ==
    ASSUME NEW n \in 0 .. TotalAccounts, NEW rows \in Seq(Ids), Consecutive(rows, n),
           NEW t, t = FirstRows(n),
           NEW u, u = [i \in Ids |-> IF \E k \in 1 .. Len(rows) : rows[k] = i THEN i ELSE t[i]]
    PROVE  n + Len(rows) \in 0 .. TotalAccounts /\ u = FirstRows(n + Len(rows))
<1>1. TotalAccounts \in Nat /\ Len(rows) \in Nat /\ \A k \in 1 .. Len(rows) : rows[k] \in Ids
  BY BeforeTotal, LenProperties, ElementOfSeq
<1>2. n + Len(rows) \in 0 .. TotalAccounts
  <2>1. CASE Len(rows) = 0
    BY <1>1, <2>1
  <2>2. CASE Len(rows) # 0
    <3>1. Len(rows) \in 1 .. Len(rows)
      BY <1>1, <2>2
    <3>2. rows[Len(rows)] = n + Len(rows) - 1 /\ rows[Len(rows)] \in Ids
      BY <1>1, <3>1 DEF Consecutive
    <3> QED
      BY <1>1, <3>2 DEF Ids
  <2> QED
    BY <2>1, <2>2
<1>3. ASSUME NEW i \in Ids
      PROVE  (\E k \in 1 .. Len(rows) : rows[k] = i) <=> (n <= i /\ i < n + Len(rows))
  <2>1. \A k \in 1 .. Len(rows) : rows[k] = n + k - 1
    BY DEF Consecutive
  <2>2. i \in Nat /\ n \in Nat
    BY <1>1 DEF Ids
  <2>3. ASSUME NEW k \in 1 .. Len(rows), rows[k] = i  PROVE n <= i /\ i < n + Len(rows)
    BY <1>1, <2>1, <2>2, <2>3
  <2>4. ASSUME n <= i, i < n + Len(rows)  PROVE \E k \in 1 .. Len(rows) : rows[k] = i
    <3> DEFINE k == i - n + 1
    <3>1. k \in 1 .. Len(rows) /\ n + k - 1 = i
      BY <1>1, <2>2, <2>4
    <3>2. rows[k] = i
      BY <2>1, <3>1
    <3> HIDE DEF k
    <3> QED
      BY <3>1, <3>2
  <2> QED
    BY <2>3, <2>4
<1>4. ASSUME NEW i \in Ids
      PROVE  (IF \E k \in 1 .. Len(rows) : rows[k] = i THEN i ELSE t[i])
             = IF i < n + Len(rows) THEN i ELSE None
  <2>1. t[i] = IF i < n THEN i ELSE None
    BY DEF FirstRows
  <2>2. i \in Nat /\ n \in Nat
    BY <1>1 DEF Ids
  <2>3. CASE n <= i /\ i < n + Len(rows)
    BY <1>3, <2>3
  <2>4. CASE ~ (n <= i /\ i < n + Len(rows))
    <3>1. (i < n) <=> (i < n + Len(rows))
      BY <1>1, <2>2, <2>4
    <3> QED
      BY <1>3, <2>1, <2>4, <3>1
  <2> QED
    BY <2>3, <2>4
<1> QED
  BY <1>2, <1>4 DEF FirstRows

\* The segments in queue, one after the other, are the rows from first up to
\* the one before end; s gives where each of them begins.
Stream(queue, first, end) ==
    \E s \in [1 .. Len(queue) + 1 -> Nat] :
        /\ s[1] = first /\ s[Len(queue) + 1] = end
        /\ \A j \in 1 .. Len(queue) :
             Consecutive(queue[j], s[j]) /\ s[j+1] = s[j] + Len(queue[j])

LEMMA StreamEmpty ==
    ASSUME NEW first \in Nat, NEW end
    PROVE  Stream(<<>>, first, end) <=> first = end
<1>1. Len(<<>>) = 0
  OBVIOUS
<1>2. ASSUME first = end  PROVE Stream(<<>>, first, end)
  <2> DEFINE s == [j \in 1 .. 1 |-> first]
  <2>1. s \in [1 .. Len(<<>>) + 1 -> Nat] /\ s[1] = first /\ s[Len(<<>>) + 1] = end
    BY <1>1, <1>2
  <2> HIDE DEF s
  <2> QED
    BY <1>1, <2>1 DEF Stream
<1> QED
  BY <1>1, <1>2 DEF Stream

LEMMA StreamAppend ==
    ASSUME NEW queue \in Seq(Seq(Ids)), NEW seg \in Seq(Ids), NEW first, NEW end,
           Stream(queue, first, end), Consecutive(seg, end)
    PROVE  Stream(Append(queue, seg), first, end + Len(seg))
<1> DEFINE n == Len(queue)
           longer == Append(queue, seg)
<1>1. n \in Nat /\ Len(seg) \in Nat /\ Len(longer) = n + 1
  BY LenProperties
<1>2. longer[n+1] = seg /\ \A j \in 1 .. n : longer[j] = queue[j]
  BY <1>1
<1>3. PICK s \in [1 .. n + 1 -> Nat] :
        /\ s[1] = first /\ s[n + 1] = end
        /\ \A j \in 1 .. n : Consecutive(queue[j], s[j]) /\ s[j+1] = s[j] + Len(queue[j])
  BY DEF Stream
<1> HIDE DEF n, longer
<1> DEFINE u == [j \in 1 .. (n + 1) + 1 |-> IF j = n + 2 THEN end + Len(seg) ELSE s[j]]
<1>4. end \in Nat
  BY <1>1, <1>3
<1>5. u \in [1 .. Len(longer) + 1 -> Nat] /\ u[1] = first /\ u[Len(longer) + 1] = end + Len(seg)
  BY <1>1, <1>3, <1>4
<1>6. ASSUME NEW j \in 1 .. n + 1
      PROVE  Consecutive(longer[j], u[j]) /\ u[j+1] = u[j] + Len(longer[j])
  <2>1. CASE j = n + 1
    <3>1. u[j] = end /\ u[j+1] = end + Len(seg)
      BY <1>1, <1>3, <2>1
    <3> QED
      BY <1>2, <2>1, <3>1
  <2>2. CASE j # n + 1
    <3>1. j \in 1 .. n /\ u[j] = s[j] /\ u[j+1] = s[j+1]
      BY <1>1, <2>2
    <3> QED
      BY <1>2, <1>3, <3>1
  <2> QED
    BY <2>1, <2>2
<1> HIDE DEF u
<1>7. Stream(longer, first, end + Len(seg))
  BY <1>1, <1>5, <1>6 DEF Stream
<1> QED
  BY <1>7 DEF longer

LEMMA StreamHead ==
    ASSUME NEW queue \in Seq(Seq(Ids)), queue # <<>>, NEW first, NEW end,
           Stream(queue, first, end)
    PROVE  /\ Consecutive(Head(queue), first)
           /\ Stream(Tail(queue), first + Len(Head(queue)), end)
<1> DEFINE n == Len(queue)
           rest == Tail(queue)
<1>1. n \in Nat \ {0} /\ Len(rest) = n - 1 /\ Head(queue) = queue[1]
  BY EmptySeq, HeadTailProperties
<1>2. \A j \in 1 .. n - 1 : rest[j] = queue[j+1]
  BY <1>1, HeadTailProperties
<1>3. PICK s \in [1 .. n + 1 -> Nat] :
        /\ s[1] = first /\ s[n + 1] = end
        /\ \A j \in 1 .. n : Consecutive(queue[j], s[j]) /\ s[j+1] = s[j] + Len(queue[j])
  BY DEF Stream
<1> HIDE DEF n, rest
<1> DEFINE u == [j \in 1 .. n |-> s[j+1]]
<1>4. /\ u \in [1 .. Len(rest) + 1 -> Nat]
      /\ u[1] = first + Len(Head(queue)) /\ u[Len(rest) + 1] = end
  BY <1>1, <1>3
<1>5. ASSUME NEW j \in 1 .. n - 1
      PROVE  Consecutive(rest[j], u[j]) /\ u[j+1] = u[j] + Len(rest[j])
  <2>1. j + 1 \in 1 .. n /\ u[j] = s[j+1] /\ u[j+1] = s[(j+1)+1]
    BY <1>1
  <2> QED
    BY <1>2, <1>3, <2>1
<1>6. Consecutive(Head(queue), first)
  BY <1>1, <1>3
<1> HIDE DEF u
<1>7. Stream(rest, first + Len(Head(queue)), end)
  BY <1>1, <1>4, <1>5 DEF Stream
<1> QED
  BY <1>6, <1>7 DEF rest

----------------------------------------------------------------------------
(* The inductive invariant.                                                *)

\* Where the loop is, and what it has sent to the writer: the accounts before
\* Made, as the last segment of a tier may be shorter than segStart counts.
Made ==
    IF phase \in {"segment", "compute"} /\ current + segStart > AccountsBefore[tier + 1]
    THEN AccountsBefore[tier + 1] ELSE current + segStart

CurrentRight ==
    /\ phase \in {"down", "panic", "tier", "segment", "compute", "closed", "finished"}
    /\ current \in 0 .. TotalAccounts /\ tier \in 1 .. Len(Accounts) + 1 /\ segStart \in Nat
    /\ phase = "tier" => segStart = 0 /\ AccountsBefore[tier] <= current
    /\ phase \in {"segment", "compute"} =>
         /\ tier <= Len(Accounts)
         /\ AccountsBefore[tier] <= current /\ current < AccountsBefore[tier + 1]
    /\ phase \in {"closed", "finished"} => segStart = 0 /\ current = TotalAccounts

\* A place of the segment is empty or holds the proof of its account.
ProofsRight ==
    /\ phase = "compute" =>
         /\ segStart < Count /\ proofs \in Seq(Ids \cup {None}) /\ Len(proofs) = SegCount
         /\ \A k \in 1 .. SegCount : proofs[k] \in {None, current + segStart + k - 1}
    /\ phase # "compute" => proofs = <<>>

WriterTypes ==
    /\ totalWritten \in 0 .. TotalAccounts /\ pendingBytes \in Nat
    /\ pending \in Seq(Ids) /\ segment \in Seq(Ids)
    /\ segCh \in Seq(Seq(Ids)) /\ Len(segCh) <= SegBuffer

TableRight ==
    /\ \E n \in 0 .. TotalAccounts : table = FirstRows(n)
    /\ index => table = FirstRows(TotalAccounts)

\* From the table to the loop every account is in one place, in order.
StreamRight ==
    /\ table = FirstRows(totalWritten)
    /\ Consecutive(pending, totalWritten)
    /\ Consecutive(segment, totalWritten + Len(pending))
    /\ Stream(segCh, totalWritten + Len(pending) + Len(segment), Made)

Others ==
    /\ index \in BOOLEAN /\ witnessDone \in BOOLEAN /\ crashes \in Nat
    /\ phase \in {"finished", "panic"} => index
    /\ ~Alive => segCh = <<>> /\ segment = <<>> /\ pending = <<>>

IInv ==
    /\ CurrentRight /\ ProofsRight /\ WriterTypes /\ TableRight /\ Others
    /\ Alive => StreamRight

\* The empty table, and a process that has not started.
LEMMA InitInv == Init => IInv
<1> SUFFICES ASSUME Init  PROVE IInv
  OBVIOUS
<1>1. TotalAccounts \in Nat /\ Len(Accounts) \in Nat
  BY BeforeTotal, BeforeIs
<1>2. table = FirstRows(0)
  <2>1. \A i \in Ids : ~ (i < 0)
    BY <1>1 DEF Ids
  <2> QED
    BY <2>1 DEF Init, FirstRows
<1>3. WriterTypes
  <2>1. <<>> \in Seq(Ids) /\ <<>> \in Seq(Seq(Ids)) /\ Len(<<>>) = 0 /\ 0 <= SegBuffer
    BY EmptySeq, SizeAssumption
  <2> QED
    BY <1>1, <2>1 DEF Init, WriterTypes
<1>4. CurrentRight /\ ProofsRight /\ Others /\ ~Alive
  <2>1. phase = "down" /\ ~Alive
    BY DEF Init, Alive
  <2>2. CurrentRight
    BY <1>1 DEF Init, CurrentRight
  <2>3. ProofsRight
    BY DEF Init, ProofsRight
  <2>4. Others
    BY <2>1 DEF Init, Others
  <2> QED
    BY <2>1, <2>2, <2>3, <2>4
<1>5. TableRight
  BY <1>1, <1>2 DEF Init, TableRight
<1> QED
  BY <1>3, <1>4, <1>5 DEF IInv

\* A process that finds n accounts, or none that is left, has nothing in hand.
LEMMA StepMemory ==
    ASSUME IInv, NEW n \in 0 .. TotalAccounts, Memory(n), UNCHANGED tables,
           crashes' \in Nat, witnessDone' = witnessDone,
           \/ phase' = "tier" /\ table = FirstRows(n)
           \/ phase' = "down"
           \/ phase' = "panic" /\ index
    PROVE  IInv'
<1>1. TotalAccounts \in Nat /\ Len(Accounts) \in Nat /\ AccountsBefore[1] = 0
  BY BeforeTotal, BeforeIs
<1>2. <<>> \in Seq(Ids) /\ <<>> \in Seq(Seq(Ids)) /\ Len(<<>>) = 0 /\ 0 <= SegBuffer
  BY EmptySeq, SizeAssumption
<1>3. WriterTypes'
  BY <1>1, <1>2 DEF Memory, WriterTypes
<1>4. CurrentRight' /\ ProofsRight' /\ Others'
  BY <1>1 DEF Memory, CurrentRight, ProofsRight, Others, Alive, IInv, tables
<1>5. TableRight'
  BY DEF IInv, TableRight, tables
<1>6. ASSUME Alive'  PROVE StreamRight'
  <2>1. phase' = "tier" /\ table' = FirstRows(n)
    BY <1>6 DEF Alive, tables
  <2>2. Made' = n
    BY <1>1, <2>1 DEF Made, Memory
  <2>3. Consecutive(<<>>, n) /\ Consecutive(<<>>, n + 0) /\ n + 0 + 0 = n
    BY <1>2 DEF Consecutive
  <2>4. Stream(<<>>, n, n)
    BY StreamEmpty
  <2> QED
    BY <1>2, <2>1, <2>2, <2>3, <2>4 DEF Memory, StreamRight
<1> QED
  BY <1>3, <1>4, <1>5, <1>6 DEF IInv

\* A step of the loop that sends nothing.
LEMMA StepLoop ==
    ASSUME IInv, UNCHANGED <<tables, segCh, writeVars, witnessDone, crashes>>,
           Alive, Alive', Made' = Made, CurrentRight', ProofsRight',
           phase' = "finished" => index
    PROVE  IInv'
<1>1. WriterTypes' /\ TableRight'
  BY DEF IInv, WriterTypes, TableRight, tables, writeVars
<1>2. Others'
  BY DEF IInv, Others, tables, Alive
<1>3. StreamRight'
  BY DEF IInv, StreamRight, tables, writeVars
<1> QED
  BY <1>1, <1>2, <1>3 DEF IInv

\* A step of the writer.
LEMMA StepWriter ==
    ASSUME IInv, UNCHANGED <<loopVars, index, witnessDone, crashes>>, Alive,
           WriterTypes', TableRight', StreamRight'
    PROVE  IInv'
<1>1. CurrentRight' /\ ProofsRight'
  BY DEF IInv, CurrentRight, ProofsRight, Count, StartIdx, SegCount, loopVars
<1>2. Others' /\ Alive'
  BY DEF IInv, Others, Alive, loopVars
<1> QED
  BY <1>1, <1>2 DEF IInv

----------------------------------------------------------------------------
(* The loop.                                                               *)

\* What is left of the tier, and of it the segment in hand.
LEMMA Room ==
    ASSUME CurrentRight, phase \in {"segment", "compute"}
    PROVE  /\ current + Count = AccountsBefore[tier + 1] /\ Count \in Nat
           /\ AccountsBefore[tier] + StartIdx = current
           /\ AccountsBefore[tier + 1] \in 0 .. TotalAccounts
           /\ segStart < Count =>
                /\ SegCount \in 1 .. SegmentSize /\ segStart + SegCount <= Count
                /\ SegCount = SegmentSize \/ segStart + SegCount = Count
<1>1. tier \in 1 .. Len(Accounts) /\ tier + 1 \in 1 .. Len(Accounts) + 1
  BY BeforeIs DEF CurrentRight
<1>2. /\ AccountsBefore[tier + 1] = AccountsBefore[tier] + Accounts[tier]
      /\ AccountsBefore[tier] \in Nat /\ AccountsBefore[tier + 1] \in Nat /\ Accounts[tier] \in Nat
      /\ AccountsBefore[tier + 1] <= TotalAccounts /\ TotalAccounts \in Nat
  BY <1>1, BeforeIs, BeforeTotal
<1>3. AccountsBefore[tier] <= current /\ current < AccountsBefore[tier + 1] /\ current \in Nat
  BY <1>2 DEF CurrentRight
<1>4. segStart \in Nat /\ SegmentSize \in Nat \ {0}
  BY SizeAssumption DEF CurrentRight
<1> QED
  BY <1>2, <1>3, <1>4 DEF Count, StartIdx, SegCount

LEMMA StepSkipTier == IInv /\ SkipTier => IInv'
<1> SUFFICES ASSUME IInv, SkipTier  PROVE IInv'
  OBVIOUS
<1>1. tier + 1 \in 1 .. Len(Accounts) + 1
  BY BeforeIs DEF SkipTier, IInv, CurrentRight
<1>2. CurrentRight' /\ ProofsRight'
  BY <1>1 DEF SkipTier, IInv, CurrentRight, ProofsRight
<1> QED
  BY <1>2, StepLoop DEF SkipTier, Alive, Made, tables, writeVars

LEMMA StepBeginTier == IInv /\ BeginTier => IInv'
<1> SUFFICES ASSUME IInv, BeginTier  PROVE IInv'
  OBVIOUS
<1>1. CurrentRight' /\ ProofsRight'
  BY DEF BeginTier, IInv, CurrentRight, ProofsRight
<1>2. tier \in 1 .. Len(Accounts) /\ segStart = 0 /\ current \in Nat /\ AccountsBefore[tier + 1] \in Nat
  BY BeforeIs DEF BeginTier, IInv, CurrentRight
<1>3. Made' = Made
  BY <1>2 DEF BeginTier, Made
<1> QED
  BY <1>1, <1>3, StepLoop DEF BeginTier, Alive, tables, writeVars

LEMMA StepBeginSegment == IInv /\ BeginSegment => IInv'
<1> SUFFICES ASSUME IInv, BeginSegment  PROVE IInv'
  OBVIOUS
<1>1. CurrentRight'
  BY DEF BeginSegment, IInv, CurrentRight
<1>2. SegCount \in Nat
  BY Room, SizeAssumption DEF BeginSegment, IInv
<1>3. SegCount' = SegCount /\ Count' = Count
  BY DEF BeginSegment, SegCount, Count, StartIdx
<1>4. /\ proofs' \in Seq(Ids \cup {None}) /\ Len(proofs') = SegCount
      /\ \A k \in 1 .. SegCount : proofs'[k] = None
  BY <1>2 DEF BeginSegment
<1>5. ProofsRight'
  BY <1>3, <1>4 DEF BeginSegment, ProofsRight
<1> QED
  BY <1>1, <1>5, StepLoop DEF BeginSegment, Alive, Made, tables, writeVars

LEMMA StepCompute ==
    ASSUME IInv, NEW w \in 0 .. Workers - 1, Compute(w)
    PROVE  IInv'
<1>1. CurrentRight'
  BY DEF Compute, IInv, CurrentRight
<1>2. /\ SegCount \in 1 .. SegmentSize /\ segStart + SegCount <= Count /\ segStart < Count
      /\ current + Count \in 0 .. TotalAccounts /\ AccountsBefore[tier] + StartIdx = current
      /\ Count \in Nat /\ current \in Nat /\ segStart \in Nat /\ TotalAccounts \in Nat
  BY Room, BeforeTotal DEF Compute, IInv, ProofsRight, CurrentRight
<1>3. SegCount' = SegCount /\ Count' = Count
  BY DEF Compute, SegCount, Count, StartIdx
<1>4. PICK k \in 1 .. SegCount : proofs' = [proofs EXCEPT ![k] = current + segStart + k - 1]
  BY <1>2 DEF Compute, Chunk
<1>5. current + segStart + k - 1 \in Ids
  BY <1>2, SizeAssumption DEF Ids
<1>6. /\ proofs \in Seq(Ids \cup {None}) /\ Len(proofs) = SegCount
      /\ \A l \in 1 .. SegCount : proofs[l] \in {None, current + segStart + l - 1}
  BY DEF Compute, IInv, ProofsRight
<1>7. /\ proofs' \in Seq(Ids \cup {None}) /\ Len(proofs') = SegCount
      /\ \A l \in 1 .. SegCount :
           proofs'[l] = IF l = k THEN current + segStart + k - 1 ELSE proofs[l]
  BY <1>4, <1>5, <1>6, ExceptSeq
<1>8. ProofsRight'
  BY <1>2, <1>3, <1>6, <1>7 DEF Compute, ProofsRight
<1> QED
  BY <1>1, <1>8, StepLoop DEF Compute, Alive, Made, tables, writeVars

LEMMA StepEndTier == IInv /\ EndTier => IInv'
<1> SUFFICES ASSUME IInv, EndTier  PROVE IInv'
  OBVIOUS
<1>1. /\ current + Count = AccountsBefore[tier + 1] /\ Count \in Nat /\ segStart \in Nat
      /\ AccountsBefore[tier + 1] \in 0 .. TotalAccounts /\ current \in Nat
      /\ TotalAccounts \in Nat /\ segStart >= Count
  BY Room, BeforeTotal DEF EndTier, IInv, CurrentRight
<1>2. tier + 1 \in 1 .. Len(Accounts) + 1
  BY BeforeIs DEF EndTier, IInv, CurrentRight
<1>3. CurrentRight' /\ ProofsRight'
  BY <1>1, <1>2 DEF EndTier, IInv, CurrentRight, ProofsRight
<1>4. Made = AccountsBefore[tier + 1] /\ Made' = AccountsBefore[tier + 1]
  BY <1>1 DEF EndTier, Made
<1> QED
  BY <1>3, <1>4, StepLoop DEF EndTier, Alive, tables, writeVars

LEMMA StepCloseSegments == IInv /\ CloseSegments => IInv'
<1> SUFFICES ASSUME IInv, CloseSegments  PROVE IInv'
  OBVIOUS
<1>1. tier = Len(Accounts) + 1 /\ AccountsBefore[tier] = TotalAccounts
  BY BeforeIs DEF CloseSegments, IInv, CurrentRight, TotalAccounts
<1>2. CurrentRight' /\ ProofsRight'
  BY <1>1, BeforeTotal DEF CloseSegments, IInv, CurrentRight, ProofsRight
<1> QED
  BY <1>2, StepLoop DEF CloseSegments, Alive, Made, tables, writeVars

\* The chunks of the goroutines cover the segment.
LEMMA ChunksCover ==
    ASSUME NEW n \in Nat, NEW k \in 1 .. n, NEW c, c = (n + Workers - 1) \div Workers
    PROVE  \E w \in 0 .. Workers - 1 : w * c < k /\ k <= (w + 1) * c
<1>1. Workers \in Nat \ {0}
  BY SizeAssumption
<1>2. \A m \in Nat : m = (m % Workers) + (m \div Workers) * Workers
                     /\ m % Workers \in 0 .. Workers - 1 /\ m \div Workers \in Nat
  BY <1>1
<1>3. c \in Nat /\ n <= Workers * c
  <2> DEFINE m == n + Workers - 1
  <2>1. m \in Nat /\ m % Workers <= Workers - 1 /\ m % Workers \in Nat /\ c \in Nat
        /\ m = (m % Workers) + c * Workers
    <3>1. m \in Nat /\ c = m \div Workers
      BY <1>1
    <3>2. /\ m = (m % Workers) + (m \div Workers) * Workers
          /\ m % Workers \in 0 .. Workers - 1 /\ m \div Workers \in Nat
      BY <1>2, <3>1, Zenon
    <3>3. m % Workers \in Nat /\ m % Workers <= Workers - 1
      <4> DEFINE r == m % Workers
      <4>1. r \in 0 .. Workers - 1
        BY <3>2
      <4> HIDE DEF r
      <4>2. r \in Nat /\ r <= Workers - 1
        BY <1>1, <4>1
      <4> QED
        BY <4>2 DEF r
    <3> QED
      BY <3>1, <3>2, <3>3
  <2>2. c * Workers = Workers * c /\ c * Workers \in Nat
    BY <1>1, <2>1
  <2> QED
    BY <1>1, <2>1, <2>2
<1> DEFINE S == {w \in Nat : k <= w * c}
<1>4. Workers \in S /\ 0 \notin S
  BY <1>1, <1>3
<1>5. PICK u \in S : \A v \in S : u <= v
  BY <1>4, LeastNat
<1>6. u # 0 /\ u - 1 \in 0 .. Workers - 1 /\ u - 1 \notin S
  BY <1>1, <1>4, <1>5
<1>7. (u - 1) * c \in Nat /\ (u - 1) + 1 = u /\ k <= u * c /\ ~ (k <= (u - 1) * c)
  BY <1>3, <1>5, <1>6
<1>8. (u - 1) * c < k /\ k <= ((u - 1) + 1) * c
  BY <1>7
<1> HIDE DEF S
<1> QED
  BY <1>6, <1>8

LEMMA StepSendSegment == IInv /\ SendSegment => IInv'
<1> SUFFICES ASSUME IInv, SendSegment  PROVE IInv'
  OBVIOUS
<1>1. /\ SegCount \in 1 .. SegmentSize /\ segStart + SegCount <= Count /\ segStart < Count
      /\ SegCount = SegmentSize \/ segStart + SegCount = Count
      /\ current + Count = AccountsBefore[tier + 1]
      /\ Count \in Nat /\ current \in Nat /\ segStart \in Nat /\ SegmentSize \in Nat
      /\ AccountsBefore[tier + 1] \in Nat
  <2>1. phase = "compute" /\ segStart < Count /\ CurrentRight /\ segStart \in Nat
        /\ current \in 0 .. TotalAccounts
    BY DEF SendSegment, IInv, ProofsRight, CurrentRight
  <2>2. /\ SegCount \in 1 .. SegmentSize /\ segStart + SegCount <= Count
        /\ SegCount = SegmentSize \/ segStart + SegCount = Count
        /\ current + Count = AccountsBefore[tier + 1] /\ Count \in Nat
        /\ AccountsBefore[tier + 1] \in 0 .. TotalAccounts
    BY <2>1, Room
  <2> QED
    BY <2>1, <2>2, SizeAssumption, BeforeTotal
<1>2. ASSUME NEW k \in 1 .. SegCount  PROVE proofs[k] = current + segStart + k - 1 /\ proofs[k] \in Ids
  <2>1. PICK w \in 0 .. Workers - 1 : w * ChunkSize < k /\ k <= (w + 1) * ChunkSize
    <3>1. SegCount \in Nat
      BY <1>1
    <3>2. ChunkSize = (SegCount + Workers - 1) \div Workers
      BY DEF ChunkSize
    <3> QED
      BY <3>1, <3>2, ChunksCover
  <2>2. proofs[k] # None
    BY <2>1 DEF SendSegment, Chunk
  <2>3. proofs[k] \in {None, current + segStart + k - 1}
    BY DEF SendSegment, IInv, ProofsRight
  <2>4. proofs \in Seq(Ids \cup {None}) /\ Len(proofs) = SegCount
    BY DEF SendSegment, IInv, ProofsRight
  <2>5. proofs[k] \in Ids \cup {None}
    BY <2>4, ElementOfSeq
  <2> QED
    BY <2>2, <2>3, <2>5
<1>3. proofs \in Seq(Ids) /\ Len(proofs) = SegCount
  <2>1. proofs \in Seq(Ids \cup {None}) /\ Len(proofs) = SegCount
    BY DEF SendSegment, IInv, ProofsRight
  <2>2. proofs \in [1 .. SegCount -> Ids \cup {None}]
    BY <2>1, LenProperties
  <2>3. proofs \in [1 .. SegCount -> Ids] /\ SegCount \in Nat
    BY <1>1, <1>2, <2>2
  <2> QED
    BY <2>1, <2>3
<1>4. CurrentRight' /\ ProofsRight'
  BY <1>1 DEF SendSegment, IInv, CurrentRight, ProofsRight
<1>5. Made = current + segStart /\ Made' = Made + SegCount
  BY <1>1 DEF SendSegment, Made
<1>6. segCh \in Seq(Seq(Ids)) /\ segCh' = Append(segCh, proofs) /\ Alive /\ Alive'
  BY DEF SendSegment, IInv, WriterTypes, Alive
<1>7. WriterTypes'
  <2>1. Append(segCh, proofs) \in Seq(Seq(Ids)) /\ Len(Append(segCh, proofs)) = Len(segCh) + 1
        /\ Len(segCh) \in Nat
    BY <1>3, <1>6
  <2>2. Len(segCh') <= SegBuffer
    BY <1>6, <2>1, SizeAssumption DEF SendSegment
  <2> QED
    BY <1>6, <2>1, <2>2 DEF SendSegment, IInv, WriterTypes, writeVars
<1>8. StreamRight'
  <2>1. StreamRight
    BY <1>6 DEF IInv
  <2>2. Consecutive(proofs, Made)
    BY <1>2, <1>3, <1>5 DEF Consecutive
  <2>3. Stream(Append(segCh, proofs), totalWritten + Len(pending) + Len(segment), Made + Len(proofs))
    BY <1>3, <1>6, <2>1, <2>2, StreamAppend DEF StreamRight
  <2> QED
    BY <1>3, <1>5, <1>6, <2>1, <2>3 DEF SendSegment, StreamRight, tables, writeVars
<1>9. TableRight'
  BY DEF SendSegment, IInv, TableRight, tables
<1>10. Others'
  BY <1>6 DEF SendSegment, IInv, Others, tables
<1> QED
  BY <1>4, <1>7, <1>8, <1>9, <1>10 DEF IInv

----------------------------------------------------------------------------
(* The writer.                                                             *)

\* The number of first rows is determined by the table.
LEMMA FirstRowsDiffer ==
    ASSUME NEW m \in 0 .. TotalAccounts, NEW n \in 0 .. TotalAccounts,
           FirstRows(m) = FirstRows(n)
    PROVE  m = n
<1> DEFINE t == FirstRows(m)
<1>1. Cardinality({i \in Ids : t[i] # None}) = m
  BY FirstRowsCount
<1>2. Cardinality({i \in Ids : t[i] # None}) = n
  BY FirstRowsCount
<1> QED
  BY <1>1, <1>2

\* An insert of the rows that come next.
LEMMA StepInsert ==
    ASSUME IInv, Alive, NEW rows \in Seq(Ids), Consecutive(rows, totalWritten),
           CreateUserProofs(rows), totalWritten' = totalWritten + Len(rows), index' = index
    PROVE  /\ totalWritten' \in 0 .. TotalAccounts /\ table' = FirstRows(totalWritten')
           /\ TableRight'
<1>1. totalWritten \in 0 .. TotalAccounts /\ table = FirstRows(totalWritten)
  BY DEF IInv, WriterTypes, StreamRight
<1>2. totalWritten' \in 0 .. TotalAccounts /\ table' = FirstRows(totalWritten')
  BY <1>1, InsertExtends DEF CreateUserProofs
<1>3. index => totalWritten = TotalAccounts
  <2> SUFFICES ASSUME index  PROVE totalWritten = TotalAccounts
    OBVIOUS
  <2>1. table = FirstRows(TotalAccounts) /\ TotalAccounts \in 0 .. TotalAccounts
    BY BeforeTotal DEF IInv, TableRight
  <2> QED
    BY <1>1, <2>1, FirstRowsDiffer
<1>4. index => totalWritten' = TotalAccounts
  BY <1>1, <1>2, <1>3, BeforeTotal, LenProperties
<1> QED
  BY <1>2, <1>4 DEF TableRight

LEMMA StepReceiveSegment == IInv /\ ReceiveSegment => IInv'
<1> SUFFICES ASSUME IInv, ReceiveSegment  PROVE IInv'
  OBVIOUS
<1>1. Alive /\ StreamRight /\ WriterTypes /\ TableRight
  BY DEF ReceiveSegment, IInv, Others
<1>2. /\ segCh \in Seq(Seq(Ids)) /\ segCh # <<>> /\ Len(segCh) <= SegBuffer /\ segment = <<>>
      /\ segment' = Head(segCh) /\ segCh' = Tail(segCh)
  BY <1>1 DEF ReceiveSegment, WriterTypes
<1>3. Len(pending) \in Nat /\ Len(segment) = 0 /\ totalWritten \in Nat
  BY <1>1, <1>2, LenProperties, EmptySeq, BeforeTotal DEF WriterTypes
<1>4. /\ Head(segCh) \in Seq(Ids) /\ Tail(segCh) \in Seq(Seq(Ids))
      /\ Len(Tail(segCh)) = Len(segCh) - 1 /\ Len(segCh) \in Nat
  BY <1>2, HeadTailProperties, LenProperties
<1>5. WriterTypes'
  BY <1>1, <1>2, <1>4, SizeAssumption DEF ReceiveSegment, WriterTypes
<1>6. Stream(segCh, totalWritten + Len(pending), Made)
  BY <1>1, <1>3 DEF StreamRight
<1>7. /\ Consecutive(Head(segCh), totalWritten + Len(pending))
      /\ Stream(Tail(segCh), totalWritten + Len(pending) + Len(Head(segCh)), Made)
  BY <1>2, <1>6, StreamHead
<1>8. Made' = Made
  BY DEF ReceiveSegment, Made, loopVars
<1>9. StreamRight'
  BY <1>1, <1>2, <1>7, <1>8 DEF ReceiveSegment, StreamRight, tables
<1>10. TableRight'
  BY <1>1 DEF ReceiveSegment, TableRight, tables
<1> QED
  BY <1>1, <1>5, <1>9, <1>10, StepWriter DEF ReceiveSegment, tables

\* The rows collected so far are inserted.
LEMMA StepFlush ==
    ASSUME IInv, Alive, Flush, UNCHANGED <<index, loopVars, segCh, segment, witnessDone, crashes>>
    PROVE  IInv'
<1>1. StreamRight /\ WriterTypes
  BY DEF IInv
<1>2. /\ pending \in Seq(Ids) /\ Len(pending) \in Nat /\ segment \in Seq(Ids)
      /\ Len(segment) \in Nat /\ totalWritten \in Nat /\ Len(<<>>) = 0 /\ <<>> \in Seq(Ids)
  BY <1>1, LenProperties, EmptySeq, BeforeTotal DEF WriterTypes
<1>3. /\ totalWritten' = totalWritten + Len(pending) /\ totalWritten' \in 0 .. TotalAccounts
      /\ table' = FirstRows(totalWritten') /\ TableRight'
  BY <1>1, <1>2, StepInsert DEF Flush, StreamRight
<1>4. WriterTypes'
  BY <1>1, <1>2, <1>3 DEF Flush, WriterTypes
<1>5. Consecutive(pending', totalWritten')
  BY <1>2 DEF Flush, Consecutive
<1>6. Len(pending') = 0 /\ totalWritten' + Len(pending') = totalWritten + Len(pending)
  BY <1>2, <1>3 DEF Flush
<1>7. Made' = Made
  BY DEF Made, loopVars
<1>8. StreamRight'
  BY <1>1, <1>3, <1>5, <1>6, <1>7 DEF StreamRight
<1> QED
  BY <1>3, <1>4, <1>8, StepWriter

\* The next row of the segment.
LEMMA NextRow ==
    ASSUME IInv, segment # <<>>
    PROVE  /\ Alive /\ StreamRight /\ WriterTypes
           /\ Head(segment) \in Ids /\ Head(segment) = totalWritten + Len(pending)
           /\ Tail(segment) \in Seq(Ids) /\ Len(segment) = Len(Tail(segment)) + 1
           /\ Len(Tail(segment)) \in Nat /\ Len(pending) \in Nat /\ totalWritten \in Nat
           /\ Consecutive(Tail(segment), totalWritten + Len(pending) + 1)
           /\ Bytes \in Nat /\ pendingBytes \in Nat
<1>1. Alive /\ StreamRight /\ WriterTypes
  BY DEF IInv, Others
<1>2. segment \in Seq(Ids) /\ Len(pending) \in Nat /\ totalWritten \in Nat /\ pendingBytes \in Nat
  BY <1>1, LenProperties, BeforeTotal DEF WriterTypes
<1>3. /\ Head(segment) \in Ids /\ Tail(segment) \in Seq(Ids) /\ Head(segment) = segment[1]
      /\ Len(Tail(segment)) = Len(segment) - 1 /\ Len(segment) \in Nat \ {0}
      /\ \A k \in 1 .. Len(Tail(segment)) : Tail(segment)[k] = segment[k+1]
  BY <1>2, HeadTailProperties, EmptySeq
<1>4. \A k \in 1 .. Len(segment) : segment[k] = totalWritten + Len(pending) + k - 1
  BY <1>1 DEF StreamRight, Consecutive
<1>5. Head(segment) = totalWritten + Len(pending)
  BY <1>2, <1>3, <1>4
<1>6. Consecutive(Tail(segment), totalWritten + Len(pending) + 1)
  <2> SUFFICES ASSUME NEW k \in 1 .. Len(Tail(segment))
               PROVE  Tail(segment)[k] = totalWritten + Len(pending) + 1 + k - 1
    BY DEF Consecutive
  <2>1. k + 1 \in 1 .. Len(segment) /\ k \in Nat
    BY <1>3
  <2> QED
    BY <1>2, <1>3, <1>4, <2>1
<1>7. Bytes \in Nat
  BY <1>3, BytesAssumption DEF Bytes
<1> QED
  BY <1>1, <1>2, <1>3, <1>5, <1>6, <1>7

LEMMA StepWriteAlone == IInv /\ WriteAlone => IInv'
<1> SUFFICES ASSUME IInv, WriteAlone  PROVE IInv'
  OBVIOUS
<1> DEFINE rows == <<Head(segment)>>
<1>1. /\ Alive /\ StreamRight /\ WriterTypes
      /\ Head(segment) \in Ids /\ Head(segment) = totalWritten + Len(pending)
      /\ Tail(segment) \in Seq(Ids) /\ Len(segment) = Len(Tail(segment)) + 1
      /\ Len(Tail(segment)) \in Nat /\ Len(pending) \in Nat /\ totalWritten \in Nat
      /\ Consecutive(Tail(segment), totalWritten + Len(pending) + 1)
      /\ Bytes \in Nat /\ pendingBytes \in Nat
  BY NextRow DEF WriteAlone
<1>2. pending = <<>> /\ Len(pending) = 0
  BY <1>1, SizeAssumption, EmptySeq DEF WriteAlone, Full
<1>3. rows \in Seq(Ids) /\ Len(rows) = 1 /\ rows[1] = Head(segment)
  BY <1>1
<1>4. Consecutive(rows, totalWritten)
  BY <1>1, <1>2, <1>3 DEF Consecutive
<1> HIDE DEF rows
<1>5. CreateUserProofs(rows) /\ totalWritten' = totalWritten + Len(rows)
  BY <1>3 DEF WriteAlone, rows
<1>6. /\ totalWritten' = totalWritten + 1 /\ totalWritten' \in 0 .. TotalAccounts
      /\ table' = FirstRows(totalWritten') /\ TableRight'
  BY <1>1, <1>3, <1>4, <1>5, StepInsert DEF WriteAlone
<1>7. WriterTypes'
  BY <1>1, <1>6 DEF WriteAlone, WriterTypes
<1>8. Made' = Made
  BY DEF WriteAlone, Made, loopVars
<1>9. Consecutive(pending', totalWritten')
  BY <1>2 DEF WriteAlone, Consecutive
<1>10. StreamRight'
  <2>1. totalWritten' + Len(pending') = totalWritten + Len(pending) + 1
    BY <1>1, <1>2, <1>6 DEF WriteAlone
  <2>2. totalWritten' + Len(pending') + Len(segment') = totalWritten + Len(pending) + Len(segment)
    BY <1>1, <1>2, <1>6 DEF WriteAlone
  <2> QED
    BY <1>1, <1>6, <1>8, <1>9, <2>1, <2>2 DEF WriteAlone, StreamRight
<1> QED
  BY <1>1, <1>6, <1>7, <1>10, StepWriter DEF WriteAlone

LEMMA StepCollect == IInv /\ Collect => IInv'
<1> SUFFICES ASSUME IInv, Collect  PROVE IInv'
  OBVIOUS
<1>1. /\ Alive /\ StreamRight /\ WriterTypes
      /\ Head(segment) \in Ids /\ Head(segment) = totalWritten + Len(pending)
      /\ Tail(segment) \in Seq(Ids) /\ Len(segment) = Len(Tail(segment)) + 1
      /\ Len(Tail(segment)) \in Nat /\ Len(pending) \in Nat /\ totalWritten \in Nat
      /\ Consecutive(Tail(segment), totalWritten + Len(pending) + 1)
      /\ Bytes \in Nat /\ pendingBytes \in Nat
  BY NextRow DEF Collect
<1>2. pending \in Seq(Ids) /\ pending' = Append(pending, Head(segment))
  BY <1>1 DEF Collect, WriterTypes
<1>3. /\ pending' \in Seq(Ids) /\ Len(pending') = Len(pending) + 1
      /\ \A k \in 1 .. Len(pending) + 1 :
           pending'[k] = IF k = Len(pending) + 1 THEN Head(segment) ELSE pending[k]
  BY <1>1, <1>2
<1>4. WriterTypes'
  BY <1>1, <1>3 DEF Collect, WriterTypes
<1>5. Made' = Made
  BY DEF Collect, Made, loopVars
<1>6. Consecutive(pending', totalWritten')
  <2> SUFFICES ASSUME NEW k \in 1 .. Len(pending) + 1
               PROVE  pending'[k] = totalWritten + k - 1
    BY <1>3 DEF Collect, Consecutive
  <2>1. CASE k = Len(pending) + 1
    BY <1>1, <1>3, <2>1
  <2>2. CASE k # Len(pending) + 1
    BY <1>1, <1>3, <2>2 DEF StreamRight, Consecutive
  <2> QED
    BY <2>1, <2>2
<1>7. StreamRight'
  <2>1. totalWritten' + Len(pending') = totalWritten + Len(pending) + 1
    BY <1>1, <1>3 DEF Collect
  <2>2. totalWritten' + Len(pending') + Len(segment') = totalWritten + Len(pending) + Len(segment)
    BY <1>1, <1>3 DEF Collect
  <2> QED
    BY <1>1, <1>5, <1>6, <2>1, <2>2 DEF Collect, StreamRight, tables
<1>8. TableRight'
  BY DEF Collect, IInv, TableRight, tables
<1> QED
  BY <1>1, <1>4, <1>7, <1>8, StepWriter DEF Collect, tables

LEMMA StepFlushes == IInv /\ (FlushFull \/ FlushRest) => IInv'
<1>1. ASSUME IInv, FlushFull  PROVE IInv'
  BY <1>1, NextRow, StepFlush DEF FlushFull
<1>2. ASSUME IInv, FlushRest  PROVE IInv'
  BY <1>2, StepFlush DEF FlushRest, Drained, Alive
<1> QED
  BY <1>1, <1>2

----------------------------------------------------------------------------
(* The end of Run, and every step.                                         *)

\* When the loop is done and nothing is left to write, everything is written.
LEMMA DrainedComplete ==
    ASSUME IInv, Drained, pending = <<>>
    PROVE  CountsMatch /\ table = FirstRows(TotalAccounts) /\ Alive
<1>1. Alive /\ StreamRight /\ WriterTypes /\ current = TotalAccounts /\ segStart = 0
  BY DEF IInv, Drained, Alive, CurrentRight
<1>2. TotalAccounts \in Nat /\ totalWritten \in Nat /\ Len(<<>>) = 0
  BY <1>1, BeforeTotal DEF WriterTypes
<1>3. Made = TotalAccounts
  BY <1>1, <1>2 DEF Drained, Made
<1>4. Stream(<<>>, totalWritten, TotalAccounts)
  BY <1>1, <1>2, <1>3 DEF StreamRight, Drained
<1>5. totalWritten = TotalAccounts
  BY <1>2, <1>4, StreamEmpty
<1> QED
  BY <1>1, <1>5 DEF CountsMatch, StreamRight

LEMMA StepCreateAccountIdIndex == IInv /\ CreateAccountIdIndex => IInv'
<1> SUFFICES ASSUME IInv, CreateAccountIdIndex  PROVE IInv'
  OBVIOUS
<1>1. Alive /\ table = FirstRows(TotalAccounts) /\ phase = "closed"
  BY DrainedComplete DEF CreateAccountIdIndex, Drained
<1>2. CurrentRight' /\ ProofsRight'
  BY <1>1 DEF CreateAccountIdIndex, IInv, CurrentRight, ProofsRight
<1>3. WriterTypes'
  BY DEF CreateAccountIdIndex, IInv, WriterTypes, writeVars
<1>4. TableRight'
  BY <1>1 DEF CreateAccountIdIndex, IInv, TableRight
<1>5. Others' /\ Alive'
  BY DEF CreateAccountIdIndex, IInv, Others, Alive
<1>6. Made' = Made
  BY <1>1 DEF CreateAccountIdIndex, Made
<1>7. StreamRight'
  BY <1>1, <1>6 DEF CreateAccountIdIndex, IInv, StreamRight, writeVars
<1> QED
  BY <1>2, <1>3, <1>4, <1>5, <1>7 DEF IInv

LEMMA StepRunPanics == IInv /\ RunPanics => IInv'
<1> SUFFICES ASSUME IInv, RunPanics  PROVE IInv'
  OBVIOUS
<1>1. index
  BY DrainedComplete DEF RunPanics
<1> QED
  BY <1>1, StepMemory, BeforeTotal DEF RunPanics, Panic, IInv, Others

\* Whatever the goroutines and the writer do, and wherever the process dies.
LEMMA StepInv == IInv /\ [Next]_vars => IInv'
<1> SUFFICES ASSUME IInv, [Next]_vars  PROVE IInv'
  OBVIOUS
<1>1. CASE Start
  <2>1. PICK n \in 0 .. TotalAccounts : table = FirstRows(n)
    BY DEF IInv, TableRight
  <2>2. LatestCount = n
    BY <2>1, ResumesAfter
  <2> QED
    BY <1>1, <2>1, <2>2, StepMemory DEF Start, IInv, Others
<1>2. CASE Crash
  <2>1. 0 \in 0 .. TotalAccounts /\ crashes' \in Nat
    BY <1>2, BeforeTotal DEF Crash, IInv, Others
  <2> QED
    BY <1>2, <2>1, StepMemory DEF Crash
<1>3. CASE WitnessFinishes
  <2>1. CurrentRight' /\ ProofsRight'
    BY <1>3 DEF WitnessFinishes, loopVars, IInv, CurrentRight, ProofsRight, Count, SegCount, StartIdx
  <2>2. WriterTypes' /\ TableRight' /\ Others' /\ Alive' = Alive
    BY <1>3 DEF WitnessFinishes, loopVars, writeVars, tables, IInv, WriterTypes, TableRight,
       Others, Alive
  <2>3. Alive => StreamRight'
    BY <1>3 DEF WitnessFinishes, loopVars, writeVars, tables, IInv, StreamRight, Made
  <2> QED
    BY <2>1, <2>2, <2>3 DEF IInv
<1>4. CASE UNCHANGED vars
  <2>1. CurrentRight' /\ ProofsRight'
    BY <1>4 DEF vars, loopVars, IInv, CurrentRight, ProofsRight, Count, SegCount, StartIdx
  <2>2. WriterTypes' /\ TableRight' /\ Others' /\ Alive' = Alive
    BY <1>4 DEF vars, loopVars, writeVars, tables, IInv, WriterTypes, TableRight, Others, Alive
  <2>3. Alive => StreamRight'
    BY <1>4 DEF vars, loopVars, writeVars, tables, IInv, StreamRight, Made
  <2> QED
    BY <2>1, <2>2, <2>3 DEF IInv
<1>5. CASE Exit
  BY <1>4, <1>5 DEF Exit
<1>6. CASE Loop
  BY <1>6, StepSkipTier, StepBeginTier, StepBeginSegment, StepSendSegment, StepEndTier,
     StepCloseSegments, StepCreateAccountIdIndex, StepRunPanics DEF Loop
<1>7. CASE Writer
  BY <1>7, StepReceiveSegment, StepFlushes, StepWriteAlone, StepCollect DEF Writer
<1>8. CASE \E w \in 0 .. Workers - 1 : Compute(w)
  BY <1>8, StepCompute
<1> QED
  BY <1>1, <1>2, <1>3, <1>4, <1>5, <1>6, <1>7, <1>8 DEF Next

LEMMA Invariant == Spec => []IInv
  BY InitInv, StepInv, PTL DEF Spec

----------------------------------------------------------------------------
(* What the service promises.                                              *)

\* The type invariant: among others, that a channel and a segment keep to
\* their size.
THEOREM TypeCorrect == Spec => []TypeOK
<1>1. IInv => TypeOK
  <2> SUFFICES ASSUME IInv  PROVE TypeOK
    OBVIOUS
  <2>1. TotalAccounts \in Nat
    BY BeforeTotal
  <2>2. PICK n \in 0 .. TotalAccounts : table = FirstRows(n)
    BY DEF IInv, TableRight
  <2>3. table \in [Ids -> Ids \cup {None}]
    BY <2>2 DEF FirstRows
  <2>4. proofs \in Seq(Ids \cup {None}) /\ Len(proofs) <= SegmentSize
    <3>1. CASE phase = "compute"
      BY <3>1, Room, SizeAssumption DEF IInv, ProofsRight
    <3>2. CASE phase # "compute"
      <4>1. proofs = <<>> /\ <<>> \in Seq(Ids \cup {None}) /\ Len(<<>>) = 0 /\ 0 <= SegmentSize
        BY <3>2, SizeAssumption, EmptySeq DEF IInv, ProofsRight
      <4> QED
        BY <4>1
    <3> QED
      BY <3>1, <3>2
  <2> QED
    BY <2>1, <2>3, <2>4 DEF IInv, CurrentRight, WriterTypes, Others, TypeOK
<1> QED
  BY <1>1, Invariant, PTL

\* The writer's count is the number of rows in the table: after any number of
\* restarts, at any places, the service resumes with the account that is next.
THEOREM ResumeIsRight == Spec => []CountIsStored
<1>1. IInv => CountIsStored
  BY FirstRowsCount DEF IInv, StreamRight, WriterTypes, CountIsStored, Stored
<1> QED
  BY <1>1, Invariant, PTL

\* The index is built over a complete table only.
THEOREM IndexedIsComplete == Spec => []IndexOverComplete
<1>1. IInv => IndexOverComplete
  <2> SUFFICES ASSUME IInv, index  PROVE Stored = Ids
    BY DEF IndexOverComplete
  <2>1. table = FirstRows(TotalAccounts) /\ TotalAccounts \in 0 .. TotalAccounts
    BY BeforeTotal DEF IInv, TableRight
  <2> QED
    BY <2>1, FirstRowsCount DEF Stored, Ids
<1> QED
  BY <1>1, Invariant, PTL

\* The counts of the loop and of the writer agree at the end of every run.
THEOREM CountsAgree == Spec => []PanicOnlyOverIndex
<1>1. IInv => PanicOnlyOverIndex
  BY DEF IInv, Others, PanicOnlyOverIndex
<1> QED
  BY <1>1, Invariant, PTL

----------------------------------------------------------------------------
(* The table is the log that is promised.                                  *)

\* The first n proofs of an uninterrupted run.
FirstProofs(n) == [k \in 1 .. n |-> k - 1]

LEMMA TableLogIs ==
    ASSUME NEW n \in 0 .. TotalAccounts, table = FirstRows(n)
    PROVE  Cardinality(Stored) = n /\ TableLog = FirstProofs(n)
<1>1. Cardinality(Stored) = n /\ \A i \in 0 .. n - 1 : table[i] = i
  BY FirstRowsCount DEF Stored
<1>2. \A k \in 1 .. n : k - 1 \in 0 .. n - 1
  BY BeforeTotal
<1> QED
  BY <1>1, <1>2 DEF TableLog, FirstProofs

LEMMA NextTableLogIs ==
    ASSUME NEW n \in 0 .. TotalAccounts, table' = FirstRows(n)
    PROVE  Cardinality(Stored)' = n /\ TableLog' = FirstProofs(n)
<1>1. Cardinality(Stored)' = n /\ \A i \in 0 .. n - 1 : table'[i] = i
  BY FirstRowsCount DEF Stored
<1>2. \A k \in 1 .. n : k - 1 \in 0 .. n - 1
  BY BeforeTotal
<1> QED
  BY <1>1, <1>2 DEF TableLog, FirstProofs

\* No step removes a row.
LEMMA RowsStay ==
    ASSUME [Next]_vars
    PROVE  table' = table \/ \A i \in Ids : table[i] # None => table'[i] # None
<1>1. ASSUME NEW rows, CreateUserProofs(rows)
      PROVE  \A i \in Ids : table[i] # None => table'[i] # None
  BY <1>1, NoneAssumption DEF CreateUserProofs
<1>2. CASE Writer
  BY <1>1, <1>2 DEF Writer, ReceiveSegment, FlushFull, WriteAlone, Collect, FlushRest, Flush, tables
<1>3. CASE ~Writer
  BY <1>3 DEF Next, Start, Crash, WitnessFinishes, Exit, Loop, SkipTier, BeginTier, BeginSegment,
     SendSegment, EndTier, CloseSegments, CreateAccountIdIndex, RunPanics, Panic, Compute,
     vars, tables
<1> QED
  BY <1>2, <1>3

LEMMA InitLog == Init => Log!LogInit
<1> SUFFICES ASSUME Init  PROVE TableLog = <<>>
  BY DEF Log!LogInit
<1>1. TotalAccounts \in Nat
  BY BeforeTotal
<1>2. table = FirstRows(0)
  BY <1>1 DEF Init, FirstRows, Ids
<1>3. TableLog = FirstProofs(0)
  BY <1>1, <1>2, TableLogIs
<1> QED
  BY <1>3 DEF FirstProofs

LEMMA StepLog == IInv /\ IInv' /\ [Next]_vars => [Log!LogNext]_TableLog
<1> SUFFICES ASSUME IInv, IInv', [Next]_vars  PROVE Log!LogNext \/ TableLog' = TableLog
  OBVIOUS
<1>1. PICK m \in 0 .. TotalAccounts : table = FirstRows(m)
  BY DEF IInv, TableRight
<1>2. PICK n \in 0 .. TotalAccounts : table' = FirstRows(n)
  BY DEF IInv, TableRight
<1>3. Cardinality(Stored) = m /\ TableLog = FirstProofs(m) /\ TableLog' = FirstProofs(n)
  BY <1>1, <1>2, TableLogIs, NextTableLogIs
<1>4. m <= n
  <2>1. CASE table' = table
    <3>1. m = n
      BY <1>1, <1>2, <2>1, FirstRowsDiffer
    <3> QED
      BY <3>1, BeforeTotal
  <2>2. CASE \A i \in Ids : table[i] # None => table'[i] # None
    <3>1. {i \in Ids : table[i] # None} = 0 .. m - 1 /\ {i \in Ids : table'[i] # None} = 0 .. n - 1
      BY <1>1, <1>2, FirstRowsCount
    <3>2. \A i \in 0 .. m - 1 : i \in 0 .. n - 1
      BY <2>2, <3>1
    <3>3. m = 0 \/ m - 1 \in 0 .. m - 1
      BY BeforeTotal
    <3> QED
      BY <3>2, <3>3, BeforeTotal
  <2> QED
    BY <2>1, <2>2, RowsStay
<1>5. CASE m = n
  BY <1>3, <1>5
<1>6. CASE m # n
  <2> DEFINE entries == [k \in 1 .. TotalAccounts |-> k - 1]
  <2>1. TotalAccounts \in Nat /\ m \in Nat /\ n \in Nat /\ n \in m + 1 .. TotalAccounts
    BY <1>4, <1>6, BeforeTotal
  <2>2. Len(TableLog) = m /\ Len(entries) = TotalAccounts
    BY <1>3, <2>1 DEF FirstProofs
  <2>3. SubSeq(entries, 1, n) = FirstProofs(n)
    BY <2>1 DEF FirstProofs
  <2> HIDE DEF entries
  <2>4. TableLog' = SubSeq(entries, 1, n) /\ n \in Len(TableLog) + 1 .. Len(entries)
    BY <1>3, <2>1, <2>2, <2>3
  <2>5. Log!Extend(n)
    BY <2>4 DEF Log!Extend, entries
  <2> QED
    BY <2>4, <2>5 DEF Log!LogNext, entries
<1> QED
  BY <1>5, <1>6

\* The table always holds the proofs of the first accounts of an
\* uninterrupted run, in order and each once.
THEOREM TableIsLog == Spec => ImplementsLog
  BY InitInv, StepInv, InitLog, StepLog, PTL DEF Spec, ImplementsLog, Log!LogSpec

----------------------------------------------------------------------------
(* What one insert carries.                                                *)

\* The payload of some rows.
PayloadOf(rows) == SumFunction([k \in 1 .. Len(rows) |-> RowBytes[rows[k]]])

\* The writer counts the payload of the rows it has collected.
BytesRight == pendingBytes = PayloadOf(pending) /\ pendingBytes <= MaxBytes

LEMMA PayloadEmpty == PayloadOf(<<>>) = 0
<1>1. Len(<<>>) = 0 /\ 1 .. 0 = {}
  OBVIOUS
<1>2. DOMAIN [k \in 1 .. Len(<<>>) |-> RowBytes[<<>>[k]]] = {}
  BY <1>1
<1> QED
  BY <1>2, SumEmpty DEF PayloadOf, SumFunction

LEMMA PayloadAppend ==
    ASSUME NEW rows \in Seq(Ids), NEW row \in Ids
    PROVE  PayloadOf(Append(rows, row)) = PayloadOf(rows) + RowBytes[row]
<1> DEFINE n == Len(rows)
           more == Append(rows, row)
           f == [k \in 1 .. n |-> RowBytes[rows[k]]]
           g == [k \in 1 .. Len(more) |-> RowBytes[more[k]]]
<1>1. n \in Nat /\ Len(more) = n + 1 /\ more \in Seq(Ids)
  OBVIOUS
<1>2. /\ \A k \in 1 .. n : rows[k] \in Ids /\ more[k] = rows[k]
      /\ \A k \in 1 .. n + 1 : more[k] \in Ids
      /\ more[n+1] = row
  OBVIOUS
<1>3. \A k \in 1 .. n + 1 : g[k] \in Int /\ g[k] = RowBytes[more[k]]
  BY <1>1, <1>2, BytesAssumption
<1>4. \A k \in 1 .. n : f[k] = g[k]
  BY <1>1, <1>2
<1>5. SumFunctionOnSet(g, 1 .. n + 1) = SumFunctionOnSet(f, 1 .. n) + g[n+1]
  <2> HIDE DEF f, g, n
  <2> QED
    BY <1>1, <1>3, <1>4, SumAppend
<1>6. g[n+1] = RowBytes[row]
  BY <1>1, <1>2, <1>3
<1>7. PayloadOf(more) = SumFunctionOnSet(g, 1 .. n + 1) /\ PayloadOf(rows) = SumFunctionOnSet(f, 1 .. n)
  <2>1. DOMAIN g = 1 .. n + 1 /\ DOMAIN f = 1 .. n
    BY <1>1
  <2>2. PayloadOf(more) = SumFunctionOnSet(g, DOMAIN g) /\ PayloadOf(rows) = SumFunctionOnSet(f, DOMAIN f)
    BY Zenon DEF PayloadOf, SumFunction
  <2> QED
    BY <2>1, <2>2, Zenon
<1> QED
  BY <1>5, <1>6, <1>7

\* However rows, segments and inserts meet, no insert of several rows carries
\* more than MaxBytes.
THEOREM InsertsFit == Spec => []InsertFits
<1>1. Init => BytesRight
  BY PayloadEmpty, SizeAssumption DEF Init, BytesRight
<1>2. IInv /\ BytesRight /\ [Next]_vars => BytesRight'
  <2> SUFFICES ASSUME IInv, BytesRight, [Next]_vars  PROVE BytesRight'
    OBVIOUS
  <2>1. CASE Collect
    <3>1. segment \in Seq(Ids) /\ segment # <<>> /\ pending \in Seq(Ids) /\ pendingBytes \in Nat
      BY <2>1 DEF Collect, IInv, WriterTypes
    <3>2. Head(segment) \in Ids /\ RowBytes[Head(segment)] \in Nat
      BY <3>1, BytesAssumption
    <3>3. pending' = Append(pending, Head(segment)) /\ pendingBytes' = pendingBytes + RowBytes[Head(segment)]
      BY <2>1 DEF Collect, Bytes
    <3>4. PayloadOf(pending)' = PayloadOf(pending')
      BY DEF PayloadOf
    <3>5. pendingBytes' = PayloadOf(pending')
      BY <3>1, <3>2, <3>3, PayloadAppend DEF BytesRight
    <3>6. pendingBytes' <= MaxBytes
      <4>1. CASE pending = <<>>
        <5>1. pendingBytes = 0
          BY <4>1, PayloadEmpty DEF BytesRight
        <5> QED
          BY <2>1, <3>2, <3>3, <5>1 DEF Collect, Bytes
      <4>2. CASE pending # <<>>
        BY <2>1, <3>1, <3>2, <3>3, <4>2, SizeAssumption DEF Collect, Full, Bytes
      <4> QED
        BY <4>1, <4>2
    <3> QED
      BY <3>4, <3>5, <3>6 DEF BytesRight
  <2>2. CASE pending' = <<>> /\ pendingBytes' = 0
    BY <2>2, PayloadEmpty, SizeAssumption DEF BytesRight, PayloadOf
  <2>3. CASE UNCHANGED <<pending, pendingBytes>>
    BY <2>3 DEF BytesRight, PayloadOf
  <2>4. Collect \/ (pending' = <<>> /\ pendingBytes' = 0) \/ UNCHANGED <<pending, pendingBytes>>
    BY DEF Next, Start, Crash, Memory, WitnessFinishes, Exit, Loop, SkipTier, BeginTier, BeginSegment,
       SendSegment, EndTier, CloseSegments, CreateAccountIdIndex, RunPanics, Panic, Writer,
       ReceiveSegment, FlushFull, WriteAlone, FlushRest, Flush, Compute, vars, writeVars
  <2> QED
    BY <2>1, <2>2, <2>3, <2>4
<1>3. BytesRight => InsertFits
  BY DEF BytesRight, PayloadOf, InsertFits
<1> QED
  BY <1>1, <1>2, <1>3, Invariant, PTL DEF Spec

=============================================================================
