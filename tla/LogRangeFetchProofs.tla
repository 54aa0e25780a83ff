------------------------- MODULE LogRangeFetchProofs -------------------------
(***************************************************************************)
(* Proofs about LogRangeFetch, for every batch size, provider and          *)
(* flush_interval.                                                         *)
(***************************************************************************)
EXTENDS LogRangeFetch, Induction, SequenceTheorems, TLAPS

-----------------------------------------------------------------------------
(* Ranges and their halves.                                                *)

\* The halves of a range of two blocks or more are ranges, and meet.
LEMMA HalvesFacts ==
  ASSUME NEW r \in Ranges, r[1] < r[2]
  PROVE  /\ Halves(r) \in Seq(Ranges) /\ Len(Halves(r)) = 2
         /\ Halves(r)[1][1] = r[1] /\ Halves(r)[2][2] = r[2]
         /\ Halves(r)[2][1] = Halves(r)[1][2] + 1
         /\ Halves(r)[1][1] <= Halves(r)[1][2]
         /\ Halves(r)[2][1] <= Halves(r)[2][2]
<1> DEFINE mid == r[1] + (r[2] - r[1]) \div 2
<1>1. r[1] \in 1 .. LastBlock /\ r[2] \in 1 .. LastBlock /\ LastBlock \in Nat
  BY FetchAssumption DEF Ranges
<1>2. mid \in 1 .. LastBlock /\ r[1] <= mid /\ mid < r[2]
  BY <1>1
<1>3. Halves(r) = <<<<r[1], mid>>, <<mid + 1, r[2]>>>>
  BY DEF Halves
<1> HIDE DEF mid
<1> QED BY <1>1, <1>2, <1>3 DEF Ranges

\* A tiling y that has two ranges where the tiling x has one, and is the same
\* before and behind it.
LEMMA TilesByIndex ==
  ASSUME NEW x \in Seq(Ranges), NEW y \in Seq(Ranges), NEW n \in Nat, NEW k \in Nat,
         Len(x) = n + 1 + k, Len(y) = n + 2 + k,
         \A i \in 1 .. n : y[i] = x[i],
         \A i \in n + 2 .. n + 1 + k : y[i + 1] = x[i],
         y[n + 1][1] = x[n + 1][1], y[n + 2][2] = x[n + 1][2],
         y[n + 2][1] = y[n + 1][2] + 1,
         y[n + 1][1] <= y[n + 1][2], y[n + 2][1] <= y[n + 2][2],
         NEW first, NEW last, Tiles(x, first, last)
  PROVE  Tiles(y, first, last)
<1>1. /\ \A i \in 1 .. n + 1 + k : x[i][1] <= x[i][2]
      /\ \A i \in 1 .. n + k : x[i + 1][1] = x[i][2] + 1
      /\ x[1][1] = first /\ x[n + 1 + k][2] = last
  BY DEF Tiles, Consecutive
<1>2. ASSUME NEW i \in 1 .. n + 2 + k PROVE y[i][1] <= y[i][2]
  <2>1. CASE i <= n
    BY <1>1, <2>1
  <2>2. CASE i = n + 1 \/ i = n + 2
    BY <2>2
  <2>3. CASE i >= n + 3
    <3>1. i - 1 \in n + 2 .. n + 1 + k /\ i - 1 \in 1 .. n + 1 + k /\ i - 1 + 1 = i
      BY <2>3
    <3> QED BY <1>1, <3>1
  <2> QED BY <2>1, <2>2, <2>3
<1>3. ASSUME NEW i \in 1 .. n + 1 + k PROVE y[i + 1][1] = y[i][2] + 1
  <2>1. CASE i < n
    <3>1. i \in 1 .. n /\ i + 1 \in 1 .. n /\ i \in 1 .. n + k
      BY <2>1
    <3> QED BY <1>1, <3>1
  <2>2. CASE i = n
    BY <1>1, <2>2
  <2>3. CASE i = n + 1
    <3>1. i + 1 = n + 2
      BY <2>3
    <3> QED BY <2>3, <3>1
  <2>4. CASE i = n + 2
    <3>1. /\ i \in n + 2 .. n + 1 + k
          /\ n + 1 \in 1 .. n + k /\ n + 1 + 1 = i
      BY <2>4
    <3> QED BY <1>1, <2>4, <3>1
  <2>5. CASE i >= n + 3
    <3>1. /\ i \in n + 2 .. n + 1 + k /\ i - 1 \in n + 2 .. n + 1 + k
          /\ i - 1 \in 1 .. n + k /\ i - 1 + 1 = i
      BY <2>5
    <3>2. y[i + 1] = x[i] /\ y[i - 1 + 1] = x[i - 1] /\ x[i - 1 + 1][1] = x[i - 1][2] + 1
      BY <1>1, <3>1, Zenon
    <3> QED BY <3>1, <3>2, Zenon
  <2> QED BY <2>1, <2>2, <2>3, <2>4, <2>5
<1>4. y[1][1] = first
  <2>1. CASE n = 0
    BY <1>1, <2>1
  <2>2. CASE n >= 1
    BY <1>1, <2>2
  <2> QED BY <2>1, <2>2
<1>5. y[n + 2 + k][2] = last
  <2>1. CASE k = 0
    BY <1>1, <2>1
  <2>2. CASE k >= 1
    <3>1. n + 1 + k \in n + 2 .. n + 1 + k /\ n + 1 + k + 1 = n + 2 + k
      BY <2>2
    <3> QED BY <1>1, <3>1
  <2> QED BY <2>1, <2>2
<1>6. y # <<>>
  OBVIOUS
<1>7. Len(y) - 1 = n + 1 + k
  OBVIOUS
<1> QED BY <1>2, <1>3, <1>4, <1>5, <1>6, <1>7 DEF Tiles, Consecutive

\* What a concatenation holds at each place.
LEMMA ConcatIndex ==
  ASSUME NEW S, NEW u \in Seq(S), NEW v \in Seq(S)
  PROVE  /\ u \o v \in Seq(S) /\ Len(u \o v) = Len(u) + Len(v)
         /\ \A i \in 1 .. Len(u) : (u \o v)[i] = u[i]
         /\ \A i \in 1 .. Len(v) : (u \o v)[Len(u) + i] = v[i]
  OBVIOUS

\* The same, for a pair of ranges ahead of a sequence.
LEMMA ConcatTwo ==
  ASSUME NEW u \in Seq(Ranges), NEW v \in Seq(Ranges)
  PROVE  Len(u) = 2 =>
           \E t \in Seq(Ranges) :
             /\ t = u \o v /\ t[1] = u[1] /\ t[2] = u[2] /\ Len(t) = 2 + Len(v)
             /\ \A i \in 1 .. Len(v) : t[2 + i] = v[i]
<1>1. PICK t \in Seq(Ranges) :
        /\ t = u \o v /\ Len(t) = Len(u) + Len(v)
        /\ \A i \in 1 .. Len(u) : t[i] = u[i]
        /\ \A i \in 1 .. Len(v) : t[Len(u) + i] = v[i]
  <2>1. u \o v \in Seq(Ranges)
    BY ConcatIndex
  <2> WITNESS u \o v \in Seq(Ranges)
  <2> QED BY ConcatIndex
<1>2. ASSUME Len(u) = 2 PROVE t[1] = u[1] /\ t[2] = u[2]
  <2>1. 1 \in 1 .. 2 /\ 2 \in 1 .. 2
    OBVIOUS
  <2> QED BY <1>1, <1>2, <2>1, Zenon
<1> QED BY <1>1, <1>2, Zenon

\* Replacing a range by two that meet and cover it keeps a tiling.
LEMMA SplitTiles ==
  ASSUME NEW a \in Seq(Ranges), NEW s \in Seq(Ranges), s # <<>>,
         NEW h \in Seq(Ranges), Len(h) = 2,
         h[1][1] = Head(s)[1], h[2][2] = Head(s)[2], h[2][1] = h[1][2] + 1,
         h[1][1] <= h[1][2], h[2][1] <= h[2][2],
         NEW first, NEW last, Tiles(a \o s, first, last)
  PROVE  Tiles(a \o (h \o Tail(s)), first, last)
<1>1. PICK n \in Nat : n = Len(a)
  OBVIOUS
<1>2. PICK k \in Nat : Len(s) = 1 + k
  <2>1. Len(s) \in Nat \ {0}
    BY EmptySeq
  <2> QED BY <2>1
<1>3. PICK r \in Seq(Ranges) : r = Tail(s)
  <2>1. Tail(s) \in Seq(Ranges)
    OBVIOUS
  <2> QED BY <2>1
<1>4. Len(r) = k /\ s[1] = Head(s) /\ \A i \in 1 .. k : s[1 + i] = r[i]
  BY <1>2, <1>3
<1>5. PICK t \in Seq(Ranges) :
        /\ t = h \o r /\ Len(t) = 2 + k /\ t[1] = h[1] /\ t[2] = h[2]
        /\ \A i \in 1 .. k : t[2 + i] = r[i]
  <2>1. Len(r) = k
    BY <1>4
  <2>2. \E t \in Seq(Ranges) :
          /\ t = h \o r /\ t[1] = h[1] /\ t[2] = h[2] /\ Len(t) = 2 + Len(r)
          /\ \A i \in 1 .. Len(r) : t[2 + i] = r[i]
    BY ConcatTwo
  <2> QED BY <2>1, <2>2, Zenon
<1>6. PICK x \in Seq(Ranges) :
        /\ x = a \o s /\ Len(x) = n + (1 + k)
        /\ \A i \in 1 .. n : x[i] = a[i]
        /\ \A i \in 1 .. 1 + k : x[n + i] = s[i]
  <2>1. /\ a \o s \in Seq(Ranges) /\ Len(a \o s) = Len(a) + Len(s)
        /\ \A i \in 1 .. Len(a) : (a \o s)[i] = a[i]
        /\ \A i \in 1 .. Len(s) : (a \o s)[Len(a) + i] = s[i]
    BY ConcatIndex
  <2>2. PICK x \in Seq(Ranges) : x = a \o s
    BY <2>1
  <2> QED BY <1>1, <1>2, <2>1, <2>2
<1>7. PICK y \in Seq(Ranges) :
        /\ y = a \o t /\ Len(y) = n + (2 + k)
        /\ \A i \in 1 .. n : y[i] = a[i]
        /\ \A i \in 1 .. 2 + k : y[n + i] = t[i]
  <2>1. /\ a \o t \in Seq(Ranges) /\ Len(a \o t) = Len(a) + Len(t)
        /\ \A i \in 1 .. Len(a) : (a \o t)[i] = a[i]
        /\ \A i \in 1 .. Len(t) : (a \o t)[Len(a) + i] = t[i]
    BY ConcatIndex
  <2>2. PICK y \in Seq(Ranges) : y = a \o t
    BY <2>1
  <2> QED BY <1>1, <1>5, <2>1, <2>2
<1>8. \A i \in 1 .. n : y[i] = x[i]
  BY <1>6, <1>7
<1>9. ASSUME NEW i \in n + 2 .. n + 1 + k PROVE y[i + 1] = x[i]
  <2>1. PICK j \in 1 .. k : i = n + (1 + j)
    <3>1. i - n - 1 \in 1 .. k /\ i = n + (1 + (i - n - 1))
      OBVIOUS
    <3> QED BY <3>1
  <2>2. i + 1 = n + (2 + j) /\ 1 + j \in 1 .. 1 + k /\ 2 + j \in 1 .. 2 + k
    BY <2>1
  <2>3. y[n + (2 + j)] = t[2 + j] /\ x[n + (1 + j)] = s[1 + j]
    BY <1>6, <1>7, <2>2
  <2> QED BY <1>4, <1>5, <2>1, <2>2, <2>3
<1>10. x[n + 1] = Head(s) /\ y[n + 1] = h[1] /\ y[n + 2] = h[2]
  <2>1. 1 \in 1 .. 1 + k /\ 1 \in 1 .. 2 + k /\ 2 \in 1 .. 2 + k
    OBVIOUS
  <2>2. x[n + 1] = s[1] /\ y[n + 1] = t[1] /\ y[n + 2] = t[2]
    BY <1>6, <1>7, <2>1
  <2> QED BY <1>4, <1>5, <2>2
<1>11. Tiles(y, first, last)
  <2>1. /\ y[n + 1][1] = x[n + 1][1] /\ y[n + 2][2] = x[n + 1][2]
        /\ y[n + 2][1] = y[n + 1][2] + 1
        /\ y[n + 1][1] <= y[n + 1][2] /\ y[n + 2][1] <= y[n + 2][2]
    BY <1>10
  <2>2. Tiles(x, first, last)
    BY <1>6
  <2>3. Len(x) = n + 1 + k /\ Len(y) = n + 2 + k
    BY <1>6, <1>7
  <2> QED BY <1>8, <1>9, <2>1, <2>2, <2>3, TilesByIndex
<1> QED BY <1>3, <1>5, <1>7, <1>11

\* One range tiles itself.
LEMMA OneTile ==
  ASSUME NEW a \in Nat, NEW b \in Nat, a <= b
  PROVE  Tiles(<<>> \o <<<<a, b>>>>, a, b)
<1>1. <<>> \o <<<<a, b>>>> = <<<<a, b>>>>
  OBVIOUS
<1> QED BY <1>1 DEF Tiles, Consecutive

\* Moving the head of the stack behind the logs changes nothing.
LEMMA MoveHead ==
  ASSUME NEW a \in Seq(Ranges), NEW s \in Seq(Ranges), s # <<>>
  PROVE  /\ Append(a, Head(s)) \o Tail(s) = a \o s
         /\ Append(a, Head(s)) \in Seq(Ranges) /\ Tail(s) \in Seq(Ranges)
         /\ Head(s) \in Ranges
<1>1. /\ Append(a, Head(s)) \in Seq(Ranges) /\ Tail(s) \in Seq(Ranges)
      /\ Head(s) \in Ranges
  OBVIOUS
<1>2. Append(a, Head(s)) \o Tail(s) = a \o s
  OBVIOUS
<1> QED BY <1>1, <1>2

-----------------------------------------------------------------------------
(* The invariant.                                                          *)

FetchInv ==
  /\ TypeOK /\ WholeRange /\ OnlyAnswered
  /\ phase # "latest" => start <= LastBlock
  /\ phase = "read" => stack = <<>>
  /\ phase = "sleep" => logs = <<>>

\* The batch ends at or behind the block it starts with.
LEMMA EndBlockFacts ==
  ASSUME start \in Nat, start <= LastBlock
  PROVE  EndBlock \in Nat /\ start <= EndBlock /\ EndBlock <= LastBlock
BY FetchAssumption DEF EndBlock

\* The invariant holds at the start.
LEMMA FetchInvInit == Init => FetchInv
<1> SUFFICES ASSUME Init PROVE FetchInv
  OBVIOUS
<1>1. fits \subseteq Ranges
  BY FetchAssumption DEF Init
<1>2. start \in Nat \ {0} /\ phase = "latest" /\ stack = <<>> /\ logs = <<>>
  BY DEF Init
<1>3. spent \in 0 .. FlushInterval /\ faults \in 0 .. MaxFaults
  BY FetchAssumption DEF Init
<1>4. stack \in Seq(Ranges) /\ logs \in Seq(Ranges)
  BY <1>2
<1>5. TypeOK
  BY <1>1, <1>2, <1>3, <1>4 DEF TypeOK
<1>6. OnlyAnswered
  BY <1>2 DEF OnlyAnswered
<1> QED BY <1>2, <1>5, <1>6 DEF FetchInv, WholeRange

\* The counters stay in their bounds.
LEMMA CountersKept ==
  ASSUME FetchInv, [Next]_vars
  PROVE  /\ spent' \in 0 .. FlushInterval /\ faults' \in 0 .. MaxFaults
         /\ fits' = fits
<1>1. spent \in 0 .. FlushInterval /\ faults \in 0 .. MaxFaults
  BY DEF FetchInv, TypeOK
<1>2. FlushInterval \in Nat \ {0} /\ MaxFaults \in Nat
  BY FetchAssumption
<1>3. CASE UNCHANGED vars
  BY <1>1, <1>3 DEF vars
<1>4. CASE BeginBatch
  BY <1>1, <1>2, <1>4 DEF BeginBatch, Await
<1>5. CASE Idle
  BY <1>1, <1>2, <1>5 DEF Idle, Await
<1>6. CASE Fetched
  BY <1>1, <1>2, <1>6 DEF Fetched, Await
<1>7. ASSUME NEW e, Fails(e)
      PROVE  spent' \in 0 .. FlushInterval /\ faults' \in 0 .. MaxFaults
  BY <1>1, <1>2, <1>7 DEF Fails, Await
<1>8. ASSUME NEW e, Split(e) PROVE Fails(e) /\ fits' = fits
  BY <1>8 DEF Split
<1>9. ASSUME NEW e, Irreducible(e) \/ FetchError(e) PROVE Fails(e) /\ fits' = fits
  BY <1>9 DEF Irreducible, FetchError
<1>10. CASE Retry
  BY <1>1, <1>2, <1>10 DEF Retry, Await
<1>11. CASE Return
  BY <1>1, <1>11 DEF Return
<1>12. CASE NextBatch
  BY <1>1, <1>12 DEF NextBatch
<1>13. CASE Tick
  BY <1>1, <1>2, <1>13 DEF Tick
<1> QED BY <1>3, <1>4, <1>5, <1>6, <1>7, <1>8, <1>9, <1>10, <1>11, <1>12,
           <1>13 DEF Next

\* A batch that is begun, or begun again, has its whole range on the stack.
LEMMA BegunTiles ==
  ASSUME start \in Nat \ {0}, start <= LastBlock,
         stack' = <<<<start, EndBlock>>>>, logs' = <<>>, start' = start
  PROVE  WholeRange' /\ stack' \in Seq(Ranges) /\ logs' \in Seq(Ranges)
<1>1. EndBlock \in Nat /\ start <= EndBlock /\ EndBlock <= LastBlock
  BY EndBlockFacts
<1>2. EndBlock' = EndBlock
  BY DEF EndBlock
<1>3. Tiles(<<>> \o <<<<start, EndBlock>>>>, start, EndBlock)
  BY <1>1, OneTile
<1>4. Tiles(logs' \o stack', start', EndBlock')
  BY <1>2, <1>3
<1>5. WholeRange'
  BY <1>4 DEF WholeRange
<1>6. <<start, EndBlock>> \in Ranges
  BY <1>1, FetchAssumption DEF Ranges
<1> QED BY <1>5, <1>6

\* One answer leaves the ranges, in order, as they were.
LEMMA FetchedTiles ==
  ASSUME FetchInv, Fetched
  PROVE  /\ WholeRange' /\ OnlyAnswered'
         /\ stack' \in Seq(Ranges) /\ logs' \in Seq(Ranges)
<1>1. logs \in Seq(Ranges) /\ stack \in Seq(Ranges) /\ stack # <<>>
  BY DEF FetchInv, TypeOK, Fetched
<1>2. /\ logs' \o stack' = logs \o stack
      /\ logs' \in Seq(Ranges) /\ stack' \in Seq(Ranges)
  BY <1>1, MoveHead DEF Fetched
<1>3. EndBlock' = EndBlock /\ start' = start
  BY DEF EndBlock, Fetched
<1>4. WholeRange'
  <2>1. Tiles(logs \o stack, start, EndBlock)
    BY DEF FetchInv, WholeRange, Fetched
  <2> QED BY <1>2, <1>3, <2>1 DEF WholeRange
<1>5. OnlyAnswered'
  <2>1. \A i \in 1 .. Len(logs) : logs[i] \in fits
    BY DEF FetchInv, OnlyAnswered
  <2>2. logs' = Append(logs, Head(stack)) /\ Head(stack) \in fits /\ fits' = fits
    BY DEF Fetched
  <2>3. Head(stack) \in Ranges
    BY <1>1, MoveHead
  <2>4. \A i \in 1 .. Len(logs') : logs'[i] \in fits
    BY <1>1, <2>1, <2>2, <2>3
  <2> QED BY <2>2, <2>4 DEF OnlyAnswered
<1> QED BY <1>2, <1>4, <1>5

\* A bisection puts the two halves, in order, in the place of the range.
LEMMA SplitKeepsTiles ==
  ASSUME FetchInv, NEW e, Split(e)
  PROVE  /\ WholeRange' /\ OnlyAnswered'
         /\ stack' \in Seq(Ranges) /\ logs' \in Seq(Ranges)
<1>1. logs \in Seq(Ranges) /\ stack \in Seq(Ranges) /\ stack # <<>>
  BY DEF FetchInv, TypeOK, Split, Fails
<1>2. Head(stack) \in Ranges /\ Tail(stack) \in Seq(Ranges)
  BY <1>1, MoveHead
<1>3. /\ Halves(Head(stack)) \in Seq(Ranges) /\ Len(Halves(Head(stack))) = 2
      /\ Halves(Head(stack))[1][1] = Head(stack)[1]
      /\ Halves(Head(stack))[2][2] = Head(stack)[2]
      /\ Halves(Head(stack))[2][1] = Halves(Head(stack))[1][2] + 1
      /\ Halves(Head(stack))[1][1] <= Halves(Head(stack))[1][2]
      /\ Halves(Head(stack))[2][1] <= Halves(Head(stack))[2][2]
  BY <1>2, HalvesFacts DEF Split
<1>4. /\ stack' = Halves(Head(stack)) \o Tail(stack)
      /\ logs' = logs /\ fits' = fits /\ start' = start /\ EndBlock' = EndBlock
  BY DEF Split, EndBlock
<1>5. stack' \in Seq(Ranges)
  BY <1>2, <1>3, <1>4, ConcatTwo
<1>6. WholeRange'
  <2>1. Tiles(logs \o stack, start, EndBlock)
    BY DEF FetchInv, WholeRange, Split, Fails
  <2>2. Tiles(logs \o (Halves(Head(stack)) \o Tail(stack)), start, EndBlock)
    BY <1>1, <1>3, <2>1, SplitTiles
  <2> QED BY <1>4, <2>2 DEF WholeRange
<1>7. OnlyAnswered'
  BY <1>4 DEF FetchInv, OnlyAnswered
<1> QED BY <1>1, <1>4, <1>5, <1>6, <1>7

\* Every step keeps the invariant.
LEMMA FetchInvNext == FetchInv /\ [Next]_vars => FetchInv'
<1> SUFFICES ASSUME FetchInv, [Next]_vars PROVE FetchInv'
  OBVIOUS
<1> DEFINE Shape == /\ start \in Nat \ {0}
                    /\ phase \in {"latest", "fetch", "sleep", "read"}
                    /\ stack \in Seq(Ranges) /\ logs \in Seq(Ranges)
                    /\ WholeRange /\ OnlyAnswered
                    /\ phase # "latest" => start <= LastBlock
                    /\ phase = "read" => stack = <<>>
                    /\ phase = "sleep" => logs = <<>>
<1>1. Shape
  BY DEF FetchInv, TypeOK
<1>2. <<>> \in Seq(Ranges)
  OBVIOUS
<1>3. ASSUME logs' = <<>> PROVE OnlyAnswered'
  BY <1>3 DEF OnlyAnswered
<1>4. CASE UNCHANGED vars
  <2>1. WholeRange' /\ OnlyAnswered'
    BY <1>1, <1>4 DEF vars, WholeRange, OnlyAnswered, EndBlock
  <2>2. Shape'
    BY <1>1, <1>4, <2>1 DEF vars
  <2> QED BY <2>2, CountersKept DEF FetchInv, TypeOK
<1>5. CASE BeginBatch
  <2>1. /\ stack' = <<<<start, EndBlock>>>> /\ logs' = <<>> /\ start' = start
        /\ start <= LastBlock /\ phase' = "fetch"
    BY <1>5 DEF BeginBatch
  <2>2. WholeRange' /\ stack' \in Seq(Ranges) /\ logs' \in Seq(Ranges)
    BY <1>1, <2>1, BegunTiles
  <2>3. Shape'
    BY <1>1, <1>3, <2>1, <2>2
  <2> QED BY <2>3, CountersKept DEF FetchInv, TypeOK
<1>6. CASE Idle
  <2>1. WholeRange' /\ OnlyAnswered'
    BY <1>1, <1>6 DEF Idle, WholeRange, OnlyAnswered, EndBlock
  <2>2. Shape'
    BY <1>1, <1>6, <2>1 DEF Idle
  <2> QED BY <2>2, CountersKept DEF FetchInv, TypeOK
<1>7. CASE Fetched
  <2>1. phase' = "fetch" /\ start' = start /\ start <= LastBlock
    BY <1>1, <1>7 DEF Fetched
  <2>2. Shape'
    BY <1>1, <1>7, <2>1, FetchedTiles
  <2> QED BY <2>2, CountersKept DEF FetchInv, TypeOK
<1>8. ASSUME NEW e, Split(e) PROVE FetchInv'
  <2>1. phase' = "fetch" /\ start' = start /\ start <= LastBlock
    BY <1>1, <1>8 DEF Split, Fails
  <2>2. Shape'
    BY <1>1, <1>8, <2>1, SplitKeepsTiles
  <2> QED BY <2>2, CountersKept DEF FetchInv, TypeOK
<1>9. ASSUME NEW e, Irreducible(e) \/ FetchError(e) PROVE FetchInv'
  <2>1. /\ phase' = "sleep" /\ stack' = <<>> /\ logs' = <<>> /\ start' = start
        /\ start <= LastBlock
    BY <1>1, <1>9 DEF Irreducible, FetchError, Fails, DropFetch
  <2>2. WholeRange'
    BY <2>1 DEF WholeRange
  <2>3. Shape'
    BY <1>1, <1>2, <1>3, <2>1, <2>2
  <2> QED BY <2>3, CountersKept DEF FetchInv, TypeOK
<1>10. CASE Retry
  <2>1. /\ stack' = <<<<start, EndBlock>>>> /\ logs' = <<>> /\ start' = start
        /\ start <= LastBlock /\ phase' = "fetch"
    BY <1>1, <1>10 DEF Retry
  <2>2. WholeRange' /\ stack' \in Seq(Ranges) /\ logs' \in Seq(Ranges)
    BY <1>1, <2>1, BegunTiles
  <2>3. Shape'
    BY <1>1, <1>3, <2>1, <2>2
  <2> QED BY <2>3, CountersKept DEF FetchInv, TypeOK
<1>11. CASE Return
  <2>1. /\ phase = "fetch" /\ phase' = "read" /\ stack = <<>>
        /\ UNCHANGED <<fits, start, stack, logs>>
    BY <1>11 DEF Return
  <2>2. WholeRange' /\ OnlyAnswered'
    BY <1>1, <2>1 DEF WholeRange, OnlyAnswered, EndBlock
  <2>3. Shape'
    BY <1>1, <2>1, <2>2
  <2> QED BY <2>3, CountersKept DEF FetchInv, TypeOK
<1>12. CASE NextBatch
  <2>1. /\ start' = EndBlock + 1 /\ phase' = "latest"
        /\ stack' = <<>> /\ logs' = <<>> /\ start <= LastBlock
    BY <1>1, <1>12 DEF NextBatch, DropFetch
  <2>2. start' \in Nat \ {0}
    BY <1>1, <2>1, EndBlockFacts
  <2>3. WholeRange'
    BY <2>1 DEF WholeRange
  <2>4. Shape'
    BY <1>2, <1>3, <2>1, <2>2, <2>3
  <2> QED BY <2>4, CountersKept DEF FetchInv, TypeOK
<1>13. CASE Tick
  <2>1. /\ phase' = "latest" /\ stack' = <<>> /\ logs' = <<>> /\ start' = start
    BY <1>13 DEF Tick, DropFetch
  <2>2. WholeRange'
    BY <2>1 DEF WholeRange
  <2>3. Shape'
    BY <1>1, <1>2, <1>3, <2>1, <2>2
  <2> QED BY <2>3, CountersKept DEF FetchInv, TypeOK
<1> QED BY <1>4, <1>5, <1>6, <1>7, <1>8, <1>9, <1>10, <1>11, <1>12, <1>13
        DEF Next

\* FetchInv holds in every reachable state, for every batch size, chain,
\* provider and flush_interval.
THEOREM FetchInvariant == Spec => []FetchInv
<1>1. Init => FetchInv
  BY FetchInvInit
<1>2. FetchInv /\ [Next]_vars => FetchInv'
  BY FetchInvNext
<1> QED BY <1>1, <1>2, PTL DEF Spec

\* What is fetched are ranges of blocks up to the head of the chain, whatever
\* the errors that interrupt it.
THEOREM TypesAreKept == Spec => []TypeOK
<1>1. FetchInv => TypeOK
  BY DEF FetchInv
<1> QED BY <1>1, FetchInvariant, PTL

\* split_logs_on_error reads the whole range of a batch, each block once and
\* in order, however the provider makes it bisect and wherever the tick or an
\* error interrupts it.
THEOREM WholeRangeIsRead == Spec => []WholeRange
<1>1. FetchInv => WholeRange
  BY DEF FetchInv
<1> QED BY <1>1, FetchInvariant, PTL

\* No part of a batch is returned without an answer of the provider for it:
\* an irreducible block stops the batch.
THEOREM NothingUnanswered == Spec => []OnlyAnswered
<1>1. FetchInv => OnlyAnswered
  BY DEF FetchInv
<1> QED BY <1>1, FetchInvariant, PTL

-----------------------------------------------------------------------------
(* How many pieces a batch is cut into.                                    *)

\* A tiling has at most one range for each block.
LEMMA TilesAreFew ==
  ASSUME NEW rs \in Seq(Ranges), NEW first \in Nat, NEW last \in Nat,
         Tiles(rs, first, last)
  PROVE  Len(rs) <= last - first + 1
<1>1. /\ Len(rs) \in Nat \ {0}
      /\ \A i \in 1 .. Len(rs) : rs[i][1] \in Nat /\ rs[i][2] \in Nat /\ rs[i][1] <= rs[i][2]
      /\ \A i \in 1 .. Len(rs) - 1 : rs[i + 1][1] = rs[i][2] + 1
      /\ rs[1][1] = first /\ rs[Len(rs)][2] = last
  BY EmptySeq DEF Tiles, Consecutive, Ranges
<1> DEFINE S == {n \in Nat : n + 1 <= Len(rs) => first + n <= rs[n + 1][2]}
<1>2. 0 \in S
  <2>1. 1 \in 1 .. Len(rs)
    BY <1>1
  <2>2. first <= rs[1][2]
    BY <1>1, <2>1
  <2> QED BY <2>2
<1>3. ASSUME NEW n \in Nat, n \in S PROVE n + 1 \in S
  <2> SUFFICES ASSUME (n + 1) + 1 <= Len(rs)
               PROVE  first + (n + 1) <= rs[(n + 1) + 1][2]
    OBVIOUS
  <2>1. n + 1 \in 1 .. Len(rs) - 1 /\ n + 1 \in 1 .. Len(rs) /\ (n + 1) + 1 \in 1 .. Len(rs)
    BY <1>1
  <2>2. first + n <= rs[n + 1][2]
    BY <1>1, <1>3
  <2>3. /\ rs[n + 1][2] \in Nat
        /\ rs[(n + 1) + 1][1] \in Nat /\ rs[(n + 1) + 1][2] \in Nat
        /\ rs[(n + 1) + 1][1] = rs[n + 1][2] + 1
        /\ rs[(n + 1) + 1][1] <= rs[(n + 1) + 1][2]
    BY <1>1, <2>1
  <2> QED BY <2>2, <2>3
<1> HIDE DEF S
<1>4. \A n \in Nat : n \in S
  BY <1>2, <1>3, AllNumbers
<1>5. Len(rs) - 1 \in Nat /\ (Len(rs) - 1) + 1 = Len(rs)
  BY <1>1
<1>6. first + (Len(rs) - 1) <= rs[Len(rs)][2]
  BY <1>4, <1>5 DEF S
<1> QED BY <1>1, <1>6

\* However the provider words its errors and whatever is_log_response_too_large
\* makes of them, one attempt at a batch is cut into batch_size pieces at most,
\* so that split_logs_on_error makes less than twice as many calls: each call
\* that does not end the attempt fetches a piece or makes one piece more.
THEOREM FewPieces ==
  Spec => [](phase \in {"fetch", "read"} => Len(logs) + Len(stack) <= BatchSize)
<1>1. ASSUME FetchInv, phase \in {"fetch", "read"}
      PROVE  Len(logs) + Len(stack) <= BatchSize
  <2>1. /\ logs \in Seq(Ranges) /\ stack \in Seq(Ranges)
        /\ start \in Nat /\ start <= LastBlock
        /\ Tiles(logs \o stack, start, EndBlock)
    BY <1>1 DEF FetchInv, TypeOK, WholeRange
  <2>2. /\ EndBlock \in Nat /\ EndBlock <= start + BatchSize - 1
    BY <2>1, FetchAssumption DEF EndBlock
  <2>3. logs \o stack \in Seq(Ranges) /\ Len(logs \o stack) = Len(logs) + Len(stack)
    BY <2>1, ConcatIndex
  <2>4. Len(logs \o stack) <= EndBlock - start + 1
    BY <2>1, <2>2, <2>3, TilesAreFew
  <2>5. Len(logs) \in Nat /\ Len(stack) \in Nat
    BY <2>1
  <2> QED BY <2>1, <2>2, <2>3, <2>4, <2>5, FetchAssumption
<1> QED BY <1>1, FetchInvariant, PTL

-----------------------------------------------------------------------------
(* How deep the stack gets.                                                *)

\* The ranges on the stack follow each other from first or later to last, and
\* each one is at most one block smaller than all the ranges above it together.
HalvedStack(s, first, last) ==
  /\ Consecutive(s)
  /\ \A i \in 1 .. Len(s) - 1 : s[i][2] - s[1][1] <= s[i + 1][2] - s[i + 1][1] + 1
  /\ s # <<>> => first <= s[1][1] /\ s[Len(s)][2] = last

\* What a sequence of ranges holds, and what its tail does.
LEMMA RangesAndTail ==
  ASSUME NEW s \in Seq(Ranges), s # <<>>
  PROVE  \E k \in Nat : \E t \in Seq(Ranges) :
           /\ Len(s) = 1 + k /\ Len(t) = k /\ t = Tail(s) /\ s[1] = Head(s)
           /\ \A i \in 1 .. k : t[i] = s[i + 1]
           /\ \A i \in 1 .. 1 + k : s[i][1] \in Nat /\ s[i][2] \in Nat
<1>1. Len(s) \in Nat \ {0}
  BY EmptySeq
<1>2. PICK k \in Nat : Len(s) = 1 + k
  <2>1. Len(s) - 1 \in Nat /\ Len(s) = 1 + (Len(s) - 1)
    BY <1>1
  <2> QED BY <2>1
<1>3. /\ Tail(s) \in Seq(Ranges) /\ Len(Tail(s)) = k /\ s[1] = Head(s)
      /\ \A i \in 1 .. k : Tail(s)[i] = s[i + 1]
  BY <1>2
<1>4. ASSUME NEW i \in 1 .. 1 + k PROVE s[i][1] \in Nat /\ s[i][2] \in Nat
  <2>1. s[i] \in Ranges
    BY <1>2
  <2> QED BY <2>1 DEF Ranges
<1> QED BY <1>2, <1>3, <1>4

\* HalvedStack, by index.
LEMMA HalvedByIndex ==
  ASSUME NEW s, NEW k \in Nat, Len(s) = 1 + k, s # <<>>, NEW first, NEW last
  PROVE  HalvedStack(s, first, last) <=>
           /\ \A i \in 1 .. 1 + k : s[i][1] <= s[i][2]
           /\ \A i \in 1 .. k : s[i + 1][1] = s[i][2] + 1
           /\ \A i \in 1 .. k : s[i][2] - s[1][1] <= s[i + 1][2] - s[i + 1][1] + 1
           /\ first <= s[1][1] /\ s[1 + k][2] = last
<1>1. Len(s) - 1 = k
  OBVIOUS
<1> QED BY <1>1, Zenon DEF HalvedStack, Consecutive

\* A range on its own is such a stack.
LEMMA OneOnStack ==
  ASSUME NEW a \in Nat, NEW b \in Nat, a <= b
  PROVE  HalvedStack(<<<<a, b>>>>, a, b)
  BY DEF HalvedStack, Consecutive

\* It stays one when its top is fetched.
LEMMA TailHalved ==
  ASSUME NEW s \in Seq(Ranges), s # <<>>, NEW first \in Nat, NEW last \in Nat,
         HalvedStack(s, first, last)
  PROVE  HalvedStack(Tail(s), first, last)
<1>1. PICK k \in Nat, t \in Seq(Ranges) :
        /\ Len(s) = 1 + k /\ Len(t) = k /\ t = Tail(s)
        /\ \A i \in 1 .. k : t[i] = s[i + 1]
        /\ \A i \in 1 .. 1 + k : s[i][1] \in Nat /\ s[i][2] \in Nat
  BY RangesAndTail, Zenon
<1>2. Len(t) = k /\ \A i \in 1 .. k : t[i] = s[i + 1]
  BY <1>1
<1>3. /\ \A i \in 1 .. 1 + k : s[i][1] \in Nat /\ s[i][2] \in Nat /\ s[i][1] <= s[i][2]
      /\ \A i \in 1 .. k : s[i + 1][1] = s[i][2] + 1
      /\ \A i \in 1 .. k : s[i][2] - s[1][1] <= s[i + 1][2] - s[i + 1][1] + 1
      /\ first <= s[1][1] /\ s[1 + k][2] = last
  <2>1. /\ \A i \in 1 .. 1 + k : s[i][1] <= s[i][2]
        /\ \A i \in 1 .. k : s[i + 1][1] = s[i][2] + 1
        /\ \A i \in 1 .. k : s[i][2] - s[1][1] <= s[i + 1][2] - s[i + 1][1] + 1
        /\ first <= s[1][1] /\ s[1 + k][2] = last
    <3>1. Len(s) = 1 + k
      BY <1>1
    <3> QED BY <3>1, HalvedByIndex
  <2> QED BY <1>1, <2>1, Zenon
<1>4. Consecutive(t)
  <2>1. ASSUME NEW i \in 1 .. k PROVE t[i][1] <= t[i][2]
    <3>1. i + 1 \in 1 .. 1 + k
      OBVIOUS
    <3> QED BY <1>2, <1>3, <3>1, Zenon
  <2>2. ASSUME NEW i \in 1 .. k - 1 PROVE t[i + 1][1] = t[i][2] + 1
    <3>1. i \in 1 .. k /\ i + 1 \in 1 .. k
      OBVIOUS
    <3> QED BY <1>2, <1>3, <3>1, Zenon
  <2> QED BY <1>2, <2>1, <2>2 DEF Consecutive
<1>5. ASSUME NEW i \in 1 .. k - 1
      PROVE  t[i][2] - t[1][1] <= t[i + 1][2] - t[i + 1][1] + 1
  <2>1. i \in 1 .. k /\ i + 1 \in 1 .. k /\ 1 \in 1 .. k /\ i + 1 \in 1 .. 1 + k
        /\ 2 \in 1 .. 1 + k /\ 1 \in 1 .. 1 + k /\ (i + 1) + 1 \in 1 .. 1 + k
    OBVIOUS
  <2>2. /\ s[i + 1][2] - s[1][1] <= s[(i + 1) + 1][2] - s[(i + 1) + 1][1] + 1
        /\ s[1][1] <= s[1][2] /\ s[1 + 1][1] = s[1][2] + 1
    BY <1>3, <2>1
  <2>3. t[i] = s[i + 1] /\ t[1] = s[1 + 1] /\ t[i + 1] = s[(i + 1) + 1]
    BY <1>2, <2>1
  <2>4. /\ s[1][1] \in Nat /\ s[1][2] \in Nat /\ s[i + 1][2] \in Nat
        /\ s[(i + 1) + 1][1] \in Nat /\ s[(i + 1) + 1][2] \in Nat
    BY <1>3, <2>1
  <2>5. \A a, b, c, d, e, f \in Nat :
          a <= b /\ e = b + 1 /\ c - a <= d - f + 1 => c - e <= d - f + 1
    OBVIOUS
  <2>6. s[i + 1][2] - s[1 + 1][1] <= s[(i + 1) + 1][2] - s[(i + 1) + 1][1] + 1
    <3>1. s[1 + 1][1] \in Nat
      BY <2>2, <2>4, SMTT(30)
    <3> QED BY <2>2, <2>4, <2>5, <3>1, Zenon
  <2> QED BY <2>3, <2>6, Zenon
<1>6. t # <<>> => first <= t[1][1] /\ t[k][2] = last
  <2>1. CASE k = 0
    BY <1>2, <2>1
  <2>2. CASE k # 0
    <3>1. 1 \in 1 .. k /\ k \in 1 .. k /\ 1 \in 1 .. 1 + k
      BY <2>2
    <3>2. t[1] = s[1 + 1] /\ t[k] = s[k + 1] /\ k + 1 = 1 + k
      BY <1>2, <3>1
    <3>3. /\ s[1][1] \in Nat /\ s[1][2] \in Nat /\ s[1][1] <= s[1][2]
          /\ s[1 + 1][1] = s[1][2] + 1 /\ first <= s[1][1] /\ s[1 + k][2] = last
      BY <1>3, <3>1, Zenon
    <3>4. \A a, b \in Nat : a <= b /\ first <= a => first <= b + 1
      OBVIOUS
    <3>5. first <= s[1 + 1][1]
      BY <3>3, <3>4, Zenon
    <3> QED BY <3>2, <3>3, <3>5, Zenon
  <2> QED BY <2>1, <2>2
<1>7. HalvedStack(t, first, last)
  BY <1>2, <1>4, <1>5, <1>6 DEF HalvedStack
<1> QED BY <1>1, <1>7

\* It stays one when its top is bisected: the first half is at most one block
\* larger than the second.
LEMMA SplitHalved ==
  ASSUME NEW s \in Seq(Ranges), s # <<>>, NEW first \in Nat, NEW last \in Nat,
         HalvedStack(s, first, last), Head(s)[1] < Head(s)[2]
  PROVE  HalvedStack(Halves(Head(s)) \o Tail(s), first, last)
<1>1. PICK k \in Nat, u \in Seq(Ranges) :
        /\ Len(s) = 1 + k /\ Len(u) = k /\ u = Tail(s) /\ s[1] = Head(s)
        /\ \A i \in 1 .. k : u[i] = s[i + 1]
        /\ \A i \in 1 .. 1 + k : s[i][1] \in Nat /\ s[i][2] \in Nat
  BY RangesAndTail, Zenon
<1>2. u = Tail(s) /\ Len(u) = k /\ \A i \in 1 .. k : u[i] = s[i + 1]
  BY <1>1
<1>3. PICK from \in Nat, to \in Nat : Head(s) = <<from, to>> /\ from < to /\ s[1] = Head(s)
  <2>1. s[1] = Head(s) /\ Head(s) \in Ranges
    OBVIOUS
  <2> QED BY <2>1 DEF Ranges
<1>4. PICK mid \in Nat : mid = from + (to - from) \div 2 /\ from <= mid /\ mid < to
                         /\ mid - from <= to - (mid + 1) + 1
  BY <1>3
<1>5. /\ Halves(Head(s)) = <<<<from, mid>>, <<mid + 1, to>>>>
      /\ Halves(Head(s)) \in Seq(Ranges) /\ Len(Halves(Head(s))) = 2
  <2>1. Head(s) \in Ranges
    OBVIOUS
  <2>2. Halves(Head(s)) \in Seq(Ranges) /\ Len(Halves(Head(s))) = 2
    BY <2>1, HalvesFacts
  <2>3. Halves(<<from, to>>) = <<<<from, mid>>, <<mid + 1, to>>>>
    BY <1>4 DEF Halves
  <2> QED BY <1>3, <2>2, <2>3
<1>6. PICK t \in Seq(Ranges) :
        /\ t = Halves(Head(s)) \o u /\ Len(t) = 2 + k
        /\ t[1] = <<from, mid>> /\ t[2] = <<mid + 1, to>>
        /\ \A i \in 1 .. k : t[2 + i] = u[i]
  <2>1. \E t \in Seq(Ranges) :
          /\ t = Halves(Head(s)) \o u /\ t[1] = Halves(Head(s))[1]
          /\ t[2] = Halves(Head(s))[2] /\ Len(t) = 2 + Len(u)
          /\ \A i \in 1 .. Len(u) : t[2 + i] = u[i]
    BY <1>5, ConcatTwo
  <2>2. PICK t \in Seq(Ranges) :
          /\ t = Halves(Head(s)) \o u /\ t[1] = Halves(Head(s))[1]
          /\ t[2] = Halves(Head(s))[2] /\ Len(t) = 2 + Len(u)
          /\ \A i \in 1 .. Len(u) : t[2 + i] = u[i]
    BY <2>1, Zenon
  <2>3. t[1] = <<from, mid>> /\ t[2] = <<mid + 1, to>>
    BY <1>5, <2>2
  <2> QED BY <1>2, <2>2, <2>3
<1>7. /\ \A i \in 1 .. 1 + k : s[i][1] \in Nat /\ s[i][2] \in Nat /\ s[i][1] <= s[i][2]
      /\ \A i \in 1 .. k : s[i + 1][1] = s[i][2] + 1
      /\ \A i \in 1 .. k : s[i][2] - s[1][1] <= s[i + 1][2] - s[i + 1][1] + 1
      /\ first <= s[1][1] /\ s[1 + k][2] = last
  <2>1. /\ \A i \in 1 .. 1 + k : s[i][1] <= s[i][2]
        /\ \A i \in 1 .. k : s[i + 1][1] = s[i][2] + 1
        /\ \A i \in 1 .. k : s[i][2] - s[1][1] <= s[i + 1][2] - s[i + 1][1] + 1
        /\ first <= s[1][1] /\ s[1 + k][2] = last
    <3>1. Len(s) = 1 + k
      BY <1>1
    <3> QED BY <3>1, HalvedByIndex
  <2> QED BY <1>1, <2>1, Zenon
<1>8. /\ Len(t) = 2 + k /\ t[1] = <<from, mid>> /\ t[2] = <<mid + 1, to>>
      /\ \A i \in 2 .. 1 + k : t[i + 1] = s[i]
  <2>1. ASSUME NEW i \in 2 .. 1 + k PROVE t[i + 1] = s[i]
    <3>1. PICK j \in 1 .. k : 2 + j = i + 1 /\ j + 1 = i
      <4>1. i - 1 \in 1 .. k /\ 2 + (i - 1) = i + 1 /\ (i - 1) + 1 = i
        OBVIOUS
      <4> QED BY <4>1
    <3>2. t[2 + j] = u[j] /\ u[j] = s[j + 1]
      BY <1>2, <1>6, Zenon
    <3> QED BY <3>1, <3>2, Zenon
  <2> QED BY <1>6, <2>1, Zenon
<1>9. s[1][1] = from /\ s[1][2] = to /\ t[1][1] = from /\ t[1][2] = mid
      /\ t[2][1] = mid + 1 /\ t[2][2] = to
  <2>1. s[1] = <<from, to>> /\ t[1] = <<from, mid>> /\ t[2] = <<mid + 1, to>>
    BY <1>3, <1>8, Zenon
  <2> QED BY <2>1
<1>10. ASSUME NEW i \in 1 .. 2 + k PROVE t[i][1] <= t[i][2]
  <2>1. CASE i = 1 \/ i = 2
    BY <1>4, <1>9, <2>1
  <2>2. CASE i > 2
    <3>1. i - 1 \in 2 .. 1 + k /\ (i - 1) + 1 = i /\ i - 1 \in 1 .. 1 + k
      BY <2>2
    <3>2. t[i] = s[i - 1]
      BY <1>8, <3>1
    <3> QED BY <1>7, <3>1, <3>2
  <2> QED BY <2>1, <2>2
<1>11. ASSUME NEW i \in 1 .. 1 + k
       PROVE  /\ t[i + 1][1] = t[i][2] + 1
              /\ t[i][2] - t[1][1] <= t[i + 1][2] - t[i + 1][1] + 1
  <2>1. CASE i = 1
    BY <1>4, <1>9, <2>1, SMTT(30)
  <2>2. CASE i = 2
    <3>1. 1 \in 1 .. k /\ 2 \in 2 .. 1 + k
      BY <2>2
    <3>2. t[i + 1] = s[1 + 1] /\ t[i][2] = s[1][2] /\ t[1][1] = s[1][1]
      BY <1>8, <1>9, <2>2, <3>1
    <3> QED BY <1>7, <3>1, <3>2
  <2>3. CASE i > 2
    <3>1. i - 1 \in 1 .. k /\ i - 1 \in 2 .. 1 + k /\ i \in 2 .. 1 + k /\ (i - 1) + 1 = i
      BY <2>3
    <3>2. t[i + 1] = s[i] /\ t[i] = s[i - 1] /\ t[1][1] = s[1][1]
      BY <1>8, <1>9, <3>1
    <3>3. /\ s[(i - 1) + 1][1] = s[i - 1][2] + 1
          /\ s[i - 1][2] - s[1][1] <= s[(i - 1) + 1][2] - s[(i - 1) + 1][1] + 1
      BY <1>7, <3>1
    <3> QED BY <3>1, <3>2, <3>3
  <2> QED BY <2>1, <2>2, <2>3
<1>12. t[2 + k][2] = last
  <2>1. CASE k = 0
    BY <1>7, <1>9, <2>1
  <2>2. CASE k # 0
    <3>1. 1 + k \in 2 .. 1 + k /\ (1 + k) + 1 = 2 + k
      BY <2>2
    <3> QED BY <1>7, <1>8, <3>1
  <2> QED BY <2>1, <2>2
<1>13. HalvedStack(t, first, last)
  <2>1. Len(t) = 2 + k /\ Len(t) - 1 = 1 + k /\ first <= t[1][1]
    BY <1>7, <1>8, <1>9
  <2> QED BY <1>10, <1>11, <1>12, <2>1 DEF HalvedStack, Consecutive
<1> QED BY <1>2, <1>6, <1>13

\* PowerOfTwo is what its definition says.
LEMMA PowerOfTwoFacts ==
  /\ PowerOfTwo \in [Nat -> Nat] /\ PowerOfTwo[0] = 1
  /\ \A n \in Nat : PowerOfTwo[n + 1] = 2 * PowerOfTwo[n]
<1> DEFINE Doubles(g, n) == /\ g \in [0 .. n -> Nat] /\ g[0] = 1
                            /\ \A i \in 0 .. n - 1 : g[i + 1] = 2 * g[i]
<1>1. \A n \in Nat : \E g : Doubles(g, n)
  <2> DEFINE S == {n \in Nat : \E g : Doubles(g, n)}
  <2>1. 0 \in S
    <3>1. Doubles([i \in 0 .. 0 |-> 1], 0)
      OBVIOUS
    <3> QED BY <3>1
  <2>2. ASSUME NEW n \in Nat, n \in S PROVE n + 1 \in S
    <3>1. PICK g : Doubles(g, n)
      BY <2>2
    <3> DEFINE h == [i \in 0 .. n + 1 |-> IF i = n + 1 THEN 2 * g[n] ELSE g[i]]
    <3>2. g \in [0 .. n -> Nat] /\ g[0] = 1 /\ \A i \in 0 .. n - 1 : g[i + 1] = 2 * g[i]
      BY <3>1
    <3>3. h \in [0 .. n + 1 -> Nat]
      <4>1. ASSUME NEW i \in 0 .. n + 1
            PROVE  (IF i = n + 1 THEN 2 * g[n] ELSE g[i]) \in Nat
        BY <3>2
      <4> QED BY <4>1
    <3>4. h[0] = 1
      BY <3>2
    <3>5. ASSUME NEW i \in 0 .. n PROVE h[i + 1] = 2 * h[i]
      <4>1. CASE i = n
        BY <4>1
      <4>2. CASE i # n
        <5>1. i \in 0 .. n - 1 /\ i + 1 \in 0 .. n + 1
          BY <4>2
        <5> QED BY <3>2, <5>1
      <4> QED BY <4>1, <4>2
    <3>6. Doubles(h, n + 1)
      <4> HIDE DEF h
      <4> QED BY <3>3, <3>4, <3>5
    <3>7. \E k : Doubles(k, n + 1)
      <4> HIDE DEF h, Doubles
      <4> QED BY <3>6
    <3>8. n + 1 \in Nat
      OBVIOUS
    <3> HIDE DEF h, Doubles
    <3> QED BY <3>7, <3>8
  <2> HIDE DEF S
  <2>3. \A n \in Nat : n \in S
    BY <2>1, <2>2, AllNumbers
  <2> QED BY <2>3 DEF S
<1>2. ASSUME NEW n \in Nat, NEW m \in Nat, NEW g, NEW h, Doubles(g, n), Doubles(h, m)
      PROVE  \A i \in Nat : i <= n /\ i <= m => g[i] = h[i]
  <2> DEFINE S == {i \in Nat : i <= n /\ i <= m => g[i] = h[i]}
  <2>1. 0 \in S
    BY <1>2
  <2>2. ASSUME NEW i \in Nat, i \in S PROVE i + 1 \in S
    <3>1. CASE i + 1 <= n /\ i + 1 <= m
      <4>1. i \in 0 .. n - 1 /\ i \in 0 .. m - 1
        BY <3>1
      <4>2. g[i + 1] = 2 * g[i] /\ h[i + 1] = 2 * h[i] /\ g[i] = h[i]
        BY <1>2, <2>2, <4>1
      <4> QED BY <4>2
    <3> QED BY <3>1
  <2> HIDE DEF S
  <2>3. \A i \in Nat : i \in S
    BY <2>1, <2>2, AllNumbers
  <2> QED BY <2>3 DEF S
<1> DEFINE G(n) == CHOOSE g : Doubles(g, n)
           f == [n \in Nat |-> G(n)[n]]
<1>3. \A n \in Nat : Doubles(G(n), n)
  BY <1>1
<1> HIDE DEF G
<1>4. f \in [Nat -> Nat] /\ f[0] = 1
  BY <1>3
<1>5. ASSUME NEW n \in Nat PROVE f[n + 1] = 2 * f[n]
  <2>1. f[n + 1] = G(n + 1)[n + 1] /\ f[n] = G(n)[n]
    OBVIOUS
  <2>2. n \in 0 .. (n + 1) - 1 /\ n <= n + 1 /\ n + 1 \in Nat
    OBVIOUS
  <2>3. G(n + 1)[n + 1] = 2 * G(n + 1)[n]
    BY <1>3, <2>2
  <2>4. G(n + 1)[n] = G(n)[n]
    <3> HIDE DEF Doubles
    <3> QED BY <1>2, <1>3, <2>2
  <2> QED BY <2>1, <2>3, <2>4
<1> HIDE DEF f
<1>6. f = [n \in Nat |-> IF n = 0 THEN 1 ELSE 2 * f[n - 1]]
  <2>1. ASSUME NEW n \in Nat PROVE f[n] = IF n = 0 THEN 1 ELSE 2 * f[n - 1]
    <3>1. CASE n # 0
      <4>1. n - 1 \in Nat /\ n - 1 + 1 = n
        BY <3>1
      <4> QED BY <1>5, <3>1, <4>1
    <3> QED BY <1>4, <3>1
  <2> QED BY <1>4, <2>1
<1>7. PowerOfTwo = [n \in Nat |-> IF n = 0 THEN 1 ELSE 2 * PowerOfTwo[n - 1]]
  BY <1>6, Zenon DEF PowerOfTwo
<1>8. ASSUME NEW n \in Nat PROVE PowerOfTwo[n + 1] = 2 * PowerOfTwo[n]
  <2>1. n + 1 \in Nat /\ n + 1 # 0 /\ (n + 1) - 1 = n
    OBVIOUS
  <2> QED BY <1>7, <2>1
<1>9. PowerOfTwo[0] = 1
  BY <1>7
<1>10. \A n \in Nat : PowerOfTwo[n] \in Nat
  <2> DEFINE S == {n \in Nat : PowerOfTwo[n] \in Nat}
  <2>1. 0 \in S
    BY <1>9
  <2>2. \A n \in Nat : n \in S => n + 1 \in S
    BY <1>8
  <2> HIDE DEF S
  <2>3. \A n \in Nat : n \in S
    BY <2>1, <2>2, AllNumbers
  <2> QED BY <2>3 DEF S
<1>11. PowerOfTwo \in [Nat -> Nat]
  BY <1>7, <1>10
<1> QED BY <1>8, <1>9, <1>11

\* Such a stack is logarithmic in the blocks from its top to its bottom: each
\* range below the second doubles them.
LEMMA HalvedIsSmall ==
  ASSUME NEW s \in Seq(Ranges), NEW first \in Nat, NEW last \in Nat,
         HalvedStack(s, first, last), Len(s) >= 2
  PROVE  PowerOfTwo[Len(s) - 2] <= last - first
<1>1. /\ \A i \in 1 .. Len(s) : s[i][1] \in Nat /\ s[i][2] \in Nat /\ s[i][1] <= s[i][2]
      /\ \A i \in 1 .. Len(s) - 1 : s[i + 1][1] = s[i][2] + 1
      /\ \A i \in 1 .. Len(s) - 1 : s[i][2] - s[1][1] <= s[i + 1][2] - s[i + 1][1] + 1
      /\ first <= s[1][1] /\ s[Len(s)][2] = last
      /\ Len(s) \in Nat
  BY DEF HalvedStack, Consecutive, Ranges
<1> DEFINE S == {n \in Nat : n + 2 <= Len(s) => PowerOfTwo[n] <= s[n + 2][2] - s[1][1]}
<1>2. 0 \in S
  <2>1. 1 \in 1 .. Len(s) - 1 /\ 1 \in 1 .. Len(s) /\ 1 + 1 \in 1 .. Len(s)
    BY <1>1
  <2>2. s[1 + 1][1] = s[1][2] + 1 /\ s[1 + 1][1] <= s[1 + 1][2] /\ s[1][1] <= s[1][2]
    BY <1>1, <2>1
  <2>3. 1 <= s[1 + 1][2] - s[1][1]
    BY <1>1, <2>1, <2>2
  <2> QED BY <2>3, PowerOfTwoFacts
<1>3. ASSUME NEW n \in Nat, n \in S PROVE n + 1 \in S
  <2> SUFFICES ASSUME (n + 1) + 2 <= Len(s)
               PROVE  PowerOfTwo[n + 1] <= s[(n + 1) + 2][2] - s[1][1]
    OBVIOUS
  <2> DEFINE i == n + 2
  <2>1. i \in 1 .. Len(s) - 1 /\ i \in 1 .. Len(s) /\ i + 1 \in 1 .. Len(s) /\ 1 \in 1 .. Len(s)
        /\ i + 1 = (n + 1) + 2
    BY <1>1
  <2>2. PowerOfTwo[n] <= s[i][2] - s[1][1]
    BY <1>1, <1>3
  <2>3. /\ s[i + 1][1] = s[i][2] + 1
        /\ s[i][2] - s[1][1] <= s[i + 1][2] - s[i + 1][1] + 1
    BY <1>1, <2>1
  <2>4. PowerOfTwo[n + 1] = 2 * PowerOfTwo[n] /\ PowerOfTwo[n] \in Nat
    BY PowerOfTwoFacts
  <2>5. /\ s[1][1] \in Nat /\ s[i][2] \in Nat
        /\ s[i + 1][1] \in Nat /\ s[i + 1][2] \in Nat
    BY <1>1, <2>1
  <2> HIDE DEF i
  <2>6. \A p, a, b, c, d \in Nat :
          p <= b - a /\ c = b + 1 /\ b - a <= d - c + 1 => 2 * p <= d - a
    OBVIOUS
  <2>7. 2 * PowerOfTwo[n] <= s[i + 1][2] - s[1][1]
    BY <2>2, <2>3, <2>4, <2>5, <2>6, Zenon
  <2> QED BY <2>1, <2>4, <2>7
<1> HIDE DEF S
<1>4. \A n \in Nat : n \in S
  BY <1>2, <1>3, AllNumbers
<1>5. Len(s) - 2 \in Nat /\ (Len(s) - 2) + 2 = Len(s) /\ 1 \in 1 .. Len(s)
  BY <1>1
<1>6. PowerOfTwo[Len(s) - 2] <= s[Len(s)][2] - s[1][1]
  BY <1>4, <1>5 DEF S
<1>7. PowerOfTwo[Len(s) - 2] \in Nat /\ s[1][1] \in Nat /\ s[Len(s)][2] \in Nat
  BY <1>1, <1>5, PowerOfTwoFacts
<1> QED BY <1>1, <1>6, <1>7

\* While a batch is fetched its ranges are on such a stack.
StackInv == IF phase = "fetch" THEN HalvedStack(stack, start, EndBlock)
                               ELSE stack = <<>>

\* Every step leaves the stack so.
LEMMA StackInvNext ==
  ASSUME FetchInv, StackInv, [Next]_vars
  PROVE  StackInv'
<1> USE DEF StackInv
<1>1. /\ start \in Nat /\ stack \in Seq(Ranges)
      /\ phase # "latest" => EndBlock \in Nat /\ start <= EndBlock
      /\ start' = start => EndBlock' = EndBlock
  BY EndBlockFacts DEF FetchInv, TypeOK, EndBlock
<1>2. CASE UNCHANGED vars \/ Idle
  BY <1>1, <1>2 DEF vars, Idle
<1>3. CASE BeginBatch
  <2>1. EndBlock \in Nat /\ start <= EndBlock
    BY <1>1, <1>3, EndBlockFacts DEF BeginBatch
  <2> QED BY <1>1, <1>3, <2>1, OneOnStack DEF BeginBatch
<1>4. CASE Fetched
  BY <1>1, <1>4, TailHalved DEF Fetched
<1>5. ASSUME NEW e, Split(e) PROVE StackInv'
  <2>1. /\ phase = "fetch" /\ phase' = "fetch" /\ start' = start
        /\ stack' = Halves(Head(stack)) \o Tail(stack)
        /\ stack # <<>> /\ Head(stack)[1] < Head(stack)[2]
    BY <1>5 DEF Split, Fails
  <2> QED BY <1>1, <2>1, SplitHalved
<1>6. ASSUME NEW e, Irreducible(e) \/ FetchError(e) PROVE StackInv'
  BY <1>6 DEF Irreducible, FetchError, DropFetch
<1>7. CASE Retry
  BY <1>1, <1>7, OneOnStack DEF Retry
<1>8. CASE Return
  BY <1>8 DEF Return
<1>9. CASE NextBatch \/ Tick
  BY <1>9 DEF NextBatch, Tick, DropFetch
<1> QED BY <1>2, <1>3, <1>4, <1>5, <1>6, <1>7, <1>8, <1>9 DEF Next

\* Bisection needs a stack that is logarithmic in the batch size, for every
\* chain and every provider: one more range each time the batch size doubles
\* (split_logs_on_error).
THEOREM StackStaysSmall == Spec => []StackIsSmall
<1>1. Init => StackInv
  BY DEF Init, StackInv
<1>2. FetchInv /\ StackInv /\ [Next]_vars => StackInv'
  BY StackInvNext
<1>3. FetchInv /\ StackInv => StackIsSmall
  <2> SUFFICES ASSUME FetchInv, StackInv, Len(stack) > 1
               PROVE  PowerOfTwo[Len(stack) - 2] < BatchSize
    BY DEF StackIsSmall, FetchInv, TypeOK
  <2>1. /\ phase = "fetch" /\ HalvedStack(stack, start, EndBlock)
        /\ stack \in Seq(Ranges) /\ Len(stack) \in Nat
    BY DEF StackInv, FetchInv, TypeOK
  <2>2. start \in Nat /\ EndBlock \in Nat /\ EndBlock - start < BatchSize
    BY <2>1, EndBlockFacts, FetchAssumption DEF FetchInv, TypeOK, EndBlock
  <2>3. PowerOfTwo[Len(stack) - 2] <= EndBlock - start
    BY <2>1, <2>2, HalvedIsSmall
  <2>4. Len(stack) - 2 \in Nat
    BY <2>1
  <2>5. PowerOfTwo[Len(stack) - 2] \in Nat
    BY <2>4, PowerOfTwoFacts
  <2> QED BY <2>2, <2>3, <2>5, FetchAssumption
<1> QED BY <1>1, <1>2, <1>3, FetchInvariant, PTL DEF Spec
-----------------------------------------------------------------------------
(* The calls of a batch amount to one step.                                *)

\* A tiling covers the blocks from its first to its last, and no other.
LEMMA TilesCover ==
  ASSUME NEW rs \in Seq(Ranges), NEW first \in Nat, NEW last \in Nat,
         Tiles(rs, first, last)
  PROVE  BlocksOf(rs) = first .. last
<1>1. PICK k \in Nat : Len(rs) = 1 + k
  <2>1. rs # <<>>
    BY DEF Tiles
  <2>2. Len(rs) - 1 \in Nat /\ Len(rs) = 1 + (Len(rs) - 1)
    BY <2>1, EmptySeq
  <2> QED BY <2>2
<1>2. /\ \A i \in 1 .. 1 + k : rs[i][1] \in Nat /\ rs[i][2] \in Nat
      /\ \A i \in 1 .. 1 + k : rs[i][1] <= rs[i][2]
      /\ \A i \in 1 .. k : rs[i + 1][1] = rs[i][2] + 1
      /\ rs[1][1] = first /\ rs[1 + k][2] = last
  <2>1. ASSUME NEW i \in 1 .. 1 + k PROVE rs[i][1] \in Nat /\ rs[i][2] \in Nat
    <3>1. rs[i] \in Ranges
      BY <1>1
    <3> QED BY <3>1 DEF Ranges
  <2>2. Len(rs) - 1 = k
    BY <1>1
  <2> QED BY <1>1, <2>1, <2>2, Zenon DEF Tiles, Consecutive
<1>3. \A i \in 1 .. 1 + k : first <= rs[i][1]
  <2> DEFINE S == {n \in Nat : n <= k => first <= rs[n + 1][1]}
  <2>1. 0 \in S
    BY <1>2
  <2>2. ASSUME NEW n \in Nat, n \in S PROVE n + 1 \in S
    <3> SUFFICES ASSUME n + 1 <= k PROVE first <= rs[(n + 1) + 1][1]
      OBVIOUS
    <3>1. n + 1 \in 1 .. k /\ n + 1 \in 1 .. 1 + k /\ first <= rs[n + 1][1]
      BY <2>2
    <3>2. rs[(n + 1) + 1][1] = rs[n + 1][2] + 1 /\ rs[n + 1][1] <= rs[n + 1][2]
          /\ rs[n + 1][1] \in Nat /\ rs[n + 1][2] \in Nat
      BY <1>2, <3>1
    <3> QED BY <3>1, <3>2
  <2> HIDE DEF S
  <2>3. \A n \in Nat : n \in S
    BY <2>1, <2>2, AllNumbers
  <2>4. ASSUME NEW i \in 1 .. 1 + k PROVE first <= rs[i][1]
    <3>1. i - 1 \in Nat /\ i - 1 <= k /\ (i - 1) + 1 = i
      OBVIOUS
    <3> QED BY <2>3, <3>1 DEF S
  <2> QED BY <2>4
<1>4. \A i \in 1 .. 1 + k : rs[i][2] <= last
  <2> DEFINE S == {n \in Nat : n <= k => rs[1 + k - n][2] <= last}
  <2>1. 0 \in S
    BY <1>2
  <2>2. ASSUME NEW n \in Nat, n \in S PROVE n + 1 \in S
    <3> SUFFICES ASSUME n + 1 <= k PROVE rs[1 + k - (n + 1)][2] <= last
      OBVIOUS
    <3>1. PICK i \in 1 .. k : i = 1 + k - (n + 1) /\ i + 1 = 1 + k - n
      <4>1. 1 + k - (n + 1) \in 1 .. k /\ (1 + k - (n + 1)) + 1 = 1 + k - n
        OBVIOUS
      <4> QED BY <4>1
    <3>2. rs[i + 1][2] <= last
      BY <2>2, <3>1
    <3>3. i + 1 \in 1 .. 1 + k /\ i \in 1 .. 1 + k
      OBVIOUS
    <3>4. /\ rs[i + 1][1] = rs[i][2] + 1 /\ rs[i + 1][1] <= rs[i + 1][2]
          /\ rs[i][2] \in Nat /\ rs[i + 1][1] \in Nat /\ rs[i + 1][2] \in Nat
      BY <1>2, <3>3
    <3>5. rs[i][2] <= last
      BY <3>2, <3>4, SMTT(30)
    <3> QED BY <3>1, <3>5
  <2> HIDE DEF S
  <2>3. \A n \in Nat : n \in S
    BY <2>1, <2>2, AllNumbers
  <2>4. ASSUME NEW i \in 1 .. 1 + k PROVE rs[i][2] <= last
    <3>1. 1 + k - i \in Nat /\ 1 + k - i <= k /\ 1 + k - (1 + k - i) = i
      OBVIOUS
    <3> QED BY <2>3, <3>1 DEF S
  <2> QED BY <2>4
<1>5. ASSUME NEW b \in BlocksOf(rs) PROVE b \in first .. last
  <2>1. PICK i \in 1 .. 1 + k : b \in rs[i][1] .. rs[i][2]
    BY <1>1 DEF BlocksOf
  <2> QED BY <1>2, <1>3, <1>4, <2>1
<1>6. ASSUME NEW b \in first .. last PROVE b \in BlocksOf(rs)
  <2> DEFINE T == {i \in 1 .. 1 + k : b <= rs[i][2]}
  <2>1. 1 + k \in T
    BY <1>2
  <2>2. PICK i \in T : \A j \in T : i <= j
    <3>1. T \in SUBSET Nat /\ T # {}
      BY <2>1
    <3> HIDE DEF T
    <3> QED BY <3>1, LeastElement
  <2>3. i \in 1 .. 1 + k /\ b <= rs[i][2]
    OBVIOUS
  <2>4. rs[i][1] <= b
    <3>1. CASE i = 1
      BY <1>2, <3>1
    <3>2. CASE i # 1
      <4>1. PICK j \in 1 .. k : j + 1 = i
        <5>1. i - 1 \in 1 .. k /\ (i - 1) + 1 = i
          BY <2>3, <3>2
        <5> QED BY <5>1
      <4>2. j \in 1 .. 1 + k /\ j \notin T
        BY <2>2, <4>1
      <4>3. rs[j][2] < b /\ rs[j + 1][1] = rs[j][2] + 1
        BY <1>2, <4>2, SMTT(30)
      <4>4. rs[j][2] \in Nat /\ b \in Nat
        BY <1>2, <4>2
      <4>5. rs[j + 1][1] <= b
        BY <4>3, <4>4
      <4> QED BY <4>1, <4>5
    <3> QED BY <3>1, <3>2
  <2>5. b \in rs[i][1] .. rs[i][2]
    BY <1>2, <2>3, <2>4
  <2>6. i \in 1 .. Len(rs)
    BY <1>1, <2>3
  <2> QED BY <2>5, <2>6 DEF BlocksOf
<1> QED BY <1>5, <1>6

\* A batch that is read covers all its blocks.
LEMMA BatchInHand ==
  ASSUME FetchInv, phase = "read"
  PROVE  /\ BlocksOf(logs) = start .. EndBlock
         /\ start \in Nat /\ EndBlock \in 1 .. LastBlock /\ start <= EndBlock
<1>1. /\ logs \in Seq(Ranges) /\ start \in Nat \ {0} /\ start <= LastBlock
      /\ stack = <<>> /\ Tiles(logs \o stack, start, EndBlock)
  BY DEF FetchInv, TypeOK, WholeRange
<1>2. EndBlock \in Nat /\ start <= EndBlock /\ EndBlock <= LastBlock
  BY <1>1, EndBlockFacts
<1>3. logs \o <<>> = logs
  BY <1>1, ConcatEmptySeq
<1>4. Tiles(logs, start, EndBlock)
  BY <1>1, <1>3
<1> QED BY <1>1, <1>2, <1>4, TilesCover, FetchAssumption

\* Bisections, retries, dropped reads and all, the reader goes through the
\* chain batch by batch, as BatchReads says: no batch leaves out a block of its
\* range or reaches beyond the chain, and none is passed over
\* (read_batch_with_retry, split_logs_on_error).
THEOREM BatchesAreWhole == Spec => BatchReadsSpec
<1>1. Init => Reads!Init
  BY FetchAssumption DEF Init, Reads!Init, Reads!None
<1>2. FetchInv /\ FetchInv' /\ [Next]_vars => [Reads!Next]_(Reads!rvars)
  <2> SUFFICES ASSUME FetchInv, FetchInv', [Next]_vars
               PROVE  Reads!Next \/ UNCHANGED Reads!rvars
    OBVIOUS
  <2>1. ASSUME phase # "read", phase' # "read", start' = start
        PROVE  UNCHANGED Reads!rvars
    BY <2>1 DEF Reads!rvars
  <2>2. CASE UNCHANGED vars
    BY <2>2 DEF vars, Reads!rvars, BlocksOf
  <2>3. CASE BeginBatch \/ Idle \/ Fetched \/ Retry \/ Tick
    BY <2>1, <2>3 DEF BeginBatch, Idle, Fetched, Retry, Tick
  <2>4. ASSUME NEW e, Split(e) \/ Irreducible(e) \/ FetchError(e)
        PROVE  UNCHANGED Reads!rvars
    BY <2>1, <2>4 DEF Split, Irreducible, FetchError, Fails
  <2>5. CASE Return
    <3>1. phase = "fetch" /\ phase' = "read" /\ start' = start /\ logs' = logs
      BY <2>5 DEF Return
    <3>2. EndBlock' = EndBlock
      BY <3>1 DEF EndBlock
    <3>3. /\ BlocksOf(logs') = start .. EndBlock /\ EndBlock \in 1 .. LastBlock
          /\ start <= EndBlock /\ start \in Nat
      <4>1. (FetchInv /\ phase = "read" =>
               /\ BlocksOf(logs) = start .. EndBlock
               /\ start \in Nat /\ EndBlock \in 1 .. LastBlock /\ start <= EndBlock)'
        BY BatchInHand, PTL
      <4> QED BY <3>1, <3>2, <4>1
    <3>4. Reads!Read
      BY <3>1, <3>3 DEF Reads!Read, Reads!None
    <3> QED BY <3>4 DEF Reads!Next
  <2>6. CASE NextBatch
    <3>1. phase = "read" /\ phase' = "latest" /\ start' = EndBlock + 1
      BY <2>6 DEF NextBatch
    <3>2. /\ BlocksOf(logs) = start .. EndBlock /\ EndBlock \in Nat
          /\ start <= EndBlock /\ start \in Nat
      BY <3>1, BatchInHand
    <3>3. EndBlock \in start .. EndBlock /\ \A b \in start .. EndBlock : b <= EndBlock
      BY <3>2
    <3>4. Reads!Take
      BY <3>1, <3>2, <3>3 DEF Reads!Take
    <3> QED BY <3>4 DEF Reads!Next
  <2> QED BY <2>2, <2>3, <2>4, <2>5, <2>6 DEF Next
<1> QED BY <1>1, <1>2, FetchInvariant, PTL DEF Spec, BatchReadsSpec, Reads!Spec
=============================================================================
