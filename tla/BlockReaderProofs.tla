--------------------------- MODULE BlockReaderProofs ---------------------------
(***************************************************************************)
(* What BlockReader makes of any chain, in any batches and from any        *)
(* restart.  The lemmas about InOrder and Kept say what sorting and        *)
(* selecting return; the rest follows from the events of a transaction     *)
(* being in one block, and a block in one batch.                           *)
(***************************************************************************)
EXTENDS BlockReader, FiniteSetTheorems, FunctionTheorems, TLAPS

\* before is a strict total order on the finite set S: before[e] are the
\* elements that come before e.
Orders(before, S) ==
  /\ IsFiniteSet(S)
  /\ before \in [S -> SUBSET S]
  /\ \A e \in S : e \notin before[e]
  /\ \A e, f \in S : e # f => e \in before[f] \/ f \in before[e]
  /\ \A e, f \in S : e \in before[f] => before[e] \subseteq before[f]

\* The number of elements in front of an element is its place in the order:
\* no two elements have the same, and each place is taken.
LEMMA Places ==
  ASSUME NEW S, NEW before, Orders(before, S)
  PROVE  /\ Cardinality(S) \in Nat
         /\ \A e \in S : Cardinality(before[e]) \in 0 .. Cardinality(S) - 1
         /\ \A e, f \in S : e \in before[f] => Cardinality(before[e]) < Cardinality(before[f])
         /\ \A i \in 1 .. Cardinality(S) : \E e \in S : Cardinality(before[e]) = i - 1
<1> USE DEF Orders
<1> DEFINE n == Cardinality(S)
           place == [e \in S |-> Cardinality(before[e]) + 1]
<1>1. n \in Nat /\ IsFiniteSet(S)
  BY FS_CardinalityType
<1>2. ASSUME NEW e \in S
      PROVE  IsFiniteSet(before[e]) /\ Cardinality(before[e]) \in Nat
  BY <1>1, FS_Subset, FS_CardinalityType
<1>3. ASSUME NEW e \in S PROVE Cardinality(before[e]) < n
  <2>1. before[e] \in SUBSET S /\ before[e] # S
    OBVIOUS
  <2>2. Cardinality(before[e]) <= n /\ Cardinality(before[e]) # n
    BY <1>1, <2>1, FS_Subset
  <2> QED BY <1>1, <1>2, <2>2
<1>4. ASSUME NEW e \in S, NEW f \in S, e \in before[f]
      PROVE  Cardinality(before[e]) < Cardinality(before[f])
  <2>1. before[e] \in SUBSET before[f] /\ before[e] # before[f]
    BY <1>4
  <2>2. /\ Cardinality(before[e]) <= Cardinality(before[f])
        /\ Cardinality(before[e]) # Cardinality(before[f])
    BY <1>2, <2>1, FS_Subset
  <2> QED BY <1>2, <2>2
<1>5. place \in Injection(S, 1 .. n)
  <2>1. \A e \in S : Cardinality(before[e]) + 1 \in 1 .. n
    BY <1>1, <1>2, <1>3
  <2>2. ASSUME NEW e \in S, NEW f \in S, e # f PROVE place[e] # place[f]
    BY <1>2, <1>4, <2>2
  <2> QED BY <2>1, <2>2, Fun_IsInj
<1>6. place \in Surjection(S, 1 .. n)
  <2>1. IsFiniteSet(1 .. n) /\ Cardinality(1 .. n) = n
    BY <1>1, FS_Interval
  <2> QED BY <1>5, <2>1, FS_Injection
<1>7. ASSUME NEW i \in 1 .. n PROVE \E e \in S : Cardinality(before[e]) = i - 1
  <2>1. PICK e \in S : place[e] = i
    <3> HIDE DEF place
    <3> QED BY <1>6 DEF Surjection
  <2> QED BY <1>2, <2>1
<1> QED BY <1>1, <1>2, <1>3, <1>4, <1>7

\* InOrder lists the elements of S, each once, in the order.
LEMMA InOrderLists ==
  ASSUME NEW S, NEW before, Orders(before, S)
  PROVE  /\ InOrder(before) \in Seq(S)
         /\ Len(InOrder(before)) = Cardinality(S)
         /\ Cardinality(S) \in Nat
         /\ Range(InOrder(before)) = S
         /\ \A i, j \in DOMAIN InOrder(before) :
              i < j => InOrder(before)[i] \in before[InOrder(before)[j]]
<1> DEFINE n == Cardinality(S)
           s == InOrder(before)
<1>1. DOMAIN before = S
  BY DEF Orders
<1>2. /\ n \in Nat
      /\ \A e \in S : Cardinality(before[e]) \in 0 .. n - 1
      /\ \A e, f \in S : e \in before[f] => Cardinality(before[e]) < Cardinality(before[f])
      /\ \A i \in 1 .. n : \E e \in S : Cardinality(before[e]) = i - 1
  BY Places
<1>3. /\ s = [i \in 1 .. n |-> s[i]]
      /\ \A i \in 1 .. n : s[i] \in S /\ Cardinality(before[s[i]]) = i - 1
  BY <1>1, <1>2 DEF InOrder
<1> HIDE DEF s
<1>4. s \in Seq(S) /\ Len(s) = n /\ DOMAIN s = 1 .. n
  BY <1>2, <1>3
<1>5. ASSUME NEW e \in S PROVE \E i \in 1 .. n : s[i] = e
  <2>1. Cardinality(before[e]) + 1 \in 1 .. n
    BY <1>2
  <2>2. PICK i \in 1 .. n : i - 1 = Cardinality(before[e])
    BY <1>2, <2>1
  <2>3. s[i] \in S /\ Cardinality(before[s[i]]) = Cardinality(before[e])
    BY <1>3, <2>2
  <2>4. s[i] \notin before[e] /\ e \notin before[s[i]]
    BY <1>2, <2>3
  <2> QED BY <2>3, <2>4 DEF Orders
<1>6. Range(s) = S
  BY <1>3, <1>4, <1>5 DEF Range
<1>7. ASSUME NEW i \in 1 .. n, NEW j \in 1 .. n, i < j
      PROVE  s[i] \in before[s[j]]
  <2>1. /\ s[i] \in S /\ Cardinality(before[s[i]]) = i - 1
        /\ s[j] \in S /\ Cardinality(before[s[j]]) = j - 1
    BY <1>3
  <2>2. s[j] \notin before[s[i]] /\ s[i] # s[j]
    BY <1>2, <1>7, <2>1
  <2> QED BY <2>1, <2>2 DEF Orders
<1>8. QED
  BY <1>2, <1>4, <1>6, <1>7 DEF s

\* A strict order is transitive element by element.
LEMMA TotalOrder ==
  ASSUME NEW S, IsFiniteSet(S), NEW before \in [S -> SUBSET S],
         \A e \in S : e \notin before[e],
         \A e, f \in S : e # f => e \in before[f] \/ f \in before[e],
         \A e, f, g \in S : e \in before[f] /\ f \in before[g] => e \in before[g]
  PROVE  Orders(before, S)
<1>1. ASSUME NEW f \in S, NEW g \in S, f \in before[g]
      PROVE  before[f] \subseteq before[g]
  BY <1>1
<1> QED BY <1>1 DEF Orders

\* Numbers are ordered by <.
LEMMA NumbersAreOrdered ==
  ASSUME NEW S \in SUBSET Nat, IsFiniteSet(S)
  PROVE  Orders([i \in S |-> {j \in S : j < i}], S)
<1> DEFINE before == [i \in S |-> {j \in S : j < i}]
<1> SUFFICES Orders(before, S)
  OBVIOUS
<1>1. before \in [S -> SUBSET S] /\ \A i, j \in S : i \in before[j] <=> i < j
  OBVIOUS
<1> HIDE DEF before
<1>2. \A i, j, k \in Nat : ~(i < i) /\ (i # j => i < j \/ j < i) /\ (i < j /\ j < k => i < k)
  OBVIOUS
<1>3. \A e, f, g \in S : e \in before[f] /\ f \in before[g] => e \in before[g]
  BY <1>1, <1>2
<1>4. \A e \in S : e \notin before[e]
  BY <1>1, <1>2
<1>5. \A e, f \in S : e # f => e \in before[f] \/ f \in before[e]
  BY <1>1, <1>2
<1>6. IsFiniteSet(S) /\ before \in [S -> SUBSET S]
  BY <1>1
<1> QED BY <1>3, <1>4, <1>5, <1>6, TotalOrder

\* before goes by block and then by index: the order of logs, and of messages
\* with the index of their first event.
ByPlace(before, S, block, idx) ==
  /\ IsFiniteSet(S)
  /\ block \in [S -> Nat] /\ idx \in [S -> Nat]
  /\ \A e, f \in S : block[e] = block[f] /\ idx[e] = idx[f] => e = f
  /\ before \in [S -> SUBSET S]
  /\ \A e, f \in S : e \in before[f] <=>
       block[e] < block[f] \/ (block[e] = block[f] /\ idx[e] < idx[f])

\* If no two elements have the same place, that is a total order.
LEMMA PlacesAreOrdered ==
  ASSUME NEW S, NEW before, NEW block, NEW idx, ByPlace(before, S, block, idx)
  PROVE  Orders(before, S)
<1> USE DEF ByPlace
<1>1. \A e \in S : e \notin before[e]
  OBVIOUS
<1>2. ASSUME NEW e \in S, NEW f \in S, e # f
      PROVE  e \in before[f] \/ f \in before[e]
  BY <1>2
<1>3. ASSUME NEW e \in S, NEW f \in S, NEW g \in S, e \in before[f], f \in before[g]
      PROVE  e \in before[g]
  <2>1. /\ block[e] \in Nat /\ block[f] \in Nat /\ block[g] \in Nat
        /\ idx[e] \in Nat /\ idx[f] \in Nat /\ idx[g] \in Nat
    OBVIOUS
  <2>2. /\ block[e] < block[f] \/ (block[e] = block[f] /\ idx[e] < idx[f])
        /\ block[f] < block[g] \/ (block[f] = block[g] /\ idx[f] < idx[g])
    BY <1>3, Zenon
  <2>3. block[e] < block[g] \/ (block[e] = block[g] /\ idx[e] < idx[g])
    BY <2>1, <2>2, SMT
  <2> QED BY <2>3, Zenon
<1> QED BY <1>1, <1>2, <1>3, TotalOrder

\* Kept selects: it has the elements that are in the set, in the same order.
LEMMA KeptSelects ==
  ASSUME NEW T, NEW s \in Seq(T), NEW S
  PROVE  /\ Kept(s, S) \in Seq(T)
         /\ Range(Kept(s, S)) = Range(s) \cap S
         /\ \A i, j \in DOMAIN Kept(s, S) : i < j =>
              \E k, m \in DOMAIN s : k < m /\ s[k] = Kept(s, S)[i] /\ s[m] = Kept(s, S)[j]
<1> DEFINE kept == {i \in DOMAIN s : s[i] \in S}
           before == [i \in kept |-> {j \in kept : j < i}]
           at == InOrder(before)
<1>1. Orders(before, kept)
  <2>1. kept \in SUBSET (1 .. Len(s)) /\ kept \in SUBSET Nat /\ Len(s) \in Nat
    OBVIOUS
  <2> HIDE DEF kept
  <2>2. IsFiniteSet(1 .. Len(s))
    BY <2>1, FS_Interval
  <2>3. IsFiniteSet(kept)
    BY <2>1, <2>2, FS_Subset
  <2> QED BY <2>1, <2>3, NumbersAreOrdered
<1>2. /\ at \in Seq(kept) /\ Range(at) = kept
      /\ \A i, j \in DOMAIN at : i < j => at[i] \in before[at[j]]
  <2> HIDE DEF kept, before
  <2> QED BY <1>1, InOrderLists
<1>3. Kept(s, S) = [k \in DOMAIN at |-> s[at[k]]]
  BY DEF Kept
<1> HIDE DEF at
<1>4. \A k \in DOMAIN at : at[k] \in kept
  BY <1>2
<1>5. Kept(s, S) \in Seq(T) /\ DOMAIN Kept(s, S) = DOMAIN at
  BY <1>2, <1>3, <1>4
<1>6. Range(Kept(s, S)) = Range(s) \cap S
  <2>1. ASSUME NEW e \in Range(s) \cap S PROVE \E k \in DOMAIN at : s[at[k]] = e
    <3>1. PICK i \in DOMAIN s : s[i] = e
      BY DEF Range
    <3>2. PICK k \in DOMAIN at : at[k] = i
      BY <1>2, <3>1 DEF Range
    <3> QED BY <3>1, <3>2
  <2> QED BY <1>3, <1>4, <1>5, <2>1 DEF Range
<1>7. ASSUME NEW i \in DOMAIN at, NEW j \in DOMAIN at, i < j
      PROVE  /\ at[i] \in DOMAIN s /\ at[j] \in DOMAIN s /\ at[i] < at[j]
             /\ s[at[i]] = Kept(s, S)[i] /\ s[at[j]] = Kept(s, S)[j]
  BY <1>2, <1>3, <1>4, <1>7
<1> QED BY <1>5, <1>6, <1>7

\* A sequence of SetToSeqs has every element of the set.
LEMMA AllInSomeOrder ==
  ASSUME NEW S, IsFiniteSet(S), NEW s \in SetToSeqs(S)
  PROVE  s \in Seq(S) /\ Range(s) = S
<1> DEFINE n == Cardinality(S)
<1>1. n \in Nat
  BY FS_CardinalityType
<1>2. s \in [1 .. n -> S] /\ \A i, j \in 1 .. n : i # j => s[i] # s[j]
  BY DEF SetToSeqs
<1>3. s \in Injection(1 .. n, S)
  BY <1>2, Fun_IsInj
<1>4. IsFiniteSet(1 .. n) /\ Cardinality(1 .. n) = n
  BY <1>1, FS_Interval
<1>5. s \in Surjection(1 .. n, S)
  BY <1>3, <1>4, FS_Injection
<1>6. \A e \in S : \E i \in 1 .. n : s[i] = e
  BY <1>5 DEF Surjection
<1> QED BY <1>1, <1>2, <1>6 DEF Range

-----------------------------------------------------------------------------
(* A batch.                                                                *)

\* l comes before k in the chain.
Precedes(l, k) == l.block < k.block \/ (l.block = k.block /\ l.idx < k.idx)

Between(first, last) == {l \in Publishable : first <= l.block /\ l.block <= last}

LogsInOrder(events) ==
  \A i, j \in DOMAIN events : i < j => Precedes(events[i], events[j])

\* What is assumed of the chains, of this one.
LEMMA ChainFacts ==
  ASSUME chain \in Chains
  PROVE  /\ IsFiniteSet(chain)
         /\ \A l \in chain : l.block \in Nat /\ l.block <= LastBlock /\ l.idx \in Nat
         /\ \A l, k \in chain : l.block = k.block /\ l.idx = k.idx => l = k
         /\ \A l, k \in chain : l.tx = k.tx => l.block = k.block
  BY ReaderAssumption

\* Sorting a selection of the chain puts it into the order of the chain.
LEMMA EventsSorted ==
  ASSUME chain \in Chains, NEW events \in Seq(chain)
  PROVE  /\ sort_events(events) \in Seq(chain)
         /\ Range(sort_events(events)) = Range(events)
         /\ LogsInOrder(sort_events(events))
<1> DEFINE S == Range(events)
           block == [e \in S |-> e.block]
           idx == [e \in S |-> e.idx]
           before == [b \in S |->
             {a \in S : a.block < b.block \/ (a.block = b.block /\ a.idx < b.idx)}]
<1>1. S \in SUBSET chain
  BY DEF Range
<1>2. sort_events(events) = InOrder(before)
  BY DEF sort_events
<1> HIDE DEF S
<1>3. IsFiniteSet(S)
  BY <1>1, ChainFacts, FS_Subset
<1>4. /\ block \in [S -> Nat] /\ idx \in [S -> Nat]
      /\ \A e, f \in S : block[e] = block[f] /\ idx[e] = idx[f] => e = f
  BY <1>1, ChainFacts
<1>5. /\ before \in [S -> SUBSET S]
      /\ \A e, f \in S : e \in before[f] <=>
           block[e] < block[f] \/ (block[e] = block[f] /\ idx[e] < idx[f])
      /\ \A e, f \in S : e \in before[f] => Precedes(e, f)
  BY DEF Precedes
<1> HIDE DEF block, idx, before
<1>6. Orders(before, S)
  <2>1. ByPlace(before, S, block, idx)
    BY <1>3, <1>4, <1>5 DEF ByPlace
  <2> QED BY <2>1, PlacesAreOrdered
<1>7. /\ InOrder(before) \in Seq(S) /\ Range(InOrder(before)) = S
      /\ \A i, j \in DOMAIN InOrder(before) :
           i < j => InOrder(before)[i] \in before[InOrder(before)[j]]
  BY <1>6, InOrderLists
<1>8. LogsInOrder(InOrder(before))
  BY <1>5, <1>7 DEF LogsInOrder
<1> QED BY <1>1, <1>2, <1>7, <1>8 DEF S

\* The events of a batch are those of its blocks that can be published, in the
\* order of the chain, in whatever order the provider returned the logs.
LEMMA EventsOfBatch ==
  ASSUME chain \in Chains, NEW first, NEW last, NEW logs \in SetToSeqs(Logs(first, last))
  PROVE  LET events == sort_events(to_transaction_event(parse(logs)))
         IN  /\ events \in Seq(chain)
             /\ Range(events) = Between(first, last)
             /\ LogsInOrder(events)
<1>1. Logs(first, last) \in SUBSET chain
  BY DEF Logs
<1>2. logs \in Seq(chain) /\ Range(logs) = Logs(first, last)
  <2>1. IsFiniteSet(Logs(first, last))
    BY <1>1, ChainFacts, FS_Subset
  <2>2. logs \in Seq(Logs(first, last)) /\ Range(logs) = Logs(first, last)
    BY <2>1, AllInSomeOrder
  <2> QED BY <1>1, <2>2
<1>3. /\ parse(logs) \in Seq(chain)
      /\ Range(parse(logs)) = {l \in Range(logs) : l.event \in Arms /\ l.decodes}
  BY <1>2, KeptSelects DEF parse
<1>4. /\ to_transaction_event(parse(logs)) \in Seq(chain)
      /\ Range(to_transaction_event(parse(logs))) = {l \in Range(parse(logs)) : l.placed}
  BY <1>3, KeptSelects DEF to_transaction_event
<1>5. Range(to_transaction_event(parse(logs))) = Between(first, last)
  <2>1. event_signatures = NoxEvent /\ Arms = NoxEvent
    BY DEF event_signatures, Arms, NoxEvent
  <2> QED BY <1>2, <1>3, <1>4, <2>1 DEF Between, Publishable, Logs
<1> QED BY <1>4, <1>5, EventsSorted

\* m has all events that can be published of its transaction, in log order, and
\* is placed by the first of them.
Whole(m) ==
  /\ m.events \in Seq(chain) /\ m.events # <<>>
  /\ Range(m.events) = EventsOn(m.tx)
  /\ \A i, j \in DOMAIN m.events : i < j => m.events[i].idx < m.events[j].idx
  /\ m.block_number = m.events[1].block /\ m.first_log_index = m.events[1].idx

\* A transaction is in one block, and so in one batch: its message is whole.
LEMMA MessagesAreWhole ==
  ASSUME chain \in Chains, NEW first, NEW last, NEW events \in Seq(chain),
         Range(events) = Between(first, last), LogsInOrder(events),
         NEW e \in Range(events)
  PROVE  LET m == TransactionMessage(events, e.tx) IN Whole(m) /\ m.tx = e.tx
<1> DEFINE S == {l \in Range(events) : l.tx = e.tx}
           own == Kept(events, S)
           m == TransactionMessage(events, e.tx)
<1>1. Range(events) \subseteq chain /\ Range(events) \cap S = S
  BY DEF Range
<1> HIDE DEF S
<1>2. /\ own \in Seq(chain)
      /\ Range(own) = S
      /\ \A i, j \in DOMAIN own : i < j =>
           \E k, n \in DOMAIN events : k < n /\ events[k] = own[i] /\ events[n] = own[j]
  <2>1. /\ own \in Seq(chain) /\ Range(own) = Range(events) \cap S
        /\ \A i, j \in DOMAIN own : i < j =>
             \E k, n \in DOMAIN events : k < n /\ events[k] = own[i] /\ events[n] = own[j]
    BY KeptSelects
  <2> HIDE DEF own
  <2> QED BY <1>1, <2>1, Zenon
<1> HIDE DEF own
<1>3. Range(own) = EventsOn(e.tx)
  <2>1. ASSUME NEW l \in EventsOn(e.tx) PROVE l \in Range(events)
    <3>1. l \in chain /\ e \in chain /\ l.tx = e.tx
      BY <1>1 DEF EventsOn, Publishable
    <3>2. l.block = e.block
      BY <3>1, ChainFacts
    <3> QED BY <3>2 DEF EventsOn, Between
  <2>2. \A l \in Range(events) : l \in Publishable
    BY DEF Between
  <2> QED BY <1>2, <2>1, <2>2 DEF EventsOn, S
<1>4. own # <<>>
  BY <1>2 DEF Range, S
<1>5. ASSUME NEW i \in DOMAIN own, NEW j \in DOMAIN own, i < j
      PROVE  own[i].idx < own[j].idx
  <2>1. Precedes(own[i], own[j])
    BY <1>2, <1>5 DEF LogsInOrder
  <2>2. /\ own[i] \in chain /\ own[i].tx = e.tx
        /\ own[j] \in chain /\ own[j].tx = e.tx
    BY <1>1, <1>2 DEF Range, S
  <2>3. own[i].block = own[j].block /\ own[i].block \in Nat
    BY <2>2, ChainFacts
  <2> QED BY <2>1, <2>3 DEF Precedes
<1>6. m = [tx |-> e.tx, block_number |-> own[1].block,
           first_log_index |-> own[1].idx, events |-> own]
  <2>1. Head(own) = own[1]
    BY <1>2, <1>4
  <2>2. own = EventsOf(events, e.tx)
    BY DEF EventsOf, own, S
  <2> QED BY <2>1, <2>2 DEF TransactionMessage
<1> HIDE DEF m
<1>7. Whole(m) /\ m.tx = e.tx
  BY <1>2, <1>3, <1>4, <1>5, <1>6 DEF Whole
<1> QED BY <1>7 DEF m

\* The first event of a whole message comes before the others.
LEMMA FirstEvent ==
  ASSUME chain \in Chains, NEW m, Whole(m)
  PROVE  /\ m.events[1] \in EventsOn(m.tx)
         /\ m.block_number \in Nat /\ m.first_log_index \in Nat
         /\ \A l \in EventsOn(m.tx) : /\ l \in chain /\ l.block = m.block_number
                                     /\ l.idx >= m.first_log_index
<1>1. Len(m.events) \in Nat /\ DOMAIN m.events = 1 .. Len(m.events) /\ 1 \in DOMAIN m.events
  BY DEF Whole
<1>2. m.events[1] \in EventsOn(m.tx)
  BY <1>1 DEF Whole, Range
<1>3. ASSUME NEW l \in EventsOn(m.tx)
      PROVE  /\ l \in chain /\ l.block = m.events[1].block
             /\ l.idx >= m.events[1].idx /\ l.block \in Nat /\ l.idx \in Nat
  <2>1. PICK i \in DOMAIN m.events : m.events[i] = l
    BY DEF Whole, Range
  <2>2. l \in chain /\ m.events[1] \in chain /\ l.tx = m.events[1].tx
    BY <1>2 DEF EventsOn, Publishable
  <2>3. l.block = m.events[1].block /\ l.block \in Nat /\ l.idx \in Nat
    BY <2>2, ChainFacts
  <2>4. CASE i = 1
    BY <2>1, <2>2, <2>3, <2>4
  <2>5. CASE i # 1
    <3>1. 1 < i
      BY <1>1, <2>5
    <3>2. m.events[1].idx < l.idx
      BY <1>1, <2>1, <3>1 DEF Whole
    <3>3. m.events[1].idx \in Nat
      BY <2>2, ChainFacts
    <3> QED BY <2>2, <2>3, <3>2, <3>3
  <2> QED BY <2>4, <2>5
<1> QED BY <1>2, <1>3 DEF Whole

\* One message comes before another.
MessagePrecedes(a, b) ==
  \/ a.block_number < b.block_number
  \/ a.block_number = b.block_number /\ a.first_log_index < b.first_log_index

\* The messages of a batch are whole, one for each transaction, and in the
\* order of their first events, in whatever order the hash map had them.
LEMMA MessagesOfBatch ==
  ASSUME chain \in Chains, NEW first, NEW last, NEW events \in Seq(chain),
         Range(events) = Between(first, last), LogsInOrder(events),
         NEW hashed \in SetToSeqs(Messages(events))
  PROVE  /\ Range(sort_messages(hashed)) = Messages(events)
         /\ \A i, j \in DOMAIN sort_messages(hashed) : i < j =>
              MessagePrecedes(sort_messages(hashed)[i], sort_messages(hashed)[j])
<1> DEFINE S == Messages(events)
           E == Range(events)
           message == [e \in E |-> TransactionMessage(events, e.tx)]
           block == [m \in S |-> m.block_number]
           idx == [m \in S |-> m.first_log_index]
           before == [b \in S |->
             {a \in S : \/ a.block_number < b.block_number
                        \/ /\ a.block_number = b.block_number
                           /\ a.first_log_index < b.first_log_index}]
<1>1. \A e \in E : /\ TransactionMessage(events, e.tx) \in S
                   /\ Whole(TransactionMessage(events, e.tx))
                   /\ TransactionMessage(events, e.tx).tx = e.tx
  BY MessagesAreWhole DEF Messages
<1>2. \A m \in S : \E e \in E : m = TransactionMessage(events, e.tx)
  BY DEF Messages
<1>3. E \in SUBSET chain
  BY DEF Range
<1> HIDE DEF E, S
<1>4. IsFiniteSet(S)
  <2>1. message \in Surjection(E, S)
    BY <1>1, <1>2 DEF Surjection
  <2>2. IsFiniteSet(E)
    BY <1>3, ChainFacts, FS_Subset
  <2> HIDE DEF message
  <2> QED BY <2>1, <2>2, FS_Surjection
<1>5. Range(hashed) = S
  BY <1>4, AllInSomeOrder DEF S
<1>6. sort_messages(hashed) = InOrder(before)
  BY <1>5 DEF sort_messages
<1>7. \A m \in S : Whole(m) /\ m.block_number \in Nat /\ m.first_log_index \in Nat
  BY <1>1, <1>2, FirstEvent
<1>8. ASSUME NEW m \in S, NEW n \in S, m.block_number = n.block_number,
             m.first_log_index = n.first_log_index
      PROVE  m = n
  <2>1. PICK e \in E, f \in E : /\ m = TransactionMessage(events, e.tx)
                                /\ n = TransactionMessage(events, f.tx)
    BY <1>2
  <2>2. m.tx = e.tx /\ n.tx = f.tx
    BY <1>1, <2>1
  <2>3. /\ m.events[1] \in chain /\ m.events[1].tx = m.tx
        /\ n.events[1] \in chain /\ n.events[1].tx = n.tx
    BY <1>7, FirstEvent DEF EventsOn, Publishable
  <2>4. m.events[1] = n.events[1]
    BY <1>7, <1>8, <2>3, ChainFacts DEF Whole
  <2> QED BY <2>1, <2>2, <2>3, <2>4
<1>9. ByPlace(before, S, block, idx)
  BY <1>4, <1>7, <1>8 DEF ByPlace
<1>10. \A m, n \in S : m \in before[n] => MessagePrecedes(m, n)
  BY DEF MessagePrecedes
<1> HIDE DEF before, block, idx
<1>11. /\ InOrder(before) \in Seq(S) /\ Range(InOrder(before)) = S
       /\ \A i, j \in DOMAIN InOrder(before) :
            i < j => InOrder(before)[i] \in before[InOrder(before)[j]]
  BY <1>9, PlacesAreOrdered, InOrderLists
<1>12. \A i, j \in DOMAIN InOrder(before) :
         i < j => MessagePrecedes(InOrder(before)[i], InOrder(before)[j])
  BY <1>10, <1>11
<1> QED BY <1>6, <1>11, <1>12 DEF S

-----------------------------------------------------------------------------
(* The theorems.                                                           *)

\* The inductive invariant: the next batch begins at most one block behind what
\* was read, so that no block is passed.
ReadInv ==
  /\ chain \in Chains
  /\ next \in Nat \ {0} /\ read \in Nat /\ next <= read + 1
  /\ StoredWhole /\ BatchOrdered /\ NothingMissed

\* A batch takes up the blocks from next on, publishes the messages of their
\* transactions, all whole, in order, and no others.
LEMMA ReadResult ==
  ASSUME ReadInv, NEW latest \in 1 .. LastBlock, read_batch(latest)
  PROVE  \E last \in Nat :
           /\ next <= last /\ next' = last + 1
           /\ read' = IF last > read THEN last ELSE read
           /\ \A m \in Range(batch') :
                Whole(m) /\ \E e \in Between(next, last) : m.tx = e.tx
           /\ \A e \in Between(next, last) : \E m \in Range(batch') : m.tx = e.tx
           /\ \A i, j \in DOMAIN batch' : i < j => MessagePrecedes(batch'[i], batch'[j])
<1> DEFINE last == end_block(next, latest)
<1>1. last \in Nat /\ next <= last /\ next' = last + 1
      /\ read' = IF last > read THEN last ELSE read
  BY ReaderAssumption DEF ReadInv, read_batch, end_block
<1>2. PICK logs \in SetToSeqs(Logs(next, last)) :
        \E hashed \in SetToSeqs(Messages(sort_events(to_transaction_event(parse(logs))))) :
          batch' = sort_messages(hashed)
  BY DEF read_batch
<1> HIDE DEF last
<1> DEFINE events == sort_events(to_transaction_event(parse(logs)))
<1>3. /\ events \in Seq(chain) /\ Range(events) = Between(next, last)
      /\ LogsInOrder(events)
  BY <1>2, EventsOfBatch DEF ReadInv
<1>4. PICK hashed \in SetToSeqs(Messages(events)) : batch' = sort_messages(hashed)
  BY <1>2
<1> HIDE DEF events
<1>5. /\ Range(batch') = Messages(events)
      /\ \A i, j \in DOMAIN batch' : i < j => MessagePrecedes(batch'[i], batch'[j])
  BY <1>3, <1>4, MessagesOfBatch DEF ReadInv
<1>6. \A e \in Between(next, last) : /\ Whole(TransactionMessage(events, e.tx))
                                    /\ TransactionMessage(events, e.tx).tx = e.tx
                                    /\ TransactionMessage(events, e.tx) \in Messages(events)
  BY <1>3, MessagesAreWhole DEF ReadInv, Messages
<1>7. \A m \in Messages(events) : \E e \in Between(next, last) :
        m = TransactionMessage(events, e.tx)
  BY <1>3 DEF Messages
<1> QED BY <1>1, <1>5, <1>6, <1>7

\* The stream keeps whole messages, and gets one for each transaction read.
LEMMA ReadKeeps ==
  ASSUME ReadInv, NEW latest \in 1 .. LastBlock, read_batch(latest)
  PROVE  ReadInv'
<1>1. PICK last \in Nat :
        /\ next <= last /\ next' = last + 1
        /\ read' = IF last > read THEN last ELSE read
        /\ \A m \in Range(batch') :
             Whole(m) /\ \E e \in Between(next, last) : m.tx = e.tx
        /\ \A e \in Between(next, last) : \E m \in Range(batch') : m.tx = e.tx
        /\ \A i, j \in DOMAIN batch' : i < j => MessagePrecedes(batch'[i], batch'[j])
  BY ReadResult
<1>2. /\ chain' = chain
      /\ DOMAIN stored' = DOMAIN stored \union {m.tx : m \in Range(batch')}
      /\ \A tx \in DOMAIN stored : stored'[tx] = stored[tx]
      /\ \A tx \in DOMAIN stored' \ DOMAIN stored :
           stored'[tx] = CHOOSE m \in Range(batch') : m.tx = tx
  BY DEF read_batch
<1>3. /\ Publishable' = Publishable
      /\ \A tx : EventsOn(tx)' = EventsOn(tx)
  BY <1>2 DEF Publishable, EventsOn
<1>4. \A tx \in DOMAIN stored' \ DOMAIN stored :
        stored'[tx] \in Range(batch') /\ stored'[tx].tx = tx
  BY <1>2
<1>5. StoredWhole'
  <2> SUFFICES ASSUME NEW tx \in DOMAIN stored'
               PROVE  /\ Range(stored'[tx].events) = EventsOn(tx)
                      /\ \A i, j \in DOMAIN stored'[tx].events :
                           i < j => stored'[tx].events[i].idx < stored'[tx].events[j].idx
    BY <1>3 DEF StoredWhole
  <2>1. CASE tx \in DOMAIN stored
    BY <1>2, <2>1 DEF ReadInv, StoredWhole
  <2>2. CASE tx \notin DOMAIN stored
    <3>1. Whole(stored'[tx]) /\ stored'[tx].tx = tx
      BY <1>1, <1>4, <2>2
    <3> QED BY <3>1 DEF Whole
  <2> QED BY <2>1, <2>2
<1>6. BatchOrdered'
  <2> SUFFICES ASSUME NEW i \in DOMAIN batch', NEW j \in DOMAIN batch', i < j,
                      NEW e \in EventsOn(batch'[i].tx),
                      \A f \in EventsOn(batch'[i].tx) : e.idx <= f.idx,
                      NEW f \in EventsOn(batch'[j].tx)
               PROVE  e.block < f.block \/ (e.block = f.block /\ e.idx < f.idx)
    BY <1>3 DEF BatchOrdered
  <2> DEFINE a == batch'[i]
             b == batch'[j]
  <2>1. Whole(a) /\ Whole(b) /\ MessagePrecedes(a, b)
    BY <1>1 DEF Range
  <2> HIDE DEF a, b
  <2>2. /\ e.block = a.block_number /\ f.block = b.block_number
        /\ e \in chain /\ f \in chain /\ f.idx >= b.first_log_index
        /\ a.events[1] \in EventsOn(a.tx)
        /\ a.block_number \in Nat /\ a.first_log_index \in Nat
        /\ b.block_number \in Nat /\ b.first_log_index \in Nat
    BY <2>1, FirstEvent DEF ReadInv, a, b
  <2>3. e.idx <= a.first_log_index
    BY <2>1, <2>2 DEF Whole, a
  <2>4. e.idx \in Nat /\ f.idx \in Nat
    BY <2>2, ChainFacts DEF ReadInv
  <2> QED BY <2>1, <2>2, <2>3, <2>4 DEF MessagePrecedes
<1>7. NothingMissed'
  <2> SUFFICES ASSUME NEW l \in Publishable, l.block <= read'
               PROVE  l.tx \in DOMAIN stored'
    BY <1>3, <1>5 DEF NothingMissed, StoredWhole, EventsOn
  <2>1. l.block \in Nat
    BY ChainFacts DEF ReadInv, Publishable
  <2>2. CASE l.block <= read
    BY <1>2, <2>2 DEF ReadInv, NothingMissed
  <2>3. CASE ~(l.block <= read)
    <3>1. next <= l.block /\ l.block <= last
      BY <1>1, <2>1, <2>3 DEF ReadInv
    <3>2. l \in Between(next, last)
      BY <3>1 DEF Between
    <3> QED BY <1>1, <1>2, <3>2
  <2> QED BY <2>2, <2>3
<1>8. next' \in Nat \ {0} /\ read' \in Nat /\ next' <= read' + 1
  BY <1>1 DEF ReadInv
<1> QED BY <1>2, <1>5, <1>6, <1>7, <1>8 DEF ReadInv

\* A restart changes nothing but where the next batch begins.
LEMMA RestartKeeps ==
  ASSUME ReadInv, Restart
  PROVE  ReadInv'
<1>1. next' \in Nat \ {0} /\ next' <= next
  BY DEF ReadInv, Restart
<1>2. UNCHANGED <<chain, read, batch, stored>>
  BY DEF Restart
<1>3. StoredWhole' /\ BatchOrdered' /\ NothingMissed'
  BY <1>2 DEF ReadInv, StoredWhole, BatchOrdered, NothingMissed, Publishable, EventsOn
<1> QED BY <1>1, <1>2, <1>3 DEF ReadInv

\* The inductive invariant of the reader (chain/reader.rs, chain/parser.rs).
THEOREM ReaderInvariant == Spec => []ReadInv
<1>1. Init => ReadInv
  <2> SUFFICES ASSUME Init PROVE ReadInv
    OBVIOUS
  <2>1. chain \in Chains /\ next = 1 /\ read = 0 /\ batch = <<>> /\ stored = <<>>
    BY DEF Init
  <2>2. StoredWhole /\ BatchOrdered
    BY <2>1 DEF StoredWhole, BatchOrdered
  <2>3. NothingMissed
    BY <2>1, ReaderAssumption DEF NothingMissed, Publishable
  <2> QED BY <2>1, <2>2, <2>3 DEF ReadInv
<1>2. ReadInv /\ [Next]_vars => ReadInv'
  <2> SUFFICES ASSUME ReadInv, [Next]_vars PROVE ReadInv'
    OBVIOUS
  <2>1. CASE UNCHANGED vars
    BY <2>1 DEF vars, ReadInv, StoredWhole, BatchOrdered, NothingMissed, Publishable,
       EventsOn
  <2> QED BY <2>1, ReadKeeps, RestartKeeps DEF Next
<1> QED BY <1>1, <1>2, PTL DEF Spec

\* The message the stream keeps of a transaction has all its events, once and in
\* log order, whatever order provider and hash map chose (read_batch,
\* group_by_transaction), whichever batch and restart it was first read in.
THEOREM MessagesAreComplete == Spec => []StoredWhole
<1>1. ReadInv => StoredWhole
  BY DEF ReadInv
<1> QED BY <1>1, ReaderInvariant, PTL

\* A batch is published in the order of the chain (group_by_transaction).
THEOREM BatchesAreOrdered == Spec => []BatchOrdered
<1>1. ReadInv => BatchOrdered
  BY DEF ReadInv
<1> QED BY <1>1, ReaderInvariant, PTL

\* Every event of NoxEvent, of every block that was read, is on the stream.
THEOREM NoEventIsMissed == Spec => []NothingMissed
<1>1. ReadInv => NothingMissed
  BY DEF ReadInv
<1> QED BY <1>1, ReaderInvariant, PTL
=============================================================================
