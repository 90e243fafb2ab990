---------------------------- MODULE TracingProofs -----------------------------
(***************************************************************************)
(* Proofs about Tracing and the functions of Lists, Otlp, Queries and      *)
(* Access, for every configuration, trace, page and number of requests.    *)
(***************************************************************************)
EXTENDS Tracing, FiniteSetTheorems, SequenceTheorems, TLAPS

-----------------------------------------------------------------------------
(* Lists and the order of their items.                                      *)

(* B orders S, least first.                                                 *)
Orders(B, S) ==
    /\ \A i \in S : <<i, i>> \in B
    /\ \A i, j \in S : <<i, j>> \in B \/ <<j, i>> \in B
    /\ \A i, j \in S : <<i, j>> \in B /\ <<j, i>> \in B => i = j
    /\ \A i, j, k \in S : <<i, j>> \in B /\ <<j, k>> \in B => <<i, k>> \in B

UpTo(S, B, j) == {i \in S : <<i, j>> \in B}
Rank(S, B) == [j \in S |-> Cardinality(UpTo(S, B, j))]

(* Who counts those up to himself gets a place of his own, in the order of  *)
(* B, and every place is taken.                                             *)
LEMMA RankIsPlace ==
    ASSUME NEW S, IsFiniteSet(S), NEW B, Orders(B, S)
    PROVE  /\ Rank(S, B) \in [S -> 1 .. Cardinality(S)]
           /\ \A i, j \in S : <<i, j>> \in B <=> Rank(S, B)[i] <= Rank(S, B)[j]
           /\ \A n \in 1 .. Cardinality(S) : \E j \in S : Rank(S, B)[j] = n
<1>1. ASSUME NEW j \in S
      PROVE  /\ IsFiniteSet(UpTo(S, B, j)) /\ j \in UpTo(S, B, j)
             /\ Cardinality(UpTo(S, B, j)) \in 1 .. Cardinality(S)
  <2>1. UpTo(S, B, j) \in SUBSET S /\ j \in UpTo(S, B, j)
    BY DEF UpTo, Orders
  <2>2. IsFiniteSet(UpTo(S, B, j)) /\ Cardinality(UpTo(S, B, j)) <= Cardinality(S)
    BY <2>1, FS_Subset
  <2>3. Cardinality(UpTo(S, B, j)) \in Nat /\ Cardinality(S) \in Nat
    BY <2>2, FS_CardinalityType
  <2>4. Cardinality(UpTo(S, B, j)) # 0
    BY <2>1, <2>2, FS_EmptySet
  <2> QED
    BY <2>1, <2>2, <2>3, <2>4
<1>2. Rank(S, B) \in [S -> 1 .. Cardinality(S)]
  BY <1>1 DEF Rank
<1>3. ASSUME NEW i \in S, NEW j \in S, <<i, j>> \in B PROVE Rank(S, B)[i] <= Rank(S, B)[j]
  <2>1. UpTo(S, B, i) \in SUBSET UpTo(S, B, j)
    BY <1>3 DEF UpTo, Orders
  <2> QED
    BY <1>1, <2>1, FS_Subset DEF Rank
<1>4. ASSUME NEW i \in S, NEW j \in S, <<i, j>> \notin B PROVE Rank(S, B)[j] < Rank(S, B)[i]
  <2>1. UpTo(S, B, j) \in SUBSET UpTo(S, B, i) /\ i \notin UpTo(S, B, j)
    BY <1>4 DEF UpTo, Orders
  <2>2. UpTo(S, B, j) # UpTo(S, B, i)
    BY <1>1, <2>1
  <2>3. /\ Cardinality(UpTo(S, B, j)) <= Cardinality(UpTo(S, B, i))
        /\ Cardinality(UpTo(S, B, j)) # Cardinality(UpTo(S, B, i))
    BY <1>1, <2>1, <2>2, FS_Subset
  <2>4. Cardinality(UpTo(S, B, j)) \in Nat /\ Cardinality(UpTo(S, B, i)) \in Nat
    BY <1>1
  <2> QED
    BY <2>3, <2>4 DEF Rank
<1>5. \A i, j \in S : <<i, j>> \in B <=> Rank(S, B)[i] <= Rank(S, B)[j]
  <2>1. ASSUME NEW i \in S, NEW j \in S
        PROVE  <<i, j>> \in B <=> Rank(S, B)[i] <= Rank(S, B)[j]
    <3>1. PICK r \in Int, q \in Int : r = Rank(S, B)[i] /\ q = Rank(S, B)[j]
      BY <1>2
    <3>2. CASE <<i, j>> \in B
      BY <1>3, <3>2
    <3>3. CASE <<i, j>> \notin B
      <4>1. q < r
        BY <1>4, <3>1, <3>3
      <4> QED
        BY <3>1, <3>3, <4>1
    <3> QED
      BY <3>2, <3>3
  <2> QED
    BY <2>1
<1>6. Rank(S, B) \in Injection(S, 1 .. Cardinality(S))
  <2>1. ASSUME NEW i \in S, NEW j \in S, Rank(S, B)[i] = Rank(S, B)[j] PROVE i = j
    <3>1. Rank(S, B)[i] \in Int
      BY <1>2
    <3>2. <<i, j>> \in B /\ <<j, i>> \in B
      BY <1>5, <2>1, <3>1
    <3> QED
      BY <3>2 DEF Orders
  <2> QED
    BY <1>2, <2>1 DEF Injection, IsInjective
<1>7. Rank(S, B) \in Surjection(S, 1 .. Cardinality(S))
  <2>1. Cardinality(S) \in Nat
    BY FS_CardinalityType
  <2>2. IsFiniteSet(1 .. Cardinality(S)) /\ Cardinality(1 .. Cardinality(S)) = Cardinality(S)
    BY <2>1, FS_Interval
  <2> QED
    BY <1>6, <2>2, FS_Injection
<1> QED
  BY <1>2, <1>5, <1>7 DEF Surjection

(* In an arrangement every item stands at its place.                        *)
LEMMA ArrangedItems ==
    ASSUME NEW T, NEW items \in Seq(T), NEW S \in SUBSET DOMAIN items, IsFiniteSet(S),
           NEW place \in [S -> 1 .. Cardinality(S)],
           \A i, j \in S : place[i] = place[j] => i = j,
           \A n \in 1 .. Cardinality(S) : \E j \in S : place[j] = n
    PROVE  /\ Arranged(items, S, place) \in Seq(T)
           /\ Len(Arranged(items, S, place)) = Cardinality(S)
           /\ \A j \in S : Arranged(items, S, place)[place[j]] = items[j]
<1>1. Cardinality(S) \in Nat
  BY FS_CardinalityType
<1>2. ASSUME NEW n \in 1 .. Cardinality(S)
      PROVE  (CHOOSE j \in S : place[j] = n) \in S /\ place[CHOOSE j \in S : place[j] = n] = n
  OBVIOUS
<1>3. \A n \in 1 .. Cardinality(S) : items[CHOOSE j \in S : place[j] = n] \in T
  BY <1>2, ElementOfSeq
<1>4. /\ Arranged(items, S, place) \in Seq(T)
      /\ Len(Arranged(items, S, place)) = Cardinality(S)
  BY <1>1, <1>3 DEF Arranged
<1>5. ASSUME NEW j \in S PROVE Arranged(items, S, place)[place[j]] = items[j]
  <2>1. place[j] \in 1 .. Cardinality(S)
    OBVIOUS
  <2>2. (CHOOSE i \in S : place[i] = place[j]) = j
    BY <1>2, <2>1
  <2> QED
    BY <2>1, <2>2 DEF Arranged
<1> QED
  BY <1>4, <1>5

(* place tells where the items at S went, which keep their order.           *)
ThosePlaced(items, S, place) ==
    /\ place \in [S -> DOMAIN Those(items, S)]
    /\ \A i \in S : Those(items, S)[place[i]] = items[i]
    /\ \A i, j \in S : i <= j <=> place[i] <= place[j]
    /\ \A n \in DOMAIN Those(items, S) : \E i \in S : place[i] = n

(* Those is a list of the items at S, and they keep their order.            *)
LEMMA ThoseItems ==
    ASSUME NEW T, NEW items \in Seq(T), NEW S \in SUBSET DOMAIN items
    PROVE  /\ IsFiniteSet(S)
           /\ Those(items, S) \in Seq(T)
           /\ \E place : ThosePlaced(items, S, place)
<1> DEFINE B == {p \in S \X S : p[1] <= p[2]}
           place == [j \in S |-> Cardinality({i \in S : i <= j})]
<1>1. S \subseteq 1 .. Len(items) /\ Len(items) \in Nat
  BY LenProperties
<1>2. IsFiniteSet(S)
  BY <1>1, FS_Interval, FS_Subset
<1>3. \A i, j \in S : <<i, j>> \in B <=> i <= j
  OBVIOUS
<1> HIDE DEF B
<1>4. Orders(B, S)
  BY <1>1, <1>3 DEF Orders
<1>5. place = Rank(S, B)
  <2>1. ASSUME NEW j \in S PROVE UpTo(S, B, j) = {i \in S : i <= j}
    BY <1>3 DEF UpTo
  <2> QED
    BY <2>1 DEF Rank
<1>6. Those(items, S) = Arranged(items, S, place)
  BY DEF Those
<1> HIDE DEF place
<1>7. /\ place \in [S -> 1 .. Cardinality(S)]
      /\ \A i, j \in S : i <= j <=> place[i] <= place[j]
      /\ \A n \in 1 .. Cardinality(S) : \E j \in S : place[j] = n
  <2>1. /\ place \in [S -> 1 .. Cardinality(S)]
        /\ \A i, j \in S : <<i, j>> \in B <=> place[i] <= place[j]
        /\ \A n \in 1 .. Cardinality(S) : \E j \in S : place[j] = n
    BY <1>2, <1>4, <1>5, RankIsPlace
  <2> QED
    BY <1>3, <2>1, Zenon
<1>8. \A i, j \in S : place[i] = place[j] => i = j
  <2>1. ASSUME NEW i \in S, NEW j \in S, place[i] = place[j] PROVE i = j
    <3>1. place[i] \in Int /\ i \in Int /\ j \in Int
      BY <1>1, <1>7
    <3>2. i <= j /\ j <= i
      BY <1>7, <2>1, <3>1
    <3> QED
      BY <3>1, <3>2
  <2> QED
    BY <2>1
<1>9. /\ Those(items, S) \in Seq(T)
      /\ Len(Those(items, S)) = Cardinality(S)
      /\ \A j \in S : Those(items, S)[place[j]] = items[j]
  BY <1>2, <1>6, <1>7, <1>8, ArrangedItems
<1>10. DOMAIN Those(items, S) = 1 .. Cardinality(S)
  BY <1>9, LenProperties
<1> QED
  BY <1>2, <1>7, <1>9, <1>10 DEF ThosePlaced

(* j does not start before i, and does not stand before it if they start    *)
(* together.                                                                *)
NotLater(items, i, j) ==
    \/ items[i].started < items[j].started
    \/ items[i].started = items[j].started /\ i <= j

(* place tells where the items went, who are in the order of their starts.  *)
SortPlaced(items, place) ==
    /\ place \in [DOMAIN items -> DOMAIN SortedByStart(items)]
    /\ \A i \in DOMAIN items : SortedByStart(items)[place[i]] = items[i]
    /\ \A i, j \in DOMAIN items : NotLater(items, i, j) <=> place[i] <= place[j]
    /\ \A n \in DOMAIN SortedByStart(items) : \E i \in DOMAIN items : place[i] = n

(* Sorting moves every item to its place by start, and loses none.          *)
LEMMA SortedItems ==
    ASSUME NEW T, NEW items \in Seq(T), \A item \in T : item.started \in Int
    PROVE  /\ SortedByStart(items) \in Seq(T)
           /\ \E place : SortPlaced(items, place)
<1> DEFINE S == DOMAIN items
           B == {p \in S \X S : NotLater(items, p[1], p[2])}
           place == [j \in S |-> Cardinality({i \in S : NotLater(items, i, j)})]
<1>1. S = 1 .. Len(items) /\ Len(items) \in Nat
  BY LenProperties
<1>2. IsFiniteSet(S)
  BY <1>1, FS_Interval
<1>3. \A i, j \in S : <<i, j>> \in B <=> NotLater(items, i, j)
  OBVIOUS
<1>a. \A i \in S : items[i].started \in Int
  BY <1>1, ElementOfSeq
<1>6. SortedByStart(items) = Arranged(items, S, place)
  BY DEF SortedByStart, NotLater
<1> HIDE DEF B, S
<1>4. Orders(B, S)
  <2>1. \A i \in S : i \in Int /\ items[i].started \in Int
    BY <1>1, <1>a
  <2>2. \A i \in S : NotLater(items, i, i)
    BY <2>1 DEF NotLater
  <2>3. \A i, j \in S : NotLater(items, i, j) \/ NotLater(items, j, i)
    BY <2>1 DEF NotLater
  <2>4. \A i, j \in S : NotLater(items, i, j) /\ NotLater(items, j, i) => i = j
    BY <2>1 DEF NotLater
  <2>5. \A i, j, k \in S : NotLater(items, i, j) /\ NotLater(items, j, k) => NotLater(items, i, k)
    BY <2>1 DEF NotLater
  <2> QED
    BY <1>3, <2>2, <2>3, <2>4, <2>5, Zenon DEF Orders
<1>5. place = Rank(S, B)
  <2>1. ASSUME NEW j \in S PROVE UpTo(S, B, j) = {i \in S : NotLater(items, i, j)}
    BY <1>3 DEF UpTo
  <2> QED
    BY <2>1 DEF Rank
<1> HIDE DEF place
<1>7. /\ place \in [S -> 1 .. Cardinality(S)]
      /\ \A i, j \in S : NotLater(items, i, j) <=> place[i] <= place[j]
      /\ \A n \in 1 .. Cardinality(S) : \E j \in S : place[j] = n
  <2>1. /\ place \in [S -> 1 .. Cardinality(S)]
        /\ \A i, j \in S : <<i, j>> \in B <=> place[i] <= place[j]
        /\ \A n \in 1 .. Cardinality(S) : \E j \in S : place[j] = n
    BY <1>2, <1>4, <1>5, RankIsPlace
  <2> QED
    BY <1>3, <2>1, Zenon
<1>8. \A i, j \in S : place[i] = place[j] => i = j
  <2>1. ASSUME NEW i \in S, NEW j \in S, place[i] = place[j] PROVE i = j
    <3>1. place[i] \in Int /\ i \in Int /\ j \in Int /\ items[i].started \in Int /\ items[j].started \in Int
      BY <1>1, <1>7, <1>a
    <3>2. NotLater(items, i, j) /\ NotLater(items, j, i)
      BY <1>7, <2>1, <3>1
    <3> QED
      BY <3>1, <3>2 DEF NotLater
  <2> QED
    BY <2>1
<1>9. /\ SortedByStart(items) \in Seq(T)
      /\ Len(SortedByStart(items)) = Cardinality(S)
      /\ \A j \in S : SortedByStart(items)[place[j]] = items[j]
  <2>1. S \in SUBSET DOMAIN items
    BY DEF S
  <2> QED
    BY <1>2, <1>6, <1>7, <1>8, <2>1, ArrangedItems
<1>10. DOMAIN SortedByStart(items) = 1 .. Cardinality(S)
  BY <1>9, LenProperties
<1> QED
  BY <1>7, <1>9, <1>10 DEF S, SortPlaced

(* Nothing else is in an arrangement.                                       *)
LEMMA ThoseRange ==
    ASSUME NEW T, NEW items \in Seq(T), NEW S \in SUBSET DOMAIN items
    PROVE  Range(Those(items, S)) = {items[i] : i \in S}
<1>1. PICK place : ThosePlaced(items, S, place)
  BY ThoseItems
<1>2. ASSUME NEW n \in DOMAIN Those(items, S) PROVE Those(items, S)[n] \in {items[i] : i \in S}
  BY <1>1 DEF ThosePlaced
<1>3. ASSUME NEW i \in S PROVE items[i] \in Range(Those(items, S))
  BY <1>1 DEF ThosePlaced, Range
<1> QED
  BY <1>2, <1>3 DEF Range

LEMMA SortedRange ==
    ASSUME NEW T, NEW items \in Seq(T), \A item \in T : item.started \in Int
    PROVE  Range(SortedByStart(items)) = Range(items)
<1>1. PICK place : SortPlaced(items, place)
  BY SortedItems
<1>2. ASSUME NEW n \in DOMAIN SortedByStart(items) PROVE SortedByStart(items)[n] \in Range(items)
  BY <1>1 DEF SortPlaced, Range
<1>3. ASSUME NEW i \in DOMAIN items PROVE items[i] \in Range(SortedByStart(items))
  BY <1>1 DEF SortPlaced, Range
<1> QED
  BY <1>2, <1>3 DEF Range

-----------------------------------------------------------------------------
(* Spans and the observations made of them.                                 *)

Storable == {observation \in Observations : Validate(observation)}

(* A duration fits a day exactly if less than a day and a unit has passed,  *)
(* however many nanoseconds the unit has.                                   *)
LEMMA WholeUnits ==
    ASSUME NEW time \in Nat
    PROVE  /\ time \div Nanos \in Nat
           /\ time \div Nanos <= MaxDuration <=> time < (MaxDuration + 1) * Nanos
<1>0. Nanos \in Nat /\ Nanos > 0 /\ MaxDuration \in Nat
  BY DurationAssumption
<1>1. PICK q \in Int, r \in Int : q = time \div Nanos /\ r = time % Nanos
  BY <1>0
<1>2. time = Nanos * q + r /\ 0 <= r /\ r < Nanos
  BY <1>0, <1>1
<1>3. q \in Nat
  BY <1>0, <1>1
<1>4. PICK whole \in Int, most \in Int : whole = Nanos * q /\ most = Nanos * MaxDuration
  BY <1>0
<1>5. (MaxDuration + 1) * Nanos = most + Nanos /\ time = whole + r
  BY <1>0, <1>2, <1>4
<1>6. CASE q <= MaxDuration
  <2>1. whole <= most
    BY <1>0, <1>3, <1>4, <1>6
  <2> QED
    BY <1>0, <1>1, <1>2, <1>3, <1>5, <1>6, <2>1
<1>7. CASE MaxDuration + 1 <= q
  <2>1. Nanos * (MaxDuration + 1) <= Nanos * q
    BY <1>0, <1>3, <1>7
  <2>2. most + Nanos <= whole
    BY <1>0, <1>4, <2>1
  <2>3. ~(time < most + Nanos) /\ ~(q <= MaxDuration)
    BY <1>0, <1>2, <1>3, <1>4, <1>5, <1>7, <2>2
  <2> QED
    BY <1>1, <1>3, <1>5, <2>3
<1> QED
  BY <1>0, <1>3, <1>6, <1>7

(* map_span lets a span through that an observation can be made of.         *)
LEMMA GoodSpans ==
    ASSUME NEW span \in Span
    PROVE  Rejection(span) = "none" <=>
              /\ span.traced /\ span.identified /\ span.named
              /\ 0 <= span.end - span.start
              /\ span.end - span.start < (MaxDuration + 1) * Nanos
<1>1. PICK s \in Nat, e \in Nat : s = span.start /\ e = span.end
  BY DEF Span
<1>2. CASE e < s
  BY <1>1, <1>2 DEF Rejection
<1>3. CASE ~(e < s)
  <2>1. PICK t \in Nat : t = e - s
    BY <1>3
  <2>2. t \div Nanos <= MaxDuration <=> t < (MaxDuration + 1) * Nanos
    BY WholeUnits
  <2>3. /\ Duration(span) = t \div Nanos
        /\ t \div Nanos \in Nat /\ MaxDuration \in Nat
    BY <1>1, <2>1, WholeUnits, DurationAssumption DEF Duration
  <2>4. Rejection(span) = "none" <=>
           span.traced /\ span.identified /\ span.named /\ t \div Nanos <= MaxDuration
    BY <1>1, <1>3, <2>3 DEF Rejection
  <2> QED
    BY <1>1, <2>1, <2>2, <2>4
<1> QED
  BY <1>2, <1>3

(* Spans is made of the traces' spans.                                      *)
LEMMA SpansOfBatches ==
    ASSUME NEW batch \in Batches
    PROVE  /\ batch \in Seq(Span)
           /\ Range(batch) \subseteq Spans
           /\ Spans \subseteq Span
<1>1. ASSUME NEW b \in Batches, NEW n \in DOMAIN b PROVE b[n] \in Span
  BY BatchesAssumption
<1> QED
  BY <1>1, BatchesAssumption DEF Spans, Range

LEMMA ObservationTypes ==
    ASSUME NEW span \in Spans, NEW tenant \in Tenant
    PROVE  /\ span \in Span
           /\ MapSpan(span, tenant) \in Observations
           /\ MapSpan(span, tenant).id = <<tenant, span.span>>
           /\ MapSpan(span, tenant).tenant = tenant
           /\ MapSpan(span, tenant).started \in Nat
           /\ MapSpan(span, tenant).failed \in BOOLEAN
           /\ Rejection(span) = "none" => Validate(MapSpan(span, tenant))
<1>1. span \in Span
  BY SpansOfBatches DEF Spans
<1>2. span.start \in Nat /\ span.start \div Nanos \in Nat
  BY <1>1, WholeUnits DEF Span
<1>3. ASSUME Rejection(span) = "none" PROVE Validate(MapSpan(span, tenant))
  <2>1. span.named /\ ~(Duration(span) > MaxDuration) /\ span.start <= span.end
    BY <1>1, <1>3 DEF Rejection, Span
  <2>2. Duration(span) \in Int /\ MaxDuration \in Int
    BY <1>1, DurationAssumption DEF Duration, Span
  <2> QED
    BY <2>1, <2>2 DEF Validate, MapSpan
<1> QED
  BY <1>1, <1>2, <1>3 DEF MapSpan, Observations, Identity, Span

(* An ID tells its tenant.                                                  *)
LEMMA ObservationFields ==
    ASSUME NEW o \in Observations
    PROVE  /\ o.tenant \in Tenant
           /\ o.id \in Identities
           /\ o.id[1] = o.tenant
           /\ o.started \in Int
           /\ o.failed \in BOOLEAN
<1>1. PICK span \in Spans, tenant \in Tenant : o = MapSpan(span, tenant)
  BY DEF Observations
<1> QED
  BY <1>1, ObservationTypes DEF Identities

(* The observations of a request are those of its good spans, each of them. *)
LEMMA MappedObservations ==
    ASSUME NEW batch \in Batches, NEW tenant \in Tenant
    PROVE  /\ MapRequest(batch, tenant).observations \in Seq(Storable)
           /\ \A n \in DOMAIN MapRequest(batch, tenant).observations :
                 \E span \in Range(batch) :
                    MapRequest(batch, tenant).observations[n] = MapSpan(span, tenant)
           /\ \A span \in Range(batch) : Rejection(span) = "none" =>
                 \E n \in DOMAIN MapRequest(batch, tenant).observations :
                    MapRequest(batch, tenant).observations[n] = MapSpan(span, tenant)
<1> DEFINE S == {n \in DOMAIN batch : Rejection(batch[n]) = "none"}
           good == Mapped(batch)
           observations == MapRequest(batch, tenant).observations
<1>1. batch \in Seq(Span) /\ Range(batch) \subseteq Spans
  BY SpansOfBatches
<1>2. S \in SUBSET DOMAIN batch
  OBVIOUS
<1>3. good \in Seq(Span) /\ Range(good) = {batch[i] : i \in S}
  BY <1>1, <1>2, ThoseItems, ThoseRange DEF Mapped
<1>4. observations = [n \in DOMAIN good |-> MapSpan(good[n], tenant)]
  BY DEF MapRequest
<1>5. ASSUME NEW n \in DOMAIN good
      PROVE  good[n] \in Range(batch) /\ Rejection(good[n]) = "none"
  BY <1>3 DEF Range
<1> HIDE DEF good, observations
<1>6. \A n \in DOMAIN good : MapSpan(good[n], tenant) \in Storable
  BY <1>1, <1>5, ObservationTypes DEF Storable
<1>7. DOMAIN good = 1 .. Len(good) /\ Len(good) \in Nat
  BY <1>3, LenProperties
<1>8. observations \in Seq(Storable)
  BY <1>4, <1>6, <1>7
<1>9. \A span \in Range(batch) : Rejection(span) = "none" => \E n \in DOMAIN good : good[n] = span
  <2>1. ASSUME NEW span \in Range(batch), Rejection(span) = "none" PROVE span \in Range(good)
    BY <1>3, <2>1 DEF Range
  <2> QED
    BY <2>1 DEF Range
<1>10. DOMAIN observations = DOMAIN good
  BY <1>4
<1> QED
  BY <1>4, <1>5, <1>8, <1>9, <1>10 DEF observations

-----------------------------------------------------------------------------
(* The steps, each by what it leaves.                                       *)

Handling == [state : {"appending"}, export : Nat, next : Nat]

LEMMA KnownState ==
    ASSUME TypeOK
    PROVE  /\ rows \in Seq(Storable) /\ rows \in Seq(Observations)
           /\ Range(rows) \subseteq Storable /\ Storable \subseteq Observations
           /\ sent \in Seq(Exports) /\ Len(sent) \in Nat /\ DOMAIN sent = 1 .. Len(sent)
           /\ \A n \in 1 .. Len(sent) : sent[n] \in Exports
           /\ exports \in [Exporter -> {Idle} \cup Handling]
           /\ \A x \in Exporter : exports[x] # Idle <=> exports[x].state = "appending"
<1>1. rows \in Seq(Storable) /\ Storable \subseteq Observations
  BY DEF TypeOK, Storable
<1>2. rows \in Seq(Observations)
  BY <1>1
<1>3. Range(rows) \subseteq Storable
  BY <1>1, ElementOfSeq DEF Range
<1>4. sent \in Seq(Exports) /\ exports \in [Exporter -> {Idle} \cup Handling]
  BY DEF TypeOK, Handling
<1>5. /\ Len(sent) \in Nat /\ DOMAIN sent = 1 .. Len(sent)
      /\ \A n \in 1 .. Len(sent) : sent[n] \in Exports
  BY <1>4, LenProperties, ElementOfSeq
<1>6. \A x \in Exporter : exports[x] # Idle <=> exports[x].state = "appending"
  BY <1>4 DEF Handling, Idle
<1> QED
  BY <1>1, <1>2, <1>3, <1>4, <1>5, <1>6

(* A handler in progress is at an export of its own without an answer.      *)
LEMMA KnownHandler ==
    ASSUME TypeOK, NEW x \in Exporter, exports[x] # Idle
    PROVE  /\ exports[x].export \in 1 .. Len(sent) /\ exports[x].next \in Nat \ {0}
           /\ exports[x] = [state |-> "appending", export |-> exports[x].export, next |-> exports[x].next]
           /\ sent[exports[x].export].outcome = "open"
           /\ sent[exports[x].export].batch \in Batches /\ sent[exports[x].export].tenant \in Tenant
           /\ Mapping(x).observations \in Seq(Storable)
           /\ Len(Mapping(x).observations) \in Nat
           /\ DOMAIN Mapping(x).observations = 1 .. Len(Mapping(x).observations)
           /\ exports[x].next <= Len(Mapping(x).observations) + 1
<1>1. /\ exports[x].export \in 1 .. Len(sent)
      /\ sent[exports[x].export].outcome = "open"
      /\ exports[x].next \in 1 .. Len(Mapping(x).observations) + 1
  BY KnownState DEF TypeOK
<1>2. sent[exports[x].export].batch \in Batches /\ sent[exports[x].export].tenant \in Tenant
  BY <1>1, KnownState DEF Exports
<1>3. Mapping(x).observations \in Seq(Storable)
  BY <1>2, MappedObservations DEF Mapping
<1>4. exports[x] \in Handling
  BY KnownState
<1>5. /\ Len(Mapping(x).observations) \in Nat
      /\ DOMAIN Mapping(x).observations = 1 .. Len(Mapping(x).observations)
  BY <1>3, LenProperties
<1>6. exports[x] = [state |-> "appending", export |-> exports[x].export, next |-> exports[x].next]
  BY <1>4 DEF Handling
<1>7. exports[x].next \in Nat \ {0} /\ exports[x].next <= Len(Mapping(x).observations) + 1
  BY <1>1, <1>5
<1> QED
  BY <1>1, <1>2, <1>3, <1>5, <1>6, <1>7

LEMMA BeginStep ==
    ASSUME TypeOK, NEW x \in Exporter, NEW tenant \in Tenant, NEW batch \in Batches,
           BeginExport(x, tenant, batch)
    PROVE  /\ exports[x] = Idle /\ ExportAuthorized(tenant)
           /\ sent' \in Seq(Exports) /\ Len(sent') = Len(sent) + 1
           /\ \A n \in 1 .. Len(sent) : sent'[n] = sent[n]
           /\ sent'[Len(sent) + 1] = [tenant |-> tenant, batch |-> batch, outcome |-> "open"]
           /\ exports' \in [Exporter -> {Idle} \cup Handling]
           /\ exports'[x] = [state |-> "appending", export |-> Len(sent) + 1, next |-> 1]
           /\ exports'[x] # Idle
           /\ \A y \in Exporter : y # x => exports'[y] = exports[y]
           /\ UNCHANGED <<deployment, store, rows, client, moved, agent_executions, faults>>
<1> DEFINE export == [tenant |-> tenant, batch |-> batch, outcome |-> "open"]
           handling == [state |-> "appending", export |-> Len(sent) + 1, next |-> 1]
<1>1. export \in Exports /\ sent \in Seq(Exports) /\ sent' = Append(sent, export)
  BY KnownState DEF BeginExport, Exports
<1>2. handling \in Handling /\ exports' = [exports EXCEPT ![x] = handling] /\ handling # Idle
  BY KnownState DEF BeginExport, Handling, Idle
<1>3. /\ exports[x] = Idle /\ ExportAuthorized(tenant)
      /\ UNCHANGED <<deployment, store, rows, client, moved, agent_executions, faults>>
  BY DEF BeginExport
<1> HIDE DEF export, handling
<1>4. /\ sent' \in Seq(Exports) /\ Len(sent') = Len(sent) + 1
      /\ \A n \in 1 .. Len(sent) : sent'[n] = sent[n]
      /\ sent'[Len(sent) + 1] = export
  BY <1>1, AppendProperties
<1>5. /\ exports' \in [Exporter -> {Idle} \cup Handling]
      /\ exports'[x] = handling
      /\ \A y \in Exporter : y # x => exports'[y] = exports[y]
  BY <1>2, KnownState
<1> QED
  BY <1>2, <1>3, <1>4, <1>5 DEF export, handling

(* The exports stay as they were asked for.                                 *)
Answered(x, outcome) ==
    /\ sent' \in Seq(Exports) /\ Len(sent') = Len(sent)
    /\ \A n \in 1 .. Len(sent) :
          /\ sent'[n].tenant = sent[n].tenant /\ sent'[n].batch = sent[n].batch
          /\ sent'[n].outcome = IF n = exports[x].export THEN outcome ELSE sent[n].outcome
    /\ exports' \in [Exporter -> {Idle} \cup Handling]
    /\ exports'[x] = Idle
    /\ \A y \in Exporter : y # x => exports'[y] = exports[y]

LEMMA AnswerStep ==
    ASSUME TypeOK, NEW x \in Exporter, exports[x] # Idle, NEW outcome \in {"accepted", "failed"},
           Answer(x, outcome)
    PROVE  Answered(x, outcome)
<1> DEFINE e == exports[x].export
           answered == [sent[e] EXCEPT !.outcome = outcome]
<1>1. e \in 1 .. Len(sent) /\ sent[e] \in Exports
  BY KnownHandler, KnownState
<1>2. answered \in Exports /\ answered.tenant = sent[e].tenant /\ answered.batch = sent[e].batch
      /\ answered.outcome = outcome
  BY <1>1 DEF Exports
<1>3. sent' = [sent EXCEPT ![e] = answered]
  BY DEF Answer
<1>4. exports' = [exports EXCEPT ![x] = Idle]
  BY DEF Answer
<1>a. sent \in Seq(Exports)
  BY KnownState
<1> HIDE DEF answered, e
<1>5. /\ sent' \in Seq(Exports) /\ Len(sent') = Len(sent)
      /\ \A n \in 1 .. Len(sent) : sent'[n] = IF n = e THEN answered ELSE sent[n]
  BY <1>1, <1>2, <1>3, <1>a, ExceptSeq
<1>6. /\ exports' \in [Exporter -> {Idle} \cup Handling]
      /\ exports'[x] = Idle
      /\ \A y \in Exporter : y # x => exports'[y] = exports[y]
  BY <1>4, KnownState
<1> QED
  BY <1>2, <1>5, <1>6 DEF Answered, e

(* The rows there are without those of an ID, and which of them are left.   *)
Others(id) == {n \in DOMAIN rows : rows[n].id # id}
Before(observation) == IF store = "sqlite" THEN Those(rows, Others(observation.id)) ELSE rows
IdsDiffer(list) == \A i, j \in DOMAIN list : list[i].id = list[j].id => i = j

(* What is written comes last, and other IDs stay stored.                   *)
LEMMA WrittenRows ==
    ASSUME TypeOK, NEW o \in Storable
    PROVE  /\ Before(o) \in Seq(Storable)
           /\ Written(o) = Append(Before(o), o)
           /\ Written(o) \in Seq(Storable)
           /\ Range(Written(o)) \subseteq Range(rows) \cup {o}
           /\ o \in Range(Written(o))
           /\ \A row \in Range(rows) : row \in Range(Written(o)) \/ row.id = o.id
           /\ store = "sqlite" /\ IdsDiffer(rows) => IdsDiffer(Written(o))
<1> DEFINE before == Before(o)
           written == Written(o)
<1>1. rows \in Seq(Storable) /\ Others(o.id) \in SUBSET DOMAIN rows
  BY KnownState DEF Others
<1>2. before \in Seq(Storable)
  BY <1>1, ThoseItems DEF Before
<1>3. written = Append(before, o)
  BY DEF Written, Before, Others
<1>4. Range(before) \subseteq Range(rows) /\ \A row \in Range(rows) : row \in Range(before) \/ row.id = o.id
  <2>1. CASE store = "sqlite"
    <3>1. Range(before) = {rows[i] : i \in Others(o.id)}
      BY <1>1, <2>1, ThoseRange DEF Before
    <3> QED
      BY <3>1 DEF Range, Others
  <2>2. CASE store # "sqlite"
    BY <2>2 DEF Before
  <2> QED
    BY <2>1, <2>2
<1>5. ASSUME store = "sqlite", IdsDiffer(rows)
      PROVE  IdsDiffer(before) /\ \A i \in DOMAIN before : before[i].id # o.id
  <2>1. PICK place : ThosePlaced(rows, Others(o.id), place)
    BY <1>1, ThoseItems
  <2>2. before = Those(rows, Others(o.id))
    BY <1>5 DEF Before
  <2>3. \A n \in DOMAIN before : \E i \in Others(o.id) : place[i] = n /\ before[n] = rows[i]
    BY <2>1, <2>2 DEF ThosePlaced
  <2> HIDE DEF before
  <2>4. \A n, m \in DOMAIN before : before[n].id = before[m].id => n = m
    BY <1>1, <1>5, <2>3 DEF IdsDiffer
  <2>5. \A n \in DOMAIN before : before[n].id # o.id
    BY <2>3 DEF Others
  <2> QED
    BY <2>4, <2>5 DEF IdsDiffer
<1> HIDE DEF before, written
<1>6. /\ written \in Seq(Storable) /\ Len(before) \in Nat
      /\ DOMAIN before = 1 .. Len(before) /\ DOMAIN written = 1 .. Len(before) + 1
      /\ \A n \in 1 .. Len(before) : written[n] = before[n]
      /\ written[Len(before) + 1] = o
  BY <1>2, <1>3, AppendProperties, LenProperties
<1>7. Range(written) = Range(before) \cup {o}
  <2>1. \A n \in DOMAIN written : n \in DOMAIN before \/ n = Len(before) + 1
    BY <1>6
  <2>2. \A n \in DOMAIN before : n \in DOMAIN written /\ written[n] = before[n]
    BY <1>6
  <2>3. Len(before) + 1 \in DOMAIN written
    BY <1>6
  <2> QED
    BY <1>6, <2>1, <2>2, <2>3 DEF Range
<1>8. ASSUME store = "sqlite", IdsDiffer(rows) PROVE IdsDiffer(written)
  <2>1. \A n \in DOMAIN written : \/ n \in DOMAIN before /\ written[n] = before[n]
                                  \/ n = Len(before) + 1 /\ written[n] = o
    <3>1. \A n \in 1 .. Len(before) + 1 : n \in 1 .. Len(before) \/ n = Len(before) + 1
      BY <1>6
    <3> QED
      BY <1>6, <3>1
  <2>2. ASSUME NEW i \in DOMAIN written, NEW j \in DOMAIN written, written[i].id = written[j].id
        PROVE  i = j
    <3>1. CASE i = Len(before) + 1 /\ written[i] = o
      BY <1>5, <1>8, <2>1, <2>2, <3>1
    <3>2. CASE j = Len(before) + 1 /\ written[j] = o
      BY <1>5, <1>8, <2>1, <2>2, <3>2
    <3> QED
      BY <1>5, <1>8, <2>1, <2>2, <3>1, <3>2 DEF IdsDiffer
  <2> QED
    BY <2>2 DEF IdsDiffer
<1> QED
  BY <1>2, <1>3, <1>4, <1>6, <1>7, <1>8 DEF before, written

(* A good span's observation is valid, so that an append fails only by a    *)
(* fault of the store.                                                      *)
LEMMA AppendStep ==
    ASSUME TypeOK, NEW x \in Exporter, AppendNext(x)
    PROVE  /\ exports[x] # Idle /\ exports[x].next \in 1 .. Len(Mapping(x).observations)
           /\ Mapping(x).observations[exports[x].next] \in Storable
           /\ rows' = Written(Mapping(x).observations[exports[x].next])
           /\ moved' = (moved \/ (client.state = "reading"
                                    /\ Moves(Mapping(x).observations[exports[x].next])))
           /\ exports' \in [Exporter -> {Idle} \cup Handling]
           /\ exports'[x] = [state |-> "appending", export |-> exports[x].export,
                              next |-> exports[x].next + 1]
           /\ exports'[x] # Idle
           /\ \A y \in Exporter : y # x => exports'[y] = exports[y]
           /\ UNCHANGED <<deployment, store, sent, client, agent_executions, faults>>
<1> DEFINE o == Mapping(x).observations[exports[x].next]
           handling == [state |-> "appending", export |-> exports[x].export, next |-> exports[x].next + 1]
<1>1. exports[x] # Idle /\ exports[x].next <= Len(Mapping(x).observations)
  BY KnownState DEF AppendNext
<1>a. /\ exports[x].next \in Nat \ {0} /\ exports[x].export \in Nat
      /\ exports[x] = [state |-> "appending", export |-> exports[x].export, next |-> exports[x].next]
      /\ Len(Mapping(x).observations) \in Nat /\ Mapping(x).observations \in Seq(Storable)
  BY <1>1, KnownHandler
<1>2. exports[x].next \in 1 .. Len(Mapping(x).observations)
  BY <1>1, <1>a
<1>3. o \in Storable /\ Validate(o)
  <2>1. o \in Storable
    BY <1>2, <1>a, ElementOfSeq
  <2> QED
    BY <2>1 DEF Storable
<1>4. /\ rows' = Written(o) /\ moved' = (moved \/ (client.state = "reading" /\ Moves(o)))
      /\ exports' = [exports EXCEPT ![x].next = @ + 1]
      /\ UNCHANGED <<deployment, store, sent, client, agent_executions, faults>>
  BY <1>3 DEF AppendNext
<1>5. handling \in Handling /\ handling # Idle
  BY <1>a DEF Handling, Idle
<1>6. [exports[x] EXCEPT !.next = @ + 1] = handling
  BY <1>a
<1>7. exports' = [exports EXCEPT ![x] = handling]
  BY <1>4, <1>6
<1> HIDE DEF handling
<1>8. /\ exports' \in [Exporter -> {Idle} \cup Handling]
      /\ exports'[x] = handling
      /\ \A y \in Exporter : y # x => exports'[y] = exports[y]
  BY <1>5, <1>7, KnownState
<1> QED
  BY <1>1, <1>2, <1>3, <1>4, <1>5, <1>8 DEF handling

LEMMA CrashStep ==
    ASSUME TypeOK, Crash
    PROVE  /\ \A x \in Exporter : exports'[x] = Idle
           /\ exports' \in [Exporter -> {Idle} \cup Handling]
           /\ sent' \in Seq(Exports) /\ Len(sent') = Len(sent)
           /\ \A n \in 1 .. Len(sent) :
                 /\ sent'[n].tenant = sent[n].tenant /\ sent'[n].batch = sent[n].batch
                 /\ sent'[n].outcome = IF sent[n].outcome = "open" THEN "failed" ELSE sent[n].outcome
           /\ faults' = faults + 1 /\ faults < MaxFaults /\ agent_executions' = 0
           /\ UNCHANGED <<deployment, store, rows, client, moved>>
<1> DEFINE cut(n) == [sent[n] EXCEPT !.outcome = IF @ = "open" THEN "failed" ELSE @]
<1>1. \A n \in 1 .. Len(sent) :
         /\ cut(n) \in Exports
         /\ cut(n).tenant = sent[n].tenant /\ cut(n).batch = sent[n].batch
         /\ cut(n).outcome = IF sent[n].outcome = "open" THEN "failed" ELSE sent[n].outcome
  BY KnownState DEF Exports
<1>2. sent' = [n \in DOMAIN sent |-> cut(n)]
  BY DEF Crash
<1> HIDE DEF cut
<1>3. sent' \in Seq(Exports) /\ Len(sent') = Len(sent) /\ \A n \in 1 .. Len(sent) : sent'[n] = cut(n)
  BY <1>1, <1>2, KnownState
<1>4. /\ \A x \in Exporter : exports'[x] = Idle
      /\ exports' \in [Exporter -> {Idle} \cup Handling]
      /\ faults' = faults + 1 /\ faults < MaxFaults /\ agent_executions' = 0
      /\ UNCHANGED <<deployment, store, rows, client, moved>>
  BY DEF Crash
<1> QED
  BY <1>1, <1>3, <1>4

-----------------------------------------------------------------------------
(* What the functions of Queries take from a list.                          *)

LEMMA QueriedItems ==
    ASSUME NEW items \in Seq(Observations), NEW tenant, NEW ids
    PROVE  /\ Of(items, tenant) \in Seq(Observations)
           /\ Range(Of(items, tenant)) = {item \in Range(items) : item.tenant = tenant}
           /\ Named(items, tenant, ids) \in Seq(Observations)
           /\ Range(Named(items, tenant, ids))
                 = {item \in Range(items) : item.tenant = tenant /\ item.id \in ids}
           /\ Failed(items) \in Seq(Observations)
           /\ Range(Failed(items)) = {item \in Range(items) : item.failed}
           /\ Ids(items) \in Seq(Identities)
           /\ Range(Ids(items)) = {item.id : item \in Range(items)}
<1> DEFINE S1 == {n \in DOMAIN items : items[n].tenant = tenant}
           S2 == {n \in DOMAIN items : items[n].tenant = tenant /\ items[n].id \in ids}
           S3 == {n \in DOMAIN items : items[n].failed}
<1>1. Of(items, tenant) = Those(items, S1) /\ S1 \in SUBSET DOMAIN items
  BY DEF Of
<1>2. Named(items, tenant, ids) = Those(items, S2) /\ S2 \in SUBSET DOMAIN items
  BY DEF Named
<1>3. Failed(items) = Those(items, S3) /\ S3 \in SUBSET DOMAIN items
  BY DEF Failed
<1>4. \A S \in SUBSET DOMAIN items :
         Those(items, S) \in Seq(Observations) /\ Range(Those(items, S)) = {items[i] : i \in S}
  BY ThoseItems, ThoseRange
<1>5. {items[i] : i \in S1} = {item \in Range(items) : item.tenant = tenant}
  BY DEF Range
<1>6. {items[i] : i \in S2} = {item \in Range(items) : item.tenant = tenant /\ item.id \in ids}
  BY DEF Range
<1>7. {items[i] : i \in S3} = {item \in Range(items) : item.failed}
  BY DEF Range
<1>8. Ids(items) \in Seq(Identities)
  <2>1. DOMAIN items = 1 .. Len(items) /\ Len(items) \in Nat
    BY LenProperties
  <2>2. \A n \in DOMAIN items : items[n].id \in Identities
    BY <2>1, ElementOfSeq, ObservationFields
  <2> QED
    BY <2>1, <2>2 DEF Ids
<1>9. Range(Ids(items)) = {item.id : item \in Range(items)}
  BY DEF Ids, Range
<1> HIDE DEF S1, S2, S3
<1> QED
  BY <1>1, <1>2, <1>3, <1>4, <1>5, <1>6, <1>7, <1>8, <1>9

(* Both stores list what is stored.                                         *)
LEMMA ListedRows ==
    ASSUME TypeOK
    PROVE  Listed \in Seq(Observations) /\ Range(Listed) = Range(rows)
<1>1. rows \in Seq(Observations) /\ \A o \in Observations : o.started \in Int
  BY KnownState, ObservationFields
<1>2. SortedByStart(rows) \in Seq(Observations) /\ Range(SortedByStart(rows)) = Range(rows)
  BY <1>1, SortedItems, SortedRange
<1> QED
  BY <1>1, <1>2 DEF Listed

(* What a tenant's requests name is stored, by their IDs.                   *)
LEMMA TenantEvidence ==
    ASSUME TypeOK, NEW tenant, NEW ids
    PROVE  /\ \A id : id \in Stored(tenant) <=> \E row \in Range(rows) : row.tenant = tenant /\ row.id = id
           /\ Stored(tenant) \subseteq Identities
           /\ Diagnose(tenant, Listed) \in Seq(Identities)
           /\ Range(Diagnose(tenant, Listed)) \subseteq Stored(tenant)
           /\ Ids(Named(Listed, tenant, ids)) \in Seq(Identities)
           /\ Range(Ids(Named(Listed, tenant, ids))) = Stored(tenant) \cap ids
<1> DEFINE mine == Of(rows, tenant)
           listed == Of(Listed, tenant)
           failed == Failed(listed)
           named == Named(Listed, tenant, ids)
<1>1. /\ rows \in Seq(Observations) /\ Listed \in Seq(Observations)
      /\ Range(Listed) = Range(rows)
  BY KnownState, ListedRows
<1>2. /\ mine \in Seq(Observations) /\ listed \in Seq(Observations) /\ named \in Seq(Observations)
      /\ Range(mine) = {row \in Range(rows) : row.tenant = tenant}
      /\ Range(listed) = {row \in Range(rows) : row.tenant = tenant}
      /\ Range(named) = {row \in Range(rows) : row.tenant = tenant /\ row.id \in ids}
  <2>1. mine \in Seq(Observations) /\ Range(mine) = {row \in Range(rows) : row.tenant = tenant}
    BY <1>1, QueriedItems
  <2>2. /\ listed \in Seq(Observations)
        /\ Range(listed) = {row \in Range(Listed) : row.tenant = tenant}
    BY <1>1, QueriedItems
  <2>3. /\ named \in Seq(Observations)
        /\ Range(named) = {row \in Range(Listed) : row.tenant = tenant /\ row.id \in ids}
    <3>1. Listed \in Seq(Observations)
      BY <1>1
    <3> HIDE DEF named
    <3>2. named = Named(Listed, tenant, ids)
      BY DEF named
    <3> QED
      BY <3>1, <3>2, QueriedItems
  <2> HIDE DEF mine, listed, named
  <2> QED
    BY <1>1, <2>1, <2>2, <2>3
<1> HIDE DEF mine, listed, named
<1>3. failed \in Seq(Observations) /\ Range(failed) = {row \in Range(listed) : row.failed}
  BY <1>2, QueriedItems
<1> HIDE DEF failed
<1>4. /\ Ids(mine) \in Seq(Identities) /\ Range(Ids(mine)) = {row.id : row \in Range(mine)}
      /\ Ids(failed) \in Seq(Identities) /\ Range(Ids(failed)) = {row.id : row \in Range(failed)}
      /\ Ids(named) \in Seq(Identities) /\ Range(Ids(named)) = {row.id : row \in Range(named)}
  BY <1>2, <1>3, QueriedItems
<1>5. /\ Stored(tenant) = Range(Ids(mine))
      /\ Diagnose(tenant, Listed) = Ids(failed)
      /\ Ids(Named(Listed, tenant, ids)) = Ids(named)
  BY DEF Stored, Diagnose, mine, listed, failed, named
<1>6. \A id : id \in Stored(tenant) <=> \E row \in Range(rows) : row.tenant = tenant /\ row.id = id
  BY <1>2, <1>4, <1>5
<1>7. Stored(tenant) \subseteq Identities
  <2>1. \A row \in Range(rows) : row.id \in Identities
    BY KnownState, ObservationFields
  <2> QED
    BY <1>6, <2>1
<1>8. Range(Ids(failed)) \subseteq Range(Ids(mine))
  BY <1>2, <1>3, <1>4
<1>9. Range(Ids(named)) = Range(Ids(mine)) \cap ids
  BY <1>2, <1>4
<1> QED
  BY <1>4, <1>5, <1>6, <1>7, <1>8, <1>9

(* A page has observations that are stored.                                 *)
LEMMA PageRows ==
    ASSUME TypeOK, NEW tenant, NEW page \in Nat \ {0}, NEW size \in Nat
    PROVE  /\ FilterObservations(Listed, tenant, page, size, Limit) \in Seq(Observations)
           /\ Range(Ids(FilterObservations(Listed, tenant, page, size, Limit))) \subseteq Identities
<1> DEFINE mine == Of(Listed, tenant)
           sorted == SortedByStart(mine)
           at == Largest(1, Smallest(size, Limit))
           start == (Largest(1, page) - 1) * at
           read == FilterObservations(Listed, tenant, page, size, Limit)
<1>1. Listed \in Seq(Observations) /\ \A o \in Observations : o.started \in Int
  BY ListedRows, ObservationFields
<1>2. mine \in Seq(Observations)
  BY <1>1, QueriedItems
<1> HIDE DEF mine
<1>3. sorted \in Seq(Observations)
  BY <1>1, <1>2, SortedItems
<1>4. at \in Nat /\ Limit \in Nat
  BY TracingBoundAssumption DEF Largest, Smallest
<1>5. Largest(1, page) - 1 \in Nat
  BY DEF Largest
<1> HIDE DEF sorted, at
<1>6. start \in Nat
  <2>1. PICK before \in Nat : before = Largest(1, page) - 1
    BY <1>5
  <2>2. before * at \in Nat
    BY <1>4
  <2> QED
    BY <2>1, <2>2
<1> HIDE DEF start
<1>7. read = SubSeq(sorted, start + 1, Smallest(start + at, Len(sorted)))
  BY DEF FilterObservations, sorted, mine, at, start
<1>8. Len(sorted) \in Nat
  BY <1>3, LenProperties
<1>9. Smallest(start + at, Len(sorted)) \in Int /\ Smallest(start + at, Len(sorted)) <= Len(sorted)
  BY <1>4, <1>6, <1>8 DEF Smallest
<1> DEFINE last == Smallest(start + at, Len(sorted))
<1>10. SubSeq(sorted, start + 1, last) \in Seq(Observations)
  <2> HIDE DEF last
  <2>1. last \in Int /\ last <= Len(sorted)
    BY <1>9 DEF last
  <2>2. \A n \in start + 1 .. last : sorted[n] \in Observations
    BY <1>3, <1>6, <1>8, <2>1, ElementOfSeq
  <2> QED
    BY <1>3, <1>6, <2>1, <2>2, SubSeqProperties
<1>11. read \in Seq(Observations)
  BY <1>7, <1>10
<1> HIDE DEF read
<1>12. Ids(read) \in Seq(Identities)
  BY <1>11, QueriedItems
<1>13. Range(Ids(read)) \subseteq Identities
  BY <1>12, ElementOfSeq, LenProperties DEF Range
<1> QED
  BY <1>11, <1>13 DEF read

-----------------------------------------------------------------------------
(* The type of the state.                                                   *)

LEMMA ClientKinds ==
    ASSUME TypeOK
    PROVE  /\ client.state \in {"reading", "read"} => client \in Readers
           /\ client.state = "diagnosed" => client \in Diagnosed
           /\ client.state = "planned" => client \in Planned
           /\ client.state = "executed" => client \in Executed
<1>1. /\ Idle.state = "idle"
      /\ \A c \in Readers : c.state \in {"reading", "read"}
      /\ \A c \in Diagnosed : c.state = "diagnosed"
      /\ \A c \in Planned : c.state = "planned"
      /\ \A c \in Executed : c.state = "executed"
  BY DEF Idle, Readers, Diagnosed, Planned, Executed
<1> QED
  BY <1>1 DEF TypeOK

LEMMA PageStep ==
    ASSUME TypeOK, ReadPage
    PROVE  /\ client \in Readers /\ client' \in Readers
           /\ client'.tenant = client.tenant /\ client'.size = client.size /\ client'.began = client.began
           /\ LET page == FilterObservations(Listed, client.tenant, client.page, client.size, Limit)
              IN  \/ /\ page = <<>> /\ client'.state = "read"
                     /\ client'.page = client.page /\ client'.seen = client.seen
                  \/ /\ page # <<>> /\ client'.state = "reading"
                     /\ client'.page = client.page + 1
                     /\ client'.seen = client.seen \cup Range(Ids(page))
<1> DEFINE page == FilterObservations(Listed, client.tenant, client.page, client.size, Limit)
<1>1. client.state = "reading" /\ client \in Readers
  BY ClientKinds DEF ReadPage
<1>2. client.page \in Nat \ {0} /\ client.size \in Nat
  BY <1>1, TracingBoundAssumption DEF Readers
<1>3. Range(Ids(page)) \subseteq Identities
  BY <1>2, PageRows
<1>4. client' = IF page = <<>> THEN [client EXCEPT !.state = "read"]
                ELSE [client EXCEPT !.page = @ + 1, !.seen = @ \cup Range(Ids(page))]
  BY DEF ReadPage
<1> HIDE DEF page
<1>5. CASE page = <<>>
  <2>1. client' = [client EXCEPT !.state = "read"]
    BY <1>4, <1>5
  <2>2. /\ client' \in Readers /\ client'.state = "read" /\ client'.tenant = client.tenant
        /\ client'.size = client.size /\ client'.began = client.began
        /\ client'.page = client.page /\ client'.seen = client.seen
    BY <1>1, <2>1 DEF Readers
  <2> QED
    BY <1>1, <1>5, <2>2 DEF page
<1>6. CASE page # <<>>
  <2> DEFINE more == client.seen \cup Range(Ids(page))
  <2>1. more \in SUBSET Identities /\ client.page + 1 \in Nat \ {0}
    BY <1>1, <1>2, <1>3 DEF Readers
  <2>2. client' = [client EXCEPT !.page = client.page + 1, !.seen = more]
    BY <1>4, <1>6
  <2> HIDE DEF more
  <2>3. /\ client' \in Readers /\ client'.state = "reading" /\ client'.tenant = client.tenant
        /\ client'.size = client.size /\ client'.began = client.began
        /\ client'.page = client.page + 1 /\ client'.seen = more
    BY <1>1, <2>1, <2>2 DEF Readers
  <2> QED
    BY <1>1, <1>6, <2>3 DEF page, more
<1> QED
  BY <1>5, <1>6

(* A reader and an agent keep to their types, whatever they find.           *)
LEMMA ClientStep ==
    ASSUME TypeOK,
           \/ \E tenant \in Tenant, page_size \in PageSizes : BeginReading(tenant, page_size)
           \/ \E tenant \in Tenant : Diagnosis(tenant)
           \/ ReadPage \/ Plan \/ Execute
    PROVE  /\ client' \in {Idle} \cup Readers \cup Diagnosed \cup Planned \cup Executed
           /\ agent_executions' \in Nat
           /\ UNCHANGED <<deployment, store, rows, exports, sent, moved, faults>>
<1>1. ASSUME NEW tenant \in Tenant, NEW page_size \in PageSizes, BeginReading(tenant, page_size)
      PROVE  client' \in Readers
  <2>1. Stored(tenant) \in SUBSET Identities
    BY TenantEvidence
  <2> QED
    BY <1>1, <2>1 DEF BeginReading, Readers
<1>2. ASSUME NEW tenant \in Tenant, Diagnosis(tenant) PROVE client' \in Diagnosed
  <2>1. Range(Diagnose(tenant, Listed)) \in SUBSET Identities
    BY TenantEvidence
  <2> QED
    BY <1>2, <2>1 DEF Diagnosis, Diagnosed
<1>3. ASSUME ReadPage PROVE client' \in Readers
  BY <1>3, PageStep
<1>4. ASSUME Plan PROVE client' \in Planned
  <2>1. PICK ids : client' = [state |-> "planned", tenant |-> client.tenant, finding |-> client.finding,
                              plan |-> PlanAgentRequest(client.tenant, ids, Listed)]
    BY <1>4 DEF Plan
  <2> DEFINE plan == PlanAgentRequest(client.tenant, ids, Listed)
  <2>2. Ids(Named(Listed, client.tenant, ids)) \in Seq(Identities)
    BY TenantEvidence
  <2>3. plan \in Plans
    BY <2>2 DEF PlanAgentRequest, Plans, SafeTools
  <2>4. client.tenant \in Tenant /\ client.finding \in SUBSET Identities
    BY <1>4, ClientKinds DEF Plan, Diagnosed
  <2> HIDE DEF plan
  <2>5. client' = [state |-> "planned", tenant |-> client.tenant, finding |-> client.finding, plan |-> plan]
    BY <2>1 DEF plan
  <2> QED
    BY <2>3, <2>4, <2>5 DEF Planned
<1>5. ASSUME Execute PROVE client' \in Executed
  <2> DEFINE result == ExecuteSafeTool(client.tenant, client.plan.tool, Range(client.plan.evidence),
                                       TRUE, Listed)
  <2>1. client.tenant \in Tenant /\ client.finding \in SUBSET Identities /\ client.plan \in Plans
    BY <1>5, ClientKinds DEF Execute, Planned
  <2>2. Ids(Named(Listed, client.tenant, Range(client.plan.evidence))) \in Seq(Identities)
    BY TenantEvidence
  <2>3. result \in Results
    BY <2>1, <2>2 DEF ExecuteSafeTool, Results, Plans
  <2>4. client' = [state |-> "executed", tenant |-> client.tenant, finding |-> client.finding,
                   plan |-> client.plan, result |-> result]
    BY <1>5 DEF Execute
  <2> HIDE DEF result
  <2> QED
    BY <2>1, <2>3, <2>4 DEF Executed
<1>6. agent_executions' \in {agent_executions, agent_executions + 1}
  BY DEF BeginReading, Diagnosis, ReadPage, Plan, Execute
<1>7. UNCHANGED <<deployment, store, rows, exports, sent, moved, faults>>
  BY DEF BeginReading, Diagnosis, ReadPage, Plan, Execute
<1>8. agent_executions' \in Nat
  BY <1>6 DEF TypeOK
<1> QED
  BY <1>1, <1>2, <1>3, <1>4, <1>5, <1>7, <1>8

(* A handler keeps its observations while others come and go.               *)
LEMMA MappingStays ==
    ASSUME TypeOK, NEW y \in Exporter, exports[y] # Idle, exports'[y] = exports[y],
           sent'[exports[y].export].tenant = sent[exports[y].export].tenant,
           sent'[exports[y].export].batch = sent[exports[y].export].batch
    PROVE  Mapping(y)' = Mapping(y)
BY DEF Mapping

(* No two handlers answer the same request.                                 *)
DistinctInv == \A x, y \in Exporter :
    exports[x] # Idle /\ exports[y] # Idle /\ exports[x].export = exports[y].export => x = y

(* A handler is at an export without an answer, at most past its last.      *)
Proceeds(x) ==
    exports[x] # Idle =>
        /\ exports[x].export \in 1 .. Len(sent)
        /\ sent[exports[x].export].outcome = "open"
        /\ exports[x].next \in Nat \ {0}
        /\ exports[x].next <= Len(Mapping(x).observations) + 1

(* A reply leaves the other handlers as they are.                           *)
LEMMA AnsweredHandlers ==
    ASSUME TypeOK, DistinctInv, NEW x \in Exporter, exports[x] # Idle,
           NEW outcome \in {"accepted", "failed"}, Answer(x, outcome),
           NEW y \in Exporter, exports'[y] # Idle
    PROVE  /\ y # x /\ exports'[y] = exports[y] /\ exports[y] # Idle
           /\ sent'[exports[y].export] = sent[exports[y].export]
           /\ Mapping(y)' = Mapping(y)
<1>1. Answered(x, outcome)
  BY AnswerStep
<1>2. y # x /\ exports'[y] = exports[y] /\ exports[y] # Idle
  BY <1>1 DEF Answered
<1>3. exports[y].export \in 1 .. Len(sent) /\ exports[y].export # exports[x].export
  BY <1>2, KnownHandler DEF DistinctInv
<1>4. sent'[exports[y].export] = sent[exports[y].export]
  BY <1>3 DEF Answer
<1> QED
  BY <1>2, <1>4, MappingStays

(* A handler whose export nobody touches goes on as before.                 *)
LEMMA KeptHandler ==
    ASSUME TypeOK, NEW y \in Exporter, exports[y] # Idle, exports'[y] = exports[y],
           sent'[exports[y].export] = sent[exports[y].export],
           Len(sent') \in Nat, Len(sent) <= Len(sent')
    PROVE  Proceeds(y)' /\ Mapping(y)' = Mapping(y)
<1>1. /\ exports[y].export \in 1 .. Len(sent) /\ exports[y].next \in Nat \ {0}
      /\ sent[exports[y].export].outcome = "open"
      /\ exports[y].next <= Len(Mapping(y).observations) + 1
  BY KnownHandler
<1>2. exports[y].export \in 1 .. Len(sent')
  BY <1>1, KnownState
<1>3. Mapping(y)' = Mapping(y)
  BY MappingStays
<1> QED
  BY <1>1, <1>2, <1>3 DEF Proceeds

LEMMA TypeKept == TypeOK /\ DistinctInv /\ [Next]_vars => TypeOK' /\ DistinctInv'
<1> SUFFICES ASSUME TypeOK, DistinctInv, [Next]_vars PROVE TypeOK' /\ DistinctInv'
  OBVIOUS
<1>a. /\ deployment \in Deployments /\ store \in {"sqlite", "jsonl"} /\ moved \in BOOLEAN
      /\ agent_executions \in Nat /\ faults \in 0 .. MaxFaults /\ MaxFaults \in Nat
      /\ client \in {Idle} \cup Readers \cup Diagnosed \cup Planned \cup Executed
  BY TracingBoundAssumption DEF TypeOK
<1>b. rows \in Seq(Storable) /\ sent \in Seq(Exports) /\ Len(sent) \in Nat
  BY KnownState
<1>c. ASSUME deployment' \in Deployments, store' \in {"sqlite", "jsonl"}, rows' \in Seq(Storable),
             exports' \in [Exporter -> {Idle} \cup Handling], sent' \in Seq(Exports),
             \A x \in Exporter : Proceeds(x)',
             client' \in {Idle} \cup Readers \cup Diagnosed \cup Planned \cup Executed,
             agent_executions' \in Nat, moved' \in BOOLEAN, faults' \in 0 .. MaxFaults
      PROVE  TypeOK'
  <2>1. DOMAIN sent' = 1 .. Len(sent') /\ \A n \in DOMAIN sent' : sent'[n] \in Exports
    BY <1>c, LenProperties, ElementOfSeq
  <2>2. ASSUME NEW x \in Exporter, exports'[x] # Idle
        PROVE  /\ exports'[x].export \in DOMAIN sent'
               /\ sent'[exports'[x].export].outcome = "open"
               /\ exports'[x].next \in 1 .. Len(Mapping(x)'.observations) + 1
    <3>1. /\ exports'[x].export \in DOMAIN sent' /\ sent'[exports'[x].export].outcome = "open"
          /\ exports'[x].next \in Nat \ {0} /\ exports'[x].next <= Len(Mapping(x)'.observations) + 1
      BY <1>c, <2>1, <2>2 DEF Proceeds
    <3>2. Mapping(x)'.observations \in Seq(Storable)
      BY <2>1, <3>1, MappedObservations DEF Mapping, Exports
    <3>3. Len(Mapping(x)'.observations) \in Nat
      BY <3>2, LenProperties
    <3> QED
      BY <3>1, <3>3
  <2> QED
    BY <1>c, <2>2 DEF TypeOK, Storable, Handling
<1>1. ASSUME NEW x \in Exporter, NEW tenant \in Tenant, NEW batch \in Batches,
             BeginExport(x, tenant, batch)
      PROVE  TypeOK' /\ DistinctInv'
  <2>1. /\ sent' \in Seq(Exports) /\ Len(sent') = Len(sent) + 1
        /\ \A n \in 1 .. Len(sent) : sent'[n] = sent[n]
        /\ sent'[Len(sent) + 1] = [tenant |-> tenant, batch |-> batch, outcome |-> "open"]
        /\ exports' \in [Exporter -> {Idle} \cup Handling]
        /\ exports'[x] = [state |-> "appending", export |-> Len(sent) + 1, next |-> 1]
        /\ \A y \in Exporter : y # x => exports'[y] = exports[y]
        /\ UNCHANGED <<deployment, store, rows, client, moved, agent_executions, faults>>
    BY <1>1, BeginStep
  <2>2. ASSUME NEW y \in Exporter, exports[y] # Idle, y # x
        PROVE  /\ exports[y].export \in 1 .. Len(sent)
               /\ Proceeds(y)'
    <3>1. exports[y].export \in 1 .. Len(sent)
      BY <2>2, KnownHandler
    <3>2. /\ sent'[exports[y].export] = sent[exports[y].export] /\ exports'[y] = exports[y]
          /\ Len(sent') \in Nat /\ Len(sent) <= Len(sent')
      BY <1>b, <2>1, <2>2, <3>1
    <3> QED
      BY <2>2, <3>1, <3>2, KeptHandler
  <2>3. Proceeds(x)'
    <3>1. Mapping(x)' = MapRequest(batch, tenant)
      BY <2>1 DEF Mapping
    <3>2. MapRequest(batch, tenant).observations \in Seq(Storable)
      BY MappedObservations
    <3>3. Len(MapRequest(batch, tenant).observations) \in Nat
      BY <3>2, LenProperties
    <3>4. /\ exports'[x].export = Len(sent) + 1 /\ exports'[x].next = 1
          /\ sent'[Len(sent) + 1].outcome = "open"
      BY <2>1
    <3>5. Len(sent) + 1 \in 1 .. Len(sent') /\ 1 <= Len(MapRequest(batch, tenant).observations) + 1
      BY <1>b, <2>1, <3>3
    <3> QED
      BY <3>1, <3>4, <3>5 DEF Proceeds
  <2>4. ASSUME NEW y \in Exporter PROVE Proceeds(y)'
    BY <2>1, <2>2, <2>3 DEF Proceeds
  <2>5. DistinctInv'
    <3>1. exports'[x].export = Len(sent) + 1
      BY <2>1
    <3>2. \A y \in Exporter : exports'[y] # Idle /\ y # x =>
             exports'[y].export # Len(sent) + 1 /\ exports[y] # Idle /\ exports'[y].export = exports[y].export
      BY <1>b, <2>1, <2>2
    <3> QED
      BY <3>1, <3>2 DEF DistinctInv
  <2> QED
    BY <1>a, <1>b, <1>c, <2>1, <2>4, <2>5
<1>2. ASSUME NEW x \in Exporter, AppendNext(x) PROVE TypeOK' /\ DistinctInv'
  <2> DEFINE o == Mapping(x).observations[exports[x].next]
  <2>1. /\ exports[x] # Idle /\ exports[x].next \in 1 .. Len(Mapping(x).observations)
        /\ o \in Storable /\ rows' = Written(o) /\ moved' \in BOOLEAN
        /\ exports' \in [Exporter -> {Idle} \cup Handling]
        /\ exports'[x] = [state |-> "appending", export |-> exports[x].export, next |-> exports[x].next + 1]
        /\ \A y \in Exporter : y # x => exports'[y] = exports[y]
        /\ UNCHANGED <<deployment, store, sent, client, agent_executions, faults>>
    BY <1>a, <1>2, AppendStep
  <2>2. rows' \in Seq(Storable)
    BY <2>1, WrittenRows
  <2> HIDE DEF o
  <2>3. Mapping(x)' = Mapping(x)
    BY <2>1 DEF Mapping
  <2>4. ASSUME NEW y \in Exporter PROVE Proceeds(y)'
    <3>1. CASE y = x
      <4>1. /\ exports[x].export \in 1 .. Len(sent) /\ exports[x].next \in Nat \ {0}
            /\ sent[exports[x].export].outcome = "open" /\ Len(Mapping(x).observations) \in Nat
        BY <2>1, KnownHandler
      <4>2. exports'[x].export = exports[x].export /\ exports'[x].next = exports[x].next + 1
        BY <2>1
      <4>3. exports[x].next + 1 \in Nat \ {0} /\ exports[x].next + 1 <= Len(Mapping(x).observations) + 1
        BY <2>1, <4>1
      <4> QED
        BY <2>1, <2>3, <3>1, <4>1, <4>2, <4>3 DEF Proceeds
    <3>2. CASE y # x /\ exports[y] # Idle
      BY <1>b, <2>1, <3>2, KeptHandler
    <3>3. CASE y # x /\ exports[y] = Idle
      BY <2>1, <3>3 DEF Proceeds
    <3> QED
      BY <3>1, <3>2, <3>3
  <2>5. DistinctInv'
    <3>1. \A y \in Exporter : exports'[y] # Idle =>
             exports[y] # Idle /\ exports'[y].export = exports[y].export
      BY <2>1
    <3> QED
      BY <3>1 DEF DistinctInv
  <2> QED
    BY <1>a, <1>b, <1>c, <2>1, <2>2, <2>4, <2>5
<1>3. ASSUME NEW x \in Exporter, exports[x] # Idle, NEW outcome \in {"accepted", "failed"},
             Answer(x, outcome), UNCHANGED <<deployment, store, rows, client, moved, agent_executions>>,
             faults' \in 0 .. MaxFaults
      PROVE  TypeOK' /\ DistinctInv'
  <2>1. Answered(x, outcome)
    BY <1>3, AnswerStep
  <2>2. ASSUME NEW y \in Exporter PROVE Proceeds(y)'
    <3>1. CASE exports'[y] # Idle
      <4>1. /\ exports'[y] = exports[y] /\ exports[y] # Idle
            /\ sent'[exports[y].export] = sent[exports[y].export]
        BY <1>3, <3>1, AnsweredHandlers
      <4>2. Len(sent') \in Nat /\ Len(sent) <= Len(sent')
        BY <1>b, <2>1 DEF Answered
      <4> QED
        BY <4>1, <4>2, KeptHandler
    <3> QED
      BY <3>1 DEF Proceeds
  <2>3. DistinctInv'
    <3>1. \A y \in Exporter : exports'[y] # Idle => exports[y] # Idle /\ exports'[y] = exports[y]
      BY <2>1 DEF Answered
    <3> QED
      BY <3>1 DEF DistinctInv
  <2> QED
    BY <1>3, <1>a, <1>b, <1>c, <2>1, <2>2, <2>3 DEF Answered
<1>4. ASSUME NEW x \in Exporter, AnswerExport(x) \/ StoreError(x) PROVE TypeOK' /\ DistinctInv'
  <2>1. /\ exports[x] # Idle
        /\ \E outcome \in {"accepted", "failed"} : Answer(x, outcome)
        /\ UNCHANGED <<deployment, store, rows, client, moved, agent_executions>>
        /\ faults' = faults \/ (faults < MaxFaults /\ faults' = faults + 1)
    BY <1>4, KnownState DEF AnswerExport, StoreError
  <2>2. faults' \in 0 .. MaxFaults
    BY <1>a, <2>1
  <2> QED
    BY <1>3, <2>1, <2>2
<1>5. CASE Crash
  <2>1. /\ \A x \in Exporter : exports'[x] = Idle
        /\ exports' \in [Exporter -> {Idle} \cup Handling] /\ sent' \in Seq(Exports)
        /\ faults' \in 0 .. MaxFaults /\ agent_executions' \in Nat
        /\ UNCHANGED <<deployment, store, rows, client, moved>>
    BY <1>a, <1>5, CrashStep
  <2> QED
    BY <1>a, <1>b, <1>c, <2>1 DEF DistinctInv, Proceeds
<1>6. CASE \/ \E tenant \in Tenant, page_size \in PageSizes : BeginReading(tenant, page_size)
           \/ \E tenant \in Tenant : Diagnosis(tenant)
           \/ ReadPage \/ Plan \/ Execute
  <2>1. /\ client' \in {Idle} \cup Readers \cup Diagnosed \cup Planned \cup Executed
        /\ agent_executions' \in Nat
        /\ UNCHANGED <<deployment, store, rows, exports, sent, moved, faults>>
    BY <1>6, ClientStep
  <2>2. ASSUME NEW x \in Exporter PROVE Proceeds(x)'
    BY <2>1, KnownHandler DEF Proceeds, Mapping
  <2>3. DistinctInv'
    BY <2>1 DEF DistinctInv
  <2>4. exports' \in [Exporter -> {Idle} \cup Handling]
    BY <2>1, KnownState
  <2> QED
    BY <1>a, <1>b, <1>c, <2>1, <2>2, <2>3, <2>4
<1>7. CASE UNCHANGED vars
  BY <1>7 DEF vars, TypeOK, DistinctInv, Mapping
<1>8. CASE Next
  <2>1. CASE \E x \in Exporter :
                \/ \E tenant \in Tenant, batch \in Batches : BeginExport(x, tenant, batch)
                \/ AppendNext(x)
                \/ AnswerExport(x)
                \/ StoreError(x)
    BY <1>1, <1>2, <1>4, <2>1
  <2> QED
    BY <1>5, <1>6, <1>8, <2>1 DEF Next
<1> QED
  BY <1>7, <1>8

LEMMA InitTypes == Init => TypeOK /\ DistinctInv
<1> SUFFICES ASSUME Init PROVE TypeOK /\ DistinctInv
  OBVIOUS
<1>1. \A x \in Exporter : exports[x] = Idle
  BY DEF Init
<1>2. rows \in Seq({observation \in Observations : Validate(observation)}) /\ sent \in Seq(Exports)
  BY EmptySeq DEF Init
<1>3. exports \in [Exporter -> {Idle} \cup [state : {"appending"}, export : Nat, next : Nat]]
  BY DEF Init
<1>4. faults \in 0 .. MaxFaults /\ agent_executions \in Nat
  BY TracingBoundAssumption DEF Init
<1>5. moved \in BOOLEAN
  BY DEF Init
<1>6. deployment \in Deployments /\ store \in {"sqlite", "jsonl"} /\ client = Idle
  BY DEF Init
<1> QED
  BY <1>1, <1>2, <1>3, <1>4, <1>5, <1>6 DEF TypeOK, DistinctInv

(* The state has its types, whatever is asked, fails or runs at once.       *)
THEOREM TypeCorrect == Spec => []TypeOK
BY TypeKept, InitTypes, PTL DEF Spec

-----------------------------------------------------------------------------
(* Access.                                                                  *)

(* Exports of such tenants only were taken up, and no row is another's.     *)
AccessInv ==
    /\ \A n \in DOMAIN sent : ExportAuthorized(sent[n].tenant)
    /\ \A row \in Range(rows) : \E n \in DOMAIN sent :
          \E span \in Range(sent[n].batch) : row = MapSpan(span, sent[n].tenant)

(* Who gets through api_key_guard and enforce_tenant_for.                   *)
LEMMA WhoIsAdmitted ==
    ASSUME NEW d \in Deployment, NEW request \in Request
    PROVE  LET HasGlobalKey == request.key # None /\ request.key = d.global
               HasKeyOf(tenant) == /\ d.mapping # None
                                   /\ request.header = tenant
                                   /\ <<tenant, request.key>> \in d.mapping
               Open == ~d.production /\ d.mapping = None /\ d.global = None
           IN  /\ Admitted(d, request) =>
                     /\ HasKeyOf(request.named) \/ HasGlobalKey \/ Open
                     /\ d.tenant \in {None, request.named}
               /\ d.production /\ MayRecordUsage(d, request) => HasGlobalKey
               /\ d.production =>
                     \A tenant \in Tenant : InvestigationTenant(d, request) = tenant => HasKeyOf(tenant)
<1>1. /\ None \notin Tenant /\ None \notin Secret
      /\ request.key \in Secret \cup {None} /\ request.header \in Tenant \cup {None}
      /\ request.named \in Tenant
      /\ d.mapping = None \/ d.mapping \in SUBSET (Tenant \X Secret)
      /\ d.production \in BOOLEAN
  BY NoneAssumption DEF Deployment, Request
<1>2. AuthorizedTenant(d, request) # None =>
         /\ d.mapping # None /\ <<request.header, request.key>> \in d.mapping
         /\ AuthorizedTenant(d, request) = request.header
  BY DEF AuthorizedTenant
<1>3. ApiKeyGuard(d, request) = 200 =>
         /\ AuthorizedTenant(d, request) # None \/ GlobalKeyMatches(d, request) \/ ~KeysConfigured(d)
         /\ ~(d.production /\ ~KeysConfigured(d))
  BY DEF ApiKeyGuard
<1>4. GlobalKeyMatches(d, request) => request.key # None /\ request.key = d.global
  BY DEF GlobalKeyMatches
<1>5. ~KeysConfigured(d) => d.mapping = None /\ d.global = None
  BY DEF KeysConfigured
<1> QED
  BY <1>1, <1>2, <1>3, <1>4, <1>5 DEF Admitted, EnforceTenantFor, MayRecordUsage, InvestigationTenant

-----------------------------------------------------------------------------
(* What a step does to the exports and the rows.                            *)

(* An export is answered once: with 200 when its handler is past its last   *)
(* observation, and otherwise by a fault.                                   *)
AnsweredRight(n) ==
    \/ sent'[n].outcome = sent[n].outcome
    \/ sent'[n].outcome = "failed" /\ faults' = faults + 1
    \/ /\ sent'[n].outcome = "accepted"
       /\ \E x \in Exporter : /\ exports[x] # Idle /\ exports[x].export = n
                              /\ exports[x].next > Len(Mapping(x).observations)

ExportsGrow ==
    /\ DOMAIN sent \subseteq DOMAIN sent'
    /\ \A n \in DOMAIN sent :
          /\ sent'[n].tenant = sent[n].tenant /\ sent'[n].batch = sent[n].batch
          /\ AnsweredRight(n)
    /\ \A n \in DOMAIN sent' : n \notin DOMAIN sent =>
          sent'[n].outcome = "open" /\ ExportAuthorized(sent'[n].tenant)
    /\ faults' \in {faults, faults + 1}
    /\ UNCHANGED <<deployment, store>>
    /\ rows' = rows \/ \E x \in Exporter : AppendNext(x)

LEMMA ExportsStay ==
    ASSUME TypeOK, DistinctInv, [Next]_vars
    PROVE  ExportsGrow
<1>0. /\ DOMAIN sent' = 1 .. Len(sent')
      /\ DOMAIN sent = 1 .. Len(sent) /\ Len(sent) \in Nat
  BY TypeKept, KnownState, LenProperties DEF TypeOK
<1>1. ASSUME NEW x \in Exporter, NEW tenant \in Tenant, NEW batch \in Batches,
             BeginExport(x, tenant, batch)
      PROVE  ExportsGrow
  <2>1. /\ Len(sent') = Len(sent) + 1
        /\ \A n \in 1 .. Len(sent) : sent'[n] = sent[n]
        /\ sent'[Len(sent) + 1] = [tenant |-> tenant, batch |-> batch, outcome |-> "open"]
        /\ ExportAuthorized(tenant)
        /\ UNCHANGED <<deployment, store, rows, faults>>
    BY <1>1, BeginStep
  <2>2. DOMAIN sent \subseteq DOMAIN sent'
    BY <1>0, <2>1
  <2>3. \A n \in DOMAIN sent' : n \notin DOMAIN sent => n = Len(sent) + 1
    BY <1>0, <2>1
  <2>4. ASSUME NEW n \in DOMAIN sent', n \notin DOMAIN sent
        PROVE  sent'[n].outcome = "open" /\ ExportAuthorized(sent'[n].tenant)
    <3>1. sent'[n] = [tenant |-> tenant, batch |-> batch, outcome |-> "open"]
      BY <2>1, <2>3, <2>4
    <3> QED
      BY <2>1, <3>1
  <2> QED
    BY <1>0, <2>1, <2>2, <2>4 DEF ExportsGrow, AnsweredRight
<1>2. ASSUME NEW x \in Exporter, AppendNext(x) PROVE UNCHANGED <<deployment, store, sent, faults>>
  BY <1>2, AppendStep
<1>3. ASSUME NEW x \in Exporter, AnswerExport(x)
      PROVE  /\ Len(sent') = Len(sent)
             /\ \A n \in 1 .. Len(sent) :
                   /\ sent'[n].tenant = sent[n].tenant /\ sent'[n].batch = sent[n].batch
                   /\ AnsweredRight(n)
             /\ UNCHANGED <<deployment, store, rows, faults>>
  <2>1. /\ exports[x] # Idle /\ Answer(x, "accepted")
        /\ exports[x].next > Len(Mapping(x).observations)
        /\ UNCHANGED <<deployment, store, rows, faults>>
    BY <1>3, KnownState DEF AnswerExport
  <2>2. Answered(x, "accepted")
    BY <2>1, AnswerStep
  <2> QED
    BY <2>1, <2>2 DEF Answered, AnsweredRight
<1>4. ASSUME NEW x \in Exporter, StoreError(x)
      PROVE  /\ Len(sent') = Len(sent)
             /\ \A n \in 1 .. Len(sent) :
                   /\ sent'[n].tenant = sent[n].tenant /\ sent'[n].batch = sent[n].batch
                   /\ AnsweredRight(n)
             /\ faults' = faults + 1
             /\ UNCHANGED <<deployment, store, rows>>
  <2>1. /\ exports[x] # Idle /\ Answer(x, "failed")
        /\ faults' = faults + 1
        /\ UNCHANGED <<deployment, store, rows>>
    BY <1>4, KnownState DEF StoreError
  <2>2. Answered(x, "failed")
    BY <2>1, AnswerStep
  <2> QED
    BY <2>1, <2>2 DEF Answered, AnsweredRight
<1>5. ASSUME Crash
      PROVE  /\ Len(sent') = Len(sent)
             /\ \A n \in 1 .. Len(sent) :
                   /\ sent'[n].tenant = sent[n].tenant /\ sent'[n].batch = sent[n].batch
                   /\ AnsweredRight(n)
             /\ faults' = faults + 1
             /\ UNCHANGED <<deployment, store, rows>>
  BY <1>5, CrashStep DEF AnsweredRight
<1>6. CASE \/ \E tenant \in Tenant, page_size \in PageSizes : BeginReading(tenant, page_size)
           \/ \E tenant \in Tenant : Diagnosis(tenant)
           \/ ReadPage \/ Plan \/ Execute
  <2>1. UNCHANGED <<deployment, store, rows, sent, faults>>
    BY <1>6, ClientStep
  <2> QED
    BY <1>0, <2>1 DEF AnsweredRight, ExportsGrow
<1>7. CASE UNCHANGED vars
  BY <1>0, <1>7 DEF vars, AnsweredRight, ExportsGrow
<1>8. CASE Next
  <2>1. CASE \E x \in Exporter : \E tenant \in Tenant, batch \in Batches : BeginExport(x, tenant, batch)
    BY <1>1, <2>1
  <2>2. CASE \E x \in Exporter : AppendNext(x)
    BY <1>0, <1>2, <2>2 DEF AnsweredRight, ExportsGrow
  <2>3. CASE \E x \in Exporter : AnswerExport(x) \/ StoreError(x)
    BY <1>0, <1>3, <1>4, <2>3 DEF ExportsGrow
  <2>4. CASE Crash
    BY <1>0, <1>5, <2>4 DEF ExportsGrow
  <2> QED
    BY <1>6, <1>8, <2>1, <2>2, <2>3, <2>4 DEF Next
<1> QED
  BY <1>7, <1>8

(* An append writes an observation of a span of its export, and every ID    *)
(* that was stored still is.                                                *)
LEMMA AppendsItsSpan ==
    ASSUME TypeOK, DistinctInv, NEW x \in Exporter, AppendNext(x)
    PROVE  LET o == Mapping(x).observations[exports[x].next]
               e == exports[x].export
           IN  /\ e \in 1 .. Len(sent) /\ sent' = sent
               /\ \E span \in Range(sent[e].batch) : o = MapSpan(span, sent[e].tenant)
               /\ o \in Range(rows') /\ Range(rows') \subseteq Range(rows) \cup {o}
               /\ \A row \in Range(rows) : \E other \in Range(rows') : other.id = row.id
<1> DEFINE o == Mapping(x).observations[exports[x].next]
           e == exports[x].export
<1>1. /\ exports[x] # Idle /\ exports[x].next \in 1 .. Len(Mapping(x).observations)
      /\ o \in Storable /\ rows' = Written(o) /\ sent' = sent
  BY AppendStep
<1>2. /\ e \in 1 .. Len(sent) /\ sent[e].batch \in Batches /\ sent[e].tenant \in Tenant
      /\ DOMAIN Mapping(x).observations = 1 .. Len(Mapping(x).observations)
  BY <1>1, KnownHandler
<1>3. \E span \in Range(sent[e].batch) : o = MapSpan(span, sent[e].tenant)
  <2>1. exports[x].next \in DOMAIN MapRequest(sent[e].batch, sent[e].tenant).observations
    BY <1>1, <1>2 DEF Mapping
  <2>2. o = MapRequest(sent[e].batch, sent[e].tenant).observations[exports[x].next]
    BY DEF Mapping
  <2> HIDE DEF o, e
  <2> QED
    BY <1>2, <2>1, <2>2, MappedObservations
<1>4. /\ o \in Range(rows') /\ Range(rows') \subseteq Range(rows) \cup {o}
      /\ \A row \in Range(rows) : row \in Range(rows') \/ row.id = o.id
  BY <1>1, WrittenRows
<1> HIDE DEF o, e
<1>5. \A row \in Range(rows) : \E other \in Range(rows') : other.id = row.id
  BY <1>4
<1> QED
  BY <1>1, <1>2, <1>3, <1>4, <1>5 DEF o, e

LEMMA AccessKept == TypeOK /\ DistinctInv /\ AccessInv /\ [Next]_vars => AccessInv'
<1> SUFFICES ASSUME TypeOK, DistinctInv, AccessInv, [Next]_vars PROVE AccessInv'
  OBVIOUS
<1>1. ExportsGrow /\ Len(sent) \in Nat /\ DOMAIN sent = 1 .. Len(sent)
  BY ExportsStay, KnownState
<1>2. /\ DOMAIN sent \subseteq DOMAIN sent' /\ deployment' = deployment
      /\ \A n \in DOMAIN sent : sent'[n].tenant = sent[n].tenant /\ sent'[n].batch = sent[n].batch
      /\ \A n \in DOMAIN sent' : n \notin DOMAIN sent => ExportAuthorized(sent'[n].tenant)
      /\ rows' = rows \/ \E x \in Exporter : AppendNext(x)
  BY <1>1 DEF ExportsGrow
<1>3. ASSUME NEW n \in DOMAIN sent' PROVE ExportAuthorized(sent[n].tenant)'
  <2>1. ExportAuthorized(sent'[n].tenant)
    BY <1>2 DEF AccessInv
  <2> QED
    BY <1>2, <2>1 DEF ExportAuthorized
<1>4. ASSUME NEW row \in Range(rows), NEW n \in DOMAIN sent,
             NEW span \in Range(sent[n].batch), row = MapSpan(span, sent[n].tenant)
      PROVE  \E m \in DOMAIN sent' : \E s \in Range(sent'[m].batch) : row = MapSpan(s, sent'[m].tenant)
  BY <1>2, <1>4
<1>5. ASSUME NEW row \in Range(rows)
      PROVE  \E m \in DOMAIN sent' : \E s \in Range(sent'[m].batch) : row = MapSpan(s, sent'[m].tenant)
  BY <1>4 DEF AccessInv
<1>6. ASSUME NEW row \in Range(rows')
      PROVE  \E m \in DOMAIN sent' : \E s \in Range(sent'[m].batch) : row = MapSpan(s, sent'[m].tenant)
  <2>1. CASE rows' = rows
    BY <1>5, <2>1
  <2>2. ASSUME NEW x \in Exporter, AppendNext(x)
        PROVE  \E m \in DOMAIN sent' : \E s \in Range(sent'[m].batch) : row = MapSpan(s, sent'[m].tenant)
    <3> DEFINE o == Mapping(x).observations[exports[x].next]
               e == exports[x].export
    <3>1. /\ e \in 1 .. Len(sent) /\ sent' = sent
          /\ \E span \in Range(sent[e].batch) : o = MapSpan(span, sent[e].tenant)
          /\ Range(rows') \subseteq Range(rows) \cup {o}
      BY <2>2, AppendsItsSpan
    <3> HIDE DEF o, e
    <3>2. CASE row = o
      BY <1>1, <3>1, <3>2
    <3>3. CASE row # o
      BY <1>5, <3>1, <3>3
    <3> QED
      BY <3>2, <3>3
  <2> QED
    BY <1>2, <2>1, <2>2
<1> QED
  BY <1>3, <1>6 DEF AccessInv

LEMMA InvInit == Init => TypeOK /\ DistinctInv /\ AccessInv
<1> SUFFICES ASSUME Init PROVE AccessInv
  BY InitTypes
<1> QED
  BY DEF Init, AccessInv, Range

(* Access follows the keys, for every configuration and every request: who  *)
(* api_key_guard and the tenant checks let through has the key of the       *)
(* tenant or the global one, or none is configured outside production; and  *)
(* the store holds observations of tenants who could send them.             *)
THEOREM AccessFollowsKeysHolds == Spec => []AccessFollowsKeys
<1>1. ASSUME TypeOK, AccessInv PROVE AccessFollowsKeys
  <2>1. deployment \in Deployment
    BY <1>1, DeploymentsAssumption DEF TypeOK
  <2>2. ASSUME NEW row \in Range(rows) PROVE ExportAuthorized(row.tenant)
    <3>1. PICK n \in DOMAIN sent : \E span \in Range(sent[n].batch) : row = MapSpan(span, sent[n].tenant)
      BY <1>1 DEF AccessInv
    <3>2. row.tenant = sent[n].tenant
      BY <3>1 DEF MapSpan
    <3> QED
      BY <1>1, <3>2 DEF AccessInv
  <2> QED
    BY <2>1, <2>2, WhoIsAdmitted DEF AccessFollowsKeys
<1>2. TypeOK /\ DistinctInv /\ AccessInv /\ [Next]_vars => TypeOK' /\ DistinctInv' /\ AccessInv'
  BY TypeKept, AccessKept
<1> QED
  BY <1>1, <1>2, InvInit, PTL DEF Spec

-----------------------------------------------------------------------------
(* Spans are stored once, and only faults cost any.                         *)

Holds(tenant, span) == \E row \in Range(rows) :
    row.tenant = tenant /\ row.id = Identity(row.tenant, span)

(* A handler's observations up to its next are stored, of an export that    *)
(* was answered with 200 all are, and nothing failed without a fault.       *)
StoredInv ==
    /\ store = "sqlite" => IdsDiffer(rows)
    /\ \A x \in Exporter : exports[x] # Idle =>
          \A k \in DOMAIN Mapping(x).observations : k < exports[x].next =>
             \E row \in Range(rows) : row.id = Mapping(x).observations[k].id
    /\ \A n \in DOMAIN sent : sent[n].outcome = "accepted" =>
          \A span \in Range(sent[n].batch) : Rejection(span) = "none" => Holds(sent[n].tenant, span)
    /\ faults = 0 => \A n \in DOMAIN sent : sent[n].outcome # "failed"

(* Whose observations are all stored has stored every good span.            *)
LEMMA AllStored ==
    ASSUME TypeOK, StoredInv, NEW x \in Exporter, exports[x] # Idle,
           exports[x].next > Len(Mapping(x).observations),
           NEW span \in Range(sent[exports[x].export].batch), Rejection(span) = "none"
    PROVE  Holds(sent[exports[x].export].tenant, span)
<1> DEFINE e == exports[x].export
           tenant == sent[e].tenant
           batch == sent[e].batch
           observations == Mapping(x).observations
<1>1. /\ batch \in Batches /\ tenant \in Tenant
      /\ DOMAIN observations = 1 .. Len(observations) /\ Len(observations) \in Nat
      /\ exports[x].next \in Nat
  BY KnownHandler
<1>2. observations = MapRequest(batch, tenant).observations
  BY DEF Mapping
<1>3. span \in Range(batch)
  OBVIOUS
<1>4. span \in Spans
  BY <1>1, <1>3, SpansOfBatches
<1> HIDE DEF e, tenant, batch, observations
<1>5. PICK k \in DOMAIN observations : observations[k] = MapSpan(span, tenant)
  BY <1>1, <1>2, <1>3, MappedObservations
<1>6. k < exports[x].next
  <2>1. exports[x].next > Len(observations)
    BY DEF observations
  <2> QED
    BY <1>1, <1>5, <2>1
<1>7. PICK row \in Range(rows) : row.id = observations[k].id
  BY <1>5, <1>6 DEF StoredInv, observations
<1>8. row.id = <<tenant, span.span>>
  BY <1>1, <1>4, <1>5, <1>7, ObservationTypes
<1>9. row.tenant = tenant
  BY <1>8, KnownState, ObservationFields
<1> QED
  BY <1>8, <1>9 DEF Holds, Identity, tenant, e

(* What is stored stays, under its ID.                                      *)
LEMMA RowsStay ==
    ASSUME TypeOK, DistinctInv, [Next]_vars
    PROVE  /\ \A row \in Range(rows) : \E other \in Range(rows') :
                 other.id = row.id /\ other.tenant = row.tenant
           /\ store = "sqlite" /\ IdsDiffer(rows) => IdsDiffer(rows')
<1>1. rows' = rows \/ \E x \in Exporter : AppendNext(x)
  BY ExportsStay DEF ExportsGrow
<1>2. ASSUME NEW x \in Exporter, AppendNext(x)
      PROVE  /\ \A row \in Range(rows) : \E other \in Range(rows') :
                    other.id = row.id /\ other.tenant = row.tenant
             /\ store = "sqlite" /\ IdsDiffer(rows) => IdsDiffer(rows')
  <2> DEFINE o == Mapping(x).observations[exports[x].next]
  <2>1. o \in Storable /\ rows' = Written(o)
    BY <1>2, AppendStep
  <2> HIDE DEF o
  <2>2. /\ o \in Range(rows')
        /\ \A row \in Range(rows) : row \in Range(rows') \/ row.id = o.id
        /\ store = "sqlite" /\ IdsDiffer(rows) => IdsDiffer(rows')
    BY <2>1, WrittenRows
  <2>3. \A row \in Range(rows) : row.id = o.id => row.tenant = o.tenant
    BY <2>1, KnownState, ObservationFields
  <2> QED
    BY <2>2, <2>3
<1> QED
  BY <1>1, <1>2

(* A handler is at its place, or has one more of its observations stored.   *)
LEMMA HandlersStay ==
    ASSUME TypeOK, DistinctInv, [Next]_vars, NEW y \in Exporter, exports'[y] # Idle
    PROVE  \/ /\ exports[y] # Idle /\ exports'[y] = exports[y] /\ Mapping(y)' = Mapping(y)
           \/ /\ exports[y] # Idle /\ AppendNext(y) /\ Mapping(y)' = Mapping(y)
              /\ exports'[y].next = exports[y].next + 1
           \/ exports'[y].next = 1
<1>1. ASSUME NEW x \in Exporter, NEW tenant \in Tenant, NEW batch \in Batches,
             BeginExport(x, tenant, batch)
      PROVE  \/ exports[y] # Idle /\ exports'[y] = exports[y] /\ Mapping(y)' = Mapping(y)
             \/ exports'[y].next = 1
  <2>1. /\ \A n \in 1 .. Len(sent) : sent'[n] = sent[n]
        /\ exports'[x] = [state |-> "appending", export |-> Len(sent) + 1, next |-> 1]
        /\ \A z \in Exporter : z # x => exports'[z] = exports[z]
    BY <1>1, BeginStep
  <2>2. CASE y # x
    <3>1. exports[y] # Idle /\ exports'[y] = exports[y]
      BY <2>1, <2>2
    <3>2. sent'[exports[y].export] = sent[exports[y].export]
      BY <2>1, <3>1, KnownHandler
    <3> QED
      BY <3>1, <3>2, MappingStays
  <2>3. CASE y = x
    BY <2>1, <2>3
  <2> QED
    BY <2>2, <2>3
<1>2. ASSUME NEW x \in Exporter, AppendNext(x)
      PROVE  /\ exports[y] # Idle /\ Mapping(y)' = Mapping(y)
             /\ exports'[y] = exports[y] \/ (AppendNext(y) /\ exports'[y].next = exports[y].next + 1)
  <2>1. /\ exports[x] # Idle /\ sent' = sent
        /\ exports'[x] = [state |-> "appending", export |-> exports[x].export, next |-> exports[x].next + 1]
        /\ \A z \in Exporter : z # x => exports'[z] = exports[z]
    BY <1>2, AppendStep
  <2> QED
    BY <1>2, <2>1 DEF Mapping
<1>3. ASSUME NEW x \in Exporter, AnswerExport(x) \/ StoreError(x)
      PROVE  exports[y] # Idle /\ exports'[y] = exports[y] /\ Mapping(y)' = Mapping(y)
  <2>1. PICK outcome \in {"accepted", "failed"} : exports[x] # Idle /\ Answer(x, outcome)
    BY <1>3, KnownState DEF AnswerExport, StoreError
  <2> QED
    BY <2>1, AnsweredHandlers
<1>4. CASE Crash
  BY <1>4, CrashStep
<1>5. CASE UNCHANGED <<exports, sent>>
  BY <1>5 DEF Mapping
<1>6. CASE \/ \E tenant \in Tenant, page_size \in PageSizes : BeginReading(tenant, page_size)
           \/ \E tenant \in Tenant : Diagnosis(tenant)
           \/ ReadPage \/ Plan \/ Execute
  <2>1. UNCHANGED <<exports, sent>>
    BY <1>6, ClientStep
  <2> QED
    BY <1>5, <2>1
<1>7. CASE \E x \in Exporter :
              \/ \E tenant \in Tenant, batch \in Batches : BeginExport(x, tenant, batch)
              \/ AppendNext(x)
              \/ AnswerExport(x)
              \/ StoreError(x)
  BY <1>1, <1>2, <1>3, <1>7
<1> QED
  BY <1>4, <1>5, <1>6, <1>7 DEF Next, vars

LEMMA StoredKept == TypeOK /\ DistinctInv /\ StoredInv /\ [Next]_vars => StoredInv'
<1> SUFFICES ASSUME TypeOK, DistinctInv, StoredInv, [Next]_vars PROVE StoredInv'
  OBVIOUS
<1>1. /\ DOMAIN sent \subseteq DOMAIN sent' /\ store' = store /\ faults' \in {faults, faults + 1}
      /\ \A n \in DOMAIN sent :
            sent'[n].tenant = sent[n].tenant /\ sent'[n].batch = sent[n].batch /\ AnsweredRight(n)
      /\ \A n \in DOMAIN sent' : n \notin DOMAIN sent => sent'[n].outcome = "open"
  BY ExportsStay DEF ExportsGrow
<1>2. /\ \A row \in Range(rows) : \E other \in Range(rows') :
            other.id = row.id /\ other.tenant = row.tenant
      /\ store = "sqlite" /\ IdsDiffer(rows) => IdsDiffer(rows')
  BY RowsStay
<1>3. store' = "sqlite" => IdsDiffer(rows')
  BY <1>1, <1>2 DEF StoredInv
<1>4. ASSUME NEW x \in Exporter, exports'[x] # Idle,
             NEW k \in DOMAIN Mapping(x)'.observations, k < exports'[x].next
      PROVE  \E row \in Range(rows') : row.id = Mapping(x)'.observations[k].id
  <2>1. CASE exports[x] # Idle /\ exports'[x] = exports[x] /\ Mapping(x)' = Mapping(x)
    BY <1>2, <1>4, <2>1 DEF StoredInv
  <2>2. CASE /\ exports[x] # Idle /\ AppendNext(x) /\ Mapping(x)' = Mapping(x)
             /\ exports'[x].next = exports[x].next + 1
    <3>1. k \in Nat /\ exports[x].next \in Nat
      <4>1. k \in DOMAIN Mapping(x).observations
        BY <1>4, <2>2
      <4>2. /\ DOMAIN Mapping(x).observations = 1 .. Len(Mapping(x).observations)
            /\ exports[x].next \in Nat \ {0}
        BY <2>2, KnownHandler
      <4> QED
        BY <4>1, <4>2
    <3>2. CASE k = exports[x].next
      <4>1. Mapping(x).observations[exports[x].next] \in Range(rows')
        BY <2>2, AppendsItsSpan
      <4> QED
        BY <2>2, <3>2, <4>1
    <3>3. CASE k # exports[x].next
      <4>1. k < exports[x].next
        BY <1>4, <2>2, <3>1, <3>3
      <4> QED
        BY <1>2, <1>4, <2>2, <4>1 DEF StoredInv
    <3> QED
      BY <3>2, <3>3
  <2>3. CASE exports'[x].next = 1
    <3>1. TypeOK'
      BY TypeKept
    <3>2. DOMAIN Mapping(x)'.observations = 1 .. Len(Mapping(x)'.observations)
      <4>1. sent'[exports'[x].export] \in Exports
        BY <1>4, <3>1, ElementOfSeq, LenProperties DEF TypeOK
      <4>2. Mapping(x)'.observations \in Seq(Storable)
        BY <4>1, MappedObservations DEF Mapping, Exports
      <4> QED
        BY <4>2, LenProperties
    <3> QED
      BY <1>4, <2>3, <3>2
  <2> QED
    BY <1>4, <2>1, <2>2, <2>3, HandlersStay
<1>5. ASSUME NEW n \in DOMAIN sent', sent'[n].outcome = "accepted",
             NEW span \in Range(sent'[n].batch), Rejection(span) = "none"
      PROVE  \E row \in Range(rows') : row.tenant = sent'[n].tenant /\ row.id = Identity(row.tenant, span)
  <2>1. n \in DOMAIN sent
    BY <1>1, <1>5
  <2>2. /\ sent'[n].tenant = sent[n].tenant /\ sent'[n].batch = sent[n].batch /\ AnsweredRight(n)
    BY <1>1, <2>1
  <2>3. Holds(sent[n].tenant, span)
    <3>1. CASE sent[n].outcome = "accepted"
      BY <1>5, <2>1, <2>2, <3>1 DEF StoredInv
    <3>2. CASE \E x \in Exporter : /\ exports[x] # Idle /\ exports[x].export = n
                                   /\ exports[x].next > Len(Mapping(x).observations)
      BY <1>5, <2>2, <3>2, AllStored
    <3> QED
      BY <1>5, <2>2, <3>1, <3>2 DEF AnsweredRight
  <2> QED
    BY <1>2, <2>2, <2>3 DEF Holds
<1>6. ASSUME faults' = 0, NEW n \in DOMAIN sent' PROVE sent'[n].outcome # "failed"
  <2>0. faults \in Nat
    BY TracingBoundAssumption DEF TypeOK
  <2>1. faults = 0 /\ faults' # faults + 1
    BY <1>1, <1>6, <2>0
  <2>2. CASE n \in DOMAIN sent
    BY <1>1, <2>1, <2>2 DEF StoredInv, AnsweredRight
  <2>3. CASE n \notin DOMAIN sent
    BY <1>1, <2>3
  <2> QED
    BY <2>2, <2>3
<1> QED
  BY <1>3, <1>4, <1>5, <1>6 DEF StoredInv, Holds

LEMMA StoredInit == Init => StoredInv
<1> SUFFICES ASSUME Init PROVE StoredInv
  OBVIOUS
<1>1. DOMAIN rows = {} /\ DOMAIN sent = {} /\ \A x \in Exporter : exports[x] = Idle
  BY DEF Init
<1> QED
  BY <1>1 DEF StoredInv, IdsDiffer

(* Every good span of a trace that was answered with 200 is stored, on      *)
(* SQLite once, and nothing else is: for every trace and every number of    *)
(* requests that fail, come again or run at the same time (map_span's IDs,  *)
(* INSERT OR REPLACE, accept_observations).                                 *)
THEOREM SpanStoredOnceHolds == Spec => []SpanStoredOnce
<1>1. ASSUME AccessInv, StoredInv PROVE SpanStoredOnce
  BY <1>1 DEF AccessInv, StoredInv, Holds, IdsDiffer, SpanStoredOnce
<1>2. TypeOK /\ DistinctInv /\ AccessInv /\ StoredInv /\ [Next]_vars
         => TypeOK' /\ DistinctInv' /\ AccessInv' /\ StoredInv'
  BY TypeKept, AccessKept, StoredKept
<1> QED
  BY <1>1, <1>2, InvInit, StoredInit, PTL DEF Spec

(* A bad span costs the good ones nothing, for every trace: an export fails *)
(* only by a fault, and what map_span rejects is what no observation can be *)
(* made of, for every length of a unit and of a day.                        *)
THEOREM BadSpansSpareTheRestHolds == Spec => []BadSpansSpareTheRest
<1>1. ASSUME TypeOK, StoredInv PROVE BadSpansSpareTheRest
  <2>1. ASSUME NEW n \in DOMAIN sent, NEW span \in Range(sent[n].batch) PROVE span \in Span
    <3>1. sent[n].batch \in Batches
      BY <1>1, KnownState DEF Exports
    <3> QED
      BY <2>1, <3>1, SpansOfBatches
  <2> QED
    BY <1>1, <2>1, GoodSpans DEF StoredInv, BadSpansSpareTheRest
<1>2. TypeOK /\ DistinctInv /\ StoredInv /\ [Next]_vars => TypeOK' /\ DistinctInv' /\ StoredInv'
  BY TypeKept, StoredKept
<1> QED
  BY <1>1, <1>2, InitTypes, StoredInit, PTL DEF Spec

-----------------------------------------------------------------------------
(* Evidence.                                                                *)

LEMMA StoredGrows ==
    ASSUME TypeOK, DistinctInv, [Next]_vars, NEW tenant
    PROVE  Stored(tenant) \subseteq Stored(tenant)'
<1>1. TypeOK'
  BY TypeKept
<1>2. rows' \in Seq(Observations)
  BY <1>1 DEF TypeOK
<1>3. Of(rows', tenant) \in Seq(Observations)
      /\ Range(Of(rows', tenant)) = {row \in Range(rows') : row.tenant = tenant}
  BY <1>2, QueriedItems
<1>4. Stored(tenant)' = {row.id : row \in Range(Of(rows', tenant))}
  BY <1>3, QueriedItems DEF Stored
<1>5. ASSUME NEW id \in Stored(tenant) PROVE id \in Stored(tenant)'
  <2>1. PICK row \in Range(rows) : row.tenant = tenant /\ row.id = id
    BY TenantEvidence
  <2>2. PICK other \in Range(rows') : other.id = row.id /\ other.tenant = row.tenant
    BY RowsStay
  <2> QED
    BY <1>3, <1>4, <2>1, <2>2
<1> QED
  BY <1>5

(* What an agent was told is stored from then on.                           *)
EvidenceInv ==
    /\ client.state \in {"diagnosed", "planned", "executed"} => client.finding \subseteq Stored(client.tenant)
    /\ EvidenceOutlastsWrites

LEMMA EvidenceKept == TypeOK /\ DistinctInv /\ EvidenceInv /\ [Next]_vars => EvidenceInv'
<1> SUFFICES ASSUME TypeOK, DistinctInv, EvidenceInv, [Next]_vars PROVE EvidenceInv'
  OBVIOUS
<1>1. ASSUME UNCHANGED client PROVE EvidenceInv'
  <2>1. Stored(client.tenant) \subseteq Stored(client.tenant)'
    <3>1. PICK tenant : tenant = client.tenant
      OBVIOUS
    <3>2. Stored(tenant) \subseteq Stored(tenant)'
      BY StoredGrows
    <3> QED
      BY <1>1, <3>1, <3>2 DEF Stored
  <2> QED
    BY <1>1, <2>1 DEF EvidenceInv, EvidenceOutlastsWrites
<1>2. ASSUME NEW tenant \in Tenant, NEW page_size \in PageSizes, BeginReading(tenant, page_size)
      PROVE  EvidenceInv'
  <2>1. client'.state = "reading"
    BY <1>2 DEF BeginReading
  <2> QED
    BY <2>1 DEF EvidenceInv, EvidenceOutlastsWrites
<1>3. CASE ReadPage
  <2>1. client'.state \in {"reading", "read"}
    BY <1>3, PageStep
  <2> QED
    BY <2>1 DEF EvidenceInv, EvidenceOutlastsWrites
<1>4. ASSUME NEW tenant \in Tenant, Diagnosis(tenant) PROVE EvidenceInv'
  <2>1. client' = [state |-> "diagnosed", tenant |-> tenant, finding |-> Range(Diagnose(tenant, Listed))]
        /\ rows' = rows
    BY <1>4 DEF Diagnosis
  <2>2. Range(Diagnose(tenant, Listed)) \subseteq Stored(tenant)
    BY TenantEvidence
  <2>3. client'.state = "diagnosed" /\ client'.finding \subseteq Stored(tenant) /\ client'.tenant = tenant
    BY <2>1, <2>2
  <2> QED
    BY <2>1, <2>3 DEF EvidenceInv, EvidenceOutlastsWrites, Stored
<1>5. CASE Plan
  <2>1. /\ client.state = "diagnosed" /\ client.finding \subseteq Stored(client.tenant) /\ rows' = rows
    BY <1>5 DEF Plan, EvidenceInv
  <2>2. PICK ids \in {client.finding, Identities} :
           client' = [state |-> "planned", tenant |-> client.tenant, finding |-> client.finding,
                      plan |-> PlanAgentRequest(client.tenant, ids, Listed)]
    BY <1>5 DEF Plan
  <2> DEFINE plan == PlanAgentRequest(client.tenant, ids, Listed)
  <2>3. plan.evidence = Ids(Named(Listed, client.tenant, ids))
    BY DEF PlanAgentRequest
  <2>4. Range(plan.evidence) = Stored(client.tenant) \cap ids /\ Stored(client.tenant) \subseteq Identities
    BY <2>3, TenantEvidence
  <2> HIDE DEF plan
  <2>5. client'.state = "planned" /\ client'.tenant = client.tenant /\ client'.finding = client.finding
        /\ client'.plan = plan
    BY <2>2 DEF plan
  <2>6. client.finding \subseteq Range(plan.evidence) /\ Range(plan.evidence) \subseteq Stored(client.tenant)
    BY <2>1, <2>2, <2>4
  <2> QED
    BY <2>1, <2>5, <2>6 DEF EvidenceInv, EvidenceOutlastsWrites, Stored
<1>6. CASE Execute
  <2> DEFINE ids == Range(client.plan.evidence)
             result == ExecuteSafeTool(client.tenant, client.plan.tool, ids, TRUE, Listed)
  <2>1. /\ client.state = "planned" /\ client \in Planned /\ rows' = rows
        /\ client' = [state |-> "executed", tenant |-> client.tenant, finding |-> client.finding,
                      plan |-> client.plan, result |-> result]
    BY <1>6, ClientKinds DEF Execute
  <2>2. client.finding \subseteq ids /\ ids \subseteq Stored(client.tenant)
    BY <2>1 DEF EvidenceInv, EvidenceOutlastsWrites
  <2>3. client.plan.tool \in SafeTools
    BY <2>1 DEF Planned, Plans
  <2>4. result.status = "completed" /\ result.evidence = Ids(Named(Listed, client.tenant, ids))
    BY <2>3 DEF ExecuteSafeTool
  <2> HIDE DEF ids
  <2>5. Range(Ids(Named(Listed, client.tenant, ids))) = Stored(client.tenant) \cap ids
    BY TenantEvidence
  <2> HIDE DEF result
  <2>6. /\ client'.state = "executed" /\ client'.tenant = client.tenant /\ client'.finding = client.finding
        /\ client'.plan = client.plan /\ client'.result = result
    BY <2>1
  <2>7. Range(result.evidence) = ids
    BY <2>2, <2>4, <2>5
  <2> QED
    BY <2>1, <2>2, <2>4, <2>6, <2>7 DEF EvidenceInv, EvidenceOutlastsWrites, Stored, ids
<1>7. CASE \/ \E x \in Exporter :
                 \/ \E tenant \in Tenant, batch \in Batches : BeginExport(x, tenant, batch)
                 \/ AppendNext(x)
                 \/ AnswerExport(x)
                 \/ StoreError(x)
           \/ Crash
  <2>1. UNCHANGED client
    BY <1>7 DEF BeginExport, AppendNext, AnswerExport, StoreError, Crash
  <2> QED
    BY <1>1, <2>1
<1>8. CASE UNCHANGED vars
  BY <1>1, <1>8 DEF vars
<1> QED
  BY <1>2, <1>3, <1>4, <1>5, <1>6, <1>7, <1>8 DEF Next

(* What a diagnosis names is still there when the plan about it is made and *)
(* when its tool runs, for every number of writes between the requests, on  *)
(* both stores.                                                             *)
THEOREM EvidenceOutlastsWritesHolds == Spec => []EvidenceOutlastsWrites
<1>1. Init => EvidenceInv
  BY DEF Init, Idle, EvidenceInv, EvidenceOutlastsWrites
<1>2. EvidenceInv => EvidenceOutlastsWrites
  BY DEF EvidenceInv
<1>3. TypeOK /\ DistinctInv /\ EvidenceInv /\ [Next]_vars => TypeOK' /\ DistinctInv' /\ EvidenceInv'
  BY TypeKept, EvidenceKept
<1> QED
  BY <1>1, <1>2, <1>3, InitTypes, PTL DEF Spec

-----------------------------------------------------------------------------
(* Pages.                                                                   *)

OfTenant(items, tenant) == {i \in DOMAIN items : items[i].tenant = tenant}

(* How many of the tenant's are not later than i: where i is in the tenant's*)
(* list by start, the first being at one.                                   *)
NotAfter(items, tenant, i) == {j \in OfTenant(items, tenant) : NotLater(items, j, i)}
Position(items, tenant, i) == Cardinality(NotAfter(items, tenant, i))

LEMMA NotAfterFinite ==
    ASSUME NEW items \in Seq(Observations), NEW tenant, NEW i \in OfTenant(items, tenant)
    PROVE  /\ IsFiniteSet(NotAfter(items, tenant, i))
           /\ Position(items, tenant, i) \in Nat \ {0}
<1>1. DOMAIN items = 1 .. Len(items) /\ Len(items) \in Nat
  BY LenProperties
<1>2. IsFiniteSet(1 .. Len(items)) /\ NotAfter(items, tenant, i) \in SUBSET (1 .. Len(items))
  BY <1>1, FS_Interval DEF NotAfter, OfTenant
<1>3. IsFiniteSet(NotAfter(items, tenant, i))
  BY <1>2, FS_Subset
<1>4. i \in NotAfter(items, tenant, i)
  BY <1>1 DEF NotAfter, NotLater, OfTenant
<1> QED
  BY <1>3, <1>4, FS_CardinalityType, FS_EmptySet DEF Position

(* f takes each of the items to its place in another list of them, in the   *)
(* same order by start.                                                     *)
InOrder(old, new, tenant, f) ==
    /\ f \in [OfTenant(old, tenant) -> OfTenant(new, tenant)]
    /\ \A i, j \in OfTenant(old, tenant) : f[i] = f[j] => i = j
    /\ \A i \in OfTenant(old, tenant) : new[f[i]].id = old[i].id
    /\ \A i, j \in OfTenant(old, tenant) : NotLater(old, i, j) => NotLater(new, f[i], f[j])

(* Nobody comes forward then.                                               *)
LEMMA PositionsGrow ==
    ASSUME NEW old \in Seq(Observations), NEW new \in Seq(Observations), NEW tenant, NEW f,
           InOrder(old, new, tenant, f), NEW i \in OfTenant(old, tenant)
    PROVE  Position(old, tenant, i) <= Position(new, tenant, f[i])
<1> DEFINE before == NotAfter(old, tenant, i)
           after == NotAfter(new, tenant, f[i])
           g == [j \in before |-> f[j]]
<1>1. f[i] \in OfTenant(new, tenant)
  BY DEF InOrder
<1>2. IsFiniteSet(after)
  BY <1>1, NotAfterFinite
<1>3. \A j \in before : f[j] \in after
  BY DEF InOrder, NotAfter
<1>4. \A j, k \in before : f[j] = f[k] => j = k
  BY DEF InOrder, NotAfter
<1> HIDE DEF before, after
<1>5. g \in Injection(before, after)
  BY <1>3, <1>4 DEF Injection, IsInjective
<1>6. Cardinality(before) <= Cardinality(after)
  BY <1>2, <1>5, FS_Injection
<1> QED
  BY <1>6 DEF before, after, Position

-----------------------------------------------------------------------------
(* place tells where the tenant's items are in a list of them all.          *)
InPlace(items, tenant, list, place) ==
    /\ place \in [OfTenant(items, tenant) -> DOMAIN list]
    /\ \A i \in OfTenant(items, tenant) : list[place[i]] = items[i]
    /\ \A i, j \in OfTenant(items, tenant) : NotLater(items, i, j) <=> place[i] <= place[j]
    /\ \A n \in DOMAIN list : \E i \in OfTenant(items, tenant) : place[i] = n

(* Such a place is the number of those not later.                           *)
LEMMA PlaceIsPosition ==
    ASSUME NEW items \in Seq(Observations), NEW list \in Seq(Observations), NEW tenant, NEW place,
           InPlace(items, tenant, list, place), NEW i \in OfTenant(items, tenant)
    PROVE  place[i] = Position(items, tenant, i)
<1> DEFINE before == NotAfter(items, tenant, i)
           n == place[i]
           g == [j \in before |-> place[j]]
<1>1. DOMAIN list = 1 .. Len(list) /\ Len(list) \in Nat /\ n \in 1 .. Len(list)
  BY LenProperties DEF InPlace
<1>2. /\ DOMAIN items = 1 .. Len(items) /\ Len(items) \in Nat
      /\ \A j \in DOMAIN items : items[j].started \in Int
  BY LenProperties, ElementOfSeq, ObservationFields
<1>3. \A j \in before : j \in OfTenant(items, tenant) /\ place[j] \in 1 .. n
  <2>1. ASSUME NEW j \in before PROVE j \in OfTenant(items, tenant) /\ place[j] \in 1 .. n
    <3>1. j \in OfTenant(items, tenant) /\ place[j] <= place[i]
      BY DEF InPlace, NotAfter
    <3>2. place[j] \in 1 .. Len(list)
      BY <1>1, <3>1 DEF InPlace
    <3> QED
      BY <1>1, <3>1, <3>2
  <2> QED
    BY <2>1
<1>4. ASSUME NEW j \in OfTenant(items, tenant), NEW k \in OfTenant(items, tenant), place[j] = place[k]
      PROVE  j = k
  <2>1. place[j] \in Int /\ place[k] \in Int
    BY <1>1 DEF InPlace
  <2>2. NotLater(items, j, k) /\ NotLater(items, k, j)
    BY <1>4, <2>1 DEF InPlace
  <2>3. j \in Int /\ k \in Int /\ items[j].started \in Int /\ items[k].started \in Int
    BY <1>2 DEF OfTenant
  <2> QED
    BY <2>2, <2>3 DEF NotLater
<1>5. ASSUME NEW m \in 1 .. n PROVE \E j \in before : place[j] = m
  <2>1. m \in DOMAIN list
    BY <1>1
  <2>2. PICK j \in OfTenant(items, tenant) : place[j] = m
    BY <2>1 DEF InPlace
  <2>3. place[j] <= place[i]
    BY <1>1, <2>2
  <2>4. NotLater(items, j, i)
    BY <2>3 DEF InPlace
  <2> QED
    BY <2>2, <2>4 DEF NotAfter
<1>6. IsFiniteSet(before) /\ IsFiniteSet(1 .. n) /\ Cardinality(1 .. n) = n
  <2>1. IsFiniteSet(before)
    BY NotAfterFinite
  <2>2. n \in Nat \ {0}
    BY <1>1
  <2> HIDE DEF before, n
  <2>3. IsFiniteSet(1 .. n) /\ Cardinality(1 .. n) = n
    BY <2>2, FS_Interval
  <2> QED
    BY <2>1, <2>3
<1> HIDE DEF before, n
<1>7. g \in Bijection(before, 1 .. n)
  BY <1>3, <1>4, <1>5 DEF Bijection, Injection, Surjection, IsInjective
<1>8. ExistsBijection(before, 1 .. n)
  BY <1>7 DEF ExistsBijection
<1>9. Cardinality(1 .. n) = Cardinality(before)
  BY <1>6, <1>8, FS_Bijection
<1> QED
  BY <1>6, <1>9 DEF before, n, Position

(* The tenant's list by start has each of the stored ones at its position.  *)
LEMMA ListedInPlace ==
    ASSUME TypeOK, NEW tenant
    PROVE  /\ SortedByStart(Of(Listed, tenant)) \in Seq(Observations)
           /\ \E place : InPlace(rows, tenant, SortedByStart(Of(Listed, tenant)), place)
<1> DEFINE listed == Listed
           S == {n \in DOMAIN listed : listed[n].tenant = tenant}
           mine == Of(listed, tenant)
           sorted == SortedByStart(mine)
           T == OfTenant(rows, tenant)
<1>1. rows \in Seq(Observations) /\ \A o \in Observations : o.started \in Int
  BY KnownState, ObservationFields
<1>2. listed \in Seq(Observations)
  BY ListedRows
<1>3. DOMAIN rows = 1 .. Len(rows) /\ \A i \in DOMAIN rows : rows[i].started \in Int
  BY <1>1, LenProperties, ElementOfSeq
<1>4. PICK p : /\ p \in [DOMAIN rows -> DOMAIN listed]
               /\ \A i \in DOMAIN rows : listed[p[i]] = rows[i]
               /\ \A i, j \in DOMAIN rows : NotLater(rows, i, j) <=> NotLater(listed, p[i], p[j])
               /\ \A n \in DOMAIN listed : \E i \in DOMAIN rows : p[i] = n
  <2>1. CASE store = "sqlite"
    <3>1. listed = SortedByStart(rows)
      BY <2>1 DEF Listed
    <3>2. PICK p : SortPlaced(rows, p)
      BY <1>1, SortedItems
    <3> HIDE DEF listed
    <3>3. /\ p \in [DOMAIN rows -> DOMAIN listed]
          /\ \A i \in DOMAIN rows : listed[p[i]] = rows[i]
          /\ \A i, j \in DOMAIN rows : NotLater(rows, i, j) <=> p[i] <= p[j]
          /\ \A n \in DOMAIN listed : \E i \in DOMAIN rows : p[i] = n
      BY <3>1, <3>2, Zenon DEF SortPlaced
    <3>4. ASSUME NEW i \in DOMAIN rows, NEW j \in DOMAIN rows
          PROVE  NotLater(rows, i, j) <=> NotLater(listed, p[i], p[j])
      <4>1. listed[p[i]].started = rows[i].started /\ listed[p[j]].started = rows[j].started
        BY <3>3
      <4>2. NotLater(rows, i, j) <=> p[i] <= p[j]
        BY <3>3
      <4>3. rows[i].started \in Int /\ rows[j].started \in Int
        BY <1>3
      <4> QED
        BY <4>1, <4>2, <4>3 DEF NotLater
    <3> QED
      BY <3>3, <3>4
  <2>2. CASE store # "sqlite"
    <3>1. listed = rows
      BY <2>2 DEF Listed
    <3> HIDE DEF listed
    <3> DEFINE same == [i \in DOMAIN rows |-> i]
    <3>2. /\ same \in [DOMAIN rows -> DOMAIN listed]
          /\ \A i \in DOMAIN rows : listed[same[i]] = rows[i]
          /\ \A i, j \in DOMAIN rows : NotLater(rows, i, j) <=> NotLater(listed, same[i], same[j])
          /\ \A n \in DOMAIN listed : \E i \in DOMAIN rows : same[i] = n
      BY <3>1
    <3> QED
      BY <3>2
  <2> QED
    BY <2>1, <2>2
<1> HIDE DEF listed
<1>5. mine = Those(listed, S) /\ S \in SUBSET DOMAIN listed
  BY DEF Of
<1>6. PICK q : ThosePlaced(listed, S, q)
  BY <1>2, <1>5, ThoseItems
<1>7. mine \in Seq(Observations)
  BY <1>2, <1>5, ThoseItems
<1> HIDE DEF mine
<1>8. PICK r : SortPlaced(mine, r)
  BY <1>1, <1>7, SortedItems
<1>9. sorted \in Seq(Observations)
  BY <1>1, <1>7, SortedItems
<1> HIDE DEF S, sorted, T
<1>10. /\ q \in [S -> DOMAIN mine]
       /\ \A m \in S : mine[q[m]] = listed[m]
       /\ \A m, n \in S : NotLater(listed, m, n) <=> NotLater(mine, q[m], q[n])
       /\ \A n \in DOMAIN mine : \E m \in S : q[m] = n
  <2>1. /\ q \in [S -> DOMAIN mine]
        /\ \A m \in S : mine[q[m]] = listed[m]
        /\ \A m, n \in S : m <= n <=> q[m] <= q[n]
        /\ \A n \in DOMAIN mine : \E m \in S : q[m] = n
    BY <1>5, <1>6, Zenon DEF ThosePlaced
  <2>2. ASSUME NEW m \in S, NEW n \in S
        PROVE  NotLater(listed, m, n) <=> NotLater(mine, q[m], q[n])
    <3>1. mine[q[m]] = listed[m] /\ mine[q[n]] = listed[n] /\ (m <= n <=> q[m] <= q[n])
      BY <2>1
    <3> QED
      BY <3>1 DEF NotLater
  <2> QED
    BY <2>1, <2>2
<1>11. /\ r \in [DOMAIN mine -> DOMAIN sorted]
       /\ \A m \in DOMAIN mine : sorted[r[m]] = mine[m]
       /\ \A m, n \in DOMAIN mine : NotLater(mine, m, n) <=> r[m] <= r[n]
       /\ \A n \in DOMAIN sorted : \E m \in DOMAIN mine : r[m] = n
  BY <1>8, Zenon DEF SortPlaced, sorted
<1>12. /\ \A i \in T : i \in DOMAIN rows /\ p[i] \in S
       /\ \A m \in S : \E i \in T : p[i] = m
  <2>1. ASSUME NEW i \in T PROVE i \in DOMAIN rows /\ p[i] \in S
    BY <1>4 DEF T, OfTenant, S
  <2>2. ASSUME NEW m \in S PROVE \E i \in T : p[i] = m
    <3>1. m \in DOMAIN listed /\ listed[m].tenant = tenant
      BY DEF S
    <3>2. PICK i \in DOMAIN rows : p[i] = m
      BY <1>4, <3>1
    <3>3. rows[i].tenant = tenant
      BY <1>4, <3>1, <3>2
    <3> QED
      BY <3>2, <3>3 DEF T, OfTenant
  <2> QED
    BY <2>1, <2>2
<1> DEFINE place == [i \in T |-> r[q[p[i]]]]
<1>13. place \in [T -> DOMAIN sorted]
  BY <1>10, <1>11, <1>12
<1>14. \A i \in T : sorted[place[i]] = rows[i]
  BY <1>4, <1>10, <1>11, <1>12
<1>15. ASSUME NEW i \in T, NEW j \in T PROVE NotLater(rows, i, j) <=> place[i] <= place[j]
  <2>1. NotLater(rows, i, j) <=> NotLater(listed, p[i], p[j])
    BY <1>4, <1>12
  <2>2. p[i] \in S /\ p[j] \in S
    BY <1>12
  <2>3. NotLater(listed, p[i], p[j]) <=> NotLater(mine, q[p[i]], q[p[j]])
    BY <1>10, <2>2
  <2>4. q[p[i]] \in DOMAIN mine /\ q[p[j]] \in DOMAIN mine
    BY <1>10, <2>2
  <2>5. NotLater(mine, q[p[i]], q[p[j]]) <=> r[q[p[i]]] <= r[q[p[j]]]
    BY <1>11, <2>4
  <2> QED
    BY <2>1, <2>3, <2>5
<1>16. \A n \in DOMAIN sorted : \E i \in T : place[i] = n
  <2>1. ASSUME NEW n \in DOMAIN sorted PROVE \E i \in T : place[i] = n
    <3>1. PICK m \in DOMAIN mine : r[m] = n
      BY <1>11
    <3>2. PICK k \in S : q[k] = m
      BY <1>10
    <3>3. PICK i \in T : p[i] = k
      BY <1>12
    <3> QED
      BY <3>1, <3>2, <3>3
  <2> QED
    BY <2>1
<1> HIDE DEF place
<1>17. InPlace(rows, tenant, sorted, place)
  BY <1>13, <1>14, <1>15, <1>16 DEF InPlace, T
<1> QED
  BY <1>9, <1>17 DEF sorted, mine, listed

-----------------------------------------------------------------------------
(* A write that moves nothing of the tenant takes none of its rows away and *)
(* puts none of them further to the front.                                  *)
LEMMA RowsInOrder ==
    ASSUME TypeOK, store = "sqlite" => IdsDiffer(rows), NEW o \in Storable, ~Moves(o), NEW tenant
    PROVE  \E f : InOrder(rows, Written(o), tenant, f)
<1> DEFINE before == Before(o)
           written == Written(o)
           last == Len(before) + 1
           T == OfTenant(rows, tenant)
<1>1. /\ rows \in Seq(Observations) /\ before \in Seq(Observations) /\ written = Append(before, o)
      /\ written \in Seq(Observations)
  <2>1. Storable \subseteq Observations
    BY KnownState
  <2>2. Seq(Storable) \subseteq Seq(Observations)
    BY <2>1
  <2> QED
    BY <2>2, KnownState, WrittenRows
<1>2. /\ DOMAIN rows = 1 .. Len(rows) /\ Len(rows) \in Nat
      /\ \A i \in DOMAIN rows : rows[i] \in Observations /\ rows[i].started \in Int
      /\ o \in Observations /\ o.started \in Int
  <2>1. DOMAIN rows = 1 .. Len(rows) /\ Len(rows) \in Nat /\ \A i \in DOMAIN rows : rows[i] \in Observations
    BY <1>1, LenProperties, ElementOfSeq
  <2>2. o \in Observations
    BY KnownState
  <2> QED
    BY <2>1, <2>2, ObservationFields
<1> HIDE DEF before
<1>3. /\ Len(before) \in Nat /\ DOMAIN before = 1 .. Len(before) /\ DOMAIN written = 1 .. last
      /\ last \in DOMAIN written /\ written[last] = o
      /\ \A n \in DOMAIN before : n \in DOMAIN written /\ written[n] = before[n] /\ n < last
  <2>1. /\ Len(before) \in Nat /\ DOMAIN before = 1 .. Len(before)
        /\ DOMAIN written = 1 .. Len(before) + 1
        /\ \A n \in 1 .. Len(before) : written[n] = before[n]
        /\ written[Len(before) + 1] = o
    BY <1>1, <1>2, AppendProperties, LenProperties
  <2> QED
    BY <2>1
<1> HIDE DEF written, last, T
<1>4. CASE store # "sqlite"
  <2>1. before = rows
    BY <1>4 DEF before, Before
  <2> DEFINE f == [i \in T |-> i]
  <2>2. \A i \in T : i \in DOMAIN written /\ written[i] = rows[i] /\ rows[i].tenant = tenant
    BY <1>3, <2>1 DEF T, OfTenant
  <2>3. f \in [T -> OfTenant(written, tenant)]
    BY <2>2 DEF OfTenant
  <2>4. \A i, j \in T : NotLater(rows, i, j) => NotLater(written, f[i], f[j])
    BY <2>2 DEF NotLater
  <2>5. \A i \in T : f[i] = i /\ written[f[i]].id = rows[i].id
    BY <2>2
  <2> HIDE DEF f
  <2>6. InOrder(rows, written, tenant, f)
    BY <2>3, <2>4, <2>5 DEF InOrder, T
  <2> QED
    BY <2>6 DEF written
<1>5. CASE store = "sqlite"
  <2>1. before = Those(rows, Others(o.id)) /\ Others(o.id) \in SUBSET DOMAIN rows
    BY <1>5 DEF before, Before, Others
  <2>2. PICK p : ThosePlaced(rows, Others(o.id), p)
    BY <1>1, <2>1, ThoseItems
  <2>3. /\ \A i \in Others(o.id) : p[i] \in DOMAIN before /\ before[p[i]] = rows[i]
        /\ \A i, j \in Others(o.id) : i <= j <=> p[i] <= p[j]
    BY <2>1, <2>2, Zenon DEF ThosePlaced
  <2> DEFINE f == [i \in T |-> IF rows[i].id = o.id THEN last ELSE p[i]]
  <2>4. /\ \A i \in T : i \in DOMAIN rows /\ i \in Int /\ rows[i].tenant = tenant /\ rows[i].started \in Int
        /\ \A i \in T : rows[i].id # o.id => i \in Others(o.id)
    BY <1>2 DEF T, OfTenant, Others
  <2>5. ASSUME NEW i \in T, rows[i].id = o.id
        PROVE  /\ f[i] = last /\ rows[i].started = o.started /\ o.tenant = tenant
               /\ \A j \in T : rows[j].id = o.id => j = i
               /\ \A j \in T : j # i => rows[j].started # o.started
    <3>1. f[i] = last
      BY <2>5
    <3>2. rows[i] \in Range(rows) /\ \A j \in T : rows[j] \in Range(rows)
      BY <2>4 DEF Range
    <3>3. \A j \in T : rows[j].id = o.id => j = i
      BY <1>5, <2>4, <2>5 DEF IdsDiffer
    <3>4. rows[i].started = o.started
      BY <1>5, <2>5, <3>2 DEF Moves
    <3>5. \A j \in T : j # i => rows[j] # rows[i]
      BY <2>5, <3>3
    <3>6. \A j \in T : j # i => rows[j].started # o.started
      BY <1>5, <2>4, <2>5, <3>2, <3>4, <3>5 DEF Moves
    <3>7. o.tenant = tenant
      BY <1>2, <2>4, <2>5, ObservationFields
    <3> QED
      BY <3>1, <3>3, <3>4, <3>6, <3>7
  <2>6. ASSUME NEW i \in T, rows[i].id # o.id
        PROVE  /\ f[i] = p[i] /\ f[i] \in DOMAIN before /\ f[i] < last
               /\ f[i] \in DOMAIN written /\ written[f[i]] = rows[i]
    <3>1. f[i] = p[i] /\ i \in Others(o.id)
      BY <2>4, <2>6
    <3>2. p[i] \in DOMAIN before /\ before[p[i]] = rows[i]
      BY <2>3, <3>1
    <3> QED
      BY <1>3, <3>1, <3>2
  <2> HIDE DEF f
  <2>7. \A i \in T : f[i] \in OfTenant(written, tenant) /\ written[f[i]].id = rows[i].id
                     /\ written[f[i]].started = rows[i].started
    BY <1>3, <2>4, <2>5, <2>6 DEF OfTenant
  <2>8. f \in [T -> OfTenant(written, tenant)]
    BY <2>7 DEF f
  <2>9. ASSUME NEW i \in T, NEW j \in T, rows[i].id # o.id, rows[j].id # o.id
        PROVE  i <= j <=> f[i] <= f[j]
    BY <2>3, <2>4, <2>6, <2>9
  <2>10. ASSUME NEW i \in T, NEW j \in T, f[i] = f[j] PROVE i = j
    <3>1. CASE rows[i].id = o.id
      <4>1. rows[j].id = o.id
        BY <1>3, <2>5, <2>6, <2>10, <3>1
      <4> QED
        BY <2>5, <3>1, <4>1
    <3>2. CASE rows[i].id # o.id
      <4>1. rows[j].id # o.id
        BY <1>3, <2>5, <2>6, <2>10, <3>2
      <4>2. f[i] \in Int /\ f[j] \in Int
        BY <1>3, <2>6, <3>2, <4>1
      <4>3. i <= j /\ j <= i
        BY <2>9, <2>10, <3>2, <4>1, <4>2
      <4> QED
        BY <2>4, <4>3
    <3> QED
      BY <3>1, <3>2
  <2>11. ASSUME NEW i \in T, NEW j \in T, NotLater(rows, i, j) PROVE NotLater(written, f[i], f[j])
    <3>1. written[f[i]].started = rows[i].started /\ written[f[j]].started = rows[j].started
      BY <2>7
    <3>2. CASE i = j
      <4>1. f[i] \in Int
        BY <1>3, <2>5, <2>6
      <4> QED
        BY <3>1, <3>2, <4>1 DEF NotLater
    <3>3. CASE i # j /\ (rows[i].id = o.id \/ rows[j].id = o.id)
      <4>1. rows[i].started # rows[j].started
        BY <2>5, <3>3
      <4> QED
        BY <2>11, <3>1, <4>1 DEF NotLater
    <3>4. CASE rows[i].id # o.id /\ rows[j].id # o.id
      BY <2>9, <2>11, <3>1, <3>4 DEF NotLater
    <3> QED
      BY <3>2, <3>3, <3>4
  <2>12. InOrder(rows, written, tenant, f)
    BY <2>7, <2>8, <2>10, <2>11 DEF InOrder, T
  <2> QED
    BY <2>12 DEF written
<1> QED
  BY <1>4, <1>5

-----------------------------------------------------------------------------
Size(size) == Largest(1, Smallest(size, Limit))

(* What is still to come: the tenant's past the pages before this one.      *)
ToCome(items, reader, id) ==
    \E i \in OfTenant(items, reader.tenant) :
       /\ items[i].id = id
       /\ (reader.page - 1) * Size(reader.size) < Position(items, reader.tenant, i)

(* What was there when the reader began was seen or is still to come.       *)
PagesInv ==
    /\ client.state = "reading" /\ ~moved =>
          \A id \in client.began \ client.seen : ToCome(rows, client, id)
    /\ PagesMissNothing

(* A page has the observations at its positions; past the last there is     *)
(* none.                                                                    *)
LEMMA PageOfPositions ==
    ASSUME TypeOK, NEW tenant, NEW page \in Nat \ {0}, NEW size \in Nat,
           NEW i \in OfTenant(rows, tenant), (page - 1) * Size(size) < Position(rows, tenant, i)
    PROVE  /\ FilterObservations(Listed, tenant, page, size, Limit) # <<>>
           /\ \/ rows[i].id \in Range(Ids(FilterObservations(Listed, tenant, page, size, Limit)))
              \/ (page + 1 - 1) * Size(size) < Position(rows, tenant, i)
<1> DEFINE sorted == SortedByStart(Of(Listed, tenant))
           at == Size(size)
           start == (page - 1) * at
           last == Smallest(start + at, Len(sorted))
           n == Position(rows, tenant, i)
           read == FilterObservations(Listed, tenant, page, size, Limit)
<1>1. rows \in Seq(Observations)
  BY KnownState
<1>2. sorted \in Seq(Observations)
  BY ListedInPlace
<1>3. PICK place : InPlace(rows, tenant, sorted, place)
  BY ListedInPlace
<1> HIDE DEF sorted
<1>4. n \in DOMAIN sorted /\ sorted[n] = rows[i]
  <2>1. place[i] = n
    BY <1>1, <1>2, <1>3, PlaceIsPosition
  <2> HIDE DEF n
  <2> QED
    BY <1>3, <2>1 DEF InPlace
<1>5. n \in 1 .. Len(sorted) /\ Len(sorted) \in Nat
  BY <1>2, <1>4, LenProperties
<1>6. at \in Nat \ {0}
  BY TracingBoundAssumption DEF Size, Largest, Smallest
<1>7. start \in Nat /\ (page + 1 - 1) * at = start + at
  <2> HIDE DEF at
  <2>1. PICK before \in Nat : page = before + 1
    <3>1. page - 1 \in Nat /\ page = (page - 1) + 1
      OBVIOUS
    <3> QED
      BY <3>1
  <2>2. before * at \in Nat /\ (before + 1) * at = before * at + at
    BY <1>6
  <2>3. page - 1 = before /\ page + 1 - 1 = before + 1
    BY <2>1
  <2> QED
    BY <2>2, <2>3
<1>8. read = SubSeq(sorted, start + 1, last)
  <2>1. Largest(1, page) = page
    BY DEF Largest
  <2> QED
    BY <2>1 DEF FilterObservations, sorted, at, start, last, Size
<1>9. start < n
  OBVIOUS
<1> HIDE DEF at, start, n
<1>10. last \in Int /\ last <= Len(sorted) /\ (last = start + at \/ last = Len(sorted))
  BY <1>5, <1>6, <1>7 DEF Smallest
<1>11. start + 1 <= last
  BY <1>5, <1>6, <1>7, <1>9, <1>10
<1> HIDE DEF last
<1>12. \A k \in start + 1 .. last : sorted[k] \in Observations
  BY <1>2, <1>5, <1>7, <1>10, ElementOfSeq
<1>13. /\ SubSeq(sorted, start + 1, last) \in Seq(Observations)
       /\ Len(SubSeq(sorted, start + 1, last)) = last - start
       /\ \A k \in 1 .. last - start : SubSeq(sorted, start + 1, last)[k] = sorted[start + k]
  <2>1. /\ SubSeq(sorted, start + 1, last) \in Seq(Observations)
        /\ Len(SubSeq(sorted, start + 1, last)) =
              IF start + 1 <= last THEN last - (start + 1) + 1 ELSE 0
        /\ \A k \in 1 .. last - (start + 1) + 1 :
              SubSeq(sorted, start + 1, last)[k] = sorted[(start + 1) + k - 1]
    BY <1>7, <1>10, <1>12, SubSeqProperties
  <2>2. last - (start + 1) + 1 = last - start /\ \A k \in Int : (start + 1) + k - 1 = start + k
    BY <1>7, <1>10
  <2> QED
    BY <1>11, <2>1, <2>2
<1> HIDE DEF read
<1>14. read \in Seq(Observations) /\ Len(read) = last - start
       /\ \A k \in 1 .. last - start : read[k] = sorted[start + k]
  BY <1>8, <1>13
<1>15. read # <<>>
  BY <1>7, <1>10, <1>11, <1>14
<1>16. CASE n <= start + at
  <2>1. n - start \in 1 .. last - start /\ start + (n - start) = n
    BY <1>5, <1>6, <1>7, <1>9, <1>10, <1>16
  <2>2. read[n - start] = rows[i]
    BY <1>4, <1>14, <2>1
  <2>3. n - start \in DOMAIN read
    BY <1>14, <2>1, LenProperties
  <2>4. rows[i].id \in Range(Ids(read))
    BY <2>2, <2>3 DEF Ids, Range
  <2> QED
    BY <1>15, <2>4 DEF read
<1>17. CASE start + at < n
  BY <1>7, <1>15, <1>17 DEF read, at, n
<1> QED
  BY <1>5, <1>6, <1>7, <1>16, <1>17

LEMMA PagesKept == TypeOK /\ DistinctInv /\ StoredInv /\ PagesInv /\ [Next]_vars => PagesInv'
<1> SUFFICES ASSUME TypeOK, DistinctInv, StoredInv, PagesInv, [Next]_vars PROVE PagesInv'
  OBVIOUS
<1>1. CASE UNCHANGED <<client, rows, moved>>
  BY <1>1 DEF PagesInv, PagesMissNothing
<1>2. ASSUME NEW x \in Exporter, AppendNext(x) PROVE PagesInv'
  <2> DEFINE o == Mapping(x).observations[exports[x].next]
  <2>1. /\ o \in Storable /\ rows' = Written(o) /\ UNCHANGED client
        /\ moved' = (moved \/ (client.state = "reading" /\ Moves(o)))
    BY <1>2, AppendStep DEF AppendNext, Storable
  <2> HIDE DEF o
  <2>2. ASSUME client.state = "reading", ~moved', NEW id \in client.began \ client.seen
        PROVE  ToCome(Written(o), client, id)
    <3>1. ~moved /\ ~Moves(o)
      BY <2>1, <2>2
    <3> DEFINE tenant == client.tenant
               past == (client.page - 1) * Size(client.size)
    <3>2. PICK i \in OfTenant(rows, tenant) : rows[i].id = id /\ past < Position(rows, tenant, i)
      BY <2>2, <3>1 DEF PagesInv, ToCome
    <3>3. client.page \in Nat \ {0} /\ client.size \in Nat
      BY <2>2, ClientKinds, TracingBoundAssumption DEF Readers
    <3>4. past \in Int
      <4>1. Size(client.size) \in Int
        BY <3>3, TracingBoundAssumption DEF Size, Largest, Smallest
      <4>2. client.page - 1 \in Int
        BY <3>3
      <4> QED
        BY <4>1, <4>2
    <3> HIDE DEF past, tenant
    <3>5. PICK f : InOrder(rows, Written(o), tenant, f)
      BY <2>1, <3>1, RowsInOrder DEF StoredInv
    <3>6. rows \in Seq(Observations) /\ Written(o) \in Seq(Observations)
      <4>1. Written(o) \in Seq(Storable) /\ Storable \subseteq Observations
        BY <2>1, KnownState, WrittenRows
      <4> QED
        BY <4>1, KnownState
    <3>7. f[i] \in OfTenant(Written(o), tenant) /\ Written(o)[f[i]].id = id
      BY <3>2, <3>5 DEF InOrder
    <3>8. Position(rows, tenant, i) <= Position(Written(o), tenant, f[i])
      BY <3>2, <3>5, <3>6, PositionsGrow
    <3>9. Position(rows, tenant, i) \in Int /\ Position(Written(o), tenant, f[i]) \in Int
      BY <3>2, <3>6, <3>7, NotAfterFinite
    <3>10. past < Position(Written(o), tenant, f[i])
      BY <3>2, <3>4, <3>8, <3>9
    <3> QED
      BY <3>7, <3>10 DEF ToCome, past, tenant
  <2>3. PagesMissNothing'
    BY <2>1 DEF PagesInv, PagesMissNothing
  <2> QED
    BY <2>1, <2>2, <2>3 DEF PagesInv
<1>3. ASSUME NEW tenant \in Tenant, NEW page_size \in PageSizes, BeginReading(tenant, page_size)
      PROVE  PagesInv'
  <2>1. /\ client'.state = "reading" /\ client'.tenant = tenant /\ client'.size = page_size
        /\ client'.page = 1 /\ client'.began = Stored(tenant) /\ client'.seen = {} /\ rows' = rows
    BY <1>3 DEF BeginReading
  <2>2. ASSUME NEW id \in Stored(tenant) PROVE ToCome(rows, client', id)
    <3>1. PICK row \in Range(rows) : row.tenant = tenant /\ row.id = id
      BY TenantEvidence
    <3>2. PICK i \in OfTenant(rows, tenant) : rows[i].id = id
      BY <3>1 DEF Range, OfTenant
    <3>3. Position(rows, tenant, i) \in Nat \ {0}
      BY <3>2, KnownState, NotAfterFinite
    <3>4. (1 - 1) * Size(page_size) = 0
      <4>1. Size(page_size) \in Int
        BY TracingBoundAssumption DEF Size, Largest, Smallest
      <4> QED
        BY <4>1
    <3>5. (1 - 1) * Size(page_size) < Position(rows, tenant, i)
      BY <3>3, <3>4
    <3> QED
      BY <2>1, <3>2, <3>5 DEF ToCome
  <2> QED
    BY <2>1, <2>2 DEF PagesInv, PagesMissNothing
<1>4. CASE ReadPage
  <2> DEFINE page == FilterObservations(Listed, client.tenant, client.page, client.size, Limit)
  <2>1. /\ client.state = "reading" /\ client \in Readers /\ UNCHANGED <<rows, moved>>
        /\ client'.tenant = client.tenant /\ client'.size = client.size /\ client'.began = client.began
        /\ \/ page = <<>> /\ client'.state = "read" /\ client'.page = client.page /\ client'.seen = client.seen
           \/ /\ page # <<>> /\ client'.state = "reading" /\ client'.page = client.page + 1
              /\ client'.seen = client.seen \cup Range(Ids(page))
    BY <1>4, PageStep DEF ReadPage
  <2>2. client.page \in Nat \ {0} /\ client.size \in Nat
    BY <2>1, TracingBoundAssumption DEF Readers
  <2>3. ASSUME ~moved, NEW id \in client.began \ client.seen
        PROVE  /\ page # <<>>
               /\ \/ id \in Range(Ids(page))
                  \/ \E i \in OfTenant(rows, client.tenant) :
                        /\ rows[i].id = id
                        /\ (client.page + 1 - 1) * Size(client.size) < Position(rows, client.tenant, i)
    <3>1. PICK i \in OfTenant(rows, client.tenant) :
             rows[i].id = id /\ (client.page - 1) * Size(client.size) < Position(rows, client.tenant, i)
      BY <2>1, <2>3 DEF PagesInv, ToCome
    <3> QED
      BY <2>2, <3>1, PageOfPositions
  <2> HIDE DEF page
  <2>4. CASE page = <<>>
    <3>1. ~moved => client.began \subseteq client.seen
      BY <2>3, <2>4
    <3> QED
      BY <2>1, <2>4, <3>1 DEF PagesInv, PagesMissNothing
  <2>5. CASE page # <<>>
    <3>1. ASSUME ~moved, NEW id \in client'.began \ client'.seen PROVE ToCome(rows, client', id)
      <4>1. id \in client.began \ client.seen /\ id \notin Range(Ids(page))
        BY <2>1, <2>5, <3>1
      <4>2. PICK i \in OfTenant(rows, client.tenant) :
               /\ rows[i].id = id
               /\ (client.page + 1 - 1) * Size(client.size) < Position(rows, client.tenant, i)
        BY <2>3, <3>1, <4>1
      <4>3. /\ client'.page - 1 = client.page + 1 - 1
            /\ client'.tenant = client.tenant /\ client'.size = client.size
        BY <2>1, <2>2, <2>5
      <4>4. (client'.page - 1) * Size(client'.size) < Position(rows, client'.tenant, i)
        BY <4>2, <4>3, Zenon
      <4>5. i \in OfTenant(rows, client'.tenant)
        BY <4>3
      <4> QED
        BY <4>2, <4>4, <4>5 DEF ToCome
    <3>2. client'.state = "reading" /\ moved' = moved /\ rows' = rows
      BY <2>1, <2>5
    <3> QED
      BY <3>1, <3>2 DEF PagesInv, PagesMissNothing
  <2> QED
    BY <2>4, <2>5
<1>5. CASE Plan \/ Execute \/ \E tenant \in Tenant : Diagnosis(tenant)
  <2>1. client'.state \in {"diagnosed", "planned", "executed"}
    <3>1. CASE Plan
      BY <3>1 DEF Plan
    <3>2. CASE Execute
      BY <3>2 DEF Execute
    <3>3. CASE \E tenant \in Tenant : Diagnosis(tenant)
      BY <3>3 DEF Diagnosis
    <3> QED
      BY <1>5, <3>1, <3>2, <3>3
  <2> QED
    BY <2>1 DEF PagesInv, PagesMissNothing
<1>6. CASE \/ \E x \in Exporter :
                 \/ \E tenant \in Tenant, batch \in Batches : BeginExport(x, tenant, batch)
                 \/ AnswerExport(x)
                 \/ StoreError(x)
           \/ Crash
           \/ UNCHANGED vars
  <2>1. UNCHANGED <<client, rows, moved>>
    BY <1>6 DEF BeginExport, AnswerExport, StoreError, Crash, vars
  <2> QED
    BY <1>1, <2>1
<1> QED
  BY <1>2, <1>3, <1>4, <1>5, <1>6 DEF Next

(* Who reads all pages, of whatever size, has seen every observation there  *)
(* was at first, whatever is written between two pages, unless a row took   *)
(* another place meanwhile (filter_observations, list).                     *)
THEOREM PagesMissNothingHolds == Spec => []PagesMissNothing
<1>1. Init => PagesInv
  BY DEF Init, Idle, PagesInv, PagesMissNothing
<1>2. PagesInv => PagesMissNothing
  BY DEF PagesInv
<1>3. TypeOK /\ DistinctInv /\ StoredInv /\ PagesInv /\ [Next]_vars
         => TypeOK' /\ DistinctInv' /\ StoredInv' /\ PagesInv'
  BY TypeKept, StoredKept, PagesKept
<1> QED
  BY <1>1, <1>2, <1>3, InitTypes, StoredInit, PTL DEF Spec
=============================================================================
