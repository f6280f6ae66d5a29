--------------------------- MODULE CollectorProofs ---------------------------
(***************************************************************************)
(* What the websocket side counts and hands over, for every number of      *)
(* shards and messages, every content of a message, every capacity and     *)
(* batch size, and every clock: the metrics agree with what was read and   *)
(* parsed, and each market's writer gets its records once and in order.    *)
(***************************************************************************)
EXTENDS Collector, ListFacts, FiniteSetTheorems

\* The records of the messages, and what write_records hands over of them.
Rows == [id : 1..MaxMessages, i : Nat, market : Markets]
Parcels == [market : Markets, records : Seq(Rows)]

KeptOf == [x \in Messages |-> Kept(x)]
Only(m) == [r \in Rows |-> IF r.market = m THEN <<r>> ELSE <<>>]
RecordsOf(m) == [c \in Parcels |-> IF c.market = m THEN c.records ELSE <<>>]

All(messages) == FlatMap(KeptOf, messages)

-----------------------------------------------------------------------------
(* What the messages hold.                                                 *)

LEMMA KeptType == ASSUME NEW x \in Messages PROVE Kept(x) \in Seq(Rows)
<1>1. x.id \in 1..MaxMessages /\ x.kind \in Kinds
  BY DEF Messages
<1>2. PICK t \in Seq(Markets \cup {Own}) : t = Targets[x.kind]
  BY <1>1, CollectorAssumption
<1>3. PICK n \in Nat : n = Len(t)
  OBVIOUS
<1>4. ASSUME NEW i \in 1..n
      PROVE  [id |-> x.id, i |-> i, market |-> IF t[i] = Own THEN Fallback ELSE t[i]] \in Rows
  <2>1. t[i] \in Markets \cup {Own}
    BY <1>3
  <2>2. (IF t[i] = Own THEN Fallback ELSE t[i]) \in Markets
    BY <2>1, CollectorAssumption
  <2>3. QED
    BY <1>1, <2>2 DEF Rows
<1>5. Pushed(x) =
        [i \in 1..n |-> [id |-> x.id, i |-> i, market |-> IF t[i] = Own THEN Fallback ELSE t[i]]]
  BY <1>2, <1>3 DEF Pushed
<1>6. Pushed(x) \in Seq(Rows)
  BY <1>4, <1>5
<1>7. QED
  BY <1>6 DEF Kept

LEMMA KeptOfType == KeptOf \in [Messages -> Seq(Rows)]
  BY KeptType DEF KeptOf

LEMMA OnlyType == ASSUME NEW m PROVE Only(m) \in [Rows -> Seq(Rows)]
  BY DEF Only

LEMMA RecordsOfType == ASSUME NEW m PROVE RecordsOf(m) \in [Parcels -> Seq(Rows)]
<1>1. \A c \in Parcels : c.records \in Seq(Rows) /\ <<>> \in Seq(Rows)
  BY DEF Parcels
<1>2. QED
  BY <1>1 DEF RecordsOf

LEMMA AllType == ASSUME NEW s \in Seq(Messages) PROVE All(s) \in Seq(Rows)
  BY KeptOfType, FlatMapType DEF All

LEMMA AllEmpty == All(<<>>) = <<>>
  BY FlatMapEmpty DEF All

LEMMA AllConcat ==
    ASSUME NEW a \in Seq(Messages), NEW b \in Seq(Messages)
    PROVE  All(a \o b) = All(a) \o All(b)
<1>1. Distributes(KeptOf, a, b)
  BY KeptOfType, FlatMapConcat
<1>2. QED
  BY <1>1 DEF Distributes, All

\* Parse collects what the messages hold.
LEMMA AllIsKept ==
    ASSUME NEW s \in Seq(Messages)
    PROVE  FlattenSeq([n \in DOMAIN s |-> Kept(s[n])]) = All(s)
<1>1. \A n \in DOMAIN s : s[n] \in Messages
  OBVIOUS
<1>2. \A n \in DOMAIN s : KeptOf[s[n]] = Kept(s[n])
  BY <1>1 DEF KeptOf
<1>3. [n \in DOMAIN s |-> Kept(s[n])] = Mapped(KeptOf, s)
  BY <1>2 DEF Mapped
<1>4. QED
  BY <1>3 DEF All, FlatMap

LEMMA OfMarketMap ==
    ASSUME NEW r \in Seq(Rows), NEW m
    PROVE  OfMarket(r, m) = FlatMap(Only(m), r)
<1>1. \A n \in DOMAIN r : r[n] \in Rows
  OBVIOUS
<1>2. \A n \in DOMAIN r : Only(m)[r[n]] = IF r[n].market = m THEN <<r[n]>> ELSE <<>>
  BY <1>1 DEF Only
<1>3. [n \in DOMAIN r |-> IF r[n].market = m THEN <<r[n]>> ELSE <<>>] = Mapped(Only(m), r)
  BY <1>2 DEF Mapped
<1>4. QED
  BY <1>3 DEF OfMarket, FlatMap

LEMMA OfMarketType == ASSUME NEW r \in Seq(Rows), NEW m PROVE OfMarket(r, m) \in Seq(Rows)
  BY OfMarketMap, OnlyType, FlatMapType

LEMMA OfMarketEmpty == ASSUME NEW m PROVE OfMarket(<<>>, m) = <<>>
<1>1. <<>> \in Seq(Rows)
  OBVIOUS
<1>2. QED
  BY <1>1, OfMarketMap, FlatMapEmpty

LEMMA OfMarketConcat ==
    ASSUME NEW a \in Seq(Rows), NEW b \in Seq(Rows), NEW m
    PROVE  OfMarket(a \o b, m) = OfMarket(a, m) \o OfMarket(b, m)
<1>1. Distributes(Only(m), a, b)
  BY OnlyType, FlatMapConcat
<1>2. a \o b \in Seq(Rows)
  OBVIOUS
<1>3. \A r \in Seq(Rows) : OfMarket(r, m) = FlatMap(Only(m), r)
  BY OfMarketMap
<1>4. OfMarket(a \o b, m) = FlatMap(Only(m), a \o b)
  BY <1>2, <1>3, Zenon
<1>5. QED
  BY <1>1, <1>3, <1>4 DEF Distributes

LEMMA OfMarketAppend ==
    ASSUME NEW s \in Seq(Rows), NEW x \in Rows, NEW m
    PROVE  OfMarket(Append(s, x), m) = OfMarket(s, m) \o (IF x.market = m THEN <<x>> ELSE <<>>)
<1>1. FlatMap(Only(m), Append(s, x)) = FlatMap(Only(m), s) \o Only(m)[x]
  BY OnlyType, FlatMapAppend
<1>2. Append(s, x) \in Seq(Rows)
  OBVIOUS
<1>3. Only(m)[x] = IF x.market = m THEN <<x>> ELSE <<>>
  BY DEF Only
<1>4. QED
  BY <1>1, <1>2, <1>3, OfMarketMap

\* RecordsFor is what a market has of it.
LEMMA RecordsForAll ==
    ASSUME NEW s \in Seq(Messages), NEW m
    PROVE  RecordsFor(s, m) = OfMarket(All(s), m)
  BY AllIsKept DEF RecordsFor, Kept

\* Every record is of one market.
LEMMA SplitLengths ==
    ASSUME NEW r \in Seq(Rows)
    PROVE  Len(r) = Len(OfMarket(r, "spot")) + Len(OfMarket(r, "usdm")) + Len(OfMarket(r, "coinm"))
<1> DEFINE L(q, m) == Len(OfMarket(q, m))
           A == {q \in Seq(Rows) : Len(q) = L(q, "spot") + L(q, "usdm") + L(q, "coinm")}
<1>1. <<>> \in A
  <2>1. \A m : OfMarket(<<>>, m) = <<>>
    BY OfMarketEmpty
  <2>2. QED
    BY <2>1
<1>2. ASSUME NEW q \in Seq(Rows), NEW x \in Rows, q \in A PROVE Append(q, x) \in A
  <2>1. ASSUME NEW m PROVE /\ L(q, m) \in Nat
                           /\ L(Append(q, x), m) = IF x.market = m THEN L(q, m) + 1 ELSE L(q, m)
    <3>1. PICK o \in Seq(Rows) : o = OfMarket(q, m)
      BY OfMarketType
    <3>2. Len(o \o <<x>>) = Len(o) + 1 /\ Len(o \o <<>>) = Len(o) /\ Len(o) \in Nat
      OBVIOUS
    <3>3. QED
      BY <3>1, <3>2, OfMarketAppend
  <2>2. x.market \in {"spot", "usdm", "coinm"}
    BY DEF Rows, Markets
  <2>3. Append(q, x) \in Seq(Rows) /\ Len(Append(q, x)) = Len(q) + 1
    OBVIOUS
  <2>4. Len(q) = L(q, "spot") + L(q, "usdm") + L(q, "coinm")
    BY <1>2
  <2> HIDE DEF L
  <2>5. L(Append(q, x), "spot") + L(Append(q, x), "usdm") + L(Append(q, x), "coinm")
          = L(q, "spot") + L(q, "usdm") + L(q, "coinm") + 1
    BY <2>1, <2>2
  <2>6. QED
    BY <2>3, <2>4, <2>5
<1>3. \A q \in Seq(Rows) : q \in A
  <2> HIDE DEF A
  <2>1. QED
    BY <1>1, <1>2, EverySequence
<1>4. QED
  BY <1>3

\* The messages that parse_into rejects.
Bad(s) == {n \in DOMAIN s : s[n].kind \notin Valid}

LEMMA BadCounted ==
    ASSUME NEW s \in Seq(Messages)
    PROVE  IsFiniteSet(Bad(s)) /\ Malformed(s) = Cardinality(Bad(s)) /\ Malformed(s) \in Nat
<1>1. DOMAIN s = 1..Len(s) /\ Len(s) \in Nat
  OBVIOUS
<1>2. IsFiniteSet(1..Len(s))
  BY <1>1, FS_Interval
<1>3. Bad(s) \in SUBSET (1..Len(s))
  BY <1>1 DEF Bad
<1>4. IsFiniteSet(Bad(s))
  BY <1>2, <1>3, FS_Subset
<1>5. QED
  BY <1>4, FS_CardinalityType DEF Malformed, Bad

LEMMA MalformedEmpty == Malformed(<<>>) = 0
<1>1. {n \in DOMAIN <<>> : <<>>[n].kind \notin Valid} = {}
  OBVIOUS
<1>2. QED
  BY <1>1, FS_EmptySet DEF Malformed

LEMMA MalformedAppend ==
    ASSUME NEW s \in Seq(Messages), NEW x \in Messages
    PROVE  Malformed(Append(s, x)) = Malformed(s) + (IF x.kind \in Valid THEN 0 ELSE 1)
<1>1. PICK n \in Nat : n = Len(s)
  OBVIOUS
<1>2. PICK r \in Seq(Messages) : r = Append(s, x)
  <2>1. Append(s, x) \in Seq(Messages)
    BY ConcatAppend
  <2>2. QED
    BY <2>1, Zenon
<1>3. /\ DOMAIN r = (1..n) \cup {n + 1} /\ DOMAIN s = 1..n /\ n + 1 \notin 1..n /\ r[n + 1] = x
      /\ \A i \in 1..n : r[i] = s[i]
  BY <1>1, <1>2
<1>4. Bad(r) = IF x.kind \in Valid THEN Bad(s) ELSE Bad(s) \cup {n + 1}
  BY <1>3 DEF Bad
<1>5. n + 1 \notin Bad(s)
  BY <1>3 DEF Bad
<1>6. /\ IsFiniteSet(Bad(s)) /\ Malformed(s) = Cardinality(Bad(s)) /\ Malformed(s) \in Nat
      /\ Malformed(r) = Cardinality(Bad(r))
  BY BadCounted
<1>7. Cardinality(Bad(s) \cup {n + 1}) = Cardinality(Bad(s)) + 1
  BY <1>5, <1>6, FS_AddElement
<1>8. QED
  BY <1>2, <1>4, <1>6, <1>7

LEMMA MalformedConcat ==
    ASSUME NEW a \in Seq(Messages), NEW b \in Seq(Messages)
    PROVE  Malformed(a \o b) = Malformed(a) + Malformed(b)
<1> DEFINE A == {r \in Seq(Messages) : Malformed(a \o r) = Malformed(a) + Malformed(r)}
<1>0. \A r \in Seq(Messages) : Malformed(r) \in Nat
  BY BadCounted
<1>1. <<>> \in A
  <2>1. a \o <<>> = a /\ <<>> \in Seq(Messages)
    OBVIOUS
  <2>2. QED
    BY <1>0, <2>1, MalformedEmpty
<1>2. ASSUME NEW r \in Seq(Messages), NEW x \in Messages, r \in A PROVE Append(r, x) \in A
  <2>1. a \o Append(r, x) = Append(a \o r, x) /\ a \o r \in Seq(Messages)
        /\ Append(r, x) \in Seq(Messages)
    BY ConcatAppend
  <2>2. PICK e \in Nat : e = (IF x.kind \in Valid THEN 0 ELSE 1)
    OBVIOUS
  <2>3. Malformed(Append(a \o r, x)) = Malformed(a \o r) + e
    BY <2>1, <2>2, MalformedAppend
  <2>4. Malformed(Append(r, x)) = Malformed(r) + e
    BY <2>2, MalformedAppend
  <2>5. Malformed(a) \in Nat /\ Malformed(r) \in Nat /\ Malformed(a \o r) = Malformed(a) + Malformed(r)
    BY <1>0, <1>2
  <2>6. Malformed(a \o Append(r, x)) = Malformed(a) + Malformed(Append(r, x))
    BY <2>1, <2>3, <2>4, <2>5
  <2>7. QED
    BY <2>1, <2>6
<1>3. \A r \in Seq(Messages) : r \in A
  <2> HIDE DEF A
  <2>1. QED
    BY <1>1, <1>2, EverySequence
<1>4. QED
  BY <1>3

-----------------------------------------------------------------------------
(* What write_records makes of a batch.                                    *)

Carries(q, r) == \A m \in Markets : FlatMap(RecordsOf(m), q) = OfMarket(r, m)

LEMMA ChunkFacts ==
    ASSUME NEW r \in Seq(Rows), NEW k \in Markets
    PROVE  /\ Chunk(r, k) \in Seq(Parcels)
           /\ Chunk(r, k) = <<>> <=> OfMarket(r, k) = <<>>
           /\ \A m \in Markets :
                 FlatMap(RecordsOf(m), Chunk(r, k)) = IF k = m THEN OfMarket(r, m) ELSE <<>>
<1>1. PICK o \in Seq(Rows) : o = OfMarket(r, k)
  BY OfMarketType
<1>2. CASE o = <<>>
  <2>1. Chunk(r, k) = <<>>
    BY <1>1, <1>2 DEF Chunk
  <2>2. \A m \in Markets : FlatMap(RecordsOf(m), <<>>) = <<>>
    BY FlatMapEmpty
  <2>3. <<>> \in Seq(Parcels)
    OBVIOUS
  <2>4. QED
    BY <1>1, <1>2, <2>1, <2>2, <2>3
<1>3. CASE o # <<>>
  <2>1. PICK c : c = [market |-> k, records |-> o]
    OBVIOUS
  <2>2. c \in Parcels /\ c.market = k /\ c.records = o
    BY <2>1 DEF Parcels
  <2>3. Chunk(r, k) = <<c>>
    BY <1>1, <1>3, <2>1 DEF Chunk
  <2>4. ASSUME NEW m \in Markets
        PROVE  FlatMap(RecordsOf(m), <<c>>) = IF k = m THEN o ELSE <<>>
    <3>1. FlatMap(RecordsOf(m), <<c>>) = RecordsOf(m)[c]
      BY <2>2, RecordsOfType, FlatMapOne
    <3>2. QED
      BY <2>1, <2>2, <3>1 DEF RecordsOf
  <2>5. <<c>> \in Seq(Parcels) /\ <<c>> # <<>>
    BY <2>2
  <2>6. QED
    BY <1>1, <1>3, <2>3, <2>4, <2>5
<1>4. QED
  BY <1>2, <1>3

LEMMA RoutedFacts ==
    ASSUME NEW r \in Seq(Rows)
    PROVE  Routed(r) \in Seq(Parcels) /\ (Routed(r) = <<>> <=> r = <<>>) /\ Carries(Routed(r), r)
<1>1. PICK a \in Seq(Parcels) : a = Chunk(r, "spot")
  BY ChunkFacts DEF Markets
<1>2. PICK b \in Seq(Parcels) : b = Chunk(r, "usdm")
  BY ChunkFacts DEF Markets
<1>3. PICK c \in Seq(Parcels) : c = Chunk(r, "coinm")
  BY ChunkFacts DEF Markets
<1>4. Routed(r) = (a \o b) \o c
  BY <1>1, <1>2, <1>3 DEF Routed, MarketOrder
<1>5. a \o b \in Seq(Parcels) /\ (a \o b) \o c \in Seq(Parcels)
  OBVIOUS
<1>6. (a \o b) \o c = <<>> <=> (a = <<>> /\ b = <<>> /\ c = <<>>)
  OBVIOUS
<1>7. /\ a = <<>> <=> OfMarket(r, "spot") = <<>>
      /\ b = <<>> <=> OfMarket(r, "usdm") = <<>>
      /\ c = <<>> <=> OfMarket(r, "coinm") = <<>>
  BY <1>1, <1>2, <1>3, ChunkFacts DEF Markets
<1>8. r = <<>> <=> /\ OfMarket(r, "spot") = <<>> /\ OfMarket(r, "usdm") = <<>>
                   /\ OfMarket(r, "coinm") = <<>>
  <2>1. r = <<>> => \A m \in Markets : OfMarket(r, m) = <<>>
    BY OfMarketEmpty
  <2>2. ASSUME OfMarket(r, "spot") = <<>>, OfMarket(r, "usdm") = <<>>, OfMarket(r, "coinm") = <<>>
        PROVE  r = <<>>
    <3>1. Len(r) = 0
      BY <2>2, SplitLengths
    <3>2. QED
      BY <3>1, LengthZero
  <2>3. QED
    BY <2>1, <2>2 DEF Markets
<1>9. ASSUME NEW m \in Markets PROVE FlatMap(RecordsOf(m), (a \o b) \o c) = OfMarket(r, m)
  <2>1. Distributes(RecordsOf(m), a \o b, c) /\ Distributes(RecordsOf(m), a, b)
    BY <1>5, RecordsOfType, FlatMapConcat
  <2>2. PICK o \in Seq(Rows) : o = OfMarket(r, m)
    BY OfMarketType
  <2>3. /\ FlatMap(RecordsOf(m), a) = IF "spot" = m THEN o ELSE <<>>
        /\ FlatMap(RecordsOf(m), b) = IF "usdm" = m THEN o ELSE <<>>
        /\ FlatMap(RecordsOf(m), c) = IF "coinm" = m THEN o ELSE <<>>
    BY <1>1, <1>2, <1>3, <2>2, ChunkFacts DEF Markets
  <2>4. (o \o <<>>) \o <<>> = o /\ (<<>> \o o) \o <<>> = o /\ (<<>> \o <<>>) \o o = o
    OBVIOUS
  <2>5. m \in {"spot", "usdm", "coinm"}
    BY DEF Markets
  <2>6. QED
    BY <2>1, <2>2, <2>3, <2>4, <2>5 DEF Distributes
<1>10. QED
  BY <1>4, <1>5, <1>6, <1>7, <1>8, <1>9 DEF Carries


-----------------------------------------------------------------------------
(* Type correctness.                                                       *)

\* TypeOK, and what it leaves open: the histories, the chunks, and that only a batch that is
\* being collected has payloads.
ShardTypes ==
    /\ conn \in [Shards -> {"connect", "read", "send", "sleep"}]
    /\ delay \in [Shards -> 1..MaxDelay]
    /\ pending \in [Shards -> 0..(FlushMessages - 1)] /\ latest \in [Shards -> Nat]
    /\ held \in [Shards -> Messages \cup {NoMessage}]
    /\ \A s \in Shards : IF conn[s] = "send" THEN held[s] \in Messages ELSE held[s] = NoMessage
ReadTypes ==
    /\ received_messages \in Nat /\ last_message \in Nat /\ clock \in Nat
    /\ read \in Seq(Messages) /\ Len(read) <= MaxMessages
ProcessorTypes ==
    /\ queue \in Seq(Messages) /\ Len(queue) <= QueueCapacity
    /\ payloads \in Seq(Messages) /\ Len(payloads) <= BatchSize
    /\ proc # "coalesce" => payloads = <<>>
    /\ proc \in {"recv", "coalesce", "write", "stopped"} /\ (proc = "write" <=> chunks # <<>>)
    /\ chunks \in Seq(Parcels)
    /\ parsed_records \in Nat /\ parse_errors \in Nat
    /\ sent \in Seq(Messages) /\ written \in [Markets -> Seq(Rows)]
TypeInv == ShardTypes /\ ReadTypes /\ ProcessorTypes

LEMMA LargerType ==
    ASSUME NEW a \in Nat, NEW b \in Nat
    PROVE  Larger(a, b) \in Nat /\ Larger(a, b) >= a /\ Larger(a, b) >= b
  BY DEF Larger

LEMMA FlushTypes ==
    ASSUME TypeInv, NEW s \in Shards, NEW n \in Nat, NEW t \in Nat, Flush(s, n, t)
    PROVE  /\ received_messages' \in Nat /\ last_message' \in Nat
           /\ pending' \in [Shards -> 0..(FlushMessages - 1)] /\ latest' \in [Shards -> Nat]
<1>1. 0 \in 0..(FlushMessages - 1)
  BY CollectorAssumption
<1>2. Larger(last_message, t) \in Nat
  BY LargerType DEF TypeInv, ReadTypes
<1>3. QED
  BY <1>1, <1>2 DEF Flush, TypeInv, ShardTypes, ReadTypes

\* A message joins the ones read.
LEMMA ReceiveTypes ==
    ASSUME TypeInv, NEW s \in Shards, Receive(s)
    PROVE  (ShardTypes /\ ReadTypes)'
<1>1. PICK kind \in Kinds, t \in Times :
        LET message == [id |-> Len(read) + 1, kind |-> kind] IN
        /\ Record(s, t)
        /\ clock' = Larger(clock, t)
        /\ held' = [held EXCEPT ![s] = message]
        /\ read' = Append(read, message)
  BY DEF Receive
<1>2. PICK message : message = [id |-> Len(read) + 1, kind |-> kind]
  OBVIOUS
<1>3. t \in Nat
  BY CollectorAssumption
<1>4. /\ conn[s] = "read" /\ Len(read) < MaxMessages /\ Len(read) \in Nat
      /\ conn' = [conn EXCEPT ![s] = "send"] /\ UNCHANGED delay
  BY DEF Receive, TypeInv, ReadTypes
<1>5. message \in Messages
  <2>1. Len(read) + 1 \in 1..MaxMessages
    BY <1>4, CollectorAssumption
  <2>2. QED
    BY <1>2, <2>1 DEF Messages
<1>6. clock' \in Nat
  BY <1>1, <1>3, LargerType DEF TypeInv, ReadTypes
<1>7. read' \in Seq(Messages) /\ Len(read') <= MaxMessages
  <2>1. Append(read, message) \in Seq(Messages) /\ Len(Append(read, message)) = Len(read) + 1
    BY <1>5 DEF TypeInv, ReadTypes
  <2>2. QED
    BY <1>1, <1>2, <1>4, <2>1, CollectorAssumption
<1>8. /\ received_messages' \in Nat /\ last_message' \in Nat
      /\ pending' \in [Shards -> 0..(FlushMessages - 1)] /\ latest' \in [Shards -> Nat]
  <2>1. pending[s] + 1 \in Nat /\ Larger(latest[s], t) \in Nat
    <3>1. pending[s] \in 0..(FlushMessages - 1) /\ latest[s] \in Nat
      BY DEF TypeInv, ShardTypes
    <3>2. QED
      BY <1>3, <3>1, CollectorAssumption DEF Larger
  <2>2. CASE Flush(s, pending[s] + 1, Larger(latest[s], t))
    BY <2>1, <2>2, FlushTypes
  <2>3. CASE /\ pending[s] + 1 < FlushMessages
             /\ pending' = [pending EXCEPT ![s] = pending[s] + 1]
             /\ latest' = [latest EXCEPT ![s] = Larger(latest[s], t)] /\ UNCHANGED received
    <3>1. pending[s] + 1 \in 0..(FlushMessages - 1)
      BY <2>1, <2>3, CollectorAssumption
    <3>2. QED
      BY <2>1, <2>3, <3>1 DEF TypeInv, ShardTypes, ReadTypes, received
  <2>4. QED
    BY <1>1, <2>2, <2>3 DEF Record
<1>9. /\ held' \in [Shards -> Messages \cup {NoMessage}]
      /\ \A r \in Shards : IF conn'[r] = "send" THEN held'[r] \in Messages ELSE held'[r] = NoMessage
      /\ conn' \in [Shards -> {"connect", "read", "send", "sleep"}]
  BY <1>1, <1>2, <1>4, <1>5 DEF TypeInv, ShardTypes
<1>10. QED
  BY <1>4, <1>6, <1>7, <1>8, <1>9 DEF TypeInv, ShardTypes, ReadTypes

LEMMA DoubledType == ASSUME NEW d \in 1..MaxDelay PROVE Doubled(d) \in 1..MaxDelay
  BY CollectorAssumption DEF Doubled

LEMMA ShardStepTypes ==
    ASSUME TypeInv, NEW s \in Shards, Connect(s) \/ Send(s) \/ Disconnect(s) \/ Reconnect(s)
    PROVE  (ShardTypes /\ ReadTypes)'
<1>1. CASE Connect(s)
  BY <1>1 DEF Connect, TypeInv, ShardTypes, ReadTypes, received
<1>2. CASE Send(s)
  BY <1>2 DEF Send, TypeInv, ShardTypes, ReadTypes, received
<1>3. CASE Disconnect(s)
  <2>1. pending[s] \in Nat /\ latest[s] \in Nat
    BY DEF TypeInv, ShardTypes
  <2>2. /\ received_messages' \in Nat /\ last_message' \in Nat
        /\ pending' \in [Shards -> 0..(FlushMessages - 1)] /\ latest' \in [Shards -> Nat]
    BY <1>3, <2>1, FlushTypes DEF Disconnect
  <2>3. delay' \in [Shards -> 1..MaxDelay]
    <3>1. 1 \in 1..MaxDelay
      BY CollectorAssumption
    <3>2. QED
      BY <1>3, <3>1 DEF Disconnect, TypeInv, ShardTypes
  <2>4. QED
    BY <1>3, <2>2, <2>3 DEF Disconnect, TypeInv, ShardTypes, ReadTypes
<1>4. CASE Reconnect(s)
  <2>1. Doubled(delay[s]) \in 1..MaxDelay
    BY DoubledType DEF TypeInv, ShardTypes
  <2>2. QED
    BY <1>4, <2>1 DEF Reconnect, TypeInv, ShardTypes, ReadTypes, received
<1>5. QED
  BY <1>1, <1>2, <1>3, <1>4

\* Send appends to the queue.
LEMMA SendTypes ==
    ASSUME TypeInv, NEW s \in Shards, Send(s)
    PROVE  /\ ProcessorTypes'
           /\ held[s] \in Messages /\ queue' = Append(queue, held[s]) /\ sent' = Append(sent, held[s])
           /\ queue' \in Seq(Messages) /\ sent' \in Seq(Messages) /\ proc # "stopped"
           /\ UNCHANGED <<processor, parsed, written>>
<1>1. held[s] \in Messages
  BY DEF Send, TypeInv, ShardTypes
<1>2. /\ Len(queue) < QueueCapacity /\ proc # "stopped" /\ UNCHANGED <<processor, parsed, written>>
      /\ queue' = Append(queue, held[s]) /\ sent' = Append(sent, held[s])
  BY DEF Send, MaySend
<1>3. queue' \in Seq(Messages) /\ Len(queue') = Len(queue) + 1 /\ sent' \in Seq(Messages)
      /\ Len(queue) \in Nat
  BY <1>1, <1>2 DEF TypeInv, ProcessorTypes
<1>4. Len(queue') <= QueueCapacity
  BY <1>2, <1>3, CollectorAssumption
<1>5. QED
  BY <1>1, <1>2, <1>3, <1>4 DEF TypeInv, ProcessorTypes, processor, parsed

\* A payload moves from the queue to the batch.
LEMMA TakeTypes ==
    ASSUME TypeInv, Recv \/ TryRecv
    PROVE  /\ ProcessorTypes' /\ proc \in {"recv", "coalesce"} /\ proc' = "coalesce"
           /\ payloads' \o queue' = payloads \o queue
           /\ payloads' \in Seq(Messages) /\ queue' \in Seq(Messages)
           /\ UNCHANGED <<chunks, parsed, sent, written>>
<1>1. /\ proc \in {"recv", "coalesce"} /\ proc' = "coalesce" /\ queue # <<>> /\ Take
      /\ UNCHANGED <<chunks, parsed, sent, written>>
  BY DEF Recv, TryRecv
<1>2. Len(payloads) < BatchSize
  BY CollectorAssumption DEF Recv, TryRecv, TypeInv, ProcessorTypes
<1>3. payloads' = Append(payloads, Head(queue)) /\ queue' = Tail(queue)
  BY <1>1 DEF Take
<1>4. PICK q \in Seq(Messages) : q = queue
  BY DEF TypeInv, ProcessorTypes
<1>5. PICK p \in Seq(Messages) : p = payloads
  BY DEF TypeInv, ProcessorTypes
<1>6. /\ Append(p, Head(q)) \in Seq(Messages) /\ Tail(q) \in Seq(Messages)
      /\ Len(Append(p, Head(q))) = Len(p) + 1 /\ Len(Tail(q)) = Len(q) - 1
      /\ Len(p) \in Nat /\ Len(q) \in Nat
      /\ Append(p, Head(q)) \o Tail(q) = p \o q
  BY <1>1, <1>4
<1>7. Len(payloads') <= BatchSize /\ Len(queue') <= QueueCapacity
  BY <1>2, <1>3, <1>4, <1>5, <1>6, CollectorAssumption DEF TypeInv, ProcessorTypes
<1>8. QED
  BY <1>1, <1>3, <1>4, <1>5, <1>6, <1>7 DEF TypeInv, ProcessorTypes, parsed


\* A batch is parsed and routed.
LEMMA ParseTypes ==
    ASSUME TypeInv, Parse
    PROVE  /\ ProcessorTypes' /\ proc = "coalesce" /\ chunks = <<>> /\ payloads' = <<>>
           /\ proc' = IF All(payloads) = <<>> THEN "recv" ELSE "write"
           /\ parsed_records' = parsed_records + Len(All(payloads))
           /\ parse_errors' = parse_errors + Malformed(payloads)
           /\ chunks' = Routed(All(payloads)) /\ All(payloads) \in Seq(Rows)
           /\ UNCHANGED <<queue, sent, written>>
<1>1. payloads \in Seq(Messages) /\ <<>> \in Seq(Messages)
  BY DEF TypeInv, ProcessorTypes
<1>2. PICK r \in Seq(Rows) : r = All(payloads)
  BY <1>1, AllType
<1>3. FlattenSeq([n \in DOMAIN payloads |-> Kept(payloads[n])]) = r
  BY <1>1, <1>2, AllIsKept
<1>4. /\ proc = "coalesce" /\ payloads' = <<>> /\ chunks' = Routed(r)
      /\ proc' = IF r = <<>> THEN "recv" ELSE "write"
      /\ parsed_records' = parsed_records + Len(r) /\ parse_errors' = parse_errors + Malformed(payloads)
      /\ UNCHANGED <<queue, sent, written>>
  BY <1>3 DEF Parse, Counted
<1>5. chunks = <<>>
  BY <1>4 DEF TypeInv, ProcessorTypes
<1>6. Routed(r) \in Seq(Parcels) /\ (Routed(r) = <<>> <=> r = <<>>)
  BY RoutedFacts
<1>7. Len(r) \in Nat /\ Malformed(payloads) \in Nat
  BY <1>1, BadCounted
<1>8. ProcessorTypes'
  <2>1. Len(payloads') <= BatchSize
    BY <1>4, CollectorAssumption
  <2>2. QED
    BY <1>1, <1>4, <1>6, <1>7, <2>1 DEF TypeInv, ProcessorTypes
<1>9. QED
  BY <1>2, <1>4, <1>5, <1>8

\* One chunk is handed over.
LEMMA WriteTypes ==
    ASSUME TypeInv, Write
    PROVE  /\ ProcessorTypes' /\ proc = "write" /\ proc' \in {"recv", "write"}
           /\ chunks # <<>> /\ chunks' = Tail(chunks)
           /\ Head(chunks) \in Parcels /\ Head(chunks).market \in Markets
           /\ Head(chunks).records \in Seq(Rows)
           /\ \A m \in Markets : written'[m] = IF m = Head(chunks).market
                                               THEN written[m] \o Head(chunks).records ELSE written[m]
           /\ UNCHANGED <<queue, payloads, parsed, sent>>
<1>1. proc = "write" /\ chunks # <<>> /\ chunks' = Tail(chunks)
      /\ proc' = (IF Len(chunks) = 1 THEN "recv" ELSE "write")
      /\ UNCHANGED <<queue, payloads, parsed, sent>>
  BY DEF Write, TypeInv, ProcessorTypes
<1>2. PICK q \in Seq(Parcels) : q = chunks
  BY DEF TypeInv, ProcessorTypes
<1>3. Head(q) \in Parcels /\ Tail(q) \in Seq(Parcels) /\ (Len(q) = 1 <=> Tail(q) = <<>>)
  <2>1. Head(q) \in Parcels /\ Tail(q) \in Seq(Parcels) /\ Len(Tail(q)) = Len(q) - 1 /\ Len(q) \in Nat
    BY <1>1, <1>2
  <2>2. Len(Tail(q)) = 0 <=> Tail(q) = <<>>
    BY <2>1, LengthZero
  <2>3. QED
    BY <2>1, <2>2
<1>4. PICK c \in Parcels : c = Head(q)
  BY <1>3, Zenon
<1>5. c.market \in Markets /\ c.records \in Seq(Rows)
  BY DEF Parcels
<1>6. written' = [written EXCEPT ![c.market] = @ \o c.records]
  BY <1>2, <1>4 DEF Write
<1>7. written \in [Markets -> Seq(Rows)]
  BY DEF TypeInv, ProcessorTypes
<1>8. \A m \in Markets : written'[m] = IF m = c.market THEN written[m] \o c.records ELSE written[m]
  BY <1>5, <1>6, <1>7
<1>9. written' \in [Markets -> Seq(Rows)]
  <2>1. written[c.market] \o c.records \in Seq(Rows)
    BY <1>5, <1>7
  <2>2. QED
    BY <1>5, <1>6, <1>7, <2>1
<1>10. ProcessorTypes'
  BY <1>1, <1>2, <1>3, <1>9 DEF TypeInv, ProcessorTypes, parsed
<1>11. QED
  BY <1>1, <1>2, <1>3, <1>4, <1>5, <1>8, <1>10

LEMMA WriteFailsTypes == ASSUME TypeInv, WriteFails PROVE ProcessorTypes'
<1>1. <<>> \in Seq(Messages) /\ <<>> \in Seq(Parcels)
  OBVIOUS
<1>2. Len(<<>>) <= QueueCapacity
  BY CollectorAssumption
<1>3. QED
  BY <1>1, <1>2 DEF WriteFails, TypeInv, ProcessorTypes, parsed

LEMMA TypeStep == TypeInv /\ [Next]_vars => TypeInv'
<1> SUFFICES ASSUME TypeInv, [Next]_vars PROVE TypeInv'
  OBVIOUS
<1>1. ASSUME NEW s \in Shards, Send(s) PROVE TypeInv'
  BY <1>1, SendTypes, ShardStepTypes DEF TypeInv
<1>2. ASSUME NEW s \in Shards, Receive(s) PROVE TypeInv'
  <2>1. UNCHANGED <<queue, processor, parsed, sent, written>>
    BY <1>2 DEF Receive
  <2>2. ProcessorTypes'
    BY <2>1 DEF TypeInv, ProcessorTypes, processor, parsed
  <2>3. QED
    BY <1>2, <2>2, ReceiveTypes DEF TypeInv
<1>3. ASSUME NEW s \in Shards, Connect(s) \/ Disconnect(s) \/ Reconnect(s) PROVE TypeInv'
  <2>1. UNCHANGED <<queue, processor, parsed, sent, written>>
    BY <1>3 DEF Connect, Disconnect, Reconnect
  <2>2. ProcessorTypes'
    BY <2>1 DEF TypeInv, ProcessorTypes, processor, parsed
  <2>3. QED
    BY <1>3, <2>2, ShardStepTypes DEF TypeInv
<1>4. ASSUME Processor PROVE TypeInv'
  <2>1. UNCHANGED <<shards, received, read, clock>>
    BY <1>4 DEF Processor, Recv, TryRecv, Parse, Write, WriteFails
  <2>2. (ShardTypes /\ ReadTypes)'
    BY <2>1 DEF TypeInv, ShardTypes, ReadTypes, shards, received
  <2>3. ProcessorTypes'
    BY <1>4, TakeTypes, ParseTypes, WriteTypes, WriteFailsTypes DEF Processor
  <2>4. QED
    BY <2>2, <2>3 DEF TypeInv
<1>5. CASE UNCHANGED vars
  BY <1>5 DEF TypeInv, ShardTypes, ReadTypes, ProcessorTypes, vars, shards, processor, received, parsed
<1>6. QED
  BY <1>1, <1>2, <1>3, <1>4, <1>5 DEF Next, Shard

LEMMA TypeInvAlways == Spec => []TypeInv
<1>1. ASSUME Init PROVE TypeInv
  <2>1. 0 \in 0..(FlushMessages - 1) /\ 1 \in 1..MaxDelay
    BY CollectorAssumption
  <2>2. ShardTypes
    BY <1>1, <2>1 DEF Init, ShardTypes
  <2>3. <<>> \in Seq(Messages) /\ <<>> \in Seq(Parcels) /\ <<>> \in Seq(Rows) /\ Len(<<>>) = 0
    OBVIOUS
  <2>4. ReadTypes
    BY <1>1, <2>3, CollectorAssumption DEF Init, ReadTypes
  <2>5. ProcessorTypes
    BY <1>1, <2>3, CollectorAssumption DEF Init, ProcessorTypes
  <2>6. QED
    BY <2>2, <2>4, <2>5 DEF TypeInv
<1>2. QED
  BY <1>1, TypeStep, PTL DEF Spec

\* Every variable keeps its type: the queue and a batch stay within their capacities, a shard never
\* counts more for itself than FlushMessages - 1 messages, and the pause between two connections
\* stays between one second and MaxDelay, for every number of shards and every bound.
THEOREM CollectorTypeCorrect == Spec => []TypeOK
<1>1. TypeInv => TypeOK
  BY DEF TypeInv, ShardTypes, ReadTypes, ProcessorTypes, TypeOK
<1>2. QED
  BY <1>1, TypeInvAlways, PTL


-----------------------------------------------------------------------------
(* Every message once and in order.                                        *)

\* o are the messages that were parsed: the writers have or are about to get their records, and
\* the metrics count them.  Behind them, what was queued is in the batch or in the queue.
Parsed(o) ==
    /\ o \in Seq(Messages) /\ sent = o \o (payloads \o queue)
    /\ \A m \in Markets : written[m] \o FlatMap(RecordsOf(m), chunks) = OfMarket(All(o), m)
    /\ parsed_records = Len(All(o)) /\ parse_errors = Malformed(o)
NoGap == \A m \in Markets : IsPrefix(written[m], OfMarket(All(sent), m))
HandedInv == IF proc = "stopped" THEN NoGap ELSE \E o : Parsed(o)

LEMMA PrefixOfConcat == ASSUME NEW T, NEW a \in Seq(T), NEW b \in Seq(T) PROVE IsPrefix(a, a \o b)
<1>1. Len(a) <= Len(a \o b) /\ Len(a) \in Nat
  OBVIOUS
<1>2. SubSeq(a, 1, Len(a)) = a
  OBVIOUS
<1>3. SubSeq(a \o b, 1, Len(a)) = a
  OBVIOUS
<1>4. QED
  BY <1>1, <1>2, <1>3 DEF IsPrefix

\* What the messages behind a batch hold comes behind what the batch holds.
LEMMA MarketConcat ==
    ASSUME NEW a \in Seq(Messages), NEW b \in Seq(Messages), NEW m
    PROVE  /\ OfMarket(All(a \o b), m) = OfMarket(All(a), m) \o OfMarket(All(b), m)
           /\ OfMarket(All(a), m) \in Seq(Rows) /\ OfMarket(All(b), m) \in Seq(Rows)
<1>1. PICK r \in Seq(Rows) : r = All(a)
  BY AllType
<1>2. PICK q \in Seq(Rows) : q = All(b)
  BY AllType
<1>3. All(a \o b) = r \o q
  BY <1>1, <1>2, AllConcat
<1>4. OfMarket(r \o q, m) = OfMarket(r, m) \o OfMarket(q, m)
  BY OfMarketConcat
<1>5. OfMarket(r, m) \in Seq(Rows) /\ OfMarket(q, m) \in Seq(Rows)
  BY OfMarketType
<1>6. QED
  BY <1>1, <1>2, <1>3, <1>4, <1>5

LEMMA HandedType ==
    ASSUME TypeInv, NEW m \in Markets
    PROVE  /\ written[m] \in Seq(Rows) /\ FlatMap(RecordsOf(m), chunks) \in Seq(Rows)
           /\ InChunks(m) = FlatMap(RecordsOf(m), chunks)
<1>1. chunks \in Seq(Parcels) /\ written[m] \in Seq(Rows)
  BY DEF TypeInv, ProcessorTypes
<1>2. FlatMap(RecordsOf(m), chunks) \in Seq(Rows)
  BY <1>1, RecordsOfType, FlatMapType
<1>3. \A n \in DOMAIN chunks : chunks[n] \in Parcels
  BY <1>1
<1>4. \A n \in DOMAIN chunks :
          RecordsOf(m)[chunks[n]] = IF chunks[n].market = m THEN chunks[n].records ELSE <<>>
  BY <1>3 DEF RecordsOf
<1>5. [n \in DOMAIN chunks |-> IF chunks[n].market = m THEN chunks[n].records ELSE <<>>]
        = Mapped(RecordsOf(m), chunks)
  BY <1>4 DEF Mapped
<1>6. QED
  BY <1>1, <1>2, <1>5 DEF InChunks, FlatMap

LEMMA ParsedBySend ==
    ASSUME TypeInv, NEW s \in Shards, Send(s), NEW o, Parsed(o)
    PROVE  Parsed(o)'
<1>1. /\ held[s] \in Messages /\ queue' = Append(queue, held[s]) /\ sent' = Append(sent, held[s])
      /\ UNCHANGED <<processor, parsed, written>>
  BY SendTypes
<1>2. PICK x \in Messages : x = held[s]
  BY <1>1, Zenon
<1>3. /\ payloads \in Seq(Messages) /\ queue \in Seq(Messages) /\ o \in Seq(Messages)
      /\ sent = o \o (payloads \o queue)
  BY DEF TypeInv, ProcessorTypes, Parsed
<1>4. payloads \o Append(queue, x) = Append(payloads \o queue, x) /\ payloads \o queue \in Seq(Messages)
  BY <1>3, ConcatAppend
<1>5. o \o Append(payloads \o queue, x) = Append(o \o (payloads \o queue), x)
  <2>1. PICK w \in Seq(Messages) : w = payloads \o queue
    BY <1>4, Zenon
  <2>2. PICK v \in Seq(Messages) : v = o
    BY <1>3, Zenon
  <2>3. v \o Append(w, x) = Append(v \o w, x)
    BY ConcatAppend
  <2>4. QED
    BY <2>1, <2>2, <2>3, Zenon
<1>6. sent' = o \o (payloads' \o queue')
  BY <1>1, <1>2, <1>3, <1>4, <1>5 DEF processor
<1>7. QED
  BY <1>1, <1>6 DEF Parsed, processor, parsed

LEMMA ParsedByParse ==
    ASSUME TypeInv, Parse, NEW o, Parsed(o)
    PROVE  \E r : Parsed(r)'
<1>1. PICK p \in Seq(Messages) : p = payloads
  BY DEF TypeInv, ProcessorTypes
<1>2. /\ chunks = <<>> /\ payloads' = <<>> /\ chunks' = Routed(All(p)) /\ All(p) \in Seq(Rows)
      /\ parsed_records' = parsed_records + Len(All(p))
      /\ parse_errors' = parse_errors + Malformed(p)
      /\ UNCHANGED <<queue, sent, written>>
  BY <1>1, ParseTypes
<1>3. /\ o \in Seq(Messages) /\ queue \in Seq(Messages) /\ sent = o \o (p \o queue)
      /\ \A m \in Markets : written[m] \o FlatMap(RecordsOf(m), <<>>) = OfMarket(All(o), m)
      /\ parsed_records = Len(All(o)) /\ parse_errors = Malformed(o)
  BY <1>1, <1>2 DEF TypeInv, ProcessorTypes, Parsed
<1>4. o \o p \in Seq(Messages) /\ sent' = (o \o p) \o (<<>> \o queue)
  <2>1. (o \o p) \o queue = o \o (p \o queue)
    <3>1. Associates(o, p, queue)
      BY <1>3, ConcatThree, Zenon
    <3>2. QED
      BY <3>1, Zenon DEF Associates
  <2>2. <<>> \o queue = queue
    <3>0. queue \in Seq(Messages)
      BY DEF TypeInv, ProcessorTypes
    <3>1. PICK q \in Seq(Messages) : q = queue
      BY <3>0, Zenon
    <3>2. <<>> \o q = q
      BY ConcatEmpty
    <3>3. QED
      BY <3>1, <3>2
  <2>3. o \o p \in Seq(Messages)
    BY <1>3
  <2>4. QED
    BY <1>2, <1>3, <2>1, <2>2, <2>3
<1>5. ASSUME NEW m \in Markets
      PROVE  written'[m] \o FlatMap(RecordsOf(m), chunks') = OfMarket(All(o \o p), m)
  <2>1. FlatMap(RecordsOf(m), chunks') = OfMarket(All(p), m)
    BY <1>2, RoutedFacts DEF Carries
  <2>2. written[m] = OfMarket(All(o), m)
    <3>1. written[m] \o <<>> = written[m]
      BY HandedType, ConcatEmpty
    <3>2. QED
      BY <1>3, <3>1, FlatMapEmpty
  <2>3. OfMarket(All(o \o p), m) = OfMarket(All(o), m) \o OfMarket(All(p), m)
    BY <1>3, MarketConcat
  <2>4. QED
    BY <1>2, <2>1, <2>2, <2>3
<1>6. parsed_records' = Len(All(o \o p))
  <2>1. PICK a \in Seq(Rows) : a = All(o)
    BY <1>3, AllType
  <2>2. PICK b \in Seq(Rows) : b = All(p)
    BY AllType
  <2>3. Len(a \o b) = Len(a) + Len(b)
    OBVIOUS
  <2>4. All(o \o p) = a \o b
    BY <1>3, <2>1, <2>2, AllConcat
  <2>5. QED
    BY <1>2, <1>3, <2>1, <2>2, <2>3, <2>4
<1>7. parse_errors' = Malformed(o \o p)
  BY <1>2, <1>3, MalformedConcat
<1>8. PICK r : r = o \o p
  OBVIOUS
<1>9. Parsed(r)'
  BY <1>2, <1>4, <1>5, <1>6, <1>7, <1>8 DEF Parsed
<1>10. QED
  BY <1>9

LEMMA ParsedByWrite ==
    ASSUME TypeInv, Write, NEW o, Parsed(o)
    PROVE  Parsed(o)'
<1>1. PICK c \in Parcels : c = Head(chunks)
  BY WriteTypes, Zenon
<1>2. PICK q \in Seq(Parcels) : q = chunks
  BY DEF TypeInv, ProcessorTypes
<1>3. /\ q # <<>> /\ chunks' = Tail(q) /\ c.records \in Seq(Rows) /\ c = Head(q)
      /\ \A m \in Markets : written'[m] = IF m = c.market THEN written[m] \o c.records ELSE written[m]
      /\ UNCHANGED <<queue, payloads, parsed, sent>>
  BY <1>1, <1>2, WriteTypes
<1>4. PICK t \in Seq(Parcels) : t = Tail(q)
  BY <1>3
<1>5. ASSUME NEW m \in Markets
      PROVE  written'[m] \o FlatMap(RecordsOf(m), t) = written[m] \o FlatMap(RecordsOf(m), q)
  <2>1. FlatMap(RecordsOf(m), q) = RecordsOf(m)[c] \o FlatMap(RecordsOf(m), t)
    <3>1. Unfolds(RecordsOf(m), q)
      BY <1>3, RecordsOfType, FlatMapHead
    <3>2. QED
      BY <1>3, <1>4, <3>1 DEF Unfolds
  <2>2. RecordsOf(m)[c] = IF c.market = m THEN c.records ELSE <<>>
    BY DEF RecordsOf
  <2>3. PICK f \in Seq(Rows) : f = FlatMap(RecordsOf(m), t)
    BY RecordsOfType, FlatMapType
  <2>4. PICK w \in Seq(Rows) : w = written[m]
    BY HandedType
  <2>5. PICK r \in Seq(Rows) : r = c.records
    BY <1>3
  <2>6. (w \o r) \o f = w \o (r \o f) /\ <<>> \o f = f
    BY ConcatThree, ConcatEmpty DEF Associates
  <2>7. QED
    BY <1>3, <2>1, <2>2, <2>3, <2>4, <2>5, <2>6
<1>6. \A m \in Markets : written'[m] \o FlatMap(RecordsOf(m), chunks') = OfMarket(All(o), m)
  BY <1>2, <1>3, <1>4, <1>5 DEF Parsed
<1>7. QED
  BY <1>3, <1>6 DEF Parsed, parsed

LEMMA NoGapByFailure ==
    ASSUME TypeInv, WriteFails, NEW o, Parsed(o)
    PROVE  NoGap'
<1>1. /\ o \in Seq(Messages) /\ sent = o \o (payloads \o queue)
      /\ \A m \in Markets : written[m] \o FlatMap(RecordsOf(m), chunks) = OfMarket(All(o), m)
  BY DEF Parsed
<1>2. PICK b \in Seq(Messages) : b = payloads \o queue
  <2>1. payloads \o queue \in Seq(Messages)
    BY DEF TypeInv, ProcessorTypes
  <2>2. QED
    BY <2>1, Zenon
<1>3. sent' = o \o b /\ UNCHANGED written
  BY <1>1, <1>2 DEF WriteFails
<1>4. ASSUME NEW m \in Markets PROVE IsPrefix(written[m], OfMarket(All(o \o b), m))
  <2>1. PICK w \in Seq(Rows) : w = written[m]
    BY HandedType
  <2>2. PICK f \in Seq(Rows) : f = FlatMap(RecordsOf(m), chunks)
    BY HandedType
  <2>3. PICK g \in Seq(Rows) : g = OfMarket(All(b), m)
    BY <1>1, MarketConcat
  <2>4. OfMarket(All(o \o b), m) = (w \o f) \o g
    BY <1>1, <2>1, <2>2, <2>3, MarketConcat
  <2>5. (w \o f) \o g = w \o (f \o g) /\ f \o g \in Seq(Rows)
    BY ConcatThree DEF Associates
  <2>6. IsPrefix(w, w \o (f \o g))
    BY <2>5, PrefixOfConcat
  <2>7. QED
    BY <2>1, <2>4, <2>5, <2>6
<1>5. QED
  BY <1>3, <1>4 DEF NoGap

LEMMA HandedStep == TypeInv /\ HandedInv /\ [Next]_vars => HandedInv'
<1> SUFFICES ASSUME TypeInv, HandedInv, [Next]_vars PROVE HandedInv'
  OBVIOUS
<1>1. ASSUME UNCHANGED <<queue, processor, parsed, sent, written>> PROVE HandedInv'
  BY <1>1 DEF HandedInv, NoGap, Parsed, processor, parsed
<1>2. ASSUME NEW s \in Shards, Send(s) PROVE HandedInv'
  <2>1. proc # "stopped" /\ proc' = proc
    BY <1>2, SendTypes DEF processor
  <2>2. QED
    BY <1>2, <2>1, ParsedBySend DEF HandedInv
<1>3. ASSUME Recv \/ TryRecv PROVE HandedInv'
  <2>1. PICK o : Parsed(o)
    BY <1>3, TakeTypes DEF HandedInv
  <2>2. Parsed(o)'
    BY <1>3, <2>1, TakeTypes DEF Parsed, parsed
  <2>3. proc' # "stopped"
    BY <1>3, TakeTypes
  <2>4. QED
    BY <2>2, <2>3 DEF HandedInv
<1>4. ASSUME Parse PROVE HandedInv'
  <2>1. PICK o : Parsed(o)
    BY <1>4, ParseTypes DEF HandedInv
  <2>2. \E r : Parsed(r)'
    BY <1>4, <2>1, ParsedByParse
  <2>3. proc' # "stopped"
    BY <1>4, ParseTypes
  <2>4. QED
    BY <2>2, <2>3 DEF HandedInv
<1>5. ASSUME Write PROVE HandedInv'
  <2>1. PICK o : Parsed(o)
    BY <1>5, WriteTypes DEF HandedInv
  <2>2. Parsed(o)'
    BY <1>5, <2>1, ParsedByWrite
  <2>3. proc' # "stopped"
    BY <1>5, WriteTypes
  <2>4. QED
    BY <2>2, <2>3 DEF HandedInv
<1>6. ASSUME WriteFails PROVE HandedInv'
  <2>1. proc = "write" /\ proc' = "stopped"
    BY <1>6 DEF WriteFails
  <2>2. QED
    BY <1>6, <2>1, NoGapByFailure DEF HandedInv
<1>7. ASSUME NEW s \in Shards, Connect(s) \/ Receive(s) \/ Disconnect(s) \/ Reconnect(s) PROVE HandedInv'
  BY <1>1, <1>7 DEF Connect, Receive, Disconnect, Reconnect
<1>8. CASE UNCHANGED vars
  BY <1>1, <1>8 DEF vars
<1>9. QED
  BY <1>2, <1>3, <1>4, <1>5, <1>6, <1>7, <1>8 DEF Next, Shard, Processor

LEMMA HandedAlways == Spec => []HandedInv
<1>1. ASSUME Init PROVE HandedInv
  <2>1. <<>> \in Seq(Messages) /\ <<>> \o (<<>> \o <<>>) = <<>> /\ Len(<<>>) = 0
    OBVIOUS
  <2>2. \A m \in Markets : FlatMap(RecordsOf(m), <<>>) = <<>> /\ OfMarket(<<>>, m) = <<>>
    BY FlatMapEmpty, OfMarketEmpty
  <2>3. Parsed(<<>>)
    BY <1>1, <2>1, <2>2, AllEmpty, MalformedEmpty DEF Init, Parsed
  <2>4. QED
    BY <1>1, <2>3 DEF Init, HandedInv
<1>2. QED
  BY <1>1, HandedStep, TypeInvAlways, PTL DEF Spec

\* Every market's writer gets the records of the well-formed messages once and in the order of the
\* queue, however many shards send, whatever the messages hold and wherever a batch ends; once the
\* processor has stopped, what was handed over has no gap.
THEOREM RecordsInOrder == Spec => []InOrder
<1>1. ASSUME TypeInv, HandedInv PROVE InOrder
  <2>1. payloads \o queue \in Seq(Messages) /\ sent \in Seq(Messages)
    BY <1>1 DEF TypeInv, ProcessorTypes
  <2>2. \A m : RecordsFor(sent, m) = OfMarket(All(sent), m)
    BY <2>1, RecordsForAll
  <2>3. \A m : RecordsFor(payloads \o queue, m) = OfMarket(All(payloads \o queue), m)
    BY <2>1, RecordsForAll
  <2>4. CASE proc = "stopped"
    BY <1>1, <2>2, <2>4 DEF InOrder, HandedInv, NoGap
  <2>5. CASE proc # "stopped"
    <3>1. PICK o : Parsed(o)
      BY <1>1, <2>5 DEF HandedInv
    <3>2. PICK b \in Seq(Messages) : b = payloads \o queue
      BY <2>1, Zenon
    <3>3. o \in Seq(Messages) /\ sent = o \o b
      BY <3>1, <3>2 DEF Parsed
    <3>4. \A m \in Markets : written[m] \o InChunks(m) = OfMarket(All(o), m)
      BY <1>1, <3>1, HandedType DEF Parsed
    <3>5. \A m : OfMarket(All(o \o b), m) = OfMarket(All(o), m) \o OfMarket(All(b), m)
      BY <3>3, MarketConcat
    <3>6. QED
      BY <2>2, <2>3, <2>5, <3>2, <3>3, <3>4, <3>5 DEF InOrder
  <2>6. QED
    BY <2>4, <2>5
<1>2. QED
  BY <1>1, HandedAlways, TypeInvAlways, PTL

\* parsed_records and parse_errors agree with what left the queue: the records that the writers
\* have or are about to get, and the malformed messages.
THEOREM ParsedCounted == Spec => []ParsedExact
<1>1. ASSUME TypeInv, HandedInv, proc # "stopped" PROVE ParsedExact
  <2>1. PICK o : Parsed(o)
    BY <1>1 DEF HandedInv
  <2>2. PICK p \in Seq(Messages) : p = payloads
    BY <1>1 DEF TypeInv, ProcessorTypes
  <2>3. PICK q \in Seq(Messages) : q = queue
    BY <1>1 DEF TypeInv, ProcessorTypes
  <2>4. o \in Seq(Messages) /\ sent = o \o (p \o q)
    BY <2>1, <2>2, <2>3 DEF Parsed
  <2>5. SubSeq(sent, 1, Len(sent) - Len(payloads) - Len(queue)) = o
    <3>1. Len(sent) - Len(p) - Len(q) = Len(o)
      BY <2>4
    <3>2. SubSeq(sent, 1, Len(o)) = o
      BY <2>4
    <3>3. QED
      BY <2>2, <2>3, <3>1, <3>2
  <2>6. ASSUME NEW m \in Markets PROVE Len(written[m]) + Len(InChunks(m)) = Len(OfMarket(All(o), m))
    <3>1. PICK w \in Seq(Rows) : w = written[m]
      BY <1>1, HandedType
    <3>2. PICK f \in Seq(Rows) : f = InChunks(m)
      BY <1>1, HandedType
    <3>3. Len(w \o f) = Len(w) + Len(f)
      OBVIOUS
    <3>4. w \o f = OfMarket(All(o), m)
      BY <1>1, <2>1, <3>1, <3>2, HandedType DEF Parsed
    <3>5. QED
      BY <3>1, <3>2, <3>3, <3>4
  <2>7. Len(All(o)) = Len(OfMarket(All(o), "spot")) + Len(OfMarket(All(o), "usdm"))
                        + Len(OfMarket(All(o), "coinm"))
    BY <2>4, AllType, SplitLengths
  <2>8. parsed_records = Len(All(o)) /\ parse_errors = Malformed(o)
    BY <2>1 DEF Parsed
  <2>9. QED
    BY <2>5, <2>6, <2>7, <2>8 DEF ParsedExact, Markets
<1>2. TypeInv /\ HandedInv => ParsedExact
  BY <1>1 DEF ParsedExact
<1>3. QED
  BY <1>2, HandedAlways, TypeInvAlways, PTL


-----------------------------------------------------------------------------
(* Every message counted.                                                  *)

CountInv == received_messages + Cardinality(Unreported) = Len(read)

\* The newest time that a message was read at is known, to the metrics or to a shard.
Known == {last_message} \cup {latest[s] : s \in Shards}
NewestInv == clock \in Known /\ \A t \in Known : t <= clock

LEMMA WaitingFinite ==
    ASSUME NEW p
    PROVE  LET w == {u \in Shards \X (1..FlushMessages) : u[2] <= p[u[1]]} IN
           IsFiniteSet(w) /\ Cardinality(w) \in Nat
<1> DEFINE w == {u \in Shards \X (1..FlushMessages) : u[2] <= p[u[1]]}
<1>1. IsFiniteSet(Shards) /\ IsFiniteSet(1..FlushMessages)
  BY CollectorAssumption, FS_Interval
<1>2. IsFiniteSet(Shards \X (1..FlushMessages))
  BY <1>1, FS_Product
<1>3. w \in SUBSET (Shards \X (1..FlushMessages))
  OBVIOUS
<1> HIDE DEF w
<1>4. IsFiniteSet(w)
  BY <1>2, <1>3, FS_Subset
<1>5. Cardinality(w) \in Nat
  BY <1>4, FS_CardinalityType
<1>6. QED
  BY <1>4, <1>5 DEF w

LEMMA UnreportedFinite ==
    IsFiniteSet(Unreported) /\ Cardinality(Unreported) \in Nat /\ Cardinality(Unreported') \in Nat
  BY WaitingFinite DEF Unreported

\* A shard counts one more for itself.
LEMMA CountedOne ==
    ASSUME TypeInv, NEW s \in Shards, pending[s] + 1 < FlushMessages,
           pending' = [pending EXCEPT ![s] = pending[s] + 1]
    PROVE  Cardinality(Unreported') = Cardinality(Unreported) + 1
<1>1. PICK n \in Nat : n = pending[s] /\ n + 1 \in 1..FlushMessages
  BY CollectorAssumption DEF TypeInv, ShardTypes
<1>2. \A r \in Shards : pending[r] \in 0..(FlushMessages - 1)
  BY DEF TypeInv, ShardTypes
<1>3. \A r \in Shards : pending'[r] = IF r = s THEN n + 1 ELSE pending[r]
  BY <1>1 DEF TypeInv, ShardTypes
<1>4. \A i \in 1..FlushMessages : i <= n + 1 <=> i <= n \/ i = n + 1
  BY CollectorAssumption
<1>5. Unreported' = Unreported \cup {<<s, n + 1>>}
  BY <1>1, <1>3, <1>4 DEF Unreported
<1>6. <<s, n + 1>> \notin Unreported
  BY <1>1 DEF Unreported
<1>7. QED
  BY <1>5, <1>6, UnreportedFinite, FS_AddElement

LEMMA RowCounted ==
    ASSUME NEW x, NEW n \in Nat
    PROVE  IsFiniteSet({x} \X (1..n)) /\ Cardinality({x} \X (1..n)) = n
<1>1. PICK a : a = {x}
  OBVIOUS
<1>2. PICK b : b = 1..n
  OBVIOUS
<1>3. IsFiniteSet(a) /\ Cardinality(a) = 1
  BY <1>1, FS_Singleton
<1>4. IsFiniteSet(b) /\ Cardinality(b) = n
  <2>1. n \in Int /\ 1 \in Int
    OBVIOUS
  <2>2. IsFiniteSet(1..n) /\ Cardinality(1..n) = IF 1 > n THEN 0 ELSE n - 1 + 1
    BY <2>1, FS_Interval
  <2>3. QED
    BY <1>2, <2>2
<1>5. IsFiniteSet(a \X b) /\ Cardinality(a \X b) = Cardinality(a) * Cardinality(b)
  BY <1>3, <1>4, FS_Product
<1>6. 1 * n = n
  OBVIOUS
<1>7. QED
  BY <1>1, <1>2, <1>3, <1>4, <1>5, <1>6, Zenon

\* A shard reports: it has none of its own any more.
LEMMA CountedNone ==
    ASSUME TypeInv, NEW s \in Shards, pending' = [pending EXCEPT ![s] = 0]
    PROVE  Cardinality(Unreported') + pending[s] = Cardinality(Unreported) /\ pending[s] \in Nat
<1>1. PICK n \in Nat : n = pending[s] /\ n <= FlushMessages
  BY CollectorAssumption DEF TypeInv, ShardTypes
<1>2. PICK own : own = {s} \X (1..n)
  OBVIOUS
<1>3. IsFiniteSet(own) /\ Cardinality(own) = n
  BY <1>2, RowCounted
<1>4. \A r \in Shards : pending'[r] = IF r = s THEN 0 ELSE pending[r]
  BY DEF TypeInv, ShardTypes
<1>5. \A i \in 1..FlushMessages : (i <= n <=> i \in 1..n) /\ ~(i <= 0)
  BY CollectorAssumption
<1>6. \A i \in 1..n : i \in 1..FlushMessages
  BY <1>1, CollectorAssumption
<1>7. Unreported' = Unreported \ own
  <2>1. ASSUME NEW r \in Shards, NEW i \in 1..FlushMessages
        PROVE  <<r, i>> \in Unreported' <=> <<r, i>> \in Unreported /\ <<r, i>> \notin own
    BY <1>1, <1>2, <1>4, <1>5 DEF Unreported
  <2>2. /\ \A u \in Unreported' : \E r \in Shards, i \in 1..FlushMessages : u = <<r, i>>
        /\ \A u \in Unreported : \E r \in Shards, i \in 1..FlushMessages : u = <<r, i>>
    BY DEF Unreported
  <2>3. QED
    BY <2>1, <2>2
<1>8. Unreported \cap own = own
  BY <1>1, <1>2, <1>5, <1>6 DEF Unreported
<1>9. Cardinality(Unreported \ own) = Cardinality(Unreported) - n
  BY <1>3, <1>8, UnreportedFinite, FS_Difference
<1>10. Cardinality(Unreported) \in Nat
  BY UnreportedFinite
<1>11. QED
  BY <1>1, <1>7, <1>9, <1>10

\* A shard that reports n messages, the newest of them at t, reports what it counted.
LEMMA FlushCounts ==
    ASSUME TypeInv, NEW s \in Shards, NEW n \in Nat, NEW t \in Nat, Flush(s, n, t)
    PROVE  received_messages' + Cardinality(Unreported') + pending[s]
             = received_messages + Cardinality(Unreported) + n
<1>1. pending' = [pending EXCEPT ![s] = 0] /\ received_messages' = received_messages + n
  BY DEF Flush
<1>2. Cardinality(Unreported') + pending[s] = Cardinality(Unreported) /\ pending[s] \in Nat
  BY <1>1, CountedNone
<1>3. Cardinality(Unreported) \in Nat /\ Cardinality(Unreported') \in Nat /\ received_messages \in Nat
  BY UnreportedFinite DEF TypeInv, ReadTypes
<1>4. QED
  BY <1>1, <1>2, <1>3

LEMMA Balance ==
    \A a, b, c, d, p \in Nat : /\ a + b + p = c + d + p => a + b = c + d
                             /\ a + b + p = c + d + (p + 1) => a + b = c + d + 1
  OBVIOUS

LEMMA CountStep == TypeInv /\ CountInv /\ [Next]_vars => CountInv'
<1> SUFFICES ASSUME TypeInv, CountInv, [Next]_vars PROVE CountInv'
  OBVIOUS
<1>0. Cardinality(Unreported) \in Nat /\ Cardinality(Unreported') \in Nat /\ received_messages \in Nat
  BY UnreportedFinite DEF TypeInv, ReadTypes
<1>1. ASSUME UNCHANGED <<received, pending, read>> PROVE CountInv'
  BY <1>1 DEF CountInv, Unreported, received
<1>2. ASSUME NEW s \in Shards, Receive(s) PROVE CountInv'
  <2>1. PICK t \in Times : Record(s, t) /\ \E x : read' = Append(read, x)
    BY <1>2 DEF Receive
  <2>2. read \in Seq(Messages) /\ pending[s] \in Nat /\ latest[s] \in Nat /\ t \in Nat
    BY CollectorAssumption DEF TypeInv, ShardTypes, ReadTypes
  <2>3. Len(read') = Len(read) + 1
    BY <1>2, <2>1, <2>2, ReceiveTypes DEF ReadTypes
  <2>4. CASE Flush(s, pending[s] + 1, Larger(latest[s], t))
    <3>1. pending[s] + 1 \in Nat /\ Larger(latest[s], t) \in Nat
      BY <2>2 DEF Larger
    <3>2. received_messages' + Cardinality(Unreported') + pending[s]
            = received_messages + Cardinality(Unreported) + (pending[s] + 1)
      BY <2>4, <3>1, FlushCounts
    <3>3. received_messages' \in Nat
      BY <1>2, ReceiveTypes DEF ReadTypes
    <3>4. received_messages + Cardinality(Unreported) = Len(read) /\ Len(read) \in Nat
      BY <2>2 DEF CountInv
    <3>5. received_messages' + Cardinality(Unreported') = Len(read) + 1
      BY <1>0, <2>2, <3>2, <3>3, <3>4, Balance
    <3>6. QED
      BY <2>3, <3>5 DEF CountInv
  <2>5. CASE /\ pending[s] + 1 < FlushMessages
             /\ pending' = [pending EXCEPT ![s] = pending[s] + 1] /\ UNCHANGED received
    <3>1. Cardinality(Unreported') = Cardinality(Unreported) + 1
      BY <2>5, CountedOne
    <3>2. QED
      BY <1>0, <2>3, <2>5, <3>1 DEF CountInv, received
  <2>6. QED
    BY <2>1, <2>4, <2>5 DEF Record
<1>3. ASSUME NEW s \in Shards, Disconnect(s) PROVE CountInv'
  <2>1. Flush(s, pending[s], latest[s]) /\ UNCHANGED read /\ pending[s] \in Nat /\ latest[s] \in Nat
    BY <1>3 DEF Disconnect, TypeInv, ShardTypes
  <2>2. received_messages' + Cardinality(Unreported') + pending[s]
          = received_messages + Cardinality(Unreported) + pending[s]
    BY <2>1, FlushCounts
  <2>3. received_messages' \in Nat
    BY <1>3, ShardStepTypes DEF ReadTypes
  <2>4. received_messages' + Cardinality(Unreported') = received_messages + Cardinality(Unreported)
    BY <1>0, <2>1, <2>2, <2>3, Balance
  <2>5. QED
    BY <2>1, <2>4 DEF CountInv
<1>4. ASSUME NEW s \in Shards, Connect(s) \/ Send(s) \/ Reconnect(s) PROVE CountInv'
  BY <1>1, <1>4 DEF Connect, Send, Reconnect
<1>5. ASSUME Processor PROVE CountInv'
  BY <1>1, <1>5 DEF Processor, Recv, TryRecv, Parse, Write, WriteFails, shards
<1>6. CASE UNCHANGED vars
  BY <1>1, <1>6 DEF vars, shards
<1>7. QED
  BY <1>2, <1>3, <1>4, <1>5, <1>6 DEF Next, Shard

\* What Flush does to the times that are known.
NewestKept(c) ==
    /\ last_message' <= c /\ \A s \in Shards : latest'[s] <= c
    /\ c = last_message' \/ \E s \in Shards : c = latest'[s]

LEMMA FlushKnown ==
    ASSUME NEW s \in Shards, NEW c \in Nat, NEW t \in Nat, NEW n \in Nat, latest \in [Shards -> Nat],
           last_message \in Nat, t <= c, last_message <= c, \A r \in Shards \ {s} : latest[r] <= c,
           c = t \/ c = last_message \/ \E r \in Shards \ {s} : c = latest[r],
           Flush(s, n, t)
    PROVE  NewestKept(c)
<1>1. last_message' = Larger(last_message, t) /\ latest'[s] = 0
      /\ \A r \in Shards \ {s} : latest'[r] = latest[r]
  BY DEF Flush
<1>2. last_message' <= c /\ (c = t \/ c = last_message => c = last_message')
  BY <1>1 DEF Larger
<1>3. QED
  BY <1>1, <1>2 DEF NewestKept

LEMMA NewestStep == TypeInv /\ NewestInv /\ [Next]_vars => NewestInv'
<1> SUFFICES ASSUME TypeInv, NewestInv, [Next]_vars PROVE NewestInv'
  OBVIOUS
<1>1. /\ last_message \in Nat /\ clock \in Nat /\ latest \in [Shards -> Nat]
      /\ last_message <= clock /\ \A s \in Shards : latest[s] <= clock
      /\ clock = last_message \/ \E s \in Shards : clock = latest[s]
  BY DEF TypeInv, ShardTypes, ReadTypes, NewestInv, Known
<1> SUFFICES NewestKept(clock')
  BY DEF NewestInv, Known, NewestKept
<1>2. ASSUME UNCHANGED <<received, latest, clock>> PROVE NewestKept(clock')
  BY <1>1, <1>2 DEF NewestKept, received
<1>3. ASSUME NEW s \in Shards, Receive(s) PROVE NewestKept(clock')
  <2>1. PICK t \in Times : Record(s, t) /\ clock' = Larger(clock, t)
    BY <1>3 DEF Receive
  <2>2. PICK c \in Nat : c = clock'
    BY <2>1, LargerType, <1>1, CollectorAssumption
  <2>3. PICK u \in Nat : u = Larger(latest[s], t)
    BY LargerType, <1>1, CollectorAssumption
  <2>4. t \in Nat /\ c = Larger(clock, t) /\ clock <= c /\ pending[s] + 1 \in Nat
    BY <1>1, <2>1, <2>2, CollectorAssumption DEF Larger, TypeInv, ShardTypes
  <2>5. u <= c /\ last_message <= c /\ \A r \in Shards : latest[r] <= c
    BY <1>1, <2>3, <2>4 DEF Larger
  <2>6. c = u \/ c = last_message \/ \E r \in Shards \ {s} : c = latest[r]
    BY <1>1, <2>3, <2>4 DEF Larger
  <2>7. CASE Flush(s, pending[s] + 1, u)
    BY <1>1, <2>2, <2>4, <2>5, <2>6, <2>7, FlushKnown
  <2>8. CASE latest' = [latest EXCEPT ![s] = u] /\ UNCHANGED received
    BY <1>1, <2>2, <2>5, <2>6, <2>8 DEF NewestKept, received
  <2>9. QED
    BY <2>1, <2>3, <2>7, <2>8 DEF Record
<1>4. ASSUME NEW s \in Shards, Disconnect(s) PROVE NewestKept(clock')
  <2>1. Flush(s, pending[s], latest[s]) /\ clock' = clock /\ pending[s] \in Nat /\ latest[s] \in Nat
    BY <1>4 DEF Disconnect, TypeInv, ShardTypes
  <2>2. clock = latest[s] \/ clock = last_message \/ \E r \in Shards \ {s} : clock = latest[r]
    BY <1>1
  <2>3. QED
    BY <1>1, <2>1, <2>2, FlushKnown
<1>5. ASSUME NEW s \in Shards, Connect(s) \/ Send(s) \/ Reconnect(s) PROVE NewestKept(clock')
  BY <1>2, <1>5 DEF Connect, Send, Reconnect
<1>6. ASSUME Processor PROVE NewestKept(clock')
  BY <1>2, <1>6 DEF Processor, Recv, TryRecv, Parse, Write, WriteFails, shards
<1>7. CASE UNCHANGED vars
  BY <1>2, <1>7 DEF vars, shards
<1>8. QED
  BY <1>3, <1>4, <1>5, <1>6, <1>7 DEF Next, Shard

\* The largest of the known times is the newest.
LEMMA NewestIsMax ==
    ASSUME NEW S \in SUBSET Nat, NEW c \in S, \A t \in S : t <= c
    PROVE  Max(S) = c
<1>1. \E x \in S : \A y \in S : x >= y
  OBVIOUS
<1>2. Max(S) \in S /\ \A y \in S : Max(S) >= y
  BY <1>1 DEF Max
<1>3. Max(S) \in Nat /\ c \in Nat /\ Max(S) >= c /\ Max(S) <= c
  BY <1>2
<1>4. QED
  BY <1>3

\* A message that was read is in received_messages or in what one shard has counted since it last
\* reported, never in both or in neither, and the newest time is known to the metrics or to a
\* shard: for every number of shards and FlushMessages, wherever their connections end and
\* however the clock steps.
THEOREM MessagesCounted == Spec => []ReceivedExact
<1>1. ASSUME Init PROVE CountInv /\ NewestInv
  <2>1. \A i \in 1..FlushMessages : ~(i <= 0)
    BY CollectorAssumption
  <2>2. Unreported = {}
    BY <1>1, <2>1 DEF Init, Unreported
  <2>3. CountInv
    BY <1>1, <2>2, FS_EmptySet DEF Init, CountInv
  <2>4. NewestInv
    BY <1>1 DEF Init, NewestInv, Known
  <2>5. QED
    BY <2>3, <2>4
<1>2. ASSUME TypeInv, CountInv, NewestInv PROVE ReceivedExact
  <2>1. Known \in SUBSET Nat
    BY <1>2 DEF TypeInv, ShardTypes, ReadTypes, Known
  <2>2. Max(Known) = clock
    BY <1>2, <2>1, NewestIsMax DEF NewestInv
  <2>3. QED
    BY <1>2, <2>2 DEF ReceivedExact, CountInv, Known
<1>3. TypeInv /\ CountInv /\ NewestInv => ReceivedExact
  BY <1>2
<1>4. QED
  BY <1>1, <1>3, CountStep, NewestStep, TypeInvAlways, PTL DEF Spec


=============================================================================
