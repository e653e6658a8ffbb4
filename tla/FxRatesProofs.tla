---------------------------- MODULE FxRatesProofs ----------------------------
(***************************************************************************)
(* FxInv is an inductive invariant of the rate lookups for every set of    *)
(* lookups, pairs and services, and what was served follows from it.       *)
(***************************************************************************)
EXTENDS FxRates, TLAPS

(* What a lookup asks for is a pair and a service, and its cache key one   *)
(* of the keys.                                                            *)
LEMMA AskIs ==
  ASSUME TypeOK, NEW r \in Lookups
  PROVE  /\ ask[r].service \in Services /\ ask[r].pair \in Pairs
         /\ ask[r].service \in AllServices
         /\ Key(r) \in Prefixes \X Pairs
         /\ ask[r].service # "rates" => Key(r) = <<"fxRate", ask[r].pair>>
         /\ ask[r].service = "rates" => Key(r) = <<"fxRates", ask[r].pair>>
BY FxRatesAssumption DEF TypeOK, Ask, Key, Prefix, Prefixes

(* The answer of an API is a quote of the service that was asked, and the  *)
(* lookup goes on where that service does.                                 *)
LEMMA AnswerIs ==
  ASSUME TypeOK, NEW r \in Lookups, NEW published \in 0 .. now
  PROVE  /\ QuoteAt(r, published) \in Quote
         /\ QuoteAt(r, published).service = ask[r].service
         /\ AfterFetch(ask[r].service) \in {"existing", "insert", "store"}
         /\ AfterFetch(ask[r].service) = "existing" => ask[r].service = "exchangeRateApi"
         /\ AfterFetch(ask[r].service) = "insert" => ask[r].service = "alphavantage"
         /\ AfterFetch(ask[r].service) = "store" => ask[r].service = "rates"
<1>1. published \in Nat /\ Due(ask[r].service, published) \in Int
  BY FxRatesAssumption DEF TypeOK, Due, LongAgo
<1>2. QuoteAt(r, published) \in Quote
  BY <1>1, AskIs DEF QuoteAt, Quote
<1>3. QED
  BY <1>2, AskIs DEF QuoteAt, AfterFetch, AllServices

(* The rows of a pair are quotes.                                          *)
LEMMA RowsAre ==
  ASSUME TypeOK, NEW p \in Pairs, NEW row \in RowsOf(p)
  PROVE  row \in Quote
BY DEF TypeOK, RowsOf

(* What is cached of an answer is a quote; of a rate for a pair it is the  *)
(* answer itself.                                                          *)
LEMMA CachedIs ==
  ASSUME NEW quote \in Quote
  PROVE  /\ Cached(quote) \in Quote
         /\ quote.service # "rates" => Cached(quote) = quote
BY DEF Cached, Quote, LongAgo

(* A lookup that begins with nothing known satisfies the invariant.        *)
LEMMA FxInit == Init => FxInv
<1>. SUFFICES ASSUME Init PROVE FxInv
  OBVIOUS
<1>1. TypeOK
  BY FxRatesAssumption DEF Init, TypeOK, PCs
<1>2. PositionSound
  <2>. SUFFICES ASSUME NEW r \in Lookups
                PROVE  /\ since[r] <= now
                       /\ pc[r] = "idle" /\ result[r] = NoQuote /\ answer[r] = NoQuote
    BY DEF PositionSound
  <2>1. since[r] = 0 /\ now = 0
    BY DEF Init
  <2>2. QED
    BY <2>1 DEF Init
<1>3. CacheSound /\ StoreSound
  BY DEF Init, CacheSound, StoreSound, Prefixes
<1>4. ServedIsStored /\ ServedCurrent
  BY DEF Init, ServedIsStored, ServedCurrent
<1>5. QED
  BY <1>1, <1>2, <1>3, <1>4 DEF FxInv

(* Every step keeps the types.                                             *)
LEMMA TypeStep ==
  ASSUME TypeOK, PositionSound, [Next]_vars
  PROVE  TypeOK'
<1>. USE DEF TypeOK
<1>1. CASE Tick
  BY <1>1, FxRatesAssumption DEF Tick
<1>2. ASSUME NEW k \in DOMAIN cache, Expire(k) PROVE TypeOK'
  BY <1>2 DEF Expire
<1>3. ASSUME NEW r \in Lookups, Begin(r) PROVE TypeOK'
  BY <1>3 DEF Begin, Goto, PCs
<1>4. ASSUME NEW r \in Lookups, ReadCache(r) PROVE TypeOK'
  BY <1>4, AskIs DEF ReadCache, Return, Goto, PCs
<1>5. ASSUME NEW r \in Lookups, Fetch(r) PROVE TypeOK'
  <2>1. PICK published \in 0 .. now :
          answer' = [answer EXCEPT ![r] = QuoteAt(r, published)]
    BY <1>5 DEF Fetch
  <2>2. QuoteAt(r, published) \in Quote /\ AfterFetch(ask[r].service) \in PCs
    BY AnswerIs DEF PCs
  <2>3. QED
    BY <1>5, <2>1, <2>2 DEF Fetch, Goto
<1>6. ASSUME NEW r \in Lookups, FindExisting(r) PROVE TypeOK'
  BY <1>6, AskIs, RowsAre DEF FindExisting, Return, Goto, PCs
<1>7. ASSUME NEW r \in Lookups, Insert(r) PROVE TypeOK'
  <2>. DEFINE key == ask[r]
  <2>1. table' \in [Pairs -> [Services -> Quote \cup {NoQuote}]]
    <3>1. key.pair \in Pairs /\ key.service \in Services
      BY AskIs
    <3>2. answer[r] \in Quote \cup {NoQuote}
      OBVIOUS
    <3>3. table' \in {table, [table EXCEPT ![key.pair][key.service] = answer[r]]}
      BY <1>7 DEF Insert
    <3>. HIDE DEF key
    <3>4. table \in [Pairs -> [Services -> Quote \cup {NoQuote}]]
      OBVIOUS
    <3>5. CASE table' = [table EXCEPT ![key.pair][key.service] = answer[r]]
      <4>1. [table[key.pair] EXCEPT ![key.service] = answer[r]]
              \in [Services -> Quote \cup {NoQuote}]
        BY <3>1, <3>2, <3>4
      <4>2. table' = [table EXCEPT ![key.pair] =
                       [table[key.pair] EXCEPT ![key.service] = answer[r]]]
        BY <3>5
      <4>3. QED
        BY <3>1, <3>4, <4>1, <4>2
    <3>6. QED
      BY <3>3, <3>4, <3>5
  <2>2. pc' \in [Lookups -> PCs] /\ result' \in [Lookups -> Quote \cup {NoQuote}]
    <3>1. pc' \in [Lookups -> PCs]
      BY <1>7 DEF Insert, Return, Goto, PCs
    <3>2. result' \in {result, [result EXCEPT ![r] = NoQuote]}
      BY <1>7 DEF Insert, Return
    <3>3. QED
      BY <3>1, <3>2
  <2>3. UNCHANGED <<now, cache, ask, since, answer>>
    BY <1>7 DEF Insert
  <2>4. QED
    BY <2>1, <2>2, <2>3
<1>8. ASSUME NEW r \in Lookups, StoreInCache(r) PROVE TypeOK'
  <2>1. answer[r] \in Quote
    BY <1>8 DEF StoreInCache, PositionSound
  <2>2. QED
    BY <1>8, <2>1, AskIs, CachedIs DEF StoreInCache, Return, Goto, PCs
<1>9. ASSUME NEW r \in Lookups, StoreRefused(r) \/ LookupFails(r) PROVE TypeOK'
  BY <1>9 DEF StoreRefused, LookupFails, Return, Goto, PCs
<1>10. CASE UNCHANGED vars
  BY <1>10 DEF vars
<1>11. QED
  BY <1>1, <1>2, <1>3, <1>4, <1>5, <1>6, <1>7, <1>8, <1>9, <1>10 DEF Next, Lookup

(* Every step keeps what each await knows of its lookup.                   *)
LEMMA PositionStep ==
  ASSUME TypeOK, PositionSound, [Next]_vars
  PROVE  PositionSound'
<1>. USE DEF PositionSound
<1>1. CASE Tick
  BY <1>1 DEF Tick, TypeOK
<1>2. ASSUME NEW k \in DOMAIN cache, Expire(k) PROVE PositionSound'
  BY <1>2 DEF Expire
<1>3. ASSUME NEW r \in Lookups, Begin(r) PROVE PositionSound'
  BY <1>3 DEF Begin, Goto, TypeOK
<1>4. ASSUME NEW r \in Lookups, ReadCache(r) PROVE PositionSound'
  BY <1>4 DEF ReadCache, Return, Goto, TypeOK
<1>5. ASSUME NEW r \in Lookups, Fetch(r) PROVE PositionSound'
  <2>1. PICK published \in 0 .. now :
          answer' = [answer EXCEPT ![r] = QuoteAt(r, published)]
    BY <1>5 DEF Fetch
  <2>2. QuoteAt(r, published) # NoQuote
    BY AnswerIs, NoQuoteAssumption
  <2>3. QED
    BY <1>5, <2>1, <2>2, AnswerIs DEF Fetch, Goto, TypeOK
<1>6. ASSUME NEW r \in Lookups, FindExisting(r) PROVE PositionSound'
  BY <1>6 DEF FindExisting, Return, Goto, TypeOK
<1>7. ASSUME NEW r \in Lookups, Insert(r) PROVE PositionSound'
  BY <1>7 DEF Insert, Return, Goto, TypeOK
<1>8. ASSUME NEW r \in Lookups,
             StoreInCache(r) \/ StoreRefused(r) \/ LookupFails(r)
      PROVE  PositionSound'
  BY <1>8 DEF StoreInCache, StoreRefused, LookupFails, Return, Goto, TypeOK
<1>9. CASE UNCHANGED vars
  BY <1>9 DEF vars
<1>10. QED
  BY <1>1, <1>2, <1>3, <1>4, <1>5, <1>6, <1>7, <1>8, <1>9 DEF Next, Lookup

(* No step removes a row from the table.                                   *)
LEMMA RowsGrow ==
  ASSUME TypeOK, PositionSound, [Next]_vars, NEW p \in Pairs
  PROVE  RowsOf(p) \subseteq RowsOf(p)'
<1>1. CASE UNCHANGED table
  BY <1>1 DEF RowsOf
<1>2. ASSUME NEW r \in Lookups, Insert(r), table' # table
      PROVE  RowsOf(p) \subseteq RowsOf(p)'
  <2>. DEFINE key == ask[r]
  <2>1. /\ table[key.pair][key.service] = NoQuote
        /\ table' = [table EXCEPT ![key.pair][key.service] = answer[r]]
    BY <1>2 DEF Insert
  <2>2. \A s \in Services : table[p][s] # NoQuote => table'[p][s] = table[p][s]
    BY <2>1, AskIs DEF TypeOK
  <2>3. QED
    BY <2>2 DEF RowsOf
<1>3. UNCHANGED table \/ \E r \in Lookups : Insert(r)
  BY DEF Next, Lookup, vars, Tick, Expire, Begin, ReadCache, Fetch, FindExisting,
         StoreInCache, StoreRefused, LookupFails
<1>4. QED
  BY <1>1, <1>2, <1>3

(* A lookup that has inserted its answer finds it in the table.            *)
LEMMA InsertIs ==
  ASSUME TypeOK, PositionSound, NEW r \in Lookups, Insert(r), pc'[r] = "store"
  PROVE  answer[r] \in RowsOf(ask[r].pair)'
<1>. DEFINE key == ask[r]
<1>1. table' = [table EXCEPT ![key.pair][key.service] = answer[r]]
  BY DEF Insert, Return, Goto, TypeOK
<1>2. answer[r] # NoQuote /\ ask' = ask
  BY DEF Insert, PositionSound
<1>3. key.pair \in Pairs /\ key.service \in Services
  BY AskIs
<1>4. table'[key.pair][key.service] = answer[r]
  BY <1>1, <1>3 DEF TypeOK
<1>5. QED
  BY <1>2, <1>3, <1>4 DEF RowsOf

(* The cache stays behind the table.                                       *)
LEMMA CacheStep ==
  ASSUME TypeOK, PositionSound, CacheSound, StoreSound, [Next]_vars
  PROVE  CacheSound'
<1>. SUFFICES ASSUME NEW p \in Pairs, cache'[<<"fxRate", p>>] # NoQuote
              PROVE  cache'[<<"fxRate", p>>] \in RowsOf(p)'
  BY DEF CacheSound
<1>. DEFINE k == <<"fxRate", p>>
<1>1. k \in Prefixes \X Pairs
  BY DEF Prefixes
<1>2. CASE cache'[k] = cache[k]
  BY <1>2, RowsGrow DEF CacheSound
<1>3. ASSUME NEW r \in Lookups, StoreInCache(r), cache'[k] # cache[k]
      PROVE  cache'[k] \in RowsOf(p)'
  <2>1. k = Key(r) /\ cache'[k] = Cached(answer[r])
    BY <1>1, <1>3 DEF StoreInCache, TypeOK
  <2>2. ask[r].service # "rates" /\ ask[r].pair = p
    BY <2>1, AskIs
  <2>3. answer[r] \in RowsOf(p)
    BY <1>3, <2>2 DEF StoreSound, StoreInCache
  <2>4. Cached(answer[r]) = answer[r]
    <3>1. answer[r] \in Quote /\ answer[r].service = ask[r].service
      BY <1>3 DEF StoreInCache, PositionSound, TypeOK
    <3>2. QED
      BY <2>2, <3>1, CachedIs
  <2>5. QED
    BY <2>1, <2>3, <2>4, RowsGrow
<1>4. \/ cache'[k] = cache[k]
      \/ cache'[k] = NoQuote
      \/ \E r \in Lookups : StoreInCache(r)
  BY <1>1 DEF TypeOK, Next, Lookup, vars, Tick, Expire, Begin, ReadCache, Fetch, FindExisting,
              Insert, StoreRefused, LookupFails
<1>5. QED
  BY <1>2, <1>3, <1>4

(* A lookup about to cache a rate has it in the table.                     *)
LEMMA StoreStep ==
  ASSUME TypeOK, PositionSound, StoreSound, [Next]_vars
  PROVE  StoreSound'
<1>. SUFFICES ASSUME NEW r \in Lookups, pc'[r] = "store", ask'[r].service # "rates"
              PROVE  answer'[r] \in RowsOf(ask[r].pair)'
  BY DEF StoreSound
<1>1. ask' = ask
  BY DEF Next, Lookup, vars, Tick, Expire, Begin, ReadCache, Fetch, FindExisting, Insert,
         StoreInCache, StoreRefused, LookupFails
<1>2. CASE pc[r] = "store" /\ answer'[r] = answer[r]
  <2>1. ask[r].pair \in Pairs /\ answer[r] \in RowsOf(ask[r].pair)
    BY <1>1, <1>2, AskIs DEF StoreSound
  <2>2. answer[r] \in RowsOf(ask[r].pair)'
    BY <1>1, <2>1, RowsGrow DEF RowsOf
  <2>3. QED
    BY <1>2, <2>2
<1>3. CASE Insert(r)
  <2>1. answer' = answer /\ answer[r] \in RowsOf(ask[r].pair)'
    BY <1>3, InsertIs DEF Insert
  <2>2. QED
    BY <2>1
<1>4. ASSUME NEW q \in Lookups, Fetch(q)
      PROVE  pc[r] = "store" /\ answer'[r] = answer[r]
  <2>1. AfterFetch(ask[r].service) = "store" => ask[r].service = "rates"
    BY AskIs DEF AfterFetch, AllServices
  <2>2. q # r
    BY <1>1, <1>4, <2>1 DEF Fetch, Goto, TypeOK
  <2>3. QED
    BY <1>4, <2>2 DEF Fetch, Goto, TypeOK
<1>5. ASSUME NEW q \in Lookups, Insert(q), q # r
      PROVE  pc[r] = "store" /\ answer'[r] = answer[r]
  BY <1>5 DEF Insert, Return, Goto, TypeOK
<1>6. \/ pc[r] = "store" /\ answer'[r] = answer[r]
      \/ \E q \in Lookups : Insert(q) \/ Fetch(q)
  BY DEF Next, Lookup, vars, Tick, Expire, Begin, ReadCache, FindExisting, StoreInCache,
         StoreRefused, LookupFails, Return, Goto, TypeOK
<1>7. QED
  BY <1>2, <1>3, <1>4, <1>5, <1>6

(* What a step makes a lookup return is nothing, its answer, a current     *)
(* entry of the cache or, for the other provider, a row of the pair.       *)
LEMMA ReturnIs ==
  ASSUME TypeOK, PositionSound, [Next]_vars, NEW r \in Lookups
  PROVE  \/ result'[r] = result[r] /\ (result[r] # NoQuote =>
              answer'[r] = answer[r] /\ since'[r] = since[r])
         \/ result'[r] = NoQuote
         \/ pc[r] = "store" /\ result'[r] = answer[r] /\ answer'[r] = answer[r]
         \/ /\ result'[r] = cache[Key(r)] /\ cache[Key(r)] # NoQuote
            /\ Current(cache[Key(r)]) /\ since'[r] = since[r]
         \/ ask[r].service = "exchangeRateApi" /\ result'[r] \in RowsOf(ask[r].pair)
<1>. DEFINE Goal ==
       \/ result'[r] = result[r] /\ (result[r] # NoQuote =>
            answer'[r] = answer[r] /\ since'[r] = since[r])
       \/ result'[r] = NoQuote
       \/ pc[r] = "store" /\ result'[r] = answer[r] /\ answer'[r] = answer[r]
       \/ /\ result'[r] = cache[Key(r)] /\ cache[Key(r)] # NoQuote
          /\ Current(cache[Key(r)]) /\ since'[r] = since[r]
       \/ ask[r].service = "exchangeRateApi" /\ result'[r] \in RowsOf(ask[r].pair)
<1>1. CASE Tick \/ (\E k \in DOMAIN cache : Expire(k)) \/ UNCHANGED vars
  BY <1>1 DEF Tick, Expire, vars
<1>2. ASSUME NEW q \in Lookups, Begin(q) \/ Fetch(q) PROVE Goal
  BY <1>2 DEF Begin, Fetch, TypeOK, PositionSound
<1>3. ASSUME NEW q \in Lookups, ReadCache(q) PROVE Goal
  BY <1>3 DEF ReadCache, Return, TypeOK
<1>4. ASSUME NEW q \in Lookups, FindExisting(q) PROVE Goal
  BY <1>4 DEF FindExisting, Return, TypeOK, PositionSound
<1>5. ASSUME NEW q \in Lookups, Insert(q) \/ LookupFails(q) PROVE Goal
  BY <1>5 DEF Insert, LookupFails, Return, TypeOK
<1>6. ASSUME NEW q \in Lookups, StoreInCache(q) \/ StoreRefused(q) PROVE Goal
  BY <1>6 DEF StoreInCache, StoreRefused, Return, TypeOK
<1>7. QED
  BY <1>1, <1>2, <1>3, <1>4, <1>5, <1>6 DEF Next, Lookup

(* Every step keeps the invariant.                                         *)
LEMMA FxStep ==
  ASSUME FxInv, [Next]_vars
  PROVE  FxInv'
<1>. USE DEF FxInv
<1>1. TypeOK' /\ PositionSound' /\ CacheSound' /\ StoreSound'
  BY TypeStep, PositionStep, CacheStep, StoreStep
<1>2. ask' = ask
  BY DEF Next, Lookup, vars, Tick, Expire, Begin, ReadCache, Fetch, FindExisting, Insert,
         StoreInCache, StoreRefused, LookupFails
<1>3. ServedIsStored'
  <2>. SUFFICES ASSUME NEW r \in Lookups, ask'[r].service # "rates", result'[r] # NoQuote
                PROVE  result'[r] \in RowsOf(ask[r].pair)'
    BY DEF ServedIsStored
  <2>. DEFINE p == ask[r].pair
  <2>1. p \in Pairs /\ ask[r].service # "rates" /\ Key(r) = <<"fxRate", p>>
    BY <1>2, AskIs
  <2>2. result'[r] \in RowsOf(p)
    BY <2>1, ReturnIs DEF ServedIsStored, StoreSound, CacheSound
  <2>3. QED
    BY <1>2, <2>1, <2>2, RowsGrow DEF RowsOf
<1>4. ServedCurrent'
  <2>. SUFFICES ASSUME NEW r \in Lookups, ask[r].service # "exchangeRateApi",
                       result'[r] # NoQuote
                PROVE  result'[r] = answer'[r] \/ result'[r].due > since'[r]
    BY <1>2 DEF ServedCurrent
  <2>1. CASE result'[r] = result[r] /\ answer'[r] = answer[r] /\ since'[r] = since[r]
    BY <2>1 DEF ServedCurrent
  <2>2. CASE result'[r] = answer[r] /\ answer'[r] = answer[r]
    BY <2>2
  <2>3. CASE /\ result'[r] = cache[Key(r)] /\ cache[Key(r)] # NoQuote
             /\ Current(cache[Key(r)]) /\ since'[r] = since[r]
    <3>1. cache[Key(r)].due \in Int /\ now \in Int /\ since[r] \in Int
      BY <2>3, AskIs DEF TypeOK, Quote
    <3>2. since[r] <= now /\ now < cache[Key(r)].due
      BY <2>3 DEF PositionSound, Current
    <3>3. QED
      BY <2>3, <3>1, <3>2
  <2>4. QED
    BY <2>1, <2>2, <2>3, ReturnIs
<1>5. QED
  BY <1>1, <1>3, <1>4

(* FxInv holds at every await of every interleaving, with lookups failing, *)
(* entries lost and entries refused.                                       *)
THEOREM FxSound == Spec => []FxInv
<1>1. FxInv /\ [Next]_vars => FxInv'
  BY FxStep
<1>2. QED
  BY FxInit, <1>1, PTL DEF Spec

(* The stores and the lookups keep their types: nothing but a quote gets   *)
(* into fx_rate, the cache or an answer.                                   *)
THEOREM FxTypeCorrect == Spec => []TypeOK
<1>1. FxInv => TypeOK
  BY DEF FxInv
<1>2. QED
  BY FxSound, <1>1, PTL

(* A rate that handlers were given for a pair is a row of fx_rate for that *)
(* pair.                                                                   *)
THEOREM ServedRatesAreStored == Spec => []ServedIsStored
<1>1. FxInv => ServedIsStored
  BY DEF FxInv
<1>2. QED
  BY FxSound, <1>1, PTL

(* Alpha Vantage and the list of rates never serve what was overdue when   *)
(* the lookup began, unless the API itself answered it.                    *)
THEOREM ServedRatesAreCurrent == Spec => []ServedCurrent
<1>1. FxInv => ServedCurrent
  BY DEF FxInv
<1>2. QED
  BY FxSound, <1>1, PTL
=============================================================================
