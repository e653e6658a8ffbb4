------------------------------- MODULE FxRates -------------------------------
(***************************************************************************)
(* Exchange rates: the adapter and its two providers over the cache, the   *)
(* rate table and the providers' APIs, for lookups that overlap at every   *)
(* await.                                                                  *)
(*                                                                         *)
(* A lookup asks one of three services: "alphavantage" and                 *)
(* "exchangeRateApi" for a pair of currencies, "rates" for all rates of a  *)
(* currency.  The two pair services share the cache entry of the pair but  *)
(* not the row of the table.  A quote stands for a rate: who published it, *)
(* of what, when, and when the next update is due.                         *)
(***************************************************************************)
EXTENDS Integers

CONSTANTS Lookups,
          Pairs,      \* what may be asked for
          Services,   \* the services in use
          Lifetime,   \* five minutes, in ticks of the clock
          MaxTime,    \* bound on the clock
          NoQuote     \* null, a cache miss, no row

AllServices == {"alphavantage", "exchangeRateApi", "rates"}

ASSUME FxRatesAssumption ==
  /\ Services \subseteq AllServices
  /\ Lifetime \in Nat \ {0}
  /\ MaxTime \in Nat

(* Before any clock reading: January 1970.                                 *)
LongAgo == -1

Quote == [service : Services, pair : Pairs, published : Nat, due : Int]

ASSUME NoQuoteAssumption == NoQuote \notin Quote

VARIABLES now,      \* the clock
          table,    \* fx_rate, one row by its unique index
          cache,    \* Redis, by prefix of the key and what follows it
          ask,      \* what each lookup asks for
          pc,       \* the await it is suspended at
          since,    \* when it began
          answer,   \* what the API answered it
          result    \* the result it returned

vars == <<now, table, cache, ask, pc, since, answer, result>>

Ask == [service : Services, pair : Pairs]
Prefixes == {"fxRate", "fxRates"}
PCs == {"idle", "cache", "api", "existing", "insert", "store", "done"}

Prefix(service) == IF service = "rates" THEN "fxRates" ELSE "fxRate"
Key(r) == <<Prefix(ask[r].service), ask[r].pair>>

Init ==
  /\ now = 0
  /\ table = [p \in Pairs |-> [s \in Services |-> NoQuote]]
  /\ cache = [k \in Prefixes \X Pairs |-> NoQuote]
  /\ ask \in [Lookups -> Ask]
  /\ pc = [r \in Lookups |-> "idle"]
  /\ since = [r \in Lookups |-> 0]
  /\ answer = [r \in Lookups |-> NoQuote]
  /\ result = [r \in Lookups |-> NoQuote]

-----------------------------------------------------------------------------
Goto(r, p) == pc' = [pc EXCEPT ![r] = p]

Return(r, quote) ==
  /\ Goto(r, "done")
  /\ result' = [result EXCEPT ![r] = quote]

(* isBefore(now, nextUpdated).                                             *)
Current(quote) == now < quote.due

(* FXRateAdapter: it names the provider in a field and calls it in the     *)
(* same step.                                                              *)
Begin(r) ==
  /\ pc[r] = "idle"
  /\ Goto(r, "cache")
  /\ since' = [since EXCEPT ![r] = now]
  /\ UNCHANGED <<now, table, cache, ask, answer, result>>

(* Slip: a cached rate is returned whatever its age.                       *)
ReadCache_AnyAge(r) ==
  /\ pc[r] = "cache"
  /\ IF cache[Key(r)] = NoQuote
     THEN Goto(r, "api") /\ UNCHANGED result
     ELSE Return(r, cache[Key(r)])
  /\ UNCHANGED <<now, table, cache, ask, since, answer>>

(* A cached rate is returned while its next update is not due; one that is *)
(* overdue is read as none.                                                *)
ReadCache(r) ==
  /\ pc[r] = "cache"
  /\ \/ /\ cache[Key(r)] # NoQuote /\ Current(cache[Key(r)])
        /\ Return(r, cache[Key(r)])
     \/ /\ cache[Key(r)] # NoQuote => ~Current(cache[Key(r)])
        /\ Goto(r, "api")
        /\ UNCHANGED result
  /\ UNCHANGED <<now, table, cache, ask, since, answer>>

(* The update times the code makes of an answer.  time_next_update_unix    *)
(* counts seconds, which Date takes for milliseconds.                      *)
Due(service, published) ==
  IF service = "exchangeRateApi" THEN LongAgo ELSE published + Lifetime

QuoteAt(r, published) ==
  [service |-> ask[r].service, pair |-> ask[r].pair,
   published |-> published, due |-> Due(ask[r].service, published)]

AfterFetch(service) ==
  CASE service = "alphavantage"    -> "insert"
    [] service = "exchangeRateApi" -> "existing"
    [] service = "rates"           -> "store"

(* Slip: the answer is cached before it is in the table.                   *)
Fetch_Cached(r) ==
  /\ pc[r] = "api"
  /\ \E published \in 0 .. now :
       /\ answer' = [answer EXCEPT ![r] = QuoteAt(r, published)]
       /\ cache' = [cache EXCEPT ![Key(r)] = QuoteAt(r, published)]
  /\ Goto(r, AfterFetch(ask[r].service))
  /\ UNCHANGED <<now, table, ask, since, result>>

(* The API answers with its last publication; the currencies are looked up *)
(* in the database.                                                        *)
Fetch(r) ==
  /\ pc[r] = "api"
  /\ \E published \in 0 .. now :
       answer' = [answer EXCEPT ![r] = QuoteAt(r, published)]
  /\ Goto(r, AfterFetch(ask[r].service))
  /\ UNCHANGED <<now, table, cache, ask, since, result>>

RowsOf(p) == {table[p][s] : s \in Services} \ {NoQuote}

(* getFXRateByCurrencyPair finds a row of either provider.  The provider   *)
(* goes on to insert if it is current and returns it if it is overdue.     *)
FindExisting(r) ==
  /\ pc[r] = "existing"
  /\ \/ /\ RowsOf(ask[r].pair) = {}
        /\ Goto(r, "insert")
        /\ UNCHANGED result
     \/ \E row \in RowsOf(ask[r].pair) :
          \/ /\ Current(row)
             /\ Goto(r, "insert")
             /\ UNCHANGED result
          \/ /\ ~Current(row)
             /\ Return(r, row)
  /\ UNCHANGED <<now, table, cache, ask, since, answer>>

(* createFXRate, and upsertFXRate, whose conflict target is an id that is  *)
(* always fresh: both insert.  The unique index refuses a second row.      *)
Insert(r) ==
  /\ pc[r] = "insert"
  /\ LET key == ask[r]
     IN  \/ /\ table[key.pair][key.service] = NoQuote
            /\ table' = [table EXCEPT ![key.pair][key.service] = answer[r]]
            /\ Goto(r, "store")
            /\ UNCHANGED result
         \/ /\ table[key.pair][key.service] # NoQuote
            /\ Return(r, NoQuote)
            /\ UNCHANGED table
  /\ UNCHANGED <<now, cache, ask, since, answer>>

(* Slip: the entry is cached without the time of the next update.          *)
Cached_WithoutDue(quote) ==
  [service |-> quote.service, pair |-> quote.pair, published |-> quote.published]

(* The rates of a currency are cached without their update time, so the    *)
(* entry never reads as current.                                           *)
Cached(quote) == IF quote.service = "rates" THEN [quote EXCEPT !.due = LongAgo] ELSE quote

StoreInCache(r) ==
  /\ pc[r] = "store"
  /\ cache' = [cache EXCEPT ![Key(r)] = Cached(answer[r])]
  /\ Return(r, answer[r])
  /\ UNCHANGED <<now, table, ask, since, answer>>

(* Redis refuses the entry, which Keyv keeps to itself.                    *)
StoreRefused(r) ==
  /\ pc[r] = "store"
  /\ Return(r, answer[r])
  /\ UNCHANGED <<now, table, cache, ask, since, answer>>

(* Any await may throw; the provider catches it and returns null.          *)
LookupFails(r) ==
  /\ pc[r] \notin {"idle", "done"}
  /\ Return(r, NoQuote)
  /\ UNCHANGED <<now, table, cache, ask, since, answer>>

(* The lifetime of an entry is the millisecond field of the next update:   *)
(* less than a second, or no limit when that is zero.                      *)
Expire(k) ==
  /\ cache[k] # NoQuote
  /\ cache' = [cache EXCEPT ![k] = NoQuote]
  /\ UNCHANGED <<now, table, ask, pc, since, answer, result>>

Tick ==
  /\ now < MaxTime
  /\ now' = now + 1
  /\ UNCHANGED <<table, cache, ask, pc, since, answer, result>>

Lookup(r) ==
  \/ Begin(r)
  \/ ReadCache(r) \/ Fetch(r) \/ FindExisting(r) \/ Insert(r)
  \/ StoreInCache(r) \/ StoreRefused(r)
  \/ LookupFails(r)

Next ==
  \/ Tick
  \/ \E k \in DOMAIN cache : Expire(k)
  \/ \E r \in Lookups : Lookup(r)

Spec == Init /\ [][Next]_vars

(* One lookup at a time, the API's answers are fresh, nothing fails and no *)
(* entry is lost.                                                          *)
SteadyBegin(r) ==
  /\ \A other \in Lookups : pc[other] \in {"idle", "done"}
  /\ Begin(r)

SteadyFetch(r) == Fetch(r) /\ answer'[r].published = now

SteadyNext ==
  \/ Tick
  \/ \E r \in Lookups :
       \/ SteadyBegin(r)
       \/ ReadCache(r) \/ SteadyFetch(r) \/ FindExisting(r) \/ Insert(r) \/ StoreInCache(r)

SteadySpec == Init /\ [][SteadyNext]_vars

-----------------------------------------------------------------------------
(* Properties.                                                             *)

(* The stores, the clock and each lookup's position keep their types.      *)
TypeOK ==
  /\ now \in 0 .. MaxTime
  /\ table \in [Pairs -> [Services -> Quote \cup {NoQuote}]]
  /\ cache \in [Prefixes \X Pairs -> Quote \cup {NoQuote}]
  /\ ask \in [Lookups -> Ask]
  /\ pc \in [Lookups -> PCs]
  /\ since \in [Lookups -> 0 .. MaxTime]
  /\ answer \in [Lookups -> Quote \cup {NoQuote}]
  /\ result \in [Lookups -> Quote \cup {NoQuote}]

(* A rate the handlers were given for a pair is a row of fx_rate for that  *)
(* pair, whichever provider, cache entry or race it came through, so what  *)
(* a transaction record names as its rate can be traced.                   *)
ServedIsStored ==
  \A r \in Lookups :
    ask[r].service # "rates" /\ result[r] # NoQuote =>
      result[r] \in RowsOf(ask[r].pair)

(* Though the other provider leaves entries under the same key that were   *)
(* overdue when written, Alpha Vantage and the list of rates return what   *)
(* the API answered this very lookup or what was not due when it began.    *)
ServedCurrent ==
  \A r \in Lookups :
    ask[r].service # "exchangeRateApi" /\ result[r] # NoQuote =>
      result[r] = answer[r] \/ result[r].due > since[r]

(* One lookup at a time and nothing failing: a lookup that had to ask the  *)
(* API returns what the API answered.                                      *)
FetchedIsServed ==
  \A r \in Lookups :
    pc[r] = "done" /\ answer[r] # NoQuote => result[r] = answer[r]

-----------------------------------------------------------------------------
(* The inductive invariant.                                                *)

(* What each await knows of its lookup.                                    *)
PositionSound ==
  \A r \in Lookups :
    /\ since[r] <= now
    /\ pc[r] # "done" => result[r] = NoQuote
    /\ pc[r] = "existing" => ask[r].service = "exchangeRateApi"
    /\ pc[r] = "insert" => ask[r].service # "rates"
    /\ pc[r] \in {"existing", "insert", "store"} => answer[r] # NoQuote
    /\ answer[r] # NoQuote => answer[r].service = ask[r].service

(* A rate is in the table before it is cached or about to be: the cache is *)
(* never ahead of the table, which never loses a row.                      *)
CacheSound ==
  \A p \in Pairs :
    cache[<<"fxRate", p>>] # NoQuote => cache[<<"fxRate", p>>] \in RowsOf(p)

StoreSound ==
  \A r \in Lookups :
    pc[r] = "store" /\ ask[r].service # "rates" => answer[r] \in RowsOf(ask[r].pair)

(* What holds at every await: types, positions, the cache behind the       *)
(* table, and the two properties of what was served.                       *)
FxInv ==
  /\ TypeOK
  /\ PositionSound
  /\ CacheSound
  /\ StoreSound
  /\ ServedIsStored
  /\ ServedCurrent
=============================================================================
