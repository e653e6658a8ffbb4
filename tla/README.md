# Credpal FX in TLA+

A verification development of the Credpal FX back end (`src/`, NestJS,
TypeORM, PostgreSQL, Redis). It models the parts of the program that keep
state (the unit of work, the wallet commands, FX rates, registration and
verification, the guards, the seeder), model-checks them on small instances and
proves their main safety properties for every instance.

- [The system](#the-system): components, state, interactions, what is hard
- [The modules](#the-modules): which module models what, and how
- [The runs](#the-runs): what is checked, on which bounds, and what it shows
- [The proofs](#the-proofs): what is proved and along which argument
- [Disagreements found](#disagreements-found)
- [What is abstracted and what is left out](#what-is-abstracted-and-what-is-left-out)
- [Plan](#plan)

Paths below are relative to `src/src/` unless they start with `src/`.

## The system

One Node process serves HTTP requests. Every singleton is shared by all
requests, and a request gives up the processor at each `await`, so "a step" is
what runs between two awaits.

| component | state it keeps | operations | interacts with |
| --- | --- | --- | --- |
| Unit of work (`adapters/repositories/transactions/unitOfWork.trx.ts`) and transaction interceptor (`shared/interceptors/txInterceptor.interceptor.ts`) | `queryRunner`, `transactionCount`: one pair per process | `start`, `complete`, `rollback`, `getManager`, `executeInTransaction`; `intercept` around every POST, PUT, PATCH, DELETE | handlers call `executeInTransaction`, repositories `getManager`; TypeORM runner, connection pool, PostgreSQL |
| Wallet commands (`modules/wallet/commands/handlers/`) with the wallet, balance and transaction repositories | tables `wallet`, `wallet_balance` (through the unit of work) and `transaction` (default manager, committed at once) | fund, convert, trade, initialize wallet | unit of work, FX adapter; called by `WalletController` and `AuthController` |
| FX rates (`adapters/fxRates/`) | Redis entries `fxRate:A:B` and `fxRates:A`, table `fx_rate` with a unique pair index | `getFXRateForCurrencyPair` (two providers), `getFXRatesForCurrency` | third-party HTTP APIs, cache, called by every wallet handler |
| Registration and OTP (`modules/auth/`, `modules/core/services/otp.service.ts`) | tables `user`, `otp`; Redis `token:id` | register, verify (then initialize wallet in the same request) | unit of work, SMS adapter, wallet commands |
| Guards (`shared/guards/`) | Redis `user:id`, `permissions:id`, `blacklist:token` | `JwtAuthGuard`, `RolesGuard`, `PermissionsGuard`, `AuthorizationGuard` before every handler | cache, user repository |
| Seeder (`modules/core/services/seeder.service.ts`) | tables `role`, `permission`, `country`, `currency` | `onModuleInit` at each start | repositories |
| Cache adapter, email and SMS adapters, response and trace interceptors, pagination, configuration | none, or Redis through Keyv | thin wrappers | third parties |

### What is hard, and what makes each part correct

*Unit of work.* The two fields are one pair for the whole process. They are
read again after every await, so a request resumes on whatever runner the
fields name by then; a second `start` during the awaits of the first replaces
the runner, sends a savepoint and sets the count to 1. `complete` and
`rollback` are called by the interceptor without `await`, and a connection goes
back to the pool with whatever transaction is open on it. Correct means: a
request's writes happen all or not at all, the answer says which, no connection
stays checked out, no transaction is left for a later request to inherit, and
everybody is answered. Only requests one at a time get all of that.

*Wallet commands.* A handler reads balances, checks them, writes a transaction
record outside the transaction and then writes absolute balances, with awaits
everywhere and no lock. A neighbour's rollback takes its transaction away in
the middle. The columns are `decimal`, which the driver returns as text.
Correct means: no balance is overdrawn, the two columns of a balance agree,
money in a balance has a record, none appears from nothing, balances equal
what the committed requests add up to, each of which has a COMPLETED record, and
a user has one wallet with one balance per currency.

*FX rates.* Cache, table and API disagree in time; two requests miss the cache
together; a second insert meets the unique index. Correct means: a handler gets
a current rate of the pair or fails cleanly, and a failed fetch does not block
later ones.

*Onboarding.* The code is looked up twice around a hash comparison, by a phone
number that is not unique; users, codes and tokens are stored at once and only
the wallet is rolled back. Correct means: nobody is verified without a code of
their number that was valid, that costs the number a code, nobody who
is not verified has a token or a wallet, and a verified user gets a wallet.

*Guards.* Roles and permissions come from caches with their own expiry, written
by whichever request comes last. Correct means: a change of role or permission
takes effect within the cache lifetime and one call.

*Seeder.* A start may throw or be killed halfway, and the next one decides by
what it finds. Correct means: the server comes up, with the roles, permissions,
countries and currencies the rest of the program looks up.

`PROJECT.json` lists every hazard with its line and the properties aimed at it.

## The modules

| module | models | |
| --- | --- | --- |
| `QueryRunner` | the TypeORM `PostgresQueryRunner`, the pg client queue and the PostgreSQL transaction under it, as pure operators on a runner record | external |
| `UnitOfWork` | `unitOfWork.trx.ts`, the interceptor, `BaseRepository.manager` | extends `QueryRunner` |
| `AtomicRequests` | what the unit of work promises, as an abstract specification | |
| `Money` | balance arithmetic on decimal text | |
| `Ledger` | the four wallet handlers on wallets, balances and records | extends `Money` |
| `LedgerInvariants` | the inductive invariants | extends `Ledger` |
| `AccountBook` | what the ledger promises requests that do not overlap, as an abstract specification | extends `Money` |
| `LedgerAudit` | the books: sums of balances and of requests, their inductive invariant, the mapping to `AccountBook` | extends `LedgerInvariants`, instantiates `AccountBook` |
| `LedgerProofs`, `LedgerUniquenessProofs`, `LedgerBooksProofs` | theorems and proofs | extend `LedgerInvariants`, the last one `LedgerAudit` |
| `FxRates` | the FX adapter and its two providers over cache, rate table and APIs | |
| `FxRatesProofs` | theorems and proofs | extends `FxRates` |
| `Seeder` | a start of the process: `SeederService.onModuleInit` | |
| `Onboarding` | register, verify and the wallet a verification opens, on a server that `Seeder` started | extends `Seeder` |
| `Guards` | the four guards, what they cache, the tables behind | |
| `RecentRights` | what the guards promise, as an abstract specification | |
| `UnitOfWorkProofs`, `OnboardingProofs`, `GuardsProofs` | theorems and proofs | extend the module of that name |
| `UnitOfWorkOverlapProofs` | theorems and proofs | extends `UnitOfWorkProofs` |
| `MCUnitOfWork`, `MCLedger`, `MCFxRates`, `MCOnboarding`, `MCGuards` | instances for TLC | |

### UnitOfWork

`queryRunner` and `transactionCount` are the fields. `session[q]` is the runner
`createQueryRunner` returned as `q`, with its connection and the server's
transaction. `pc[r]` is the await at which request `r` is suspended, `frame[r]`
whether it is in the interceptor's own `start`/`complete`/`rollback` or in
those of `executeInTransaction`, `wasOuter[r]` the local
`wasOuterTransaction`.

Each method is an operator that takes the request and the frame it is called
from (`Start`, `Complete`, `Rollback`, `ExecuteCatch`). Each await is split
into the step that reaches it and the step that resumes from it:

- `Receive`, `Connected`, `Execute`, `Write`, `Throw`, `Finish`, `Respond`,
  `RespondError`, `RefuseRequest` run in the request;
- `Grant(q)` is the pool handing a connection to a waiting runner: a clean one,
  or an idle one that another runner gave back, with the transaction and the
  statements still on it (`TakeOver`); `Retire` is the pool closing a connection
  that was idle for long, which rolls back what was open on it;
- `PlainWrite` is a write of the default manager (no runner, or a count of 0)
  on a connection of the pool, clean or not: a `save` on one with an open
  transaction commits that, an `update` joins it;
- `Serve(q)` is the server executing the oldest statement of a runner's queue
  together with the continuation it resumes (`Begun`, `Wrote`, `Committed`,
  `RolledBack`).

A handler is any `Legs` writes through `BaseRepository`, any of which may be
the last before it throws. Three specifications differ only in when a request
may arrive: `Spec` at any time; `SerialSpec` when the work of the last one,
commit or rollback included, is over; `PacedSpec` when the last one was
answered, which is what a client can observe.

### AtomicRequests

A request is answered once; the writes of one answered "ok" take effect in one
step; no others do. `UnitOfWork` instantiates it with the identity on
`durable` and `reply`, everything else being hidden.

### Ledger

`durable` is what is committed, `working` what the shared transaction sees,
`transactionCount` its frames (two per request: the interceptor's and
`executeInTransaction`'s; none if it is not positive, and a request that fails
without a transaction takes one off, down to below zero). A request's
`walletOf` and `seen` are the wallet and the balances its handler has read,
which is the state it carries across awaits. `record` is the status of its
transaction record, which the default manager commits at once. `Submit`, `Fail`
and `Finish` are the unit of work's `start`, `rollback` and `complete` when
those of no other request come between their awaits.

What may happen when they do is `Interfere`. `UnitOfWork` has it step by step:
a second `start` replaces the runner or opens a savepoint on it, a commit
releases the savepoint only, a runner is released with its transaction open, a
transaction is committed by whoever gets its connection next. To the tables it
means that a transaction is committed at some moment or not at all, that
another one, new or old, takes the place of the one that is named, and that
some are left open with nobody to name them. `adrift` is those, each with the
database it began on and the one it has made; `Landed` puts the rows a
transaction wrote on another view. `Interfere` commits any of the open
transactions, names any, leaves any open, and sets whether the process is in a
transaction, in any combination, as soon as two requests have been received.
That is meant to allow everything those interleavings can do, and more; the
count it sets says in or out of a transaction and nothing else. While a
transaction is adrift, a write of the default manager may land in it (`Store`)
and an update of a record may be lost with it (`CompleteRecord`).

The four handlers share their steps (an action's guard says for which handler
it is): `FindWallet`, `OpenWallet`, `ReadBalances`, `MakeSource`,
`RereadSource`, `MakeTarget`, `RereadTarget`, `CreateRecord`, `ReadBalance`,
`Deposit`, `MoveFunds`, `CompleteRecord`, `Finish`. `Refuse` is a handler that
throws before it touched anything (unknown currency, no rate). `DatabaseError`
is any statement of a running request being refused. `Crash` ends the process.
`Spec` lets requests and the unit of work's steps overlap; `CalmSpec` lets
requests overlap whose starts, commits and rollbacks do not; `SerialSpec`
submits a request when no other is at work, with the same failures and crashes.

`Money` says what the expressions `balance - amount` and `balance + amount`
compute when `balance` is the text of a `decimal(10,2)`: a difference, and a
concatenation that the column rounds. Amounts are in hundredths.

### AccountBook

What a client whose requests do not overlap may rely on. `book[w][c]` is what
wallet `w` holds of currency `c`, `owner[w]` whose wallet it is, `outcome[r]`
whether a request took effect. In one step a request opens the user's wallet
with the first deposit, finds it open, deposits, converts no more than the
source holds, or is refused; a request that a crash cut off never has an
outcome. Money moves by the same arithmetic as in the code (`Money`), which is
what makes the promise a small one: the abstract credit concatenates too.
`LedgerAudit` instantiates it with `owner <- durable.wallet`, `outcome <- reply`
and `book` the sums of the committed rows; rows, snapshots, records and the open
transaction are hidden.

### FxRates

`table` is `fx_rate`, one row by its unique index of pair and provider;
`cache` is Redis, whose key `fxRate:A:B` both providers share. A quote stands
for a rate: who published it, of what, when, and when the next update is due.
A lookup goes through `Begin`, `ReadCache`, `Fetch`, then by service
`FindExisting` and `Insert`, and `StoreInCache`; `StoreRefused` is Redis
refusing the entry, `LookupFails` any await that throws, `Expire` an entry that
is gone. `Next` lets lookups overlap; `SteadyNext` runs them one at a time with
a working cache and fresh answers.

What the code does to the time of the next update is modelled as it is:

- ExchangeRate's `time_next_update_unix` counts seconds and `new Date` takes
  milliseconds, so its rates are due in January 1970 (`LongAgo`);
- the test of `exchageRateApi.provider.ts:85` inserts when the row it found is
  *current* and returns it when it is overdue, the opposite of the comment at
  `:84`, so that provider serves its first row for ever;
- the list of rates is cached without its update time (`:166`), so its entry
  never reads as current (`Cached`);
- an entry's lifetime is `nextUpdated.getMilliseconds()`, 0 to 999, and 0 is no
  limit to Keyv, so an entry may go at once or never.

### Seeder

`phase` is where the process is, from "down" through the awaits of
`onModuleInit` to "listening". `progress[c]` is where the two `Promise.all` are
with country `c`, each of whose steps interleaves with those of the others.
`StartUp`, `CheckTables`, `MakeRole`, `GrantPermissions` (which throws, ending
the start, when a permission is missing), `FindSeedCountry`, `AddCountry`,
`CountriesDone`, `FindSeedCurrency`, `AddCurrency` and `Listen` follow the
method; `Killed` ends the process anywhere. Tables outlive a start, so each
start is judged by what all earlier ones stored. The permission table is empty
at first or was filled by hand: nothing in the program fills it.

### Onboarding

`users`, `verified`, `otp`, `expiresAt` and `tokens` are the tables and Redis
entries that the default manager writes at once; `working` and `wallets` are
the one table in the unit of work, as its transaction sees it and as committed.
`frames` is `transactionCount`, two for each request, `adrift` and `Interfere`
are as in `Ledger`. The user and the code
that a registration stores are named after it. `held` and `subject` are what a
handler carries across awaits: the code it found, the user it verified.

`Register`, `FindUser`, `AddUser`, `CreateOtp` are `RegisterUserHandler`;
`Verify`, `FindOtp`, `Compare`, `Expire`, `FindUsed`, `MarkUsed`, `UpdateUser`,
`StoreToken` are `VerifyOtpHandler` with `OtpService`; `HandOver`,
`FindWallet`, `OpenWallet` are what `AuthController.verify` goes on to, in the
same request. `Finish` completes both frames, `AwaitThrows` is any await of a
running request throwing, `Kill` ends the process with its requests and its
transaction, and `Seed` starts it again.

Three habits of the code show in the actions. `FindUsed` looks a code up again
by number and takes any active one, or none, without complaint. `SendSMS` goes
on whether the message was sent or not, since the provider catches its errors.
And `UpdateUser` writes `roleId`, which the snake-case naming strategy maps to
the join column `role_id` of a one-to-one relation (`user.entity.ts:50-52`), so
the column is unique (`RoleTaken`): one user can hold the role "user", and the
verification of every other one is refused after the code was spent.

### Guards

`rights` is what the tables say of each user, `cachedUser` and
`cachedPermissions` the Redis entries, `pc`, `user` and `found` where a request
is, whose token it carries and what its last call returned. A request passes
`TurnAway` or `Arrive`, `UseUserEntry`, `LoadUser` and `StoreUser`
(`JwtAuthGuard`, then `RolesGuard` at once), `UsePermissionEntry`,
`LoadPermissions`, `StorePermissions` and `Decide` (`PermissionsGuard`).
`Change` is the tables changing, `Evict` an entry lost, `CallFails` any call
throwing.

Time is needed to say how old a decision may be: `since` is when the call under
way was made, and `Tick` does not pass `Delay` after it. `past` (what the
tables have said) and an entry's `readAt` are history variables; the program
has neither and no action's guard reads them.

`JwtAuthGuard` compares the time of expiry the wrong way round: it loads the
user again while the entry is fresh (`jwt.guard.ts:49`, against the comment at
`:44`), and `Keyv` drops an entry whose time is over, so the cached user is
used only at the very millisecond at which it ends. That is how `UseUserEntry`
reads. A lifetime of 0 means no expiry to `Keyv`; `GuardsAssumption` has
`Lifetime` positive, so the model is of a positive `REDIS_TTL`.

### RecentRights

A request passes its role check with a role its user had at most `Age` ago, and
is then admitted with permissions the same user had at most `Age` ago. `Guards`
implements it with `Age` a lifetime and one call.

## The runs

All with `-workers 2`; the largest takes three minutes.

| run | instance | checks | shows |
| --- | --- | --- | --- |
| `uow_serial` | 3 requests of 2 writes, 3 runners, pool of 1, one request at a time | `AllOrNothing`, `AnswerIsTrue`, `NoLeak`, `EveryRequestEnds`, `ImplementsAtomicRequests` | used one request at a time the unit of work is atomic, truthful, leak free and live, and implements `AtomicRequests` |
| `uow_overlap` | 2 requests of 2 writes, 4 runners, pool of 2, any interleaving (227,089 states) | `TypeOK`, `EachAwaitsOne`, `EndsUnlessStarved` | overlapping requests lose writes, leak connections and hand transactions on, but no answer is lost or mixed up: a request ends, or it waits for a connection of a pool that is used up |
| `uow_paced` | 2 requests, pool of 4, next one after the answer | `AllOrNothing` (violated) | the missing `await` in the interceptor: see below |
| `ledger_overlap` | 2 requests (and one finished earlier) chosen from 6 calls, 2 users, 2 currencies, refused statements, crashes, 2 interruptions, 1 transaction adrift (1,448,952 states) | `TypeOK`, `NoOverdraft`, `ColumnsAgree`, `AuditTrail`, `NoMoneyFromNothing`, `SettledWhenQuiet` | what survives every interleaving of handlers and of the unit of work, refused statement and crash |
| `ledger_serial` | 3 requests (and one finished earlier) chosen from 12 calls, one at a time, failing at any await, crashes (552,848 states) | `LedgerMatchesRecords`, `OneWalletPerUser`, `OneBalancePerCurrency`, `ImplementsAccountBook` | with requests one at a time the books balance, keys stay unique though no index says so, and the handlers implement `AccountBook` |
| `ledger_credit` | as `ledger_serial` | `CreditIsTheAmount` (violated) | the credit that concatenates |
| `ledger_wallets` | 3 overlapping requests, no interruption | `OneWalletPerUser` (violated) | two overlapping verifications make two wallets, though their starts and commits do not interleave |
| `fx_overlap` | 3 lookups of one pair, each through any of the 3 services, 3 instants, a lifetime of 1 | `TypeOK`, `ServedIsStored`, `ServedCurrent` | what is served survives overlapping lookups, failures and a shared, lossy cache |
| `fx_refresh` | 3 Alpha Vantage lookups one at a time, nothing failing | `FetchedIsServed` (violated) | a pair can be fetched once |
| `onboarding` | 2 registrations and 2 verifications of one number, 4 forms, 1 seeded country, 2 instants, 1 kill or 1 interruption, 1 transaction adrift (6,684,408 states) | `TypeOK`, `FailsOnce`, `SeededUnlessKilled`, `VerifiedByCode`, `SomeCodeSpent`, `OnlyVerifiedBenefit`, `WalletUnlessFailed` | who gets verified, a token and a wallet, with requests overlapping, awaits throwing, a start that was killed and a unit of work that was interrupted |
| `seeder_defaults` | as `onboarding` with 3 countries | `DefaultPermissions` (violated) | the role a user is given has no permissions |
| `guards` | 2 requests of 2 users, 3 sets of rights, 4 instants, a lifetime of 1, calls of up to 1, 1 change | `TypeOK`, `CachesRecent`, `ImplementsRecentRights` | how stale a decision can be, whoever overwrites whose entry |

*Bounds and why they are enough.* Two writes per handler are the fewest with a
"half done". In `uow_serial` the third request sees whatever the first two left
behind, on a single connection that any leak would exhaust. (A handler writes
only through the transaction there; the real handlers also write records with
the default manager, for which a pool of one has no connection while the
transaction holds it. `PlainWrite` is in the model for a handler whose
transaction is gone.) In `uow_overlap` two requests already reach every pair of
awaits; a request starts at most two runners (its own `start` and the one in
`executeInTransaction`), so four runners never run out. A pool of two is what
two overlapping requests use up: with it a request can wait for ever, and a
connection that one left behind is taken by the other. `EveryRequestEnds`, which
`uow_serial` checks, fails there, and `EndsUnlessStarved` says that starvation
is the only reason. In `ledger_overlap` two racing requests with two
interruptions (`MaxInterruptions`) and a transaction adrift (`MaxAdrift`) let one
lose its transaction, have it committed behind its back, and write into another
that is committed or dropped later; the proofs are for any number of each. In the
ledger runs the amounts cover each case of the code: exchanges that fit once,
twice, exactly and never, an amount with decimals, zero and negative amounts,
digits that do and do not round up, deposits with and without a balance to
meet. The request that is finished from the start is the verification that
gave Ada her opening balance, so that running requests compete for real money.
Three of them run where they do so one after the other, and in `ledger_wallets`.
Requests are interchangeable, hence the symmetry sets of the ledger and rate
instances; the unit of work is checked without.

In `fx_overlap` three lookups are one per service, or two that
race and one that meets what they left; three instants let an answer be due
before, while and after a lookup runs. One pair is enough to make lookups meet;
that pairs are not mixed up is what the proof shows for any number of them.

In `onboarding` the four forms let the second registration repeat the first,
share its phone number under another e-mail, or give a number of a country that
is not seeded; two codes of one number and two verifications are the least with
which each can take the other's code. With a lifetime of 0 and two instants
(`MaxTime` 1) a code expires before, while or after a request uses it. One kill
(`MaxCrashes`) falls in a start, leaving countries without currencies, or in
the middle of requests; in other executions the unit of work is interrupted
once instead (`MaxTroubles` bounds both together, `MaxAdrift` the transactions
left open), not in the last tick of the clock. One country is enough for what a
user of it meets; that several are seeded in any order is in the proof and in
`seeder_defaults`.

In `guards` two requests are the least that overwrite each other's entries, for
one user or across two. With `MaxTime` 3 an entry is read, stored a call later,
lives its lifetime and is used one call after, which is the oldest a decision
can be. One change (`MaxChanges`) is what a decision can miss; more changes are
more such intervals, which the proof covers. Users and requests are
interchangeable; the property that is checked with them as symmetry sets is a
safety property and treats all alike.

*Deadlock.* All runs have `CHECK_DEADLOCK FALSE`: the system stops when the
bounded set of requests has been served. `EveryRequestEnds` is what says it
does not stop earlier when requests come one at a time, and `EndsUnlessStarved`
for which reason alone it may when they overlap.

*Fairness.* Weak fairness of each step that is a ready continuation of the
event loop, of the pool granting a free connection and of the server answering.
None on a request arriving (`Receive`), on a handler throwing (`Throw`) or on
the pool closing an idle connection (`Retire`).
Only `UnitOfWork` needs it; the other modules state safety alone.
Nothing here depends on strong fairness: a continuation, once ready, stays
ready.

*What `PacedSpec` says beyond its run.* `AnswerIsTrue` and `NoLeak` fail there
too, by the same race: an acknowledged write is lost, a connection is never
returned. `EachAwaitsOne` holds.

Each property has a mutated definition in the modules, marked `Slip:` in its
comment, that stands for a plausible mistake in the code and makes TLC find
the property violated.

## The proofs

`LedgerProofs` proves, for every set of users, currencies and requests, every
set of calls and every amount, under `Spec` (free interleaving of handlers and
of starts, commits and rollbacks, any number of transactions adrift, refused
statements, crashes):

| theorem | states |
| --- | --- |
| `TypeCorrect` | `Spec => []TypeOK` |
| `LedgerSound` | `Spec => []LedgerInv`, the inductive invariant |
| `NeverOverdrawn` | `Spec => []NoOverdraft` |
| `ColumnsNeverApart` | `Spec => []ColumnsAgree` |
| `MoneyIsRecorded` | `Spec => []AuditTrail` |
| `QuietIsSettled` | `Spec => []SettledWhenQuiet` |
| `MoneyIsNotMade` | `Spec => []NoMoneyFromNothing` |
| `CreditsNeverAddUp` | a credit that is accepted adds at most one hundredth, whatever the balance and the amount |

and, with one request at a time, which may still fail at any await or be cut off
by a crash, `LedgerUniquenessProofs` and `LedgerBooksProofs`:

| theorem | states |
| --- | --- |
| `KeysStayUnique` | `SerialSpec => []UniqueInv`, the inductive invariant |
| `WalletsStayUnique` | `SerialSpec => []OneWalletPerUser` |
| `BalancesStayUnique` | `SerialSpec => []OneBalancePerCurrency` |
| `BooksAreKept` | `SerialSpec => []BooksInv`, the inductive invariant |
| `RecordsAddUp` | `SerialSpec => []LedgerMatchesRecords` |
| `LedgerImplementsAccountBook` | `SerialSpec => ImplementsAccountBook`, the refinement |
| `NoDebt` | `SerialSpec => [](\A w \in WalletIds, c \in Currencies : Book[w][c] >= 0)` |

Assumptions: `LedgerAssumption` (calls are of the stated shape, verifications
use the user's home currency, finished verifications are finite in number) and
`NullAssumption` (the null row is not a row); for uniqueness also
`PastAssumption` (the verifications finished before the start are of different
users, since a second one of the same user would already have been a second
wallet). TLC evaluates all three.

*The argument.* None of the four safety properties is inductive. A balance is
written from what a handler read several awaits earlier, perhaps inside a
transaction that has been rolled back since; the row it writes to may have been
rewritten in between. So `LedgerInv` states of every *snapshot* what it states
of the rows (`SnapshotSound`): the two columns agree, the amount is not
negative unless the balance was opened by a negative deposit, and a positive
amount is backed by a record. It ties a snapshot and the row it will overwrite
together by something no race can change: a balance id is made once, by one
request for one side, hence its wallet and currency are those of its maker
(`RowSound`). `PositionSound` carries the check across the await: an exchange
at "write" still has a snapshot with at least its amount, which is the
snapshot it subtracts from. Stale readings therefore cost updates, never
solvency. A transaction adrift may be committed at any time, so `AdriftSound`
states the same of the rows it has made, and `LandedSound` that rows which land
on another view are as sound as both (`InterfereSound`).

`SettledInv` bounds the frames by twice the number of running requests while
nothing was interrupted (a rollback zeroes the count under requests that still
run, so equality fails; after an interruption nothing bounds it, and
`SettledWhenQuiet` is stated without) and says that without a transaction the
two views agree. `MoneyInv` bounds each row
and each snapshot by its opening amount and one hundredth for each request that
may have credited something; it has to hold of snapshots and of transactions
adrift for the same reasons.

Uniqueness is lost when requests overlap (`ledger_wallets`), so `UniqueInv`
starts from `OneAtATime`. Each handler looks a balance up at one await and
creates it at a later one, after other awaits and after creating another
balance; `StillMissing` says at each of those awaits what is still absent, in
particular that the balance created first is not the one found missing second,
because the two currencies of a conversion or trade differ. It uses `LedgerInv`
for whose wallet a request holds.

`LedgerMatchesRecords` compares two sums, and is true only between requests, so
`BooksInv` says of every await what the sums are then. The committed rows are
balanced by the requests that committed, not by those whose record says
COMPLETED: a request that fails or dies after `updateTransaction` leaves such a
record of money that was rolled back. The rows of the open transaction are
balanced by the committed requests and by the one that has written (`Posted`).
`Fresh` says that the snapshot a request will write from is still what the row
holds, so that the difference it makes is the amount of its call and nothing
else: that is what overlapping requests lose. A deposit that creates its
balance goes on to fail (`Doomed`), and until it has, the open transaction is
out of balance; hence no committed row was ever opened by a deposit
(`NotFunded`), none is below zero, and a credit is always a carry. The deposit
of a verification counts once per wallet, since a second verification is
recorded and credits nothing; `OpenedBy` says that every wallet was opened by
one, with its deposit in it. The lemmas about sums (`SumWith`, `SumWithout`,
`SumsAgree`) are proved of the community modules' `SumFunctionOnSet` by the
induction over finite sets that is available without operator parameters: a
minimal counterexample among the finite subsets.

The refinement rests on the same invariant. Most steps change nothing that is
committed or answered, so they are stutters; a failure and a statement that is
refused are `Refuse`; a crash, which answers nobody, is a stutter. What remains
is `Finish`, where a whole request becomes visible at once. `BookIs` says that
the mapped book is `Recounted(Committed, w, c)`, so adding the finishing request
to `Committed` is the abstract update: its carry to the target, its amount from
the source, or the first deposit of a wallet. The abstract guard, that the
source held the amount, is not read off the handler's check many awaits
earlier: it follows from the balance of the source after the transfer, which is
a row of the transaction that commits and is not negative. That the converted or
funded wallet is the user's own comes from `HandlerSound`, that no other wallet
changed from `WorkingBooks`, and that a first verification finds the user
without a wallet from `UniqueInv`. `NoDebt` follows from `BookIs` too: negative
deposits open a balance that is rolled back with the exception they end in.

TLC checked `LedgerInv`, `SettledInv` and `MoneyInv` on the instance of
`ledger_overlap`, and `UniqueInv` and `BooksInv` on that of `ledger_serial`,
before they were proved.

`FxRatesProofs` proves for every set of lookups, pairs and services, under
`FxRates!Spec`:

| theorem | states |
| --- | --- |
| `FxSound` | `Spec => []FxInv`, the inductive invariant |
| `FxTypeCorrect` | `Spec => []TypeOK` |
| `ServedRatesAreStored` | `Spec => []ServedIsStored` |
| `ServedRatesAreCurrent` | `Spec => []ServedCurrent` |

Assumptions: `FxRatesAssumption` and `NoQuoteAssumption` (null is not a quote).
`ServedIsStored` is not inductive: a lookup returns what another left in the
cache, or its own answer several awaits after it was inserted. `CacheSound` and
`StoreSound` say that both are behind the table, and `RowsGrow` that no step
takes a row away. `PositionSound` says which service a lookup at each await is
of, that the answer it carries is that service's, and that it began no later
than now, from which `ServedCurrent` follows. TLC checked `FxInv` on the
instance of `fx_overlap` first.

`UnitOfWorkProofs` proves for every number of requests, of writes in a handler,
of runners and of connections, under `UnitOfWork!SerialSpec`:

| theorem | states |
| --- | --- |
| `SerialSound` | `SerialSpec => []SerialInv`, the inductive invariant |
| `WritesAreAtomic` | `SerialSpec => []AllOrNothing` |
| `AnswersAreTrue` | `SerialSpec => []AnswerIsTrue` |
| `NothingLeaks` | `SerialSpec => []NoLeak` |
| `UnitOfWorkIsAtomic` | `SerialSpec => Atomic!Spec`, the refinement of `AtomicRequests` without its liveness |

Assumption: `UnitOfWorkAssumption`. It has to be `SerialSpec`: under `PacedSpec`
`AllOrNothing` is false (`uow_paced`). Each property is about the end of a
request, while a step only issues a statement or runs a continuation, so
`SerialInv` says at each await (`Position`) on which runner the request under
way works, that both fields name that runner and count its frames, at what
depth its transaction is, which writes it holds and which one statement is
under way; that every other runner is `Idle`; that between requests there is
nothing (`AtRest`); and that what is durable is exactly the writes of the
requests that were `Applied`. The last conjunct gives the refinement: each step
is `Silent`, `Answers`, or is the COMMIT that `Takes` a request's writes.

`UnitOfWorkOverlapProofs` proves for the same constants under
`UnitOfWork!Spec`, where requests overlap in any way:

| theorem | states |
| --- | --- |
| `OverlapSound` | `Spec => []OverlapInv`, the inductive invariant |
| `TypesKept` | `Spec => []TypeOK` |
| `NobodyForgotten` | `Spec => []EachAwaitsOne` |

Assumption: `UnitOfWorkAssumption`. Overlapping requests send statements on each
other's runners, clear the fields under each other, and release runners whose
transactions and statements go to whoever takes the connection next, so hardly
anything of `SerialInv` is left; in particular the count counts nothing, and is
any integer. What is left is that nobody is forgotten: a request suspended at
an await has exactly one statement under way (`Attended`, `Tidy`), of the kind
it awaits, on a runner that waits for a connection, holds one or left one idle
(`Usable`), so that somebody will serve it, and its answer resumes that request
and no other. The runner of the field is never a released one, or a request
could send a statement that nobody serves. The queue of a connection that is
handed on is joined to that of the runner that takes it (`QueuesJoined`), and
serving a statement takes the head of one queue and no other (`QueueServed`).
`TypesKept` also rests on the server: a savepoint that is named has an innermost
level (`Innermost`). TLC checked `OverlapInv` on the instance of `uow_overlap`
before it was proved.

`OnboardingProofs` proves for every set of requests, forms, numbers and
countries, every lifetime and any number of kills, interruptions and
transactions adrift, under `Onboarding!Spec`:

| theorem | states |
| --- | --- |
| `SeederSound`, `OnboardingSound` | the inductive invariants `SeederInv`, `OnboardingInv` |
| `TypeCorrect` | `Spec => []TypeOK` |
| `StartFailsOnce` | `Spec => []FailsOnce` |
| `SeededWhenListening` | `Spec => []SeededUnlessKilled` |
| `NobodyVerifiedWithoutCode` | `Spec => []VerifiedByCode` |
| `CodesAreSpent` | `Spec => []SomeCodeSpent` |
| `BenefitsAreVerified` | `Spec => []OnlyVerifiedBenefit` |
| `WalletsAreOpened` | `Spec => []WalletUnlessFailed` |

Assumptions: `SeederAssumption`, `OnboardingAssumption`. `SeederInv` has to say
that a failed start leaves a role, and that without a kill one start adds all
(`SeededSoFar`, by phase): a country that was there already never gets its
currency. `OnboardingInv` carries what a verification has established across
its awaits (`VerificationSound`): a code it matched is of its own number and
had not expired when it came, which stays true although others deactivate it
meanwhile; and when it comes to verify a user some code of the number is spent.
That holds of a verification that finds no code to deactivate only because
another one spent it, which `otp` never forgets. It need not be the code that
was compared: with two active codes of one number the second look-up may come
on the other, and the one that was compared stays open. `FramesSound` says that
frames come in pairs and that nothing is pending without one, or else a
committed wallet could be one of a transaction rolled back, and that nothing is
adrift before an interruption. `Calm` (no interruption yet) is a condition of
`SomeCodeSpent`, `OnlyVerifiedBenefit` and `WalletUnlessFailed`: an `update` by
the default manager on a connection with an orphaned transaction is lost when
that is rolled back, so an interruption can undo the deactivation of a code or
the verification of a user whose token stays. `VerifiedByCode` needs no such
condition. `WalletInv` is needed for `WalletUnlessFailed` alone: while nothing
failed or interrupted the frames are twice the requests under way, so a
request's completion never fails and the last one commits, and every verified
user has a wallet or a request on its way to open it.

`GuardsProofs` proves for every set of users, rights and requests, every route,
lifetime and delay, under `Guards!Spec`:

| theorem | states |
| --- | --- |
| `AnyIsOne` | with "ANY", `ValidatePermissions` holds when one of the required permissions is held |
| `GuardsSound` | `Spec => []GuardsInv`, the inductive invariant |
| `TypeCorrect` | `Spec => []TypeOK` |
| `CachesStayRecent` | `Spec => []CachesRecent` |
| `GuardsImplementRecentRights` | `Spec => ImplementsRecentRights` |

Assumptions: `GuardsAssumption` (the decorators' checks; an entry lives for a
positive time, and a call takes no longer than that) and `NoEntryAssumption`
(null is not an entry). The refinement is about two steps of a request several
calls apart, so `PositionSound` says at each await whose rights the request
holds and how old they can be: an entry as old as a lifetime and a call, a row
just read one call, a row that was stored before the decision two. The last is
why `Delay` may not exceed the lifetime.

*Only model-checked.* `EveryRequestEnds`, `EndsUnlessStarved` and the liveness
half of `ImplementsAtomicRequests`: liveness is out of the proof system's
reach.

## Disagreements found

1. *The answer comes before the commit* (`uow_paced`,
   `txInterceptor.interceptor.ts:45`, `:57`). `src/README.md:257` promises
   "Atomic transactions with rollback support" and the comments at `:44` and
   `:56` say "synchronously before". The calls are not awaited. In the run a
   request whose handler throws is answered while its ROLLBACK is queued. The
   next one, sent on that answer, finds the fields still set and joins; its
   first write is queued behind the ROLLBACK, so it is executed outside any
   transaction and is durable by itself, while its request is half done and
   unanswered.
2. *Credits concatenate* (`ledger_credit`, `convertCurrency.command.ts:144`,
   `fundWallet.command.ts:86`). The API collection shows a destination balance
   going from 400 to 500 (`src/assets/Credpal FX API.postman_collection.json:672`).
   With `decimal` columns that arrive as text, `+` writes digits behind it and
   the column rounds them away. In the run a user converts all of her 120000.00
   NGN to USD: the source is debited, the target, created with 0.00, gets the
   text "0.00120000" and stays 0.00, the record is COMPLETED, and the request
   goes on to its commit. `trade.command.ts:148-150` does it twice and
   the column refuses the text, so no trade completes.
3. *Two wallets* (`ledger_wallets`, `initializeUserWallet.command.ts:54`).
   `src/README.md:82`: "A user can only have one wallet". Find and create are
   two awaits, and no unique index exists.
4. *A pair is fetched once* (`fx_refresh`, `alphaAdvantage.provider.ts:94`).
   `src/README.md:84` announces rates that last "as long as the next update is
   not due". The fetch after that is a plain insert against the unique index
   (`fxRate.entity.ts:4`), so it and every later lookup of the pair return
   null, and fund, convert and trade dereference it.
5. *The role has no permissions* (`seeder_defaults`,
   `seeder.service.ts:243`). `src/README.md:86` says that users get a role
   "that comes with default permissions". On empty tables the first start
   stores the role, finds none of its permissions and throws; the next finds a
   role, skips the roles for good and listens.

## What is abstracted and what is left out

- The library under the unit of work (`QueryRunner`) is modelled from how the
  code uses it: statement queue, savepoints by depth, the `isReleased` and
  `isTransactionActive` flags, aborted transactions. Statements inside a
  handler are anonymous writes; reads do not change state.
- A COMMIT that the server refuses or that never answers is not modelled, nor
  is the loss of a database connection short of a crash of the process.
- In `Ledger` the request's COMMIT and its answer are one step (`Finish`),
  while the interceptor answers without awaiting the COMMIT: the first
  disagreement above. A crash between the two loses a request that was
  answered "ok", which is not in `Ledger`; its serial promises are those of a
  client that waits for the commit.
- `Ledger` and `Onboarding` take the awaits inside `start`, `complete` and
  `rollback` in whole steps, and what interleaving them does to the tables as
  `Interfere`, which is meant to allow all of that and more. It is not derived from
  `UnitOfWork` by a refinement. Properties that fail under it are stated for
  executions without an interruption (`SettledWhenQuiet`, `SomeCodeSpent`,
  `OnlyVerifiedBenefit`, `WalletUnlessFailed`); the others hold with any. Only
  the default manager's updates of a record, a code or a user can be lost with
  an orphaned transaction in the model, at once when they are made, not later;
  its inserts are a transaction of their own and are not.
- `MoveFunds` is one step: both updates are issued in the same tick and are
  adjacent in the shared runner's queue. Without a transaction they would go
  out on two connections, between which another statement could fall.
- The currency lookups and the FX rate are folded into `FindWallet` and
  `Refuse`: they change nothing in the ledger. The rate itself never enters a
  balance in the code.
- In `FxRates` the API call and the two currency lookups after it are one step
  (no shared state between them), as are `upsert` and the `findOne` of the row
  it just made. What an API answers is any publication up to now, so answers
  may be late or out of order. The handlers that ask are in `Ledger`.
- Overflow of `decimal(10,2)` appears as a refused statement.
- In `Seeder`, the branch that finds a role already stored inside `seedRoles`
  (`:122-127`) is not reached, as the method runs on an empty role table only;
  that a start passes `GrantPermissions` takes a permission table filled by hand.
- In `Onboarding`, lookups of roles, countries and currencies are part of the
  step before them: these tables do not change while the server listens. A
  code is the registration it was made for; a wrong code is another's. The
  opening balance and its record are in `Ledger`.
- In `Guards`, role and permissions are read in one query. Redis executes
  commands in the order they are issued, so a write is in the step that issues
  it. Nothing ever writes a `blacklist:` entry, so that check never refuses.
  `REDIS_TTL` is commented "30 minutes in seconds" and used as milliseconds
  (`configs/schema.config.ts:84`); `Lifetime` is in the clock's unit, whichever
  that is, and positive.

Not modelled, and why:

- Without a caller: `WalletRepository.updateWallet` and `updateWalletBalance`,
  `findAndPaginate`, `OtpService.sendOtpEmail` (and with it e-mail),
  `seedPermissions` and `seedRolesAndPermissions`, `updateFXRate` and
  `deleteFXRate`, the cache's `delete`, `has` and `clear`,
  `privateRoute.guard.ts`.
- Without state that another part reads: transaction metadata, the queries
  behind transaction history and wallets, logging and tracing, the formatting
  of answers, encryption, validation, configuration.

## Plan

Done: unit of work with the response interceptor and a pool that hands
connections on as they were left, ledger, what an interrupted unit of work does
to it, FX rates, seeder, onboarding on top of it, guards; the three abstract
specifications and the proofs that `UnitOfWork` and `Ledger` (one request at a
time) and `Guards` implement them.

What would come next:

1. `Onboarding` and `Ledger` share `initialize-wallet`; composing them would
   let a verification's wallet meet conversions of the same user.
2. Opening `Finish` of `Ledger` into answer and COMMIT, with a crash in
   between.
3. A refinement from `UnitOfWork` to `Interfere`: that what it allows includes
   every effect of overlapping starts, commits and rollbacks.
