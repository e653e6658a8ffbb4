-------------------------------- MODULE Ledger --------------------------------
(***************************************************************************)
(* Wallets, balances and transaction records under the fund, convert,      *)
(* trade and initialize-wallet handlers, at the granularity of their       *)
(* awaits.                                                                 *)
(*                                                                         *)
(* The wallet and balance repositories write through the unit of work, so  *)
(* there are two views of them: durable, what is committed, and working,   *)
(* what the one shared transaction sees.  Transaction records are written  *)
(* by the default manager and are committed at once.                       *)
(*                                                                         *)
(* Submit, Finish and Fail are the unit of work's start, complete and      *)
(* rollback when nobody else's come between their awaits.  What may happen *)
(* when they do (module UnitOfWork has it step by step) is Interfere,      *)
(* which allows more than the code does: transactions that nobody names    *)
(* any more, commits at any time, statements on connections that still     *)
(* have a transaction open.                                                *)
(***************************************************************************)
EXTENDS Money, FiniteSets

CONSTANTS Users, Currencies,
          Requests,      \* requests, which also name the wallets they create
          Calls,         \* what a request may ask for
          Home,          \* the currency of a user's country
          Past,          \* finished verifications: request -> user
          MaxAdrift,     \* bounds on the transactions nobody names and on
          MaxInterruptions,  \* the times they change places
          NoUser, NoRow, NoWallet

InitialDeposit == 12000000   \* 120000.00

Ops == {"fund", "convert", "trade", "initialize"}
Sides == {"source", "target"}

Call == [op : Ops, user : Users, source : Currencies, target : Currencies,
         amount : Int]

InitializeCall(u) ==
  [op |-> "initialize", user |-> u, source |-> Home[u], target |-> Home[u],
   amount |-> InitialDeposit]

ASSUME LedgerAssumption ==
  /\ Home \in [Users -> Currencies]
  /\ Calls \subseteq Call
  /\ \A c \in Calls :
       /\ c.op \in {"fund", "initialize"} => c.source = c.target
       /\ c.op = "initialize" => c = InitializeCall(c.user)
  /\ DOMAIN Past \subseteq Requests /\ IsFiniteSet(DOMAIN Past)
  /\ \A p \in DOMAIN Past : Past[p] \in Users
  /\ NoUser \notin Users
  /\ NoWallet \notin Requests
  /\ MaxAdrift \in Nat /\ MaxInterruptions \in Nat

(* Ids are fresh: a wallet is named by the request that creates it, a      *)
(* balance by that request and the side of the exchange it is for.         *)
WalletIds == Requests
BalanceIds == Requests \X Sides

Row == [wallet : WalletIds, currency : Currencies,
        amount : Int, availableAmount : Int]

(* A balance as a handler has read it.                                     *)
Snapshot == [id : BalanceIds, amount : Int, availableAmount : Int]

ASSUME NullAssumption == NoRow \notin Row \cup Snapshot

Database == [wallet : [WalletIds -> Users \cup {NoUser}],
             balance : [BalanceIds -> Row \cup {NoRow}]]

VARIABLES durable,           \* committed wallets and balances
          working,           \* the same as seen through the unit of work
          transactionCount,  \* frames of the shared transaction, none if <= 0
          adrift,            \* transactions left open that nobody names
          interruptions,     \* times starts, commits, rollbacks interleaved
          call,              \* what each request asks for
          pc,                \* the await each request is suspended at
          walletOf,          \* the wallet a handler found or created
          seen,              \* the balances it has read
          record,            \* the status of its transaction record
          reply              \* what the client was told

vars == <<durable, working, transactionCount, adrift, interruptions, call, pc,
          walletOf, seen, record, reply>>

aside == <<call, adrift, interruptions>>

PCs == {"absent", "wallet", "openWallet", "balances", "makeSource",
        "rereadSource", "makeTarget", "rereadTarget", "balance", "record",
        "write", "complete", "finish", "done"}

OpeningDatabase ==
  [wallet  |-> [w \in WalletIds |->
                  IF w \in DOMAIN Past THEN Past[w] ELSE NoUser],
   balance |-> [b \in BalanceIds |->
                  IF b[1] \in DOMAIN Past /\ b[2] = "target"
                  THEN [wallet |-> b[1], currency |-> Home[Past[b[1]]],
                        amount |-> InitialDeposit,
                        availableAmount |-> InitialDeposit]
                  ELSE NoRow]]

IsPast(r) == r \in DOMAIN Past

(* Of a Transaction its status is kept: its wallet is the request's        *)
(* walletOf, its currencies and its amount are those of the call.          *)
TransactionStatus == {"none", "PENDING", "COMPLETED"}

Init ==
  /\ durable = OpeningDatabase
  /\ working = OpeningDatabase
  /\ transactionCount = 0
  /\ adrift = {}
  /\ interruptions = 0
  /\ call \in {f \in [Requests -> Calls \cup {InitializeCall(u) : u \in Users}] :
                 \A r \in Requests : IF IsPast(r) THEN f[r] = InitializeCall(Past[r])
                                                 ELSE f[r] \in Calls}
  /\ pc = [r \in Requests |-> IF IsPast(r) THEN "done" ELSE "absent"]
  /\ walletOf = [r \in Requests |-> IF IsPast(r) THEN r ELSE NoWallet]
  /\ seen = [r \in Requests |-> [side \in Sides |-> NoRow]]
  /\ record = [r \in Requests |-> IF IsPast(r) THEN "COMPLETED" ELSE "none"]
  /\ reply = [r \in Requests |-> IF IsPast(r) THEN "ok" ELSE "none"]

-----------------------------------------------------------------------------
(* The database and the unit of work.                                      *)

CurrencyOf(r, side) == IF side = "source" THEN call[r].source ELSE call[r].target

InTransaction == transactionCount > 0

(* The rows a transaction has written, put on another view.                *)
Transaction == [from : Database, to : Database]

Landed(db, t) ==
  [wallet  |-> [w \in WalletIds |->
                  IF t.to.wallet[w] = t.from.wallet[w] THEN db.wallet[w]
                                                       ELSE t.to.wallet[w]],
   balance |-> [b \in BalanceIds |->
                  IF t.to.balance[b] = t.from.balance[b] THEN db.balance[b]
                                                         ELSE t.to.balance[b]]]

(* A write of BaseRepository: in the shared transaction when there is one, *)
(* else committed at once, unless the pool gives the default manager a     *)
(* connection that still has a transaction open.                           *)
Store(db) ==
  \/ /\ working' = db
     /\ durable' = IF InTransaction THEN durable ELSE db
     /\ UNCHANGED adrift
  \/ /\ ~InTransaction
     /\ \E t \in adrift :
          adrift' = (adrift \ {t})
            \cup {[t EXCEPT !.to = Landed(t.to, [from |-> working, to |-> db])]}
     /\ UNCHANGED <<durable, working>>

WalletsOf(u) == {w \in WalletIds : working.wallet[w] = u}

BalancesOf(w, c) ==
  {b \in BalanceIds : /\ working.balance[b] # NoRow
                      /\ working.balance[b].wallet = w
                      /\ working.balance[b].currency = c}

(* findWalletBalance: any of the matching rows, or null.                   *)
Reads(r, side) ==
  LET found == BalancesOf(walletOf[r], CurrencyOf(r, side))
  IN  IF found = {} THEN {NoRow}
      ELSE {[id |-> b, amount |-> working.balance[b].amount,
             availableAmount |-> working.balance[b].availableAmount] : b \in found}

(* The foreign key of wallet_balance refuses a wallet that is not there.   *)
CanCreate(r) == working.wallet[walletOf[r]] # NoUser

WithRow(r, side, money) ==
  [working EXCEPT !.balance[<<r, side>>] =
     [wallet |-> walletOf[r], currency |-> CurrencyOf(r, side),
      amount |-> money, availableAmount |-> money]]

(* updateWalletBalance writes absolute values, and nothing if the row is   *)
(* gone.                                                                   *)
Updated(db, id, amount, available) ==
  IF db.balance[id] = NoRow THEN db
  ELSE [db EXCEPT !.balance[id] =
          [wallet |-> @.wallet, currency |-> @.currency,
           amount |-> amount, availableAmount |-> available]]

Debited(db, s, x) ==
  Updated(db, s.id, Minus(s.amount, x), Minus(s.availableAmount, x))

(* Slip: only the available amount is credited.                            *)
Credited_AvailableOnly(db, s, x) ==
  Updated(db, s.id, s.amount, Plus(s.availableAmount, x))

Credited(db, s, x) ==
  Updated(db, s.id, Plus(s.amount, x), Plus(s.availableAmount, x))

Goto(r, p) == pc' = [pc EXCEPT ![r] = p]

(* A frame is taken off when a handler throws (executeInTransaction), and  *)
(* rollback returns early when there is no transaction.                    *)
CountAfterFailure == IF InTransaction THEN 0 ELSE transactionCount - 1

(* Slip: the error is answered and the transaction forgotten, not rolled   *)
(* back.                                                                   *)
Fail_NotRolledBack(r) ==
  /\ Goto(r, "done")
  /\ reply' = [reply EXCEPT ![r] = "error"]
  /\ transactionCount' = CountAfterFailure
  /\ UNCHANGED <<aside, durable, working, walletOf, seen, record>>

(* Slip: the frames of the rolled back transaction stay counted.           *)
Fail_CountKept(r) ==
  /\ Goto(r, "done")
  /\ reply' = [reply EXCEPT ![r] = "error"]
  /\ working' = durable
  /\ UNCHANGED <<aside, durable, transactionCount, walletOf, seen, record>>

(* Slip: the transaction record is rolled back as well.                    *)
Fail_RecordToo(r) ==
  /\ Goto(r, "done")
  /\ reply' = [reply EXCEPT ![r] = "error"]
  /\ record' = [record EXCEPT ![r] = "none"]
  /\ working' = durable
  /\ transactionCount' = CountAfterFailure
  /\ UNCHANGED <<aside, durable, walletOf, seen>>

(* The handler throws: executeInTransaction rethrows, the interceptor      *)
(* answers with the error and rolls back whatever transaction is open.     *)
Fail(r) ==
  /\ Goto(r, "done")
  /\ reply' = [reply EXCEPT ![r] = "error"]
  /\ working' = durable
  /\ transactionCount' = CountAfterFailure
  /\ UNCHANGED <<aside, durable, walletOf, seen, record>>

-----------------------------------------------------------------------------
(* The handlers.                                                           *)

(* The interceptor's start and executeInTransaction's: two frames on the   *)
(* transaction of the process, or on a new one.                            *)
Submit(r) ==
  /\ pc[r] = "absent"
  /\ transactionCount' = IF InTransaction THEN transactionCount + 2 ELSE 2
  /\ Goto(r, "wallet")
  /\ UNCHANGED <<aside, durable, working, walletOf, seen, record, reply>>

Exchange(r) == call[r].op \in {"convert", "trade"}

(* An unknown currency, no rate (fxRate.result is null).                   *)
Refuse(r) ==
  /\ pc[r] = "wallet"
  /\ Fail(r)

(* Slip: a verification opens a wallet without looking for one.            *)
FindWallet_NotLookedUp(r) ==
  /\ pc[r] = "wallet"
  /\ call[r].op = "initialize"
  /\ Goto(r, "openWallet")
  /\ UNCHANGED <<aside, durable, working, transactionCount, walletOf, seen, record, reply>>

(* Slip: the id of the user is taken for that of the wallet.               *)
FindWallet_UserId(r) ==
  /\ pc[r] = "wallet"
  /\ WalletsOf(call[r].user) # {}
  /\ walletOf' = [walletOf EXCEPT ![r] = call[r].user]
  /\ Goto(r, IF Exchange(r) THEN "balances" ELSE "record")
  /\ UNCHANGED <<aside, durable, working, transactionCount, seen, record, reply>>

FindWallet(r) ==
  /\ pc[r] = "wallet"
  /\ \/ /\ Exchange(r)
        /\ call[r].amount <= 0 \/ call[r].source = call[r].target
        /\ Fail(r)
     \/ /\ Exchange(r) => call[r].amount > 0 /\ call[r].source # call[r].target
        /\ \E w \in WalletsOf(call[r].user) :
             walletOf' = [walletOf EXCEPT ![r] = w]
        /\ Goto(r, IF Exchange(r) THEN "balances" ELSE "record")
        /\ UNCHANGED <<aside, durable, working, transactionCount, seen, record, reply>>
     \/ /\ WalletsOf(call[r].user) = {}
        /\ call[r].op # "initialize"
        /\ Fail(r)
     \/ /\ WalletsOf(call[r].user) = {}
        /\ call[r].op = "initialize"
        /\ Goto(r, "openWallet")
        /\ UNCHANGED <<aside, durable, working, transactionCount, walletOf, seen,
                       record, reply>>

(* createWallet of initializeUserWallet.                                   *)
OpenWallet(r) ==
  /\ pc[r] = "openWallet"
  /\ Store([working EXCEPT !.wallet[r] = call[r].user])
  /\ walletOf' = [walletOf EXCEPT ![r] = r]
  /\ Goto(r, "record")
  /\ UNCHANGED <<call, interruptions, transactionCount, seen, record, reply>>

(* Convert and trade read both balances in one Promise.all.                *)
ReadBalances(r) ==
  /\ pc[r] = "balances"
  /\ \E s \in Reads(r, "source"), t \in Reads(r, "target") :
       /\ seen' = [seen EXCEPT ![r] = [side \in Sides |->
                                         IF side = "source" THEN s ELSE t]]
       /\ Goto(r, IF s = NoRow THEN "makeSource"
                  ELSE IF t = NoRow THEN "makeTarget" ELSE "record")
  /\ UNCHANGED <<aside, durable, working, transactionCount, walletOf, record, reply>>

(* They create a balance they did not find, then read it again.            *)
MakeBalance(r, side, from, to) ==
  /\ pc[r] = from
  /\ \/ /\ CanCreate(r)
        /\ Store(WithRow(r, side, 0))
        /\ Goto(r, to)
        /\ UNCHANGED <<call, interruptions, transactionCount, walletOf, seen, record, reply>>
     \/ /\ ~CanCreate(r)
        /\ Fail(r)

RereadBalance(r, side, from) ==
  /\ pc[r] = from
  /\ \E s \in Reads(r, side) : seen' = [seen EXCEPT ![r][side] = s]
  /\ Goto(r, IF side = "source" /\ seen[r]["target"] = NoRow
             THEN "makeTarget" ELSE "record")
  /\ UNCHANGED <<aside, durable, working, transactionCount, walletOf, record, reply>>

MakeSource(r) == MakeBalance(r, "source", "makeSource", "rereadSource")
MakeTarget(r) == MakeBalance(r, "target", "makeTarget", "rereadTarget")
RereadSource(r) == RereadBalance(r, "source", "rereadSource")
RereadTarget(r) == RereadBalance(r, "target", "rereadTarget")

(* Slip: the balance is not compared with the amount.                      *)
Sufficient_Unchecked(r) ==
  seen[r]["source"] # NoRow /\ seen[r]["target"] # NoRow

(* A balance that a neighbour's rollback took away reads as null, which    *)
(* throws a TypeError at the check.                                        *)
Sufficient(r) ==
  /\ seen[r]["source"] # NoRow
  /\ seen[r]["target"] # NoRow
  /\ seen[r]["source"].availableAmount >= call[r].amount

(* createTransaction, through the default manager: PENDING and committed.  *)
CreateRecord(r) ==
  /\ pc[r] = "record"
  /\ \/ /\ Exchange(r) /\ ~Sufficient(r)
        /\ Fail(r)
     \/ /\ Exchange(r) => Sufficient(r)
        /\ record' = [record EXCEPT ![r] = "PENDING"]
        /\ Goto(r, IF Exchange(r) THEN "write" ELSE "balance")
        /\ UNCHANGED <<aside, durable, working, transactionCount, walletOf, seen, reply>>

(* Fund and initialize look the balance up after the record; initialize    *)
(* leaves one it finds as it is.                                           *)
ReadBalance(r) ==
  /\ pc[r] = "balance"
  /\ \E t \in Reads(r, "target") :
       /\ seen' = [seen EXCEPT ![r]["target"] = t]
       /\ Goto(r, IF call[r].op = "initialize" /\ t # NoRow
                  THEN "complete" ELSE "write")
  /\ UNCHANGED <<aside, durable, working, transactionCount, walletOf, record, reply>>

DepositAccepted(r) ==
  IF seen[r]["target"] = NoRow THEN CanCreate(r) ELSE Appendable(call[r].amount)

(* Slip: a deposit always makes a new balance.                             *)
Deposit_NewBalance(r) ==
  /\ pc[r] = "write" /\ ~Exchange(r)
  /\ Store(WithRow(r, "target", call[r].amount))
  /\ Goto(r, "complete")
  /\ UNCHANGED <<call, interruptions, transactionCount, walletOf, seen, record, reply>>

Deposit(r) ==
  /\ pc[r] = "write" /\ ~Exchange(r)
  /\ \/ /\ DepositAccepted(r)
        /\ LET t == seen[r]["target"]
               x == call[r].amount
           IN  Store(IF t = NoRow THEN WithRow(r, "target", x)
                                  ELSE Credited(working, t, x))
        /\ Goto(r, "complete")
        /\ UNCHANGED <<call, interruptions, transactionCount, walletOf, seen, record, reply>>
     \/ /\ ~DepositAccepted(r)
        /\ Fail(r)

(* Trade credits availableAmount with the text of the new amount, which    *)
(* never reads as a number.                                                *)
CreditAccepted(r) == call[r].op = "convert" /\ Appendable(call[r].amount)

(* Convert and trade issue both updates in one Promise.all.  When the      *)
(* credit is refused the debit goes with the shared transaction, or stays  *)
(* if there is none any more.                                              *)
MoveFunds(r) ==
  /\ pc[r] = "write" /\ Exchange(r)
  /\ LET x == call[r].amount
         debited == Debited(working, seen[r]["source"], x)
     IN  \/ /\ CreditAccepted(r)
            /\ Store(Credited(debited, seen[r]["target"], x))
            /\ Goto(r, "complete")
            /\ UNCHANGED <<call, interruptions, transactionCount, walletOf, seen, record, reply>>
         \/ /\ ~CreditAccepted(r)
            /\ InTransaction
            /\ Fail(r)
         \/ /\ ~CreditAccepted(r)
            /\ ~InTransaction
            /\ Store(debited)
            /\ Goto(r, "done")
            /\ reply' = [reply EXCEPT ![r] = "error"]
            /\ transactionCount' = CountAfterFailure
            /\ UNCHANGED <<call, interruptions, walletOf, seen, record>>

(* updateTransaction to COMPLETED.  Fund reads walletBalance.availableAmount *)
(* for it, also when it has just created the balance and that is null.  On *)
(* a connection with a transaction left open the update need not last.     *)
CompleteRecord(r) ==
  /\ pc[r] = "complete"
  /\ \/ /\ call[r].op = "fund" /\ seen[r]["target"] = NoRow
        /\ Fail(r)
     \/ /\ call[r].op = "fund" => seen[r]["target"] # NoRow
        /\ \/ record' = [record EXCEPT ![r] = "COMPLETED"]
           \/ adrift # {} /\ UNCHANGED record
        /\ Goto(r, "finish")
        /\ UNCHANGED <<aside, durable, working, transactionCount, walletOf, seen, reply>>

(* The handler returns: both frames complete, the last one commits.  With  *)
(* no transaction left, complete() throws.                                 *)
Finish(r) ==
  /\ pc[r] = "finish"
  /\ \/ /\ InTransaction
        /\ transactionCount' = transactionCount - 2
        /\ durable' = IF transactionCount = 2 THEN working ELSE durable
        /\ Goto(r, "done")
        /\ reply' = [reply EXCEPT ![r] = "ok"]
        /\ UNCHANGED <<aside, working, walletOf, seen, record>>
     \/ /\ ~InTransaction
        /\ Fail(r)

Step(r) ==
  \/ Refuse(r) \/ FindWallet(r) \/ OpenWallet(r)
  \/ ReadBalances(r) \/ MakeSource(r) \/ RereadSource(r)
  \/ MakeTarget(r) \/ RereadTarget(r)
  \/ CreateRecord(r) \/ ReadBalance(r)
  \/ Deposit(r) \/ MoveFunds(r)
  \/ CompleteRecord(r) \/ Finish(r)

(* Any statement may be refused; after one was, the server refuses those   *)
(* of every request until the shared transaction is rolled back.           *)
DatabaseError(r) ==
  /\ pc[r] \notin {"absent", "done"}
  /\ Fail(r)

Work(r) == Step(r) \/ DatabaseError(r)

Quiescent == \A r \in Requests : pc[r] \in {"absent", "done"}

(* The process dies: the server rolls the open transactions back.          *)
Crash ==
  /\ ~Quiescent
  /\ working' = durable
  /\ transactionCount' = 0
  /\ adrift' = {}
  /\ pc' = [r \in Requests |-> IF pc[r] = "absent" THEN "absent" ELSE "done"]
  /\ UNCHANGED <<call, interruptions, durable, walletOf, seen, record, reply>>

(* What interleaving the awaits of start, complete and rollback may do to  *)
(* the views: a transaction is committed, by whoever has its connection;   *)
(* another takes the place of the one that is named, a new one, one that   *)
(* the connection still had or one that a savepoint kept; some are left    *)
(* open, some closed.  A transaction no request has a frame on is none.    *)
Frames == {0, 2, 4}

Several ==
  \E r, q \in Requests \ DOMAIN Past : r # q /\ pc[r] # "absent" /\ pc[q] # "absent"

Interfere ==
  LET open == adrift \cup {[from |-> durable, to |-> working],
                           [from |-> durable, to |-> durable]}
  IN  /\ Several
      /\ interruptions < MaxInterruptions
      /\ \E committed, named \in open :
           /\ durable' = Landed(durable, committed)
           /\ working' = Landed(durable', named)
      /\ adrift' \in SUBSET open
      /\ Cardinality(adrift') <= MaxAdrift
      /\ transactionCount' \in Frames
      /\ transactionCount' = 0 => working' = durable'
      /\ interruptions' = interruptions + 1
      /\ UNCHANGED <<call, pc, walletOf, seen, record, reply>>

CalmNext == Crash \/ \E r \in Requests : Submit(r) \/ Work(r)

Next == CalmNext \/ Interfere

Spec == Init /\ [][Next]_vars

(* Requests overlap, but a start, commit or rollback ends before the next  *)
(* begins.                                                                 *)
CalmSpec == Init /\ [][CalmNext]_vars

(* One request at a time, sent when the commit or the rollback of the one  *)
(* before is over.  It may fail at any await, that for the end of          *)
(* executeInTransaction included, and the process may die.                 *)
SerialSubmit(r) == Quiescent /\ Submit(r)

SerialNext == Crash \/ \E r \in Requests : SerialSubmit(r) \/ Work(r)

SerialSpec == Init /\ [][SerialNext]_vars

-----------------------------------------------------------------------------
(* Properties.  Unless said otherwise they hold with requests overlapping  *)
(* in any way and the process crashing at any moment.                      *)

(* The views, the positions and what handlers have read keep their types.  *)
TypeOK ==
  /\ durable \in Database
  /\ working \in Database
  /\ transactionCount \in Int
  /\ adrift \in SUBSET Transaction
  /\ interruptions \in Nat
  /\ call \in [Requests -> Call]
  /\ pc \in [Requests -> PCs]
  /\ walletOf \in [Requests -> WalletIds \cup {NoWallet}]
  /\ seen \in [Requests -> [Sides -> Snapshot \cup {NoRow}]]
  /\ record \in [Requests -> TransactionStatus]
  /\ reply \in [Requests -> {"none", "ok", "error"}]

Databases == {durable, working}
RowsOf(db) == {b \in BalanceIds : db.balance[b] # NoRow}

(* No race makes the code spend money a balance does not have: a row is    *)
(* below zero only if the fund request that created it asked for a         *)
(* negative amount, which nothing validates.                               *)
NegativeFund(r) == call[r].op = "fund" /\ call[r].amount < 0

NoOverdraft ==
  \A db \in Databases : \A b \in RowsOf(db) :
    \/ db.balance[b].amount >= 0 /\ db.balance[b].availableAmount >= 0
    \/ NegativeFund(b[1])

(* The two columns of a balance are written by separate expressions and    *)
(* checked by only one of them; they never come apart.                     *)
ColumnsAgree ==
  \A db \in Databases : \A b \in RowsOf(db) :
    db.balance[b].amount = db.balance[b].availableAmount

(* Whatever is rolled back, lost or retried, money in a balance has a      *)
(* transaction record of its wallet that names its currency as the         *)
(* destination.                                                            *)
AuditTrail ==
  \A db \in Databases : \A b \in RowsOf(db) :
    db.balance[b].amount > 0 =>
      \E r \in Requests :
        /\ record[r] # "none"
        /\ walletOf[r] = db.balance[b].wallet
        /\ call[r].target = db.balance[b].currency

(* Lost updates lose credits or debits, they never add up to more than was *)
(* deposited: a row holds at most what it was created with and one         *)
(* hundredth for every request that may have credited it.                  *)
Opening(r) ==
  CASE call[r].op = "initialize" -> InitialDeposit
    [] call[r].op = "fund"       -> call[r].amount
    [] OTHER                     -> 0

Recorded == {r \in Requests : record[r] # "none"}

NoMoneyFromNothing ==
  \A db \in Databases : \A b \in RowsOf(db) :
    db.balance[b].amount <= Opening(b[1]) + Cardinality(Recorded)

(* Handlers overlap in one transaction, roll it back under each other and  *)
(* go on without; yet, unless starts, commits and rollbacks interleaved,   *)
(* when no request is running nothing is left uncommitted for the next one *)
(* to inherit.                                                             *)
SettledWhenQuiet ==
  Quiescent /\ interruptions = 0 => ~InTransaction /\ working = durable

(* One request at a time: a user has one wallet and a wallet one balance   *)
(* per currency, though no index says so.                                  *)
OneWalletPerUser ==
  \A v, w \in WalletIds :
    durable.wallet[v] = durable.wallet[w] /\ durable.wallet[v] # NoUser => v = w

OneBalancePerCurrency ==
  \A a, b \in RowsOf(durable) :
    /\ durable.balance[a].wallet = durable.balance[b].wallet
    /\ durable.balance[a].currency = durable.balance[b].currency
    => a = b
=============================================================================
