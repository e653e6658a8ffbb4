----------------------------- MODULE LedgerAudit -----------------------------
(***************************************************************************)
(* The books of the ledger: what balances and transaction records say of   *)
(* each other, and the inductive invariant that keeps them in agreement.   *)
(***************************************************************************)
EXTENDS LedgerInvariants, Functions

(* What the requests of a set say of a currency of a wallet.  The deposit  *)
(* of a verification counts once: a second one is recorded as COMPLETED    *)
(* and credits nothing.                                                    *)
On(S, w) == {r \in S : walletOf[r] = w}

Deposited(S, w, c) ==
  IF \E r \in On(S, w) : call[r].op = "initialize" /\ call[r].target = c
  THEN InitialDeposit ELSE 0

In(r, c) ==
  IF call[r].op # "initialize" /\ call[r].target = c THEN Carry(call[r].amount) ELSE 0

Out(r, c) ==
  IF Exchange(r) /\ call[r].source = c THEN call[r].amount ELSE 0

Movement(c) == [r \in Requests |-> In(r, c) - Out(r, c)]

Recounted(S, w, c) == Deposited(S, w, c) + SumFunctionOnSet(Movement(c), On(S, w))

HeldIn(db, w, c) ==
  {b \in RowsOf(db) : db.balance[b].wallet = w /\ db.balance[b].currency = c}

Balance(db, w, c) ==
  SumFunctionOnSet([b \in RowsOf(db) |-> db.balance[b].availableAmount], HeldIn(db, w, c))

Balanced(db, S) ==
  \A w \in WalletIds, c \in Currencies : Balance(db, w, c) = Recounted(S, w, c)

Completed == {r \in Requests : record[r] = "COMPLETED"}

(* complete() commits and answers in one step here.                        *)
Committed == {r \in Requests : reply[r] = "ok"}

(* One request at a time: the committed balances are exactly what the      *)
(* requests that committed add up to, and the records of these are         *)
(* COMPLETED.  A request that failed at any await or that a crash cut off  *)
(* moved nothing, whether its record was left PENDING or says COMPLETED.   *)
LedgerMatchesRecords ==
  Quiescent => /\ Committed \subseteq Completed
               /\ Balanced(durable, Committed)

(* One request at a time, whatever fails: every step of the handlers, seen *)
(* through what is committed, is a step of AccountBook or none.  The       *)
(* commit alone moves money, all of a request at once.                     *)
Book == [w \in WalletIds |-> [c \in Currencies |-> Balance(durable, w, c)]]

Accounts == INSTANCE AccountBook WITH
              owner <- durable.wallet, book <- Book, outcome <- reply

ImplementsAccountBook == Accounts!Spec

(* What the API collection shows: a conversion that went through has added *)
(* its amount to the destination balance it read.                          *)
CreditIsTheAmount ==
  \A r \in Requests :
    pc[r] = "finish" /\ call[r].op = "convert" =>
      LET t == seen[r]["target"]
      IN  working.balance[t.id].availableAmount = t.availableAmount + call[r].amount

-----------------------------------------------------------------------------
(* Behind both.  The committed rows are balanced by the requests that      *)
(* committed, the rows of the open transaction by these and the request    *)
(* that has written by now.                                                *)

Posted == {r \in Requests : pc[r] \in {"complete", "finish"}}

(* A deposit into a balance it has itself created goes on to fail: its     *)
(* money is in the open transaction and will not stay.                     *)
Doomed(r) == pc[r] = "complete" /\ call[r].op = "fund" /\ seen[r]["target"] = NoRow

(* No balance was created by a deposit, so none is below zero.             *)
NotFunded(db) == \A b \in RowsOf(db) : call[b[1]].op # "fund"

RowsHoused(db) == \A b \in RowsOf(db) : db.wallet[db.balance[b].wallet] # NoUser

(* A wallet was opened by a verification of its user, which put the first  *)
(* deposit into it.                                                        *)
OpenedBy(db, w) ==
  /\ walletOf[w] = w
  /\ call[w].op = "initialize"
  /\ call[w].user = db.wallet[w]
  /\ pc[w] \in {"record", "balance", "write"} \/ HeldIn(db, w, call[w].target) # {}

DurableBooks ==
  /\ \A r \in Committed : walletOf[r] # NoWallet /\ durable.wallet[walletOf[r]] # NoUser
  /\ \A w \in WalletIds : durable.wallet[w] # NoUser => w \in Committed /\ OpenedBy(durable, w)
  /\ RowsHoused(durable)
  /\ NotFunded(durable)
  /\ Balanced(durable, Committed)

WorkingBooks ==
  /\ \A r \in Committed : working.wallet[walletOf[r]] # NoUser
  /\ \A w \in WalletIds :
       working.wallet[w] # NoUser =>
         /\ w \in Committed \/ pc[w] \in {"record", "balance", "write", "complete", "finish"}
         /\ OpenedBy(working, w)
  /\ RowsHoused(working)
  /\ (\A r \in Requests : ~Doomed(r)) =>
       /\ NotFunded(working)
       /\ Balanced(working, Committed \cup Posted)

(* What the running request has read is what the transaction still holds.  *)
Fresh(r, side) ==
  seen[r][side] # NoRow =>
    /\ seen[r][side].id \in HeldIn(working, walletOf[r], CurrencyOf(r, side))
    /\ working.balance[seen[r][side].id].availableAmount = seen[r][side].availableAmount

BetweenReads == {"makeSource", "rereadSource", "makeTarget", "rereadTarget"}

HandlerSound(r) ==
  /\ call[r].op = "initialize" => call[r] = InitializeCall(call[r].user)
  /\ pc[r] # "done" => reply[r] = "none"
  /\ reply[r] = "ok" => record[r] = "COMPLETED"
  /\ pc[r] \in {"complete", "finish"} /\ ~Doomed(r) /\ call[r].op # "initialize" =>
       call[r].op # "trade" /\ Appendable(call[r].amount)
  /\ pc[r] = "finish" => record[r] = "COMPLETED"
  /\ pc[r] \in BetweenReads \cup {"balances"} => Exchange(r)
  /\ pc[r] = "openWallet" => call[r].op = "initialize"
  /\ pc[r] \notin {"absent", "wallet", "openWallet", "done"} =>
       /\ working.wallet[walletOf[r]] = call[r].user
       /\ Exchange(r) => call[r].source # call[r].target
  /\ pc[r] \in {"record", "balance", "write"} /\ walletOf[r] = r =>
       \A c \in Currencies : HeldIn(working, r, c) = {}
  /\ pc[r] \in BetweenReads \/ (pc[r] \in {"record", "write"} /\ Exchange(r)) =>
       Fresh(r, "source") /\ Fresh(r, "target")
  /\ pc[r] = "write" /\ ~Exchange(r) => Fresh(r, "target")
  /\ pc[r] = "write" /\ call[r].op = "initialize" => seen[r]["target"] = NoRow

BooksInv ==
  /\ IsFiniteSet(Committed)
  /\ adrift = {}
  /\ IF Quiescent THEN transactionCount = 0 /\ working = durable
                  ELSE transactionCount = 2
  /\ DurableBooks
  /\ WorkingBooks
  /\ \A r \in Requests : HandlerSound(r)
=============================================================================
