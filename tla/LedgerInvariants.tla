--------------------------- MODULE LedgerInvariants ---------------------------
(***************************************************************************)
(* The inductive invariants from which the ledger's safety properties are  *)
(* proved.                                                                 *)
(***************************************************************************)
EXTENDS Ledger

(* The inductive invariant behind NoOverdraft, ColumnsAgree and AuditTrail.*)
(* A balance row is written from what some handler read earlier, perhaps   *)
(* in a transaction that was rolled back since, so what holds of the rows  *)
(* has to hold of every snapshot too.                                      *)

Backed(w, c) ==
  \E r \in Requests : /\ record[r] # "none"
                      /\ walletOf[r] = w
                      /\ call[r].target = c

MoneySound(id, m) ==
  /\ m.amount = m.availableAmount
  /\ m.amount >= 0 \/ NegativeFund(id[1])
  /\ m.amount > 0 => Backed(walletOf[id[1]], CurrencyOf(id[1], id[2]))

(* A row lies in the wallet and the currency its creator made it for.      *)
RowSound(id, row) ==
  /\ row.wallet = walletOf[id[1]]
  /\ row.currency = CurrencyOf(id[1], id[2])
  /\ MoneySound(id, row)

DatabaseSound(db) == \A b \in RowsOf(db) : RowSound(b, db.balance[b])

(* A snapshot is of a balance of the reader's wallet and currency.         *)
SnapshotSound(r, side, s) ==
  /\ walletOf[r] # NoWallet
  /\ walletOf[s.id[1]] = walletOf[r]
  /\ CurrencyOf(s.id[1], s.id[2]) = CurrencyOf(r, side)
  /\ MoneySound(s.id, s)

SnapshotsSound ==
  \A r \in Requests : \A side \in Sides :
    seen[r][side] # NoRow => SnapshotSound(r, side, seen[r][side])

(* What the position of a request says of its variables.                   *)
PositionSound(r) ==
  /\ call[r].op = "initialize" => call[r].amount = InitialDeposit
  /\ pc[r] \in {"absent", "wallet", "openWallet"} => walletOf[r] = NoWallet
  /\ pc[r] \in PCs \ {"absent", "wallet", "openWallet", "done"} =>
       walletOf[r] # NoWallet
  /\ pc[r] \in {"balance", "write", "complete", "finish"} => record[r] # "none"
  /\ pc[r] = "balance" => ~Exchange(r)
  /\ pc[r] \notin {"absent", "wallet", "done"} /\ Exchange(r) =>
       call[r].amount > 0
  /\ pc[r] = "write" /\ Exchange(r) => Sufficient(r)

(* A transaction nobody names may yet be committed or named again.         *)
AdriftSound == \A t \in adrift : DatabaseSound(t.to)

LedgerInv ==
  /\ TypeOK
  /\ DatabaseSound(durable)
  /\ DatabaseSound(working)
  /\ AdriftSound
  /\ SnapshotsSound
  /\ \A r \in Requests : PositionSound(r)

-----------------------------------------------------------------------------
(* Behind SettledWhenQuiet.  A rollback takes the frames of every running  *)
(* request with it, so a request may run with none; but no frame outlives  *)
(* the requests, and without a transaction writes are committed at once.   *)

Running == {r \in Requests : pc[r] \notin {"absent", "done"}}

SettledInv ==
  /\ IsFiniteSet(Running)
  /\ interruptions = 0 => transactionCount <= 2 * Cardinality(Running)
  /\ InTransaction => transactionCount % 2 = 0
  /\ ~InTransaction => working = durable

-----------------------------------------------------------------------------
(* Behind NoMoneyFromNothing.  The requests that may have credited a       *)
(* balance by now; each adds at most one hundredth to what it read.        *)

Creditors == {r \in Requests : record[r] # "none" /\ pc[r] \notin {"balance", "write"}}

Within(id, m, n) == m.amount <= Opening(id[1]) + n

DatabaseWithin(db, n) == \A b \in RowsOf(db) : Within(b, db.balance[b], n)

SnapshotsWithin(n) ==
  \A r \in Requests, side \in Sides :
    seen[r][side] # NoRow => Within(seen[r][side].id, seen[r][side], n)

AdriftWithin(n) == \A t \in adrift : DatabaseWithin(t.to, n)

MoneyInv ==
  /\ IsFiniteSet(Recorded)
  /\ DatabaseWithin(durable, Cardinality(Creditors))
  /\ DatabaseWithin(working, Cardinality(Creditors))
  /\ AdriftWithin(Cardinality(Creditors))
  /\ SnapshotsWithin(Cardinality(Creditors))
  /\ \A r \in Requests :
       /\ pc[r] \notin {"balance", "write", "complete", "finish", "done"} =>
            record[r] = "none"
       /\ pc[r] \in {"balances", "makeSource", "rereadSource", "makeTarget",
                     "rereadTarget"} => Exchange(r)

-----------------------------------------------------------------------------
(* Behind OneWalletPerUser and OneBalancePerCurrency, with one request at  *)
(* a time.  Nothing but the handlers' own look-ups keeps keys unique, so   *)
(* what a look-up did not find has to be absent still when it is created.  *)

(* Of the verifications finished before, no two were one user's.           *)
ASSUME PastAssumption == \A p, q \in DOMAIN Past : Past[p] = Past[q] => p = q

UniqueIn(db) ==
  /\ \A v, w \in WalletIds : db.wallet[v] = db.wallet[w] /\ db.wallet[v] # NoUser => v = w
  /\ \A a, b \in RowsOf(db) :
       /\ db.balance[a].wallet = db.balance[b].wallet
       /\ db.balance[a].currency = db.balance[b].currency
       => a = b

OneAtATime ==
  \A r, q \in Requests :
    pc[r] \notin {"absent", "done"} /\ pc[q] \notin {"absent", "done"} => r = q

Missing(r, side) == BalancesOf(walletOf[r], CurrencyOf(r, side)) = {}

StillMissing(r) ==
  /\ pc[r] = "openWallet" => WalletsOf(call[r].user) = {}
  /\ pc[r] \in {"balances", "makeSource", "rereadSource"} =>
       call[r].source # call[r].target
  /\ pc[r] = "makeSource" => Missing(r, "source")
  /\ pc[r] \in {"makeSource", "rereadSource"} /\ seen[r]["target"] = NoRow =>
       Missing(r, "target")
  /\ pc[r] = "makeTarget" => Missing(r, "target")
  /\ pc[r] = "write" /\ ~Exchange(r) /\ seen[r]["target"] = NoRow =>
       Missing(r, "target")

UniqueInv ==
  /\ OneAtATime
  /\ adrift = {}
  /\ UniqueIn(durable)
  /\ UniqueIn(working)
  /\ \A r \in Requests : StillMissing(r)
=============================================================================
