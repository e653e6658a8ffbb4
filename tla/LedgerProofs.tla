----------------------------- MODULE LedgerProofs -----------------------------
(***************************************************************************)
(* However requests overlap and whenever the process crashes: LedgerInv is *)
(* an inductive invariant of the ledger for every set of users,            *)
(* currencies, requests and calls, and NoOverdraft, ColumnsAgree and       *)
(* AuditTrail follow from it; so do, by counting requests,                 *)
(* SettledWhenQuiet and NoMoneyFromNothing.                                *)
(***************************************************************************)
EXTENDS LedgerInvariants, FiniteSetTheorems, TLAPS

USE DEF aside

(* What the text of a balance and an amount make is a number, and not a    *)
(* negative one if the balance was none.                                   *)
LEMMA PlusSound ==
  ASSUME NEW b \in Int, NEW x
  PROVE  Plus(b, x) \in Int /\ (b >= 0 => Plus(b, x) >= 0)
BY DEF Plus, Carry

(* No credit that is accepted adds its amount: whatever the balance that   *)
(* was read (none is below zero but those a negative deposit opened), it   *)
(* gains at most one hundredth (convertCurrency.command.ts:144,            *)
(* fundWallet.command.ts:86).                                              *)
THEOREM CreditsNeverAddUp ==
  ASSUME NEW b \in Int, b >= 0, NEW x \in Int, x > 0, Appendable(x)
  PROVE  b <= Plus(b, x) /\ Plus(b, x) <= b + 1 /\ Plus(b, x) < b + x
<1>1. x >= 100
  BY DEF Appendable
<1> QED  BY <1>1 DEF Plus, Carry

(* Every row of a view on which a transaction has landed is a row of the   *)
(* view or of the transaction.                                             *)
LEMMA LandedIs ==
  ASSUME NEW db \in Database, NEW t, t.to \in Database
  PROVE  /\ Landed(db, t) \in Database
         /\ \A b \in BalanceIds : Landed(db, t).balance[b] \in {db.balance[b], t.to.balance[b]}
<1>1. /\ Landed(db, t).wallet = [w \in WalletIds |->
            IF t.to.wallet[w] = t.from.wallet[w] THEN db.wallet[w] ELSE t.to.wallet[w]]
      /\ Landed(db, t).balance = [b \in BalanceIds |->
            IF t.to.balance[b] = t.from.balance[b] THEN db.balance[b] ELSE t.to.balance[b]]
      /\ Landed(db, t) = [wallet |-> Landed(db, t).wallet, balance |-> Landed(db, t).balance]
  BY DEF Landed
<1>2. /\ Landed(db, t).wallet \in [WalletIds -> Users \cup {NoUser}]
      /\ Landed(db, t).balance \in [BalanceIds -> Row \cup {NoRow}]
  BY <1>1 DEF Database
<1>3. Landed(db, t) \in Database
  BY <1>1, <1>2 DEF Database
<1>4. \A b \in BalanceIds : Landed(db, t).balance[b] \in {db.balance[b], t.to.balance[b]}
  BY <1>1
<1>5. QED
  BY <1>3, <1>4

LEMMA LandedSound ==
  ASSUME NEW db \in Database, NEW t, t.to \in Database,
         DatabaseSound(db), DatabaseSound(t.to)
  PROVE  DatabaseSound(Landed(db, t))
<1>. SUFFICES ASSUME NEW b \in RowsOf(Landed(db, t))
              PROVE  RowSound(b, Landed(db, t).balance[b])
  BY DEF DatabaseSound
<1>1. /\ b \in BalanceIds /\ Landed(db, t).balance[b] # NoRow
      /\ Landed(db, t).balance[b] \in {db.balance[b], t.to.balance[b]}
  BY LandedIs DEF RowsOf
<1>2. CASE Landed(db, t).balance[b] = db.balance[b]
  BY <1>1, <1>2 DEF DatabaseSound, RowsOf
<1>3. CASE Landed(db, t).balance[b] = t.to.balance[b]
  BY <1>1, <1>3 DEF DatabaseSound, RowsOf
<1>4. QED
  BY <1>1, <1>2, <1>3

(* What an update of one row does to a database.                           *)
LEMMA UpdatedIs ==
  ASSUME NEW db \in Database, NEW id \in BalanceIds, NEW a \in Int, NEW v \in Int
  PROVE  /\ Updated(db, id, a, v) \in Database
         /\ \A b \in BalanceIds :
              Updated(db, id, a, v).balance[b] =
                IF b = id /\ db.balance[id] # NoRow
                THEN [wallet |-> db.balance[id].wallet,
                      currency |-> db.balance[id].currency,
                      amount |-> a, availableAmount |-> v]
                ELSE db.balance[b]
<1>1. CASE db.balance[id] = NoRow
  BY <1>1 DEF Updated
<1>2. CASE db.balance[id] # NoRow
  <2>. DEFINE row == db.balance[id]
              new == [wallet |-> row.wallet, currency |-> row.currency,
                      amount |-> a, availableAmount |-> v]
  <2>1. row \in Row
    BY <1>2 DEF Database
  <2>2. new \in Row
    BY <2>1 DEF Row
  <2>3. Updated(db, id, a, v) = [db EXCEPT !.balance[id] = new]
    BY <1>2 DEF Updated
  <2>4. QED
    BY <1>2, <2>2, <2>3 DEF Database
<1>3. QED
  BY <1>1, <1>2

(* What the creation of a balance does to the working database.            *)
LEMMA WithRowIs ==
  ASSUME TypeOK, NEW r \in Requests, NEW side \in Sides, NEW money \in Int,
         walletOf[r] # NoWallet
  PROVE  /\ WithRow(r, side, money) \in Database
         /\ \A b \in BalanceIds :
              WithRow(r, side, money).balance[b] =
                IF b = <<r, side>>
                THEN [wallet |-> walletOf[r], currency |-> CurrencyOf(r, side),
                      amount |-> money, availableAmount |-> money]
                ELSE working.balance[b]
<1>. DEFINE row == [wallet |-> walletOf[r], currency |-> CurrencyOf(r, side),
                    amount |-> money, availableAmount |-> money]
<1>1. row \in Row
  BY DEF TypeOK, Row, Call, CurrencyOf
<1>2. <<r, side>> \in BalanceIds
  BY DEF BalanceIds
<1>3. WithRow(r, side, money) = [working EXCEPT !.balance[<<r, side>>] = row]
  BY DEF WithRow
<1>4. working \in Database
  BY DEF TypeOK
<1>5. QED
  BY <1>1, <1>2, <1>3, <1>4 DEF Database

-----------------------------------------------------------------------------
(* What a request has asked for, the wallet it works on and the existence  *)
(* of its record never change once they are set, so what is sound stays so.*)
Stable ==
  /\ call' = call
  /\ \A r \in Requests : walletOf[r] # NoWallet => walletOf'[r] = walletOf[r]
  /\ \A r \in Requests : record[r] # "none" => record'[r] # "none"

LEMMA MoneyStable ==
  ASSUME TypeOK, Stable, NEW id \in BalanceIds, NEW m,
         walletOf[id[1]] # NoWallet, MoneySound(id, m)
  PROVE  MoneySound(id, m)'
BY DEF Stable, MoneySound, Backed, NegativeFund, CurrencyOf, BalanceIds, TypeOK

LEMMA RowStable ==
  ASSUME TypeOK, Stable, NEW id \in BalanceIds, NEW row \in Row, RowSound(id, row)
  PROVE  RowSound(id, row)'
<1>1. walletOf[id[1]] # NoWallet
  BY LedgerAssumption DEF RowSound, Row, WalletIds
<1>2. MoneySound(id, row)'
  BY <1>1, MoneyStable DEF RowSound
<1>3. QED
  BY <1>1, <1>2 DEF RowSound, Stable, CurrencyOf, BalanceIds

LEMMA DatabaseStable ==
  ASSUME TypeOK, Stable, NEW db \in Database, DatabaseSound(db)
  PROVE  DatabaseSound(db)'
<1>. SUFFICES ASSUME NEW b \in RowsOf(db)
              PROVE  RowSound(b, db.balance[b])'
  BY DEF DatabaseSound
<1>1. b \in BalanceIds /\ db.balance[b] \in Row /\ RowSound(b, db.balance[b])
  BY DEF RowsOf, Database, DatabaseSound
<1>2. QED
  BY <1>1, RowStable

LEMMA SnapshotStable ==
  ASSUME TypeOK, Stable, NEW r \in Requests, NEW side \in Sides,
         NEW s \in Snapshot, SnapshotSound(r, side, s)
  PROVE  SnapshotSound(r, side, s)'
<1>1. s.id \in BalanceIds /\ walletOf[s.id[1]] # NoWallet
  BY DEF Snapshot, SnapshotSound
<1>2. MoneySound(s.id, s)'
  BY <1>1, MoneyStable DEF SnapshotSound
<1>3. QED
  BY <1>1, <1>2 DEF SnapshotSound, Stable, CurrencyOf, BalanceIds

LEMMA DatabasesKept ==
  ASSUME LedgerInv, Stable
  PROVE  /\ durable' \in Databases => DatabaseSound(durable)'
         /\ working' \in Databases => DatabaseSound(working)'
         /\ adrift' = adrift => AdriftSound'
<1>1. DatabaseSound(durable) /\ DatabaseSound(working)
  BY DEF LedgerInv
<1>2. TypeOK /\ durable \in Database /\ working \in Database
  BY DEF LedgerInv, TypeOK
<1>3. ASSUME NEW db \in Databases, durable' = db
      PROVE  DatabaseSound(durable)'
  BY <1>1, <1>2, <1>3, DatabaseStable DEF Databases, DatabaseSound, RowsOf
<1>4. ASSUME NEW db \in Databases, working' = db
      PROVE  DatabaseSound(working)'
  BY <1>1, <1>2, <1>4, DatabaseStable DEF Databases, DatabaseSound, RowsOf
<1>5. ASSUME adrift' = adrift, NEW t \in adrift
      PROVE  DatabaseSound(t.to)'
  <2>1. t.to \in Database /\ DatabaseSound(t.to)
    BY <1>2 DEF TypeOK, Transaction, LedgerInv, AdriftSound
  <2>2. QED
    BY <1>2, <2>1, DatabaseStable
<1>6. QED
  BY <1>3, <1>4, <1>5 DEF AdriftSound

LEMMA StoredSound ==
  ASSUME LedgerInv, Stable, NEW db \in Database, DatabaseSound(db), Store(db)
  PROVE  /\ durable' \in Database /\ working' \in Database
         /\ adrift' \in SUBSET Transaction
         /\ DatabaseSound(durable)' /\ DatabaseSound(working)' /\ AdriftSound'
<1>1. TypeOK /\ durable \in Database /\ working \in Database
  BY DEF LedgerInv, TypeOK
<1>2. CASE working' = db /\ durable' \in {durable, db} /\ UNCHANGED adrift
  <2>1. DatabaseSound(db)'
    BY <1>1, DatabaseStable
  <2>2. DatabaseSound(working)'
    BY <1>2, <2>1 DEF DatabaseSound, RowsOf
  <2>3. DatabaseSound(durable)'
    <3>1. CASE durable' = db
      BY <2>1, <3>1 DEF DatabaseSound, RowsOf
    <3>2. CASE durable' = durable
      BY <3>2, DatabasesKept DEF Databases
    <3>3. QED
      BY <1>2, <3>1, <3>2
  <2>4. QED
    BY <1>1, <1>2, <2>2, <2>3, DatabasesKept DEF TypeOK
<1>3. ASSUME NEW t \in adrift, UNCHANGED <<durable, working>>,
             adrift' = (adrift \ {t})
               \cup {[t EXCEPT !.to = Landed(t.to, [from |-> working, to |-> db])]}
      PROVE  /\ adrift' \in SUBSET Transaction
             /\ DatabaseSound(durable)' /\ DatabaseSound(working)' /\ AdriftSound'
  <2>. DEFINE new == Landed(t.to, [from |-> working, to |-> db])
  <2>1. t \in Transaction /\ t.to \in Database /\ DatabaseSound(t.to)
    BY <1>1 DEF TypeOK, Transaction, LedgerInv, AdriftSound
  <2>2. new \in Database /\ DatabaseSound(new)
    BY <2>1, LandedIs, LandedSound
  <2>. HIDE DEF new
  <2>3. [t EXCEPT !.to = new] \in Transaction /\ [t EXCEPT !.to = new].to = new
    BY <2>1, <2>2 DEF Transaction
  <2>4. adrift' \in SUBSET Transaction
    BY <1>1, <1>3, <2>3 DEF TypeOK, new
  <2>5. ASSUME NEW u \in adrift'
        PROVE  u.to \in Database /\ DatabaseSound(u.to)
    <3>1. u \in adrift \/ u = [t EXCEPT !.to = new]
      BY <1>3 DEF new
    <3>2. QED
      BY <1>1, <2>2, <2>3, <3>1 DEF TypeOK, Transaction, LedgerInv, AdriftSound
  <2>6. ASSUME NEW u \in adrift'
        PROVE  DatabaseSound(u.to)'
    <3>1. PICK d : d = u.to
      OBVIOUS
    <3>2. DatabaseSound(d)'
      BY <1>1, <2>5, <3>1, DatabaseStable
    <3>3. QED
      BY <3>1, <3>2
  <2>7. AdriftSound'
    BY <2>6 DEF AdriftSound, DatabaseSound, RowsOf, RowSound, MoneySound, Backed,
       CurrencyOf, NegativeFund
  <2>8. QED
    BY <1>3, <2>4, <2>7, DatabasesKept DEF Databases
<1>4. QED
  BY <1>1, <1>2, <1>3 DEF Store

LEMMA SnapshotsStable ==
  ASSUME LedgerInv, Stable, NEW r \in Requests, seen'[r] = seen[r]
  PROVE  \A side \in Sides :
           seen'[r][side] # NoRow => SnapshotSound(r, side, seen[r][side])'
<1>. TAKE side \in Sides
<1>. HAVE seen'[r][side] # NoRow
<1>1. PICK s : s = seen[r][side]
  OBVIOUS
<1>2. s \in Snapshot /\ SnapshotSound(r, side, s) /\ TypeOK
  BY <1>1 DEF LedgerInv, SnapshotsSound, TypeOK
<1>3. SnapshotSound(r, side, s)'
  BY <1>2, SnapshotStable
<1>4. s = seen'[r][side]
  BY <1>1
<1>5. QED
  BY <1>3, <1>4 DEF SnapshotSound, MoneySound, Backed, CurrencyOf, NegativeFund

LEMMA PositionStable ==
  ASSUME TypeOK, Stable, NEW r \in Requests, PositionSound(r),
         pc'[r] = pc[r], walletOf'[r] = walletOf[r], seen'[r] = seen[r]
  PROVE  PositionSound(r)'
BY DEF TypeOK, Stable, PositionSound, Exchange, Sufficient

-----------------------------------------------------------------------------
(* A balance as read is sound for its reader.                              *)
LEMMA ReadSound ==
  ASSUME LedgerInv, NEW r \in Requests, NEW side \in Sides, walletOf[r] # NoWallet,
         NEW s \in Reads(r, side)
  PROVE  s = NoRow \/ (s \in Snapshot /\ SnapshotSound(r, side, s))
<1>. SUFFICES ASSUME s # NoRow
              PROVE  s \in Snapshot /\ SnapshotSound(r, side, s)
  OBVIOUS
<1>1. PICK b \in BalancesOf(walletOf[r], CurrencyOf(r, side)) :
        s = [id |-> b, amount |-> working.balance[b].amount,
             availableAmount |-> working.balance[b].availableAmount]
  BY DEF Reads
<1>2. /\ b \in BalanceIds /\ working.balance[b] # NoRow
      /\ working.balance[b].wallet = walletOf[r]
      /\ working.balance[b].currency = CurrencyOf(r, side)
  BY DEF BalancesOf
<1>3. working.balance[b] \in Row
  BY <1>2 DEF LedgerInv, TypeOK, Database
<1>4. s \in Snapshot
  BY <1>1, <1>2, <1>3 DEF Snapshot, Row
<1>5. RowSound(b, working.balance[b])
  BY <1>2 DEF LedgerInv, DatabaseSound, RowsOf
<1>6. MoneySound(s.id, s)
  BY <1>1, <1>5 DEF RowSound, MoneySound
<1>7. QED
  BY <1>1, <1>2, <1>4, <1>5, <1>6 DEF SnapshotSound, RowSound

(* A balance a handler creates is sound: empty, or the deposit of a        *)
(* request that has its record.                                            *)
LEMMA WithRowSound ==
  ASSUME LedgerInv, NEW r \in Requests, NEW side \in Sides, NEW money \in Int,
         walletOf[r] # NoWallet,
         money >= 0 \/ NegativeFund(r),
         money > 0 => side = "target" /\ record[r] # "none"
  PROVE  WithRow(r, side, money) \in Database /\ DatabaseSound(WithRow(r, side, money))
<1>. DEFINE db == WithRow(r, side, money)
<1>1. TypeOK
  BY DEF LedgerInv
<1>2. db \in Database
  BY <1>1, WithRowIs
<1>3. ASSUME NEW b \in RowsOf(db), b # <<r, side>>
      PROVE  RowSound(b, db.balance[b])
  BY <1>1, <1>3, WithRowIs DEF LedgerInv, DatabaseSound, RowsOf
<1>4. ASSUME NEW b \in RowsOf(db), b = <<r, side>>
      PROVE  RowSound(b, db.balance[b])
  <2>1. /\ b \in BalanceIds /\ b[1] = r /\ b[2] = side
        /\ db.balance[b] = [wallet |-> walletOf[r], currency |-> CurrencyOf(r, side),
                            amount |-> money, availableAmount |-> money]
    BY <1>1, <1>4, WithRowIs DEF RowsOf
  <2>2. money > 0 => Backed(walletOf[r], CurrencyOf(r, side))
    BY DEF Backed, CurrencyOf
  <2>3. QED
    BY <2>1, <2>2 DEF RowSound, MoneySound
<1>5. QED
  BY <1>2, <1>3, <1>4 DEF DatabaseSound

(* An update that writes a sound amount to both columns keeps a database   *)
(* sound.                                                                  *)
LEMMA UpdatedSound ==
  ASSUME NEW db \in Database, DatabaseSound(db), NEW id \in BalanceIds,
         NEW m \in [amount : Int, availableAmount : Int], MoneySound(id, m)
  PROVE  /\ Updated(db, id, m.amount, m.availableAmount) \in Database
         /\ DatabaseSound(Updated(db, id, m.amount, m.availableAmount))
<1>. DEFINE new == Updated(db, id, m.amount, m.availableAmount)
<1>0. m.amount \in Int /\ m.availableAmount \in Int
  OBVIOUS
<1>1. new \in Database
  BY <1>0, UpdatedIs
<1>2. ASSUME NEW b \in RowsOf(new)
      PROVE  RowSound(b, new.balance[b])
  <2>1. b \in BalanceIds /\ b \in RowsOf(db)
    <3>1. b \in BalanceIds /\ new.balance[b] # NoRow
      BY <1>2 DEF RowsOf
    <3>2. CASE b = id
      BY <3>1, <3>2 DEF Updated, RowsOf
    <3>3. CASE b # id
      <4>1. new.balance[b] = db.balance[b]
        BY <3>1, <3>3 DEF Updated, Database
      <4>2. QED
        BY <3>1, <4>1 DEF RowsOf
    <3>4. QED
      BY <3>2, <3>3
  <2>2. RowSound(b, db.balance[b])
    BY <2>1 DEF DatabaseSound
  <2>3. CASE b # id
    <3>1. new.balance[b] = db.balance[b]
      BY <2>1, <2>3 DEF Updated, Database
    <3>2. QED
      BY <2>2, <3>1
  <2>4. CASE b = id
    <3>1. new.balance[b] = [wallet |-> db.balance[id].wallet,
                            currency |-> db.balance[id].currency,
                            amount |-> m.amount, availableAmount |-> m.availableAmount]
      BY <1>0, <2>1, <2>4, UpdatedIs DEF RowsOf
    <3>2. QED
      BY <2>2, <2>4, <3>1 DEF RowSound, MoneySound
  <2>5. QED
    BY <2>3, <2>4
<1>3. QED
  BY <1>1, <1>2 DEF DatabaseSound

(* The debit and the credit of a handler write sound amounts.              *)
LEMMA DebitSound ==
  ASSUME LedgerInv, NEW r \in Requests, Exchange(r), pc[r] = "write",
         NEW db \in Database, DatabaseSound(db)
  PROVE  /\ Debited(db, seen[r]["source"], call[r].amount) \in Database
         /\ DatabaseSound(Debited(db, seen[r]["source"], call[r].amount))
<1>. DEFINE s == seen[r]["source"]
            x == call[r].amount
            m == [amount |-> s.amount - x, availableAmount |-> s.availableAmount - x]
<1>1. x \in Int /\ x > 0 /\ s # NoRow /\ s.availableAmount >= x
  BY DEF LedgerInv, PositionSound, Sufficient, TypeOK, Call
<1>2. s \in Snapshot /\ SnapshotSound(r, "source", s)
  BY <1>1 DEF LedgerInv, TypeOK, SnapshotsSound, Sides
<1>3. s.id \in BalanceIds /\ s.amount \in Int /\ s.availableAmount \in Int
  BY <1>2 DEF Snapshot
<1>4. MoneySound(s.id, s)
  BY <1>2 DEF SnapshotSound
<1>5. m \in [amount : Int, availableAmount : Int] /\ MoneySound(s.id, m)
  BY <1>1, <1>3, <1>4 DEF MoneySound
<1>6. Debited(db, s, x) = Updated(db, s.id, m.amount, m.availableAmount)
  BY DEF Debited, Minus
<1>. HIDE DEF m
<1>7. QED
  BY <1>3, <1>5, <1>6, UpdatedSound

LEMMA CreditSound ==
  ASSUME LedgerInv, NEW r \in Requests, record[r] # "none", seen[r]["target"] # NoRow,
         NEW db \in Database, DatabaseSound(db)
  PROVE  /\ Credited(db, seen[r]["target"], call[r].amount) \in Database
         /\ DatabaseSound(Credited(db, seen[r]["target"], call[r].amount))
<1>. DEFINE s == seen[r]["target"]
            x == call[r].amount
            m == [amount |-> Plus(s.amount, x), availableAmount |-> Plus(s.availableAmount, x)]
<1>1. s \in Snapshot /\ SnapshotSound(r, "target", s)
  BY DEF LedgerInv, TypeOK, SnapshotsSound, Sides
<1>2. s.id \in BalanceIds /\ s.amount \in Int /\ s.availableAmount \in Int
  BY <1>1 DEF Snapshot
<1>3. /\ Plus(s.amount, x) \in Int
      /\ s.amount >= 0 => Plus(s.amount, x) >= 0
      /\ s.amount = s.availableAmount
  BY <1>1, <1>2, PlusSound DEF SnapshotSound, MoneySound
<1>4. Backed(walletOf[s.id[1]], CurrencyOf(s.id[1], s.id[2]))
  BY <1>1 DEF SnapshotSound, Backed, CurrencyOf
<1>5. m \in [amount : Int, availableAmount : Int] /\ MoneySound(s.id, m)
  BY <1>1, <1>3, <1>4 DEF MoneySound, SnapshotSound
<1>6. Credited(db, s, x) = Updated(db, s.id, m.amount, m.availableAmount)
  BY DEF Credited
<1>. HIDE DEF m
<1>7. QED
  BY <1>2, <1>5, <1>6, UpdatedSound

-----------------------------------------------------------------------------
(* A step of request r that leaves the others' variables alone preserves   *)
(* the invariant if it leaves the databases, what r has read and r's       *)
(* position sound.                                                         *)
LEMMA StepSound ==
  ASSUME LedgerInv, NEW r \in Requests,
         TypeOK', Stable,
         DatabaseSound(durable)' /\ DatabaseSound(working)' /\ AdriftSound',
         \A q \in Requests \ {r} :
           pc'[q] = pc[q] /\ walletOf'[q] = walletOf[q] /\ seen'[q] = seen[q],
         \A side \in Sides :
           seen'[r][side] # NoRow => SnapshotSound(r, side, seen[r][side])',
         PositionSound(r)'
  PROVE  LedgerInv'
<1>1. SnapshotsSound'
  <2>1. ASSUME NEW q \in Requests, q # r
        PROVE  \A side \in Sides :
                 seen'[q][side] # NoRow => SnapshotSound(q, side, seen[q][side])'
    BY <2>1, SnapshotsStable
  <2>2. QED
    BY <2>1 DEF SnapshotsSound
<1>2. ASSUME NEW q \in Requests, q # r
      PROVE  PositionSound(q)'
  BY <1>2, PositionStable DEF LedgerInv
<1>3. QED
  BY <1>1, <1>2 DEF LedgerInv

(* The actions, one lemma each.                                            *)

LEMMA FailSound ==
  ASSUME LedgerInv, NEW r \in Requests, Fail(r)
  PROVE  LedgerInv'
<1>1. TypeOK'
  BY DEF LedgerInv, TypeOK, Fail, CountAfterFailure, Goto, PCs
<1>2. Stable
  BY DEF LedgerInv, TypeOK, PositionSound, Stable, Fail
<1>3. DatabaseSound(durable)' /\ DatabaseSound(working)' /\ AdriftSound'
  BY <1>2, DatabasesKept DEF Databases, Fail
<1>4. \A side \in Sides :
       seen'[r][side] # NoRow => SnapshotSound(r, side, seen[r][side])'
  BY <1>2, SnapshotsStable DEF Fail
<1>5. PositionSound(r)'
  BY DEF LedgerInv, TypeOK, PositionSound, Exchange, Sufficient, Goto, Fail
<1>6. QED
  BY <1>1, <1>2, <1>3, <1>4, <1>5, StepSound DEF LedgerInv, TypeOK, Goto, Fail

LEMMA SubmitSound ==
  ASSUME LedgerInv, NEW r \in Requests, Submit(r)
  PROVE  LedgerInv'
<1>1. TypeOK'
  BY DEF LedgerInv, TypeOK, Submit, Goto, PCs
<1>2. Stable
  BY DEF LedgerInv, TypeOK, PositionSound, Stable, Submit
<1>3. DatabaseSound(durable)' /\ DatabaseSound(working)' /\ AdriftSound'
  BY <1>2, DatabasesKept DEF Databases, Submit
<1>4. \A side \in Sides :
       seen'[r][side] # NoRow => SnapshotSound(r, side, seen[r][side])'
  BY <1>2, SnapshotsStable DEF Submit
<1>5. PositionSound(r)'
  BY DEF LedgerInv, TypeOK, PositionSound, Exchange, Sufficient, Goto, Submit
<1>6. QED
  BY <1>1, <1>2, <1>3, <1>4, <1>5, StepSound DEF LedgerInv, TypeOK, Goto, Submit

LEMMA FindWalletSound ==
  ASSUME LedgerInv, NEW r \in Requests, FindWallet(r)
  PROVE  LedgerInv'
<1>1. CASE Fail(r)
  BY <1>1, FailSound
<1>2. CASE /\ Exchange(r) => call[r].amount > 0 /\ call[r].source # call[r].target
           /\ \E w \in WalletsOf(call[r].user) :
                walletOf' = [walletOf EXCEPT ![r] = w]
           /\ Goto(r, IF Exchange(r) THEN "balances" ELSE "record")
           /\ UNCHANGED <<aside, durable, working, transactionCount, seen, record, reply>>
  <2>. PICK w \in WalletIds : walletOf' = [walletOf EXCEPT ![r] = w]
    BY <1>2 DEF WalletsOf
  <2>. pc[r] = "wallet" /\ w # NoWallet
    BY LedgerAssumption DEF FindWallet, WalletIds
  <2>1. TypeOK'
    BY <1>2 DEF LedgerInv, TypeOK, Goto, PCs
  <2>2. Stable
    BY <1>2 DEF LedgerInv, TypeOK, PositionSound, Stable, Goto
  <2>3. DatabaseSound(durable)' /\ DatabaseSound(working)' /\ AdriftSound'
    BY <1>2, <2>2, DatabasesKept DEF Databases, Goto
  <2>4. \A side \in Sides :
         seen'[r][side] # NoRow => SnapshotSound(r, side, seen[r][side])'
    BY <1>2, <2>2, SnapshotsStable DEF Goto
  <2>5. PositionSound(r)'
    BY <1>2 DEF LedgerInv, TypeOK, PositionSound, Exchange, Sufficient, Goto
  <2>6. QED
    BY <1>2, <2>1, <2>2, <2>3, <2>4, <2>5, StepSound DEF LedgerInv, TypeOK, Goto
<1>3. CASE /\ call[r].op = "initialize"
           /\ Goto(r, "openWallet")
           /\ UNCHANGED <<aside, durable, working, transactionCount, walletOf, seen,
                          record, reply>>
  <2>. pc[r] = "wallet"
    BY DEF FindWallet
  <2>1. TypeOK'
    BY <1>3 DEF LedgerInv, TypeOK, Goto, PCs
  <2>2. Stable
    BY <1>3 DEF LedgerInv, TypeOK, PositionSound, Stable, Goto
  <2>3. DatabaseSound(durable)' /\ DatabaseSound(working)' /\ AdriftSound'
    BY <1>3, <2>2, DatabasesKept DEF Databases, Goto
  <2>4. \A side \in Sides :
         seen'[r][side] # NoRow => SnapshotSound(r, side, seen[r][side])'
    BY <1>3, <2>2, SnapshotsStable DEF Goto
  <2>5. PositionSound(r)'
    BY <1>3 DEF LedgerInv, TypeOK, PositionSound, Exchange, Sufficient, Goto
  <2>6. QED
    BY <1>3, <2>1, <2>2, <2>3, <2>4, <2>5, StepSound DEF LedgerInv, TypeOK, Goto
<1>4. QED
  BY <1>1, <1>2, <1>3 DEF FindWallet

LEMMA OpenWalletSound ==
  ASSUME LedgerInv, NEW r \in Requests, OpenWallet(r)
  PROVE  LedgerInv'
<1>. DEFINE db == [working EXCEPT !.wallet[r] = call[r].user]
<1>1. db \in Database /\ db.balance = working.balance
  BY DEF LedgerInv, TypeOK, Database, Call, WalletIds
<1>2. DatabaseSound(db)
  BY <1>1 DEF LedgerInv, DatabaseSound, RowsOf
<1>3. Stable
  BY DEF LedgerInv, TypeOK, PositionSound, Stable, OpenWallet
<1>4. /\ durable' \in Database /\ working' \in Database
      /\ adrift' \in SUBSET Transaction
      /\ DatabaseSound(durable)' /\ DatabaseSound(working)' /\ AdriftSound'
  BY <1>1, <1>2, <1>3, StoredSound DEF OpenWallet
<1>5. TypeOK'
  BY <1>4 DEF LedgerInv, TypeOK, OpenWallet, Goto, PCs, WalletIds
<1>6. \A side \in Sides :
       seen'[r][side] # NoRow => SnapshotSound(r, side, seen[r][side])'
  BY <1>3, SnapshotsStable DEF OpenWallet
<1>7. PositionSound(r)'
  BY LedgerAssumption DEF LedgerInv, TypeOK, PositionSound, Exchange, Sufficient, Goto, OpenWallet, WalletIds
<1>8. QED
  BY <1>3, <1>4, <1>5, <1>6, <1>7, StepSound DEF LedgerInv, TypeOK, Goto, OpenWallet

(* A request that reads balances and goes on.                              *)
LEMMA ReadStepSound ==
  ASSUME LedgerInv, NEW r \in Requests,
         pc[r] \notin {"absent", "wallet", "openWallet", "done"},
         NEW p \in {"makeSource", "rereadSource", "makeTarget", "rereadTarget",
                    "record", "write", "complete"},
         p \in {"write", "complete"} => record[r] # "none" /\ ~Exchange(r),
         NEW f \in [Sides -> Snapshot \cup {NoRow}],
         \A side \in Sides : f[side] \in Reads(r, side) \cup {seen[r][side]},
         seen' = [seen EXCEPT ![r] = f],
         Goto(r, p),
         UNCHANGED <<aside, durable, working, transactionCount, walletOf, record, reply>>
  PROVE  LedgerInv'
<1>0. walletOf[r] # NoWallet
  BY DEF LedgerInv, TypeOK, PositionSound
<1>1. TypeOK'
  BY DEF LedgerInv, TypeOK, Goto, PCs
<1>2. Stable
  BY DEF Stable
<1>3. DatabaseSound(durable)' /\ DatabaseSound(working)' /\ AdriftSound'
  BY <1>2, DatabasesKept DEF Databases
<1>4. ASSUME NEW side \in Sides, seen'[r][side] # NoRow
      PROVE  SnapshotSound(r, side, seen[r][side])'
  <2>. DEFINE s == f[side]
  <2>1. s # NoRow /\ s = seen'[r][side]
    BY <1>4 DEF LedgerInv, TypeOK
  <2>2. s \in Snapshot /\ SnapshotSound(r, side, s)
    <3>1. CASE s \in Reads(r, side)
      BY <1>0, <2>1, <3>1, ReadSound
    <3>2. CASE s = seen[r][side]
      BY <2>1, <3>2 DEF LedgerInv, TypeOK, SnapshotsSound
    <3>3. QED
      BY <3>1, <3>2
  <2>3. SnapshotSound(r, side, s)'
    <3>. HIDE DEF s
    <3>1. QED
      BY <1>2, <2>2, SnapshotStable DEF LedgerInv
  <2>4. QED
    BY <2>1, <2>3 DEF SnapshotSound, MoneySound, Backed, CurrencyOf, NegativeFund
<1>5. PositionSound(r)'
  BY <1>0 DEF LedgerInv, TypeOK, PositionSound, Exchange, Goto, PCs
<1>6. QED
  BY <1>1, <1>2, <1>3, <1>4, <1>5, StepSound DEF LedgerInv, TypeOK, Goto

LEMMA ReadBalancesSound ==
  ASSUME LedgerInv, NEW r \in Requests, ReadBalances(r)
  PROVE  LedgerInv'
<1>1. PICK s \in Reads(r, "source"), t \in Reads(r, "target") :
        /\ seen' = [seen EXCEPT ![r] = [side \in Sides |->
                                         IF side = "source" THEN s ELSE t]]
        /\ Goto(r, IF s = NoRow THEN "makeSource"
                   ELSE IF t = NoRow THEN "makeTarget" ELSE "record")
  BY DEF ReadBalances
<1>2. pc[r] = "balances" /\ walletOf[r] # NoWallet
  BY DEF ReadBalances, LedgerInv, TypeOK, PositionSound, PCs
<1>. DEFINE f == [side \in Sides |-> IF side = "source" THEN s ELSE t]
            q == IF s = NoRow THEN "makeSource" ELSE IF t = NoRow THEN "makeTarget" ELSE "record"
<1>3. f \in [Sides -> Snapshot \cup {NoRow}]
  BY <1>1, <1>2, ReadSound DEF Sides
<1>4. \A side \in Sides : f[side] \in Reads(r, side)
  BY <1>1 DEF Sides
<1>5. QED
  BY <1>1, <1>2, <1>3, <1>4, ReadStepSound DEF ReadBalances

LEMMA RereadBalanceSound ==
  ASSUME LedgerInv, NEW r \in Requests, NEW side \in Sides,
         NEW from \in {"rereadSource", "rereadTarget"}, RereadBalance(r, side, from)
  PROVE  LedgerInv'
<1>1. PICK s \in Reads(r, side) : seen' = [seen EXCEPT ![r][side] = s]
  BY DEF RereadBalance
<1>2. pc[r] = from /\ walletOf[r] # NoWallet
  BY DEF RereadBalance, LedgerInv, TypeOK, PositionSound, PCs
<1>. DEFINE f == [seen[r] EXCEPT ![side] = s]
<1>3. seen[r] \in [Sides -> Snapshot \cup {NoRow}]
  BY DEF LedgerInv, TypeOK
<1>4. /\ f \in [Sides -> Snapshot \cup {NoRow}]
      /\ \A d \in Sides : f[d] \in Reads(r, d) \cup {seen[r][d]}
      /\ seen' = [seen EXCEPT ![r] = f]
  BY <1>1, <1>2, <1>3, ReadSound
<1>. DEFINE q == IF side = "source" /\ seen[r]["target"] = NoRow
                 THEN "makeTarget" ELSE "record"
<1>5. q \in {"makeTarget", "record"} /\ Goto(r, q)
  BY DEF RereadBalance
<1>. HIDE DEF f, q
<1>6. QED
  BY <1>2, <1>4, <1>5, ReadStepSound DEF RereadBalance

LEMMA ReadBalanceSound ==
  ASSUME LedgerInv, NEW r \in Requests, ReadBalance(r)
  PROVE  LedgerInv'
<1>1. PICK t \in Reads(r, "target") :
        /\ seen' = [seen EXCEPT ![r]["target"] = t]
        /\ Goto(r, IF call[r].op = "initialize" /\ t # NoRow
                   THEN "complete" ELSE "write")
  BY DEF ReadBalance
<1>2. pc[r] = "balance" /\ walletOf[r] # NoWallet /\ record[r] # "none" /\ ~Exchange(r)
  BY DEF ReadBalance, LedgerInv, TypeOK, PositionSound, PCs
<1>. DEFINE f == [seen[r] EXCEPT !["target"] = t]
<1>3. seen[r] \in [Sides -> Snapshot \cup {NoRow}]
  BY DEF LedgerInv, TypeOK
<1>4. /\ f \in [Sides -> Snapshot \cup {NoRow}]
      /\ \A d \in Sides : f[d] \in Reads(r, d) \cup {seen[r][d]}
      /\ seen' = [seen EXCEPT ![r] = f]
  BY <1>1, <1>2, <1>3, ReadSound DEF Sides
<1>. DEFINE q == IF call[r].op = "initialize" /\ t # NoRow
                 THEN "complete" ELSE "write"
<1>5. q \in {"write", "complete"} /\ Goto(r, q)
  BY <1>1
<1>. HIDE DEF f, q
<1>6. QED
  BY <1>2, <1>4, <1>5, ReadStepSound DEF ReadBalance

(* A request that writes a sound database and goes on, or is done.         *)
LEMMA StoreStepSound ==
  ASSUME LedgerInv, NEW r \in Requests,
         walletOf[r] # NoWallet, pc[r] \notin {"absent", "wallet", "done"},
         NEW p \in {"rereadSource", "rereadTarget", "complete", "done"},
         p = "complete" => record[r] # "none",
         NEW db \in Database, DatabaseSound(db), Store(db),
         Goto(r, p),
         reply' \in [Requests -> {"none", "ok", "error"}],
         transactionCount' \in Int,
         UNCHANGED <<call, interruptions, walletOf, seen, record>>
  PROVE  LedgerInv'
<1>1. Stable
  BY DEF Stable
<1>2. /\ durable' \in Database /\ working' \in Database
      /\ adrift' \in SUBSET Transaction
      /\ DatabaseSound(durable)' /\ DatabaseSound(working)' /\ AdriftSound'
  BY <1>1, StoredSound
<1>3. TypeOK'
  BY <1>2 DEF LedgerInv, TypeOK, Goto, PCs
<1>4. \A side \in Sides :
       seen'[r][side] # NoRow => SnapshotSound(r, side, seen[r][side])'
  BY <1>1, SnapshotsStable
<1>5. PositionSound(r)'
  BY DEF LedgerInv, TypeOK, PositionSound, Exchange, Goto
<1>6. QED
  BY <1>1, <1>2, <1>3, <1>4, <1>5, StepSound DEF LedgerInv, TypeOK, Goto

LEMMA MakeBalanceSound ==
  ASSUME LedgerInv, NEW r \in Requests, NEW side \in Sides,
         NEW from \in {"makeSource", "makeTarget"},
         NEW to \in {"rereadSource", "rereadTarget"}, MakeBalance(r, side, from, to)
  PROVE  LedgerInv'
<1>1. CASE Fail(r)
  BY <1>1, FailSound
<1>2. CASE /\ Store(WithRow(r, side, 0))
           /\ Goto(r, to)
           /\ UNCHANGED <<call, interruptions, transactionCount, walletOf, seen, record, reply>>
  <2>1. pc[r] = from /\ walletOf[r] # NoWallet
    BY DEF MakeBalance, LedgerInv, TypeOK, PositionSound, PCs
  <2>2. WithRow(r, side, 0) \in Database /\ DatabaseSound(WithRow(r, side, 0))
    BY <2>1, WithRowSound
  <2>3. reply' \in [Requests -> {"none", "ok", "error"}] /\ transactionCount' \in Int
    BY <1>2 DEF LedgerInv, TypeOK
  <2>4. QED
    BY <1>2, <2>1, <2>2, <2>3, StoreStepSound
<1>3. QED
  BY <1>1, <1>2 DEF MakeBalance

LEMMA CreateRecordSound ==
  ASSUME LedgerInv, NEW r \in Requests, CreateRecord(r)
  PROVE  LedgerInv'
<1>1. CASE Fail(r)
  BY <1>1, FailSound
<1>2. CASE /\ Exchange(r) => Sufficient(r)
           /\ record' = [record EXCEPT ![r] = "PENDING"]
           /\ Goto(r, IF Exchange(r) THEN "write" ELSE "balance")
           /\ UNCHANGED <<aside, durable, working, transactionCount, walletOf, seen, reply>>
  <2>0. pc[r] = "record"
    BY DEF CreateRecord
  <2>1. TypeOK'
    BY <1>2 DEF LedgerInv, TypeOK, Goto, PCs, TransactionStatus
  <2>2. Stable
    BY <1>2 DEF LedgerInv, TypeOK, Stable
  <2>3. DatabaseSound(durable)' /\ DatabaseSound(working)' /\ AdriftSound'
    BY <1>2, <2>2, DatabasesKept DEF Databases
  <2>4. \A side \in Sides :
         seen'[r][side] # NoRow => SnapshotSound(r, side, seen[r][side])'
    BY <1>2, <2>2, SnapshotsStable
  <2>5. PositionSound(r)'
    BY <1>2, <2>0 DEF LedgerInv, TypeOK, PositionSound, Exchange, Sufficient, Goto, PCs
  <2>6. QED
    BY <1>2, <2>1, <2>2, <2>3, <2>4, <2>5, StepSound DEF LedgerInv, TypeOK, Goto
<1>3. QED
  BY <1>1, <1>2 DEF CreateRecord

LEMMA DepositSound ==
  ASSUME LedgerInv, NEW r \in Requests, Deposit(r)
  PROVE  LedgerInv'
<1>. DEFINE t == seen[r]["target"]
            x == call[r].amount
            db == IF t = NoRow THEN WithRow(r, "target", x) ELSE Credited(working, t, x)
<1>1. CASE Fail(r)
  BY <1>1, FailSound
<1>2. CASE /\ Store(db)
           /\ Goto(r, "complete")
           /\ UNCHANGED <<call, interruptions, transactionCount, walletOf, seen, record, reply>>
  <2>1. /\ pc[r] = "write" /\ walletOf[r] # NoWallet /\ record[r] # "none"
        /\ call[r].op \in {"fund", "initialize"} /\ x \in Int
    BY DEF Deposit, LedgerInv, TypeOK, PositionSound, PCs, Exchange, Call, Ops
  <2>2. x >= 0 \/ NegativeFund(r)
    BY <2>1 DEF LedgerInv, PositionSound, NegativeFund, InitialDeposit
  <2>3. db \in Database /\ DatabaseSound(db)
    <3>1. CASE t = NoRow
      BY <2>1, <2>2, <3>1, WithRowSound DEF Sides
    <3>2. CASE t # NoRow
      <4>1. working \in Database /\ DatabaseSound(working)
        BY DEF LedgerInv, TypeOK
      <4>2. QED
        BY <2>1, <3>2, <4>1, CreditSound
    <3>3. QED
      BY <3>1, <3>2
  <2>4. reply' \in [Requests -> {"none", "ok", "error"}] /\ transactionCount' \in Int
    BY <1>2 DEF LedgerInv, TypeOK
  <2>. HIDE DEF db
  <2>5. QED
    BY <1>2, <2>1, <2>3, <2>4, StoreStepSound
<1>3. QED
  BY <1>1, <1>2 DEF Deposit

LEMMA MoveFundsSound ==
  ASSUME LedgerInv, NEW r \in Requests, MoveFunds(r)
  PROVE  LedgerInv'
<1>. DEFINE x == call[r].amount
            debited == Debited(working, seen[r]["source"], x)
            credited == Credited(debited, seen[r]["target"], x)
<1>1. /\ pc[r] = "write" /\ Exchange(r) /\ walletOf[r] # NoWallet
      /\ record[r] # "none" /\ seen[r]["target"] # NoRow
  BY DEF MoveFunds, LedgerInv, TypeOK, PositionSound, PCs, Sufficient
<1>2. debited \in Database /\ DatabaseSound(debited)
  BY <1>1, DebitSound DEF LedgerInv, TypeOK
<1>3. CASE Fail(r)
  BY <1>3, FailSound
<1>4. CASE /\ Store(credited)
           /\ Goto(r, "complete")
           /\ UNCHANGED <<call, interruptions, transactionCount, walletOf, seen, record, reply>>
  <2>1. credited \in Database /\ DatabaseSound(credited)
    <3>. HIDE DEF debited
    <3>1. QED
      BY <1>1, <1>2, CreditSound
  <2>2. reply' \in [Requests -> {"none", "ok", "error"}] /\ transactionCount' \in Int
    BY <1>4 DEF LedgerInv, TypeOK
  <2>. HIDE DEF credited
  <2>3. QED
    BY <1>1, <1>4, <2>1, <2>2, StoreStepSound
<1>5. CASE /\ Store(debited)
           /\ Goto(r, "done")
           /\ reply' = [reply EXCEPT ![r] = "error"]
           /\ transactionCount' = CountAfterFailure
           /\ UNCHANGED <<call, interruptions, walletOf, seen, record>>
  <2>1. reply' \in [Requests -> {"none", "ok", "error"}] /\ transactionCount' \in Int
    BY <1>5 DEF LedgerInv, TypeOK, CountAfterFailure
  <2>. HIDE DEF debited
  <2>2. QED
    BY <1>1, <1>2, <1>5, <2>1, StoreStepSound
<1>6. QED
  BY <1>3, <1>4, <1>5 DEF MoveFunds

LEMMA CompleteRecordSound ==
  ASSUME LedgerInv, NEW r \in Requests, CompleteRecord(r)
  PROVE  LedgerInv'
<1>1. CASE Fail(r)
  BY <1>1, FailSound
<1>2. CASE /\ record' \in {record, [record EXCEPT ![r] = "COMPLETED"]}
           /\ Goto(r, "finish")
           /\ UNCHANGED <<aside, durable, working, transactionCount, walletOf, seen, reply>>
  <2>0. pc[r] = "complete"
    BY DEF CompleteRecord
  <2>1. TypeOK'
    BY <1>2 DEF LedgerInv, TypeOK, Goto, PCs, TransactionStatus
  <2>2. Stable
    BY <1>2 DEF LedgerInv, TypeOK, Stable
  <2>3. DatabaseSound(durable)' /\ DatabaseSound(working)' /\ AdriftSound'
    BY <1>2, <2>2, DatabasesKept DEF Databases
  <2>4. \A side \in Sides :
         seen'[r][side] # NoRow => SnapshotSound(r, side, seen[r][side])'
    BY <1>2, <2>2, SnapshotsStable
  <2>5. PositionSound(r)'
    BY <1>2, <2>0 DEF LedgerInv, TypeOK, PositionSound, Exchange, Goto, PCs
  <2>6. QED
    BY <1>2, <2>1, <2>2, <2>3, <2>4, <2>5, StepSound DEF LedgerInv, TypeOK, Goto
<1>3. QED
  BY <1>1, <1>2 DEF CompleteRecord

LEMMA FinishSound ==
  ASSUME LedgerInv, NEW r \in Requests, Finish(r)
  PROVE  LedgerInv'
<1>1. CASE Fail(r)
  BY <1>1, FailSound
<1>2. CASE /\ InTransaction
           /\ transactionCount' = transactionCount - 2
           /\ durable' = IF transactionCount = 2 THEN working ELSE durable
           /\ Goto(r, "done")
           /\ reply' = [reply EXCEPT ![r] = "ok"]
           /\ UNCHANGED <<aside, working, walletOf, seen, record>>
  <2>1. transactionCount' \in Int
    BY <1>2 DEF LedgerInv, TypeOK
  <2>2. TypeOK'
    BY <1>2, <2>1 DEF LedgerInv, TypeOK, Goto, PCs
  <2>3. Stable
    BY <1>2 DEF Stable
  <2>4. DatabaseSound(durable)' /\ DatabaseSound(working)' /\ AdriftSound'
    BY <1>2, <2>3, DatabasesKept DEF Databases
  <2>5. \A side \in Sides :
         seen'[r][side] # NoRow => SnapshotSound(r, side, seen[r][side])'
    BY <1>2, <2>3, SnapshotsStable
  <2>6. PositionSound(r)'
    BY <1>2 DEF LedgerInv, TypeOK, PositionSound, Exchange, Goto, Finish
  <2>7. QED
    BY <1>2, <2>1, <2>2, <2>3, <2>4, <2>5, <2>6, StepSound DEF LedgerInv, TypeOK, Goto
<1>3. QED
  BY <1>1, <1>2 DEF Finish

LEMMA CrashSound ==
  ASSUME LedgerInv, Crash
  PROVE  LedgerInv'
<1>1. TypeOK'
  BY DEF LedgerInv, TypeOK, Crash, PCs
<1>2. Stable
  BY DEF Stable, Crash
<1>3. DatabaseSound(durable)' /\ DatabaseSound(working)' /\ AdriftSound'
  BY <1>2, DatabasesKept DEF Databases, Crash, AdriftSound
<1>4. SnapshotsSound'
  BY <1>2, SnapshotsStable DEF SnapshotsSound, Crash
<1>5. ASSUME NEW r \in Requests
      PROVE  PositionSound(r)'
  BY DEF LedgerInv, TypeOK, PositionSound, Exchange, Crash
<1>6. QED
  BY <1>1, <1>3, <1>4, <1>5 DEF LedgerInv

(* The open transactions are those of sound views, and what Interfere makes *)
(* of them lands sound rows on sound views.                                *)
LEMMA InterfereSound ==
  ASSUME LedgerInv, Interfere
  PROVE  LedgerInv'
<1>. DEFINE open == adrift \cup {[from |-> durable, to |-> working],
                                 [from |-> durable, to |-> durable]}
<1>1. TypeOK /\ durable \in Database /\ working \in Database
  BY DEF LedgerInv, TypeOK
<1>2. ASSUME NEW t \in open
      PROVE  t \in Transaction /\ t.to \in Database /\ DatabaseSound(t.to)
  BY <1>1 DEF LedgerInv, TypeOK, AdriftSound, Transaction
<1>3. PICK committed \in open, named \in open :
        durable' = Landed(durable, committed) /\ working' = Landed(durable', named)
  BY DEF Interfere
<1>4. adrift' \in SUBSET open /\ transactionCount' \in Int
      /\ interruptions' = interruptions + 1
      /\ UNCHANGED <<call, pc, walletOf, seen, record, reply>>
  BY DEF Interfere, Frames
<1>. HIDE DEF open
<1>5. durable' \in Database /\ DatabaseSound(durable')
  BY <1>1, <1>2, <1>3, LandedIs, LandedSound DEF LedgerInv
<1>6. working' \in Database /\ DatabaseSound(working')
  BY <1>2, <1>3, <1>5, LandedIs, LandedSound
<1>7. Stable
  BY <1>4 DEF Stable
<1>8. ASSUME NEW db \in Database, DatabaseSound(db)
      PROVE  DatabaseSound(db)'
  BY <1>1, <1>7, <1>8, DatabaseStable
<1>9. DatabaseSound(durable)' /\ DatabaseSound(working)'
  BY <1>4, <1>5, <1>6 DEF DatabaseSound, RowsOf, RowSound, MoneySound, Backed, CurrencyOf,
     NegativeFund
<1>10. AdriftSound'
  BY <1>2, <1>4 DEF AdriftSound, DatabaseSound, RowsOf, RowSound, MoneySound, Backed,
     CurrencyOf, NegativeFund
<1>11. TypeOK'
  BY <1>1, <1>2, <1>4, <1>5, <1>6 DEF TypeOK
<1>12. SnapshotsSound'
  BY <1>4, <1>7, SnapshotsStable DEF SnapshotsSound
<1>13. ASSUME NEW r \in Requests
       PROVE  PositionSound(r)'
  BY <1>4 DEF LedgerInv, PositionSound, Exchange, Sufficient
<1>14. QED
  BY <1>9, <1>10, <1>11, <1>12, <1>13 DEF LedgerInv

-----------------------------------------------------------------------------
(* The invariant holds initially and is preserved by every step.           *)

LEMMA OpeningSound ==
  ASSUME Init
  PROVE  LedgerInv
<1>1. OpeningDatabase \in Database
  <2>1. ASSUME NEW b \in BalanceIds, b[1] \in DOMAIN Past
        PROVE  [wallet |-> b[1], currency |-> Home[Past[b[1]]],
                amount |-> InitialDeposit, availableAmount |-> InitialDeposit] \in Row
    BY <2>1, LedgerAssumption DEF Row, InitialDeposit, BalanceIds, WalletIds
  <2>2. QED
    BY <2>1, LedgerAssumption DEF OpeningDatabase, Database, WalletIds
<1>2. call \in [Requests -> Call]
  <2>1. \A u \in Users : InitializeCall(u) \in Call
    BY LedgerAssumption DEF InitializeCall, Call, Ops, InitialDeposit
  <2>2. QED
    BY <2>1, LedgerAssumption DEF Init
<1>3. \A r \in Requests : call[r].op = "initialize" => call[r].amount = InitialDeposit
  BY LedgerAssumption DEF Init, InitializeCall
<1>4. TypeOK
  BY <1>1, <1>2, LedgerAssumption DEF Init, TypeOK, PCs, IsPast, WalletIds,
      TransactionStatus
<1>5. ASSUME NEW b \in RowsOf(OpeningDatabase)
      PROVE  RowSound(b, OpeningDatabase.balance[b])
  <2>1. /\ b \in BalanceIds /\ b[1] \in Requests /\ b[1] \in DOMAIN Past /\ b[2] = "target"
        /\ OpeningDatabase.balance[b] =
             [wallet |-> b[1], currency |-> Home[Past[b[1]]],
              amount |-> InitialDeposit, availableAmount |-> InitialDeposit]
    BY <1>5 DEF RowsOf, OpeningDatabase, BalanceIds
  <2>2. /\ walletOf[b[1]] = b[1] /\ record[b[1]] = "COMPLETED"
        /\ call[b[1]] = InitializeCall(Past[b[1]])
    BY <2>1 DEF Init, IsPast
  <2>3. call[b[1]].target = Home[Past[b[1]]]
    BY <2>2 DEF InitializeCall
  <2>4. Backed(walletOf[b[1]], CurrencyOf(b[1], b[2]))
    BY <2>1, <2>2 DEF Backed, CurrencyOf
  <2>5. QED
    BY <2>1, <2>2, <2>3, <2>4 DEF RowSound, MoneySound, CurrencyOf, InitialDeposit
<1>6. DatabaseSound(durable) /\ DatabaseSound(working) /\ AdriftSound
  BY <1>5 DEF Init, DatabaseSound, AdriftSound
<1>7. SnapshotsSound
  BY DEF Init, SnapshotsSound
<1>8. ASSUME NEW r \in Requests
      PROVE  PositionSound(r)
  BY <1>3 DEF Init, PositionSound, PCs, IsPast
<1>9. QED
  BY <1>4, <1>6, <1>7, <1>8 DEF LedgerInv, Init

LEMMA NextSound ==
  ASSUME LedgerInv, [Next]_vars
  PROVE  LedgerInv'
<1>1. CASE Crash
  BY <1>1, CrashSound
<1>2. ASSUME NEW r \in Requests, Submit(r)
      PROVE  LedgerInv'
  BY <1>2, SubmitSound
<1>3. ASSUME NEW r \in Requests, Work(r)
      PROVE  LedgerInv'
  <2>1. CASE Refuse(r)
    BY <2>1, FailSound DEF Refuse
  <2>2. CASE FindWallet(r)
    BY <2>2, FindWalletSound
  <2>3. CASE OpenWallet(r)
    BY <2>3, OpenWalletSound
  <2>4. CASE ReadBalances(r)
    BY <2>4, ReadBalancesSound
  <2>5. CASE MakeSource(r) \/ MakeTarget(r)
    BY <2>5, MakeBalanceSound DEF MakeSource, MakeTarget, Sides
  <2>6. CASE RereadSource(r) \/ RereadTarget(r)
    BY <2>6, RereadBalanceSound DEF RereadSource, RereadTarget, Sides
  <2>7. CASE CreateRecord(r)
    BY <2>7, CreateRecordSound
  <2>8. CASE ReadBalance(r)
    BY <2>8, ReadBalanceSound
  <2>9. CASE Deposit(r)
    BY <2>9, DepositSound
  <2>10. CASE MoveFunds(r)
    BY <2>10, MoveFundsSound
  <2>11. CASE CompleteRecord(r)
    BY <2>11, CompleteRecordSound
  <2>12. CASE Finish(r)
    BY <2>12, FinishSound
  <2>13. CASE DatabaseError(r)
    BY <2>13, FailSound DEF DatabaseError
  <2>14. QED
    BY <1>3, <2>1, <2>2, <2>3, <2>4, <2>5, <2>6, <2>7, <2>8, <2>9, <2>10, <2>11, <2>12, <2>13
       DEF Work, Step
<1>4. CASE UNCHANGED vars
  BY <1>4 DEF vars, LedgerInv, TypeOK, DatabaseSound, RowsOf, RowSound, MoneySound, Backed,
     NegativeFund, CurrencyOf, SnapshotsSound, SnapshotSound, PositionSound, Exchange,
     Sufficient, AdriftSound
<1>5. CASE Interfere
  BY <1>5, InterfereSound
<1>6. QED
  BY <1>1, <1>2, <1>3, <1>4, <1>5 DEF Next, CalmNext

(* LedgerInv holds in every reachable state.                               *)
THEOREM LedgerSound == Spec => []LedgerInv
<1>1. Init => LedgerInv
  BY OpeningSound
<1>2. LedgerInv /\ [Next]_vars => LedgerInv'
  BY NextSound
<1>3. QED
  BY <1>1, <1>2, PTL DEF Spec

(* Every variable keeps its type.                                          *)
THEOREM TypeCorrect == Spec => []TypeOK
<1>1. LedgerInv => TypeOK
  BY DEF LedgerInv
<1>2. QED
  BY <1>1, LedgerSound, PTL

(* However requests overlap and whenever the process crashes, convert and  *)
(* trade never take a balance below zero: their check against the balance  *)
(* they read is enough, since they write what they read less the amount.   *)
THEOREM NeverOverdrawn == Spec => []NoOverdraft
<1>1. LedgerInv => NoOverdraft
  <2>. SUFFICES ASSUME LedgerInv, NEW db \in Databases, NEW b \in RowsOf(db)
                PROVE  \/ db.balance[b].amount >= 0 /\ db.balance[b].availableAmount >= 0
                       \/ NegativeFund(b[1])
    BY DEF NoOverdraft
  <2>1. MoneySound(b, db.balance[b])
    BY DEF LedgerInv, Databases, DatabaseSound, RowSound
  <2>2. QED
    BY <2>1 DEF MoneySound
<1>2. QED
  BY <1>1, LedgerSound, PTL

(* The two columns of every balance, written by separate expressions,      *)
(* always hold the same amount.                                            *)
THEOREM ColumnsNeverApart == Spec => []ColumnsAgree
<1>1. LedgerInv => ColumnsAgree
  BY DEF LedgerInv, ColumnsAgree, Databases, DatabaseSound, RowSound, MoneySound
<1>2. QED
  BY <1>1, LedgerSound, PTL

(* Money in a balance always has a transaction record of its wallet and    *)
(* currency, although records and balances are written by different        *)
(* connections and only the latter are rolled back.                        *)
THEOREM MoneyIsRecorded == Spec => []AuditTrail
<1>1. LedgerInv => AuditTrail
  <2>. SUFFICES ASSUME LedgerInv, NEW db \in Databases, NEW b \in RowsOf(db),
                       db.balance[b].amount > 0
                PROVE  Backed(db.balance[b].wallet, db.balance[b].currency)
    BY DEF AuditTrail, Backed
  <2>1. RowSound(b, db.balance[b])
    BY DEF LedgerInv, Databases, DatabaseSound
  <2>2. QED
    BY <2>1 DEF RowSound, MoneySound
<1>2. QED
  BY <1>1, LedgerSound, PTL

-----------------------------------------------------------------------------
(* Counting requests.                                                      *)

Active == PCs \ {"absent", "done"}

(* What a step of a running request can be: it goes on, perhaps writing;   *)
(* it fails; it commits and ends; or it ends with a write of its own, when *)
(* there is no transaction any more.                                       *)
GoesOn(r) ==
  /\ \E p \in Active : Goto(r, p)
  /\ transactionCount' = transactionCount
  /\ interruptions' = interruptions
  /\ UNCHANGED <<durable, working>> \/ \E db : Store(db)

Commits(r) ==
  /\ InTransaction
  /\ Goto(r, "done")
  /\ transactionCount' = transactionCount - 2
  /\ interruptions' = interruptions
  /\ working' = working
  /\ durable' = IF transactionCount = 2 THEN working ELSE durable

EndsAlone(r) ==
  /\ ~InTransaction
  /\ Goto(r, "done")
  /\ transactionCount' = CountAfterFailure
  /\ interruptions' = interruptions
  /\ \E db : Store(db)

LEMMA StepShape ==
  ASSUME TypeOK, NEW r \in Requests, Work(r)
  PROVE  /\ pc[r] \in Active
         /\ GoesOn(r) \/ Fail(r) \/ Commits(r) \/ EndsAlone(r)
<1>1. CASE Refuse(r)
  BY <1>1 DEF Refuse, Active, PCs
<1>2. CASE FindWallet(r)
  BY <1>2 DEF FindWallet, Active, PCs, GoesOn
<1>3. CASE OpenWallet(r)
  BY <1>3 DEF OpenWallet, Active, PCs, GoesOn
<1>4. CASE ReadBalances(r)
  BY <1>4 DEF ReadBalances, Active, PCs, GoesOn
<1>5. ASSUME NEW side \in Sides, NEW from \in {"makeSource", "makeTarget"},
             NEW to \in {"rereadSource", "rereadTarget"}, MakeBalance(r, side, from, to)
      PROVE  pc[r] \in Active /\ (GoesOn(r) \/ Fail(r))
  BY <1>5 DEF MakeBalance, Active, PCs, GoesOn
<1>6. ASSUME NEW side \in Sides, NEW from \in {"rereadSource", "rereadTarget"},
             RereadBalance(r, side, from)
      PROVE  pc[r] \in Active /\ GoesOn(r)
  BY <1>6 DEF RereadBalance, Active, PCs, GoesOn
<1>7. CASE CreateRecord(r)
  BY <1>7 DEF CreateRecord, Active, PCs, GoesOn
<1>8. CASE ReadBalance(r)
  BY <1>8 DEF ReadBalance, Active, PCs, GoesOn
<1>9. CASE Deposit(r)
  BY <1>9 DEF Deposit, Active, PCs, GoesOn
<1>10. CASE MoveFunds(r)
  BY <1>10 DEF MoveFunds, Active, PCs, GoesOn, EndsAlone
<1>11. CASE CompleteRecord(r)
  BY <1>11 DEF CompleteRecord, Active, PCs, GoesOn
<1>12. CASE Finish(r)
  BY <1>12 DEF Finish, Active, PCs, Commits
<1>13. CASE MakeSource(r) \/ MakeTarget(r)
  BY <1>5, <1>13 DEF MakeSource, MakeTarget, Sides
<1>14. CASE RereadSource(r) \/ RereadTarget(r)
  BY <1>6, <1>14 DEF RereadSource, RereadTarget, Sides
<1>15. CASE DatabaseError(r)
  BY <1>15 DEF DatabaseError, Active, TypeOK
<1>16. QED
  BY <1>1, <1>2, <1>3, <1>4, <1>7, <1>8, <1>9, <1>10, <1>11, <1>12, <1>13, <1>14, <1>15
     DEF Work, Step

-----------------------------------------------------------------------------
(* SettledInv.                                                             *)

LEMMA RunningIs ==
  ASSUME TypeOK, NEW r \in Requests, NEW p \in PCs, Goto(r, p)
  PROVE  /\ p \in Active => Running' = Running \cup {r}
         /\ p = "done" => Running' = Running \ {r}
BY DEF TypeOK, Goto, Running, Active, PCs

LEMMA SettledStep ==
  ASSUME LedgerInv, SettledInv, [Next]_vars
  PROVE  SettledInv'
<1>0. /\ TypeOK /\ IsFiniteSet(Running) /\ Cardinality(Running) \in Nat
      /\ transactionCount \in Int /\ interruptions \in Nat
  BY FS_CardinalityType DEF LedgerInv, SettledInv, TypeOK
<1>1. CASE Crash
  <2>1. Running' = {}
    BY <1>0, <1>1 DEF Crash, Running, TypeOK
  <2>2. QED
    BY <1>1, <2>1, FS_EmptySet DEF Crash, SettledInv
<1>2. ASSUME NEW r \in Requests, Submit(r)
      PROVE  SettledInv'
  <2>1. Running' = Running \cup {r} /\ r \notin Running
    BY <1>0, <1>2, RunningIs DEF Submit, Active, PCs, Running
  <2>2. IsFiniteSet(Running') /\ Cardinality(Running') = Cardinality(Running) + 1
    BY <1>0, <2>1, FS_AddElement
  <2>3. QED
    BY <1>0, <1>2, <2>2 DEF Submit, SettledInv, InTransaction
<1>3. ASSUME NEW r \in Requests, Work(r)
      PROVE  SettledInv'
  <2>1. pc[r] \in Active /\ r \in Running
    BY <1>0, <1>3, StepShape DEF Active, Running
  <2>2. /\ IsFiniteSet(Running \ {r})
        /\ Cardinality(Running \ {r}) = Cardinality(Running) - 1
        /\ Cardinality(Running \ {r}) \in Nat
    BY <1>0, <2>1, FS_RemoveElement, FS_CardinalityType
  <2>3. CASE GoesOn(r)
    <3>1. Running' = Running
      BY <1>0, <2>1, <2>3, RunningIs DEF GoesOn, Active
    <3>2. /\ transactionCount' = transactionCount /\ interruptions' = interruptions
          /\ ~InTransaction => working' = durable'
      BY <1>0, <2>3 DEF GoesOn, SettledInv, Store
    <3>3. QED
      BY <3>1, <3>2 DEF SettledInv, InTransaction
  <2>4. CASE Fail(r)
    <3>1. Running' = Running \ {r}
      BY <1>0, <2>4, RunningIs DEF Fail, PCs
    <3>2. transactionCount' <= 0 /\ transactionCount' \in Int /\ working' = durable'
      BY <1>0, <2>4 DEF Fail, CountAfterFailure, InTransaction
    <3>3. ~InTransaction' /\ transactionCount' <= 2 * Cardinality(Running')
      BY <2>2, <3>1, <3>2 DEF InTransaction
    <3>4. QED
      BY <2>2, <3>1, <3>2, <3>3 DEF SettledInv
  <2>5. CASE Commits(r)
    <3>1. Running' = Running \ {r}
      BY <1>0, <2>5, RunningIs DEF Commits, PCs
    <3>2. ~InTransaction' => working' = durable'
      <4>1. CASE transactionCount = 2
        BY <2>5, <4>1 DEF Commits
      <4>2. transactionCount # 1
        BY <2>5 DEF Commits, SettledInv
      <4>3. QED
        BY <1>0, <2>5, <4>1, <4>2 DEF Commits, InTransaction
    <3>3. interruptions' = 0 => transactionCount' <= 2 * Cardinality(Running')
      BY <1>0, <2>2, <2>5, <3>1 DEF Commits, SettledInv
    <3>4. InTransaction' => transactionCount' % 2 = 0
      BY <1>0, <2>5 DEF Commits, SettledInv, InTransaction
    <3>5. QED
      BY <2>2, <3>1, <3>2, <3>3, <3>4 DEF SettledInv
  <2>6. CASE EndsAlone(r)
    <3>1. Running' = Running \ {r}
      BY <1>0, <2>6, RunningIs DEF EndsAlone, PCs
    <3>2. transactionCount' <= 0 /\ transactionCount' \in Int /\ working' = durable'
      BY <1>0, <2>6 DEF EndsAlone, Store, InTransaction, CountAfterFailure, SettledInv
    <3>3. ~InTransaction' /\ transactionCount' <= 2 * Cardinality(Running')
      BY <2>2, <3>1, <3>2 DEF InTransaction
    <3>4. QED
      BY <2>2, <3>1, <3>2, <3>3 DEF SettledInv
  <2>7. QED
    BY <1>0, <1>3, <2>3, <2>4, <2>5, <2>6, StepShape
<1>4. CASE UNCHANGED vars
  BY <1>4 DEF vars, SettledInv, Running, InTransaction
<1>5. CASE Interfere
  <2>1. Running' = Running /\ interruptions' # 0
    BY <1>0, <1>5 DEF Interfere, Running
  <2>2. ~InTransaction' => working' = durable'
    BY <1>5 DEF Interfere, Frames, InTransaction
  <2>3. InTransaction' => transactionCount' % 2 = 0
    <3>1. transactionCount' \in {0, 2, 4}
      BY <1>5 DEF Interfere, Frames
    <3>2. 0 % 2 = 0 /\ 2 % 2 = 0 /\ 4 % 2 = 0
      OBVIOUS
    <3>3. QED
      BY <3>1, <3>2
  <2>4. QED
    BY <1>0, <2>1, <2>2, <2>3 DEF SettledInv
<1>6. QED
  BY <1>1, <1>2, <1>3, <1>4, <1>5 DEF Next, CalmNext

(* When no request runs, the shared transaction is over and nothing is     *)
(* left uncommitted, whatever the rollbacks of overlapping requests did to *)
(* the transaction they shared, unless starts, commits and rollbacks       *)
(* themselves interleaved.                                                 *)
THEOREM QuietIsSettled == Spec => []SettledWhenQuiet
<1>1. Init => SettledInv
  <2>1. Init => Running = {}
    BY LedgerAssumption DEF Init, Running, IsPast
  <2>2. QED
    BY <2>1, FS_EmptySet DEF Init, SettledInv
<1>2. LedgerInv /\ SettledInv /\ [Next]_vars => SettledInv'
  BY SettledStep
<1>3. LedgerInv /\ SettledInv => SettledWhenQuiet
  <2>. SUFFICES ASSUME LedgerInv, SettledInv, Quiescent, interruptions = 0
                PROVE  ~InTransaction /\ working = durable
    BY DEF SettledWhenQuiet
  <2>1. Running = {}
    BY DEF Quiescent, Running
  <2>2. QED
    BY <2>1, FS_EmptySet DEF SettledInv, LedgerInv, TypeOK, InTransaction
<1>4. QED
  BY <1>1, <1>2, <1>3, LedgerSound, PTL DEF Spec

-----------------------------------------------------------------------------
(* MoneyInv.                                                               *)

LEMMA CreditorsCount ==
  ASSUME MoneyInv
  PROVE  IsFiniteSet(Creditors) /\ Cardinality(Creditors) \in Nat
<1>1. IsFiniteSet(Recorded) /\ Creditors \in SUBSET Recorded
  BY DEF MoneyInv, Creditors, Recorded
<1>2. QED
  BY <1>1, FS_Subset, FS_CardinalityType

LEMMA OpeningIs ==
  ASSUME TypeOK, NEW r \in Requests
  PROVE  Opening(r) \in Int
BY DEF TypeOK, Opening, Call, InitialDeposit

(* A step of request r preserves MoneyInv if it keeps to the limit of the  *)
(* creditors so far, or to one more when r becomes one.                    *)
LEMMA MoneyStep ==
  ASSUME LedgerInv, LedgerInv', MoneyInv, NEW r \in Requests,
         call' = call,
         \A q \in Requests \ {r} : record'[q] = record[q] /\ pc'[q] = pc[q],
         pc'[r] \notin {"balance", "write", "complete", "finish", "done"} =>
           record'[r] = "none",
         pc'[r] \in {"balances", "makeSource", "rereadSource", "makeTarget",
                     "rereadTarget"} => Exchange(r),
         r \in Creditors => r \in Creditors',
         NEW n \in Nat,
         n <= Cardinality(Creditors) \/ (/\ n <= Cardinality(Creditors) + 1
                                         /\ r \notin Creditors /\ r \in Creditors'),
         DatabaseWithin(durable, n)', DatabaseWithin(working, n)', AdriftWithin(n)',
         SnapshotsWithin(n)'
  PROVE  MoneyInv'
<1>0. IsFiniteSet(Creditors) /\ Cardinality(Creditors) \in Nat /\ IsFiniteSet(Recorded)
  BY CreditorsCount DEF MoneyInv
<1>1. Recorded' \in SUBSET (Recorded \cup {r}) /\ Creditors \subseteq Creditors'
  BY DEF Recorded, Creditors
<1>2. IsFiniteSet(Recorded')
  BY <1>0, <1>1, FS_AddElement, FS_Subset
<1>3. Creditors' \in SUBSET Recorded'
  BY DEF Recorded, Creditors
<1>4. IsFiniteSet(Creditors') /\ Cardinality(Creditors') \in Nat
  BY <1>2, <1>3, FS_Subset, FS_CardinalityType
<1>5. n <= Cardinality(Creditors')
  <2>1. Cardinality(Creditors) <= Cardinality(Creditors')
    BY <1>1, <1>4, FS_Subset
  <2>2. ASSUME r \notin Creditors, r \in Creditors'
        PROVE  Cardinality(Creditors) + 1 <= Cardinality(Creditors')
    <3>1. Cardinality(Creditors \cup {r}) = Cardinality(Creditors) + 1
      BY <1>0, <2>2, FS_AddElement
    <3>2. Creditors \cup {r} \in SUBSET Creditors'
      BY <1>1, <2>2
    <3>3. QED
      BY <1>4, <3>1, <3>2, FS_Subset
  <2>3. QED
    BY <1>0, <1>4, <2>1, <2>2
<1>. PICK k \in Nat : k = Cardinality(Creditors')
  BY <1>4
<1>6. TypeOK' /\ k \in Nat /\ n <= k
  BY <1>4, <1>5 DEF LedgerInv
<1>7. \A q \in Requests : Opening(q) \in Int
  BY OpeningIs DEF LedgerInv
<1>8. ASSUME NEW db \in Database, NEW b \in RowsOf(db),
             db.balance[b].amount <= Opening(b[1]) + n
      PROVE  db.balance[b].amount <= Opening(b[1]) + k
  <2>1. b[1] \in Requests /\ db.balance[b].amount \in Int
    BY <1>8 DEF RowsOf, Database, BalanceIds, Row
  <2>2. QED
    BY <1>6, <1>7, <1>8, <2>1
<1>9. DatabaseWithin(durable, k)' /\ DatabaseWithin(working, k)'
  <2>1. durable' \in Database /\ working' \in Database
    BY <1>6 DEF TypeOK
  <2>2. ASSUME NEW b \in RowsOf(durable')
        PROVE  Within(b, durable.balance[b], k)'
    <3>1. Within(b, durable.balance[b], n)'
      BY <2>2 DEF DatabaseWithin, RowsOf
    <3>2. durable'.balance[b].amount <= Opening(b[1]) + n
      BY <3>1 DEF Within, Opening
    <3>3. durable'.balance[b].amount <= Opening(b[1]) + k
      BY <1>8, <2>1, <2>2, <3>2
    <3>4. QED
      BY <3>3 DEF Within, Opening
  <2>3. ASSUME NEW b \in RowsOf(working')
        PROVE  Within(b, working.balance[b], k)'
    <3>1. Within(b, working.balance[b], n)'
      BY <2>3 DEF DatabaseWithin, RowsOf
    <3>2. working'.balance[b].amount <= Opening(b[1]) + n
      BY <3>1 DEF Within, Opening
    <3>3. working'.balance[b].amount <= Opening(b[1]) + k
      BY <1>8, <2>1, <2>3, <3>2
    <3>4. QED
      BY <3>3 DEF Within, Opening
  <2>4. QED
    BY <2>2, <2>3 DEF DatabaseWithin, RowsOf
<1>10. SnapshotsWithin(k)'
  <2>1. ASSUME NEW q \in Requests, NEW side \in Sides, seen'[q][side] # NoRow
        PROVE  Within(seen[q][side].id, seen[q][side], k)'
    <3>1. seen'[q][side] \in Snapshot
      BY <1>6, <2>1 DEF TypeOK
    <3>2. seen'[q][side].amount \in Int /\ seen'[q][side].id[1] \in Requests
      BY <3>1 DEF Snapshot, BalanceIds
    <3>3. seen'[q][side].amount <= Opening(seen'[q][side].id[1]) + n
      BY <2>1 DEF SnapshotsWithin, Within, Opening
    <3>4. seen'[q][side].amount <= Opening(seen'[q][side].id[1]) + k
      BY <1>6, <1>7, <3>2, <3>3
    <3>5. QED
      BY <3>4 DEF Within, Opening
  <2>2. QED
    BY <2>1 DEF SnapshotsWithin
<1>11. AdriftWithin(k)'
  <2>1. ASSUME NEW t \in adrift', NEW b \in RowsOf(t.to)
        PROVE  Within(b, t.to.balance[b], k)'
    <3>1. t.to \in Database
      BY <1>6 DEF TypeOK, Transaction
    <3>2. Within(b, t.to.balance[b], n)'
      BY <2>1 DEF AdriftWithin, DatabaseWithin, RowsOf
    <3>3. t.to.balance[b].amount <= Opening(b[1]) + n
      BY <3>2 DEF Within, Opening
    <3>4. t.to.balance[b].amount <= Opening(b[1]) + k
      BY <1>8, <2>1, <3>1, <3>3
    <3>5. QED
      BY <3>4 DEF Within, Opening
  <2>2. QED
    BY <2>1 DEF AdriftWithin, DatabaseWithin, RowsOf
<1>12. ASSUME NEW q \in Requests
       PROVE  /\ pc'[q] \notin {"balance", "write", "complete", "finish", "done"} =>
                   record'[q] = "none"
              /\ pc'[q] \in {"balances", "makeSource", "rereadSource", "makeTarget",
                            "rereadTarget"} => Exchange(q)'
  <2>1. CASE q = r
    BY <2>1 DEF Exchange
  <2>2. CASE q # r
    BY <2>2 DEF MoneyInv, Exchange
  <2>3. QED
    BY <2>1, <2>2
<1>13. QED
  BY <1>2, <1>9, <1>10, <1>11, <1>12
     DEF MoneyInv, DatabaseWithin, AdriftWithin, SnapshotsWithin, Within

LEMMA WithinStable ==
  ASSUME call' = call, NEW n, NEW db, DatabaseWithin(db, n)
  PROVE  DatabaseWithin(db, n)'
BY DEF DatabaseWithin, Within, Opening, RowsOf

(* What every step of a running request leaves alone, and where it goes.   *)
LEMMA StepFrame ==
  ASSUME LedgerInv, MoneyInv, NEW r \in Requests, Work(r)
  PROVE  /\ call' = call
         /\ \A q \in Requests \ {r} :
              record'[q] = record[q] /\ pc'[q] = pc[q] /\ seen'[q] = seen[q]
         /\ pc'[r] \notin {"balance", "write", "complete", "finish", "done"} =>
              record'[r] = "none"
         /\ pc'[r] \in {"balances", "makeSource", "rereadSource", "makeTarget",
                        "rereadTarget"} => Exchange(r)
         /\ r \in Creditors => r \in Creditors'
<1>. USE DEF LedgerInv, TypeOK, MoneyInv, Creditors, Goto, Fail
<1>1. CASE Refuse(r)
  BY <1>1 DEF Refuse
<1>2. CASE FindWallet(r)
  BY <1>2 DEF FindWallet
<1>3. CASE OpenWallet(r)
  BY <1>3 DEF OpenWallet
<1>4. CASE ReadBalances(r)
  BY <1>4 DEF ReadBalances
<1>5. CASE MakeSource(r)
  BY <1>5 DEF MakeSource, MakeBalance
<1>6. CASE MakeTarget(r)
  BY <1>6 DEF MakeTarget, MakeBalance
<1>7. CASE RereadSource(r)
  BY <1>7 DEF RereadSource, RereadBalance
<1>8. CASE RereadTarget(r)
  BY <1>8 DEF RereadTarget, RereadBalance
<1>9. CASE CreateRecord(r)
  BY <1>9 DEF CreateRecord
<1>10. CASE ReadBalance(r)
  BY <1>10 DEF ReadBalance
<1>11. CASE Deposit(r)
  BY <1>11 DEF Deposit
<1>12. CASE MoveFunds(r)
  BY <1>12 DEF MoveFunds
<1>13. CASE CompleteRecord(r)
  BY <1>13 DEF CompleteRecord
<1>14. CASE Finish(r)
  BY <1>14 DEF Finish
<1>15. CASE DatabaseError(r)
  BY <1>15 DEF DatabaseError
<1>16. QED
  BY <1>1, <1>2, <1>3, <1>4, <1>5, <1>6, <1>7, <1>8, <1>9, <1>10, <1>11, <1>12, <1>13, <1>14,
     <1>15 DEF Work, Step

(* What a step may do to the two databases: take one over from the other,  *)
(* or write a new one within the limit.                                    *)
LEMMA WithinKept ==
  ASSUME MoneyInv, call' = call, durable' \in Databases, working' \in Databases
  PROVE  \A n : n = Cardinality(Creditors) =>
           /\ DatabaseWithin(durable, n)' /\ DatabaseWithin(working, n)'
           /\ adrift' = adrift => AdriftWithin(n)'
<1>. SUFFICES ASSUME NEW n, n = Cardinality(Creditors)
              PROVE  /\ DatabaseWithin(durable, n)' /\ DatabaseWithin(working, n)'
                     /\ adrift' = adrift => AdriftWithin(n)'
  BY DEF MoneyInv
<1>1. \A db \in Databases : DatabaseWithin(db, n)
  BY DEF MoneyInv, Databases
<1>2. ASSUME NEW db \in Databases, durable' = db
      PROVE  DatabaseWithin(durable, n)'
  BY <1>1, <1>2, WithinStable DEF DatabaseWithin, RowsOf, Within
<1>3. ASSUME NEW db \in Databases, working' = db
      PROVE  DatabaseWithin(working, n)'
  BY <1>1, <1>3, WithinStable DEF DatabaseWithin, RowsOf, Within
<1>4. ASSUME adrift' = adrift
      PROVE  AdriftWithin(n)'
  BY <1>4, WithinStable DEF MoneyInv, AdriftWithin
<1>5. QED
  BY <1>2, <1>3, <1>4

LEMMA WithinMore ==
  ASSUME TypeOK, NEW m \in Nat, NEW n \in Nat, m <= n,
         NEW db \in Database, DatabaseWithin(db, m)
  PROVE  DatabaseWithin(db, n)
<1>. SUFFICES ASSUME NEW b \in RowsOf(db)
              PROVE  Within(b, db.balance[b], n)
  BY DEF DatabaseWithin
<1>1. b[1] \in Requests /\ db.balance[b] \in Row
  BY DEF RowsOf, Database, BalanceIds
<1>2. db.balance[b].amount \in Int /\ Opening(b[1]) \in Int
  BY <1>1, OpeningIs DEF Row
<1>3. Within(b, db.balance[b], m)
  BY DEF DatabaseWithin
<1>4. QED
  BY <1>2, <1>3 DEF Within

LEMMA LandedWithin ==
  ASSUME NEW db \in Database, NEW t, t.to \in Database, NEW n,
         DatabaseWithin(db, n), DatabaseWithin(t.to, n)
  PROVE  DatabaseWithin(Landed(db, t), n)
<1>. SUFFICES ASSUME NEW b \in RowsOf(Landed(db, t))
              PROVE  Within(b, Landed(db, t).balance[b], n)
  BY DEF DatabaseWithin
<1>1. /\ b \in BalanceIds /\ Landed(db, t).balance[b] # NoRow
      /\ Landed(db, t).balance[b] \in {db.balance[b], t.to.balance[b]}
  BY LandedIs DEF RowsOf
<1>2. CASE Landed(db, t).balance[b] = db.balance[b]
  BY <1>1, <1>2 DEF DatabaseWithin, RowsOf
<1>3. CASE Landed(db, t).balance[b] = t.to.balance[b]
  BY <1>1, <1>3 DEF DatabaseWithin, RowsOf
<1>4. QED
  BY <1>1, <1>2, <1>3

LEMMA WithRowWithin ==
  ASSUME TypeOK, NEW r \in Requests, NEW side \in Sides, NEW money \in Int,
         walletOf[r] # NoWallet, NEW n \in Nat, DatabaseWithin(working, n),
         money <= Opening(r) + n
  PROVE  DatabaseWithin(WithRow(r, side, money), n)
<1>. DEFINE db == WithRow(r, side, money)
<1>1. ASSUME NEW b \in RowsOf(db), b # <<r, side>>
      PROVE  Within(b, db.balance[b], n)
  <2>1. b \in BalanceIds /\ db.balance[b] # NoRow
    BY <1>1 DEF RowsOf
  <2>2. db.balance[b] = working.balance[b]
    BY <1>1, <2>1, WithRowIs
  <2>3. QED
    BY <2>1, <2>2 DEF DatabaseWithin, RowsOf
<1>2. ASSUME NEW b \in RowsOf(db), b = <<r, side>>
      PROVE  Within(b, db.balance[b], n)
  <2>1. b \in BalanceIds /\ b[1] = r
    BY <1>2 DEF RowsOf
  <2>2. db.balance[b].amount = money
    BY <1>2, <2>1 DEF WithRow, TypeOK, Database
  <2>3. QED
    BY <2>1, <2>2 DEF Within
<1>3. QED
  BY <1>1, <1>2 DEF DatabaseWithin

LEMMA UpdatedWithin ==
  ASSUME NEW db \in Database, NEW n \in Nat, DatabaseWithin(db, n),
         NEW id \in BalanceIds, NEW a \in Int, NEW v \in Int,
         a <= Opening(id[1]) + n
  PROVE  DatabaseWithin(Updated(db, id, a, v), n)
<1>. DEFINE new == Updated(db, id, a, v)
<1>1. ASSUME NEW b \in RowsOf(new), b # id
      PROVE  Within(b, new.balance[b], n)
  <2>1. b \in BalanceIds /\ new.balance[b] # NoRow
    BY <1>1 DEF RowsOf
  <2>2. new.balance[b] = db.balance[b]
    BY <1>1, <2>1 DEF Updated, Database
  <2>3. QED
    BY <2>1, <2>2 DEF DatabaseWithin, RowsOf
<1>2. ASSUME NEW b \in RowsOf(new), b = id
      PROVE  Within(b, new.balance[b], n)
  <2>1. db.balance[id] # NoRow
    BY <1>2 DEF Updated, RowsOf
  <2>2. new.balance[b].amount = a
    BY <1>2, <2>1 DEF Updated, Database
  <2>3. QED
    BY <1>2, <2>2 DEF Within
<1>3. QED
  BY <1>1, <1>2 DEF DatabaseWithin

(* The debit and the credit keep to the limit, and to one more.            *)
LEMMA DebitWithin ==
  ASSUME LedgerInv, NEW r \in Requests, Exchange(r), pc[r] = "write",
         NEW n \in Nat, SnapshotsWithin(n), DatabaseWithin(working, n)
  PROVE  DatabaseWithin(Debited(working, seen[r]["source"], call[r].amount), n)
<1>. DEFINE s == seen[r]["source"]
            x == call[r].amount
<1>1. x \in Int /\ x > 0 /\ s # NoRow /\ s \in Snapshot /\ working \in Database
  BY DEF LedgerInv, PositionSound, Sufficient, TypeOK, Call, Sides
<1>2. /\ s.id \in BalanceIds /\ s.id[1] \in Requests
      /\ s.amount \in Int /\ s.availableAmount \in Int
  BY <1>1 DEF Snapshot, BalanceIds
<1>3. s.amount <= Opening(s.id[1]) + n
  BY <1>1 DEF SnapshotsWithin, Within, Sides
<1>4. /\ s.amount - x <= Opening(s.id[1]) + n
      /\ s.amount - x \in Int /\ s.availableAmount - x \in Int
  BY <1>1, <1>2, <1>3, OpeningIs DEF LedgerInv
<1>5. Debited(working, s, x) = Updated(working, s.id, s.amount - x, s.availableAmount - x)
  BY DEF Debited, Minus
<1>6. QED
  BY <1>1, <1>2, <1>4, <1>5, UpdatedWithin

LEMMA PlusOne ==
  ASSUME NEW b \in Int, NEW x
  PROVE  Plus(b, x) <= b + 1
BY DEF Plus, Carry

LEMMA CreditWithin ==
  ASSUME LedgerInv, NEW r \in Requests, seen[r]["target"] # NoRow,
         NEW n \in Nat, SnapshotsWithin(n),
         NEW db \in Database, DatabaseWithin(db, n)
  PROVE  DatabaseWithin(Credited(db, seen[r]["target"], call[r].amount), n + 1)
<1>. DEFINE s == seen[r]["target"]
            a == Plus(s.amount, call[r].amount)
            v == Plus(s.availableAmount, call[r].amount)
<1>1. s \in Snapshot /\ s.amount <= Opening(s.id[1]) + n
  BY DEF LedgerInv, TypeOK, SnapshotsWithin, Within, Sides
<1>2. /\ s.id \in BalanceIds /\ s.id[1] \in Requests
      /\ s.amount \in Int /\ s.availableAmount \in Int
  BY <1>1 DEF Snapshot, BalanceIds
<1>3. a \in Int /\ v \in Int /\ a <= s.amount + 1
  BY <1>2, PlusSound, PlusOne
<1>4. a <= Opening(s.id[1]) + (n + 1)
  <2>. HIDE DEF a
  <2>1. QED
    BY <1>1, <1>2, <1>3, OpeningIs DEF LedgerInv
<1>5. DatabaseWithin(db, n + 1)
  BY WithinMore DEF LedgerInv
<1>6. Credited(db, s, call[r].amount) = Updated(db, s.id, a, v)
  BY DEF Credited
<1>. HIDE DEF a, v
<1>7. QED
  BY <1>2, <1>3, <1>4, <1>5, <1>6, UpdatedWithin

(* The steps that write nothing new and read nothing.                      *)
LEMMA MoneySame ==
  ASSUME LedgerInv, LedgerInv', MoneyInv, NEW r \in Requests, Work(r),
         durable' \in Databases, working' \in Databases, adrift' = adrift, seen' = seen
  PROVE  MoneyInv'
<1>. PICK n \in Nat : n = Cardinality(Creditors)
  BY CreditorsCount
<1>1. DatabaseWithin(durable, n)' /\ DatabaseWithin(working, n)' /\ AdriftWithin(n)'
  BY StepFrame, WithinKept
<1>2. SnapshotsWithin(n)'
  BY StepFrame DEF MoneyInv, SnapshotsWithin, Within, Opening
<1>3. QED
  BY <1>1, <1>2, StepFrame, MoneyStep

(* The steps that read a balance.                                          *)
LEMMA MoneyRead ==
  ASSUME LedgerInv, LedgerInv', MoneyInv, NEW r \in Requests, Work(r),
         UNCHANGED <<durable, working, adrift>>,
         \A side \in Sides : seen'[r][side] \in Reads(r, side) \cup {seen[r][side]}
  PROVE  MoneyInv'
<1>. PICK n \in Nat : n = Cardinality(Creditors)
  BY CreditorsCount
<1>1. DatabaseWithin(durable, n)' /\ DatabaseWithin(working, n)' /\ AdriftWithin(n)'
  BY StepFrame, WithinKept DEF Databases
<1>2. ASSUME NEW q \in Requests, NEW side \in Sides, seen'[q][side] # NoRow
      PROVE  Within(seen[q][side].id, seen[q][side], n)'
  <2>1. CASE seen'[q][side] = seen[q][side]
    BY <1>2, <2>1, StepFrame DEF MoneyInv, SnapshotsWithin, Within, Opening
  <2>2. CASE q = r /\ seen'[q][side] \in Reads(r, side)
    <3>1. PICK b \in BalancesOf(walletOf[r], CurrencyOf(r, side)) :
            seen'[q][side] = [id |-> b, amount |-> working.balance[b].amount,
                              availableAmount |-> working.balance[b].availableAmount]
      BY <1>2, <2>2 DEF Reads
    <3>2. Within(b, working.balance[b], n)
      BY <3>1 DEF MoneyInv, DatabaseWithin, RowsOf, BalancesOf
    <3>3. QED
      BY <3>1, <3>2, StepFrame DEF Within, Opening
  <2>3. QED
    BY <2>1, <2>2, StepFrame
<1>3. SnapshotsWithin(n)'
  BY <1>2 DEF SnapshotsWithin
<1>4. QED
  BY <1>1, <1>3, StepFrame, MoneyStep

(* The steps that write a new state of the database.                       *)
LEMMA MoneyStored ==
  ASSUME LedgerInv, LedgerInv', MoneyInv, NEW r \in Requests, Work(r), seen' = seen,
         NEW n \in Nat, Cardinality(Creditors) <= n,
         n <= Cardinality(Creditors) \/ (/\ n <= Cardinality(Creditors) + 1
                                         /\ r \notin Creditors /\ r \in Creditors'),
         NEW db \in Database, DatabaseWithin(db, n), Store(db)
  PROVE  MoneyInv'
<1>1. call' = call /\ TypeOK
  BY StepFrame DEF LedgerInv
<1>. PICK m \in Nat : m = Cardinality(Creditors) /\ m <= n
  BY CreditorsCount
<1>2. DatabaseWithin(durable, m) /\ durable \in Database /\ SnapshotsWithin(m)
  BY <1>1 DEF MoneyInv, TypeOK
<1>3. DatabaseWithin(durable, n)
  BY <1>1, <1>2, WithinMore
<1>4. ASSUME NEW t \in adrift
      PROVE  t.to \in Database /\ DatabaseWithin(t.to, n)
  BY <1>1, WithinMore DEF MoneyInv, AdriftWithin, TypeOK, Transaction
<1>5. working \in Database /\ DatabaseWithin(working, n)
  BY <1>1, WithinMore DEF MoneyInv, TypeOK
<1>6. DatabaseWithin(durable, n)' /\ DatabaseWithin(working, n)' /\ AdriftWithin(n)'
  <2>1. CASE working' = db /\ durable' \in {db, durable} /\ UNCHANGED adrift
    BY <1>1, <1>3, <1>4, <2>1 DEF DatabaseWithin, AdriftWithin, RowsOf, Within, Opening
  <2>2. ASSUME NEW t \in adrift, UNCHANGED <<durable, working>>,
               adrift' = (adrift \ {t})
                 \cup {[t EXCEPT !.to = Landed(t.to, [from |-> working, to |-> db])]}
        PROVE  DatabaseWithin(durable, n)' /\ DatabaseWithin(working, n)' /\ AdriftWithin(n)'
    <3>. DEFINE new == Landed(t.to, [from |-> working, to |-> db])
    <3>1. DatabaseWithin(new, n)
      BY <1>4, LandedWithin
    <3>. HIDE DEF new
    <3>2. [t EXCEPT !.to = new].to = new
      BY <1>1 DEF TypeOK, Transaction
    <3>3. \A u \in adrift' : DatabaseWithin(u.to, n)
      BY <1>4, <2>2, <3>1, <3>2 DEF new
    <3>4. QED
      BY <1>1, <1>3, <1>5, <2>2, <3>3 DEF DatabaseWithin, AdriftWithin, RowsOf, Within, Opening
  <2>3. QED
    BY <2>1, <2>2 DEF Store
<1>7. SnapshotsWithin(n)'
  <2>. SUFFICES ASSUME NEW q \in Requests, NEW side \in Sides, seen'[q][side] # NoRow
                PROVE  Within(seen[q][side].id, seen[q][side], n)'
    BY DEF SnapshotsWithin
  <2>1. seen[q][side] \in Snapshot /\ Within(seen[q][side].id, seen[q][side], m)
    BY <1>1, <1>2 DEF TypeOK, SnapshotsWithin
  <2>2. seen[q][side].amount \in Int /\ Opening(seen[q][side].id[1]) \in Int
    BY <1>1, <2>1, OpeningIs DEF Snapshot, BalanceIds
  <2>3. seen[q][side].amount <= Opening(seen[q][side].id[1]) + n
    BY <2>1, <2>2 DEF Within
  <2>4. QED
    BY <1>1, <2>3 DEF Within, Opening
<1>8. QED
  BY <1>6, <1>7, StepFrame, MoneyStep

LEMMA MoneyMakeBalance ==
  ASSUME LedgerInv, LedgerInv', MoneyInv, NEW r \in Requests, Work(r), NEW side \in Sides,
         NEW from \in {"makeSource", "makeTarget"}, NEW to, MakeBalance(r, side, from, to)
  PROVE  MoneyInv'
<1>1. CASE Fail(r)
  BY <1>1, MoneySame DEF Fail, Databases
<1>2. CASE Store(WithRow(r, side, 0)) /\ seen' = seen
  <2>. PICK n \in Nat : n = Cardinality(Creditors)
    BY CreditorsCount
  <2>1. /\ pc[r] = from /\ walletOf[r] # NoWallet /\ TypeOK
        /\ Exchange(r) /\ Opening(r) = 0
    BY DEF MakeBalance, LedgerInv, TypeOK, PositionSound, PCs, MoneyInv, Opening, Exchange
  <2>2. WithRow(r, side, 0) \in Database
    BY <2>1, WithRowSound
  <2>3. DatabaseWithin(WithRow(r, side, 0), n)
    BY <2>1, WithRowWithin DEF MoneyInv
  <2>4. QED
    BY <1>2, <2>2, <2>3, MoneyStored
<1>3. QED
  BY <1>1, <1>2 DEF MakeBalance

LEMMA MoneyDeposit ==
  ASSUME LedgerInv, LedgerInv', MoneyInv, NEW r \in Requests, Work(r), Deposit(r)
  PROVE  MoneyInv'
<1>. DEFINE t == seen[r]["target"]
            x == call[r].amount
<1>. PICK n \in Nat : n = Cardinality(Creditors)
  BY CreditorsCount
<1>1. /\ pc[r] = "write" /\ walletOf[r] # NoWallet /\ record[r] # "none" /\ TypeOK
      /\ x \in Int /\ r \notin Creditors /\ Opening(r) = x
  BY DEF Deposit, LedgerInv, TypeOK, PositionSound, PCs, Exchange, Call, Ops, Opening, Creditors
<1>2. SnapshotsWithin(n) /\ DatabaseWithin(working, n) /\ working \in Database
  BY <1>1 DEF MoneyInv, TypeOK
<1>3. CASE Fail(r)
  BY <1>3, MoneySame DEF Fail, Databases
<1>4. CASE t = NoRow /\ Store(WithRow(r, "target", x)) /\ seen' = seen
  <2>1. WithRow(r, "target", x) \in Database
    BY <1>1, WithRowIs DEF Sides
  <2>2. DatabaseWithin(WithRow(r, "target", x), n)
    BY <1>1, <1>2, WithRowWithin DEF Sides
  <2>3. QED
    BY <1>4, <2>1, <2>2, MoneyStored
<1>5. CASE /\ t # NoRow /\ Store(Credited(working, t, x)) /\ seen' = seen
           /\ Goto(r, "complete") /\ record' = record
  <2>. DEFINE db == Credited(working, t, x)
  <2>1. db \in Database
    BY <1>1, <1>5, CreditSound DEF LedgerInv, TypeOK
  <2>2. DatabaseWithin(db, n + 1)
    BY <1>2, <1>5, CreditWithin
  <2>3. r \in Creditors'
    BY <1>1, <1>5 DEF Creditors, Goto, TypeOK
  <2>. HIDE DEF db
  <2>4. QED
    BY <1>1, <1>5, <2>1, <2>2, <2>3, MoneyStored DEF db
<1>6. QED
  BY <1>3, <1>4, <1>5 DEF Deposit

LEMMA MoneyMoveFunds ==
  ASSUME LedgerInv, LedgerInv', MoneyInv, NEW r \in Requests, Work(r), MoveFunds(r)
  PROVE  MoneyInv'
<1>. DEFINE x == call[r].amount
            debited == Debited(working, seen[r]["source"], x)
            credited == Credited(debited, seen[r]["target"], x)
<1>. PICK n \in Nat : n = Cardinality(Creditors)
  BY CreditorsCount
<1>1. /\ pc[r] = "write" /\ Exchange(r) /\ record[r] # "none" /\ TypeOK
      /\ r \notin Creditors /\ seen[r]["target"] # NoRow
  BY DEF MoveFunds, LedgerInv, PositionSound, Sufficient, Creditors
<1>2. SnapshotsWithin(n) /\ DatabaseWithin(working, n) /\ working \in Database
  BY <1>1 DEF MoneyInv, TypeOK
<1>3. debited \in Database /\ DatabaseSound(debited) /\ DatabaseWithin(debited, n)
  BY <1>1, <1>2, DebitSound, DebitWithin DEF LedgerInv
<1>4. CASE Fail(r)
  BY <1>4, MoneySame DEF Fail, Databases
<1>5. CASE Store(credited) /\ seen' = seen /\ Goto(r, "complete") /\ record' = record
  <2>. HIDE DEF debited
  <2>1. credited \in Database /\ DatabaseWithin(credited, n + 1)
    BY <1>1, <1>2, <1>3, CreditSound, CreditWithin
  <2>2. r \in Creditors'
    BY <1>1, <1>5 DEF Creditors, Goto, TypeOK
  <2>. HIDE DEF credited
  <2>3. QED
    BY <1>1, <1>5, <2>1, <2>2, MoneyStored
<1>6. CASE Store(debited) /\ seen' = seen
  <2>. HIDE DEF debited
  <2>1. QED
    BY <1>3, <1>6, MoneyStored
<1>7. QED
  BY <1>4, <1>5, <1>6 DEF MoveFunds

LEMMA MoneyInterfere ==
  ASSUME LedgerInv, MoneyInv, Interfere
  PROVE  MoneyInv'
<1>. DEFINE open == adrift \cup {[from |-> durable, to |-> working],
                                 [from |-> durable, to |-> durable]}
<1>. PICK n \in Nat : n = Cardinality(Creditors)
  BY CreditorsCount
<1>1. TypeOK /\ durable \in Database /\ working \in Database
  BY DEF LedgerInv, TypeOK
<1>2. ASSUME NEW t \in open
      PROVE  t.to \in Database /\ DatabaseWithin(t.to, n)
  BY <1>1 DEF TypeOK, MoneyInv, AdriftWithin, Transaction
<1>3. PICK committed \in open, named \in open :
        durable' = Landed(durable, committed) /\ working' = Landed(durable', named)
  BY DEF Interfere
<1>4. adrift' \in SUBSET open /\ UNCHANGED <<call, pc, walletOf, seen, record, reply>>
  BY DEF Interfere
<1>. HIDE DEF open
<1>5. durable' \in Database /\ DatabaseWithin(durable', n)
  BY <1>1, <1>2, <1>3, LandedIs, LandedWithin DEF MoneyInv
<1>6. working' \in Database /\ DatabaseWithin(working', n)
  BY <1>2, <1>3, <1>5, LandedIs, LandedWithin
<1>7. DatabaseWithin(durable, n)' /\ DatabaseWithin(working, n)'
  BY <1>4, <1>5, <1>6 DEF DatabaseWithin, RowsOf, Within, Opening
<1>8. AdriftWithin(n)'
  BY <1>2, <1>4 DEF AdriftWithin, DatabaseWithin, RowsOf, Within, Opening
<1>9. SnapshotsWithin(n)'
  BY <1>4 DEF MoneyInv, SnapshotsWithin, Within, Opening
<1>10. Creditors' = Creditors /\ Recorded' = Recorded
  BY <1>4 DEF Creditors, Recorded
<1>11. QED
  BY <1>4, <1>7, <1>8, <1>9, <1>10 DEF MoneyInv, Exchange

LEMMA MoneyNext ==
  ASSUME LedgerInv, MoneyInv, [Next]_vars
  PROVE  MoneyInv'
<1>0. LedgerInv'
  BY NextSound
<1>1. CASE Crash
  <2>. PICK n \in Nat : n = Cardinality(Creditors)
    BY CreditorsCount
  <2>1. call' = call /\ record' = record /\ seen' = seen /\ TypeOK
    BY <1>1 DEF Crash, LedgerInv
  <2>2. Creditors \in SUBSET Creditors' /\ Creditors' \in SUBSET Recorded /\ Recorded' = Recorded
    BY <1>1, <2>1 DEF Crash, Creditors, Recorded, TypeOK
  <2>3. IsFiniteSet(Creditors') /\ Cardinality(Creditors') \in Nat
    BY <2>2, FS_Subset, FS_CardinalityType DEF MoneyInv
  <2>. PICK k \in Nat : k = Cardinality(Creditors')
    BY <2>3
  <2>4. n <= k
    BY <2>2, <2>3, FS_Subset
  <2>5. DatabaseWithin(durable, k)
    BY <2>1, <2>4, WithinMore DEF MoneyInv, TypeOK
  <2>6. DatabaseWithin(durable, k)' /\ DatabaseWithin(working, k)'
    BY <1>1, <2>1, <2>5 DEF Crash, DatabaseWithin, Within, RowsOf, Opening
  <2>10. AdriftWithin(k)'
    BY <1>1 DEF Crash, AdriftWithin
  <2>7. ASSUME NEW r \in Requests, NEW side \in Sides, seen'[r][side] # NoRow
        PROVE  Within(seen[r][side].id, seen[r][side], k)'
    <3>1. seen[r][side] \in Snapshot /\ Within(seen[r][side].id, seen[r][side], n)
      BY <2>1, <2>7 DEF TypeOK, MoneyInv, SnapshotsWithin
    <3>2. seen[r][side].amount \in Int /\ Opening(seen[r][side].id[1]) \in Int
      BY <2>1, <3>1, OpeningIs DEF Snapshot, BalanceIds
    <3>3. seen[r][side].amount <= Opening(seen[r][side].id[1]) + k
      BY <2>4, <3>1, <3>2 DEF Within
    <3>4. QED
      BY <2>1, <3>3 DEF Within, Opening
  <2>8. \A r \in Requests : pc'[r] \in {"absent", "done"} /\ (pc'[r] = "absent" => pc[r] = "absent")
    BY <1>1 DEF Crash
  <2>9. QED
    BY <2>1, <2>2, <2>6, <2>7, <2>8, <2>10
       DEF MoneyInv, AdriftWithin, DatabaseWithin, SnapshotsWithin, Within, Exchange
<1>2. ASSUME NEW r \in Requests, Submit(r)
      PROVE  MoneyInv'
  <2>1. Creditors' = Creditors /\ Recorded' = Recorded
    BY <1>2 DEF Submit, Goto, Creditors, Recorded, LedgerInv, TypeOK, MoneyInv
  <2>2. UNCHANGED <<aside, durable, working, seen, record>>
    BY <1>2 DEF Submit
  <2>3. \A q \in Requests : pc'[q] = pc[q] \/ (pc'[q] = "wallet" /\ pc[q] = "absent")
    BY <1>2 DEF Submit, Goto, LedgerInv, TypeOK
  <2>4. QED
    BY <2>1, <2>2, <2>3 DEF MoneyInv, DatabaseWithin, AdriftWithin, SnapshotsWithin, RowsOf,
       Within, Opening, Exchange
<1>3. ASSUME NEW r \in Requests, Work(r)
      PROVE  MoneyInv'
  <2>. USE <1>0, <1>3
  <2>1. CASE Refuse(r)
    BY <2>1, MoneySame DEF Refuse, Fail, Databases
  <2>2. CASE FindWallet(r)
    BY <2>2, MoneySame DEF FindWallet, Fail, Databases
  <2>3. CASE OpenWallet(r)
    <3>. PICK n \in Nat : n = Cardinality(Creditors)
      BY CreditorsCount
    <3>. DEFINE db == [working EXCEPT !.wallet[r] = call[r].user]
    <3>1. db \in Database /\ db.balance = working.balance
      BY DEF LedgerInv, TypeOK, Database, Call, WalletIds
    <3>2. DatabaseWithin(db, n)
      BY <3>1 DEF MoneyInv, DatabaseWithin, RowsOf
    <3>3. QED
      BY <2>3, <3>1, <3>2, MoneyStored DEF OpenWallet
  <2>4. CASE ReadBalances(r)
    <3>1. \A side \in Sides : seen'[r][side] \in Reads(r, side)
      BY <2>4 DEF ReadBalances, Sides, LedgerInv, TypeOK
    <3>2. QED
      BY <2>4, <3>1, MoneyRead DEF ReadBalances
  <2>5. CASE MakeSource(r) \/ MakeTarget(r)
    BY <2>5, MoneyMakeBalance DEF MakeSource, MakeTarget, Sides
  <2>6. ASSUME NEW side \in Sides, NEW from, RereadBalance(r, side, from)
        PROVE  MoneyInv'
    <3>1. \A d \in Sides : seen'[r][d] \in Reads(r, d) \cup {seen[r][d]}
      BY <2>6 DEF RereadBalance, LedgerInv, TypeOK
    <3>2. QED
      BY <2>6, <3>1, MoneyRead DEF RereadBalance
  <2>7. CASE RereadSource(r) \/ RereadTarget(r)
    BY <2>6, <2>7 DEF RereadSource, RereadTarget, Sides
  <2>8. CASE CreateRecord(r)
    BY <2>8, MoneySame DEF CreateRecord, Fail, Databases
  <2>9. CASE ReadBalance(r)
    <3>1. \A d \in Sides : seen'[r][d] \in Reads(r, d) \cup {seen[r][d]}
      BY <2>9 DEF ReadBalance, LedgerInv, TypeOK, Sides
    <3>2. QED
      BY <2>9, <3>1, MoneyRead DEF ReadBalance
  <2>10. CASE Deposit(r)
    BY <2>10, MoneyDeposit
  <2>11. CASE MoveFunds(r)
    BY <2>11, MoneyMoveFunds
  <2>12. CASE CompleteRecord(r)
    BY <2>12, MoneySame DEF CompleteRecord, Fail, Databases
  <2>13. CASE Finish(r)
    BY <2>13, MoneySame DEF Finish, Fail, Databases
  <2>14. CASE DatabaseError(r)
    BY <2>14, MoneySame DEF DatabaseError, Fail, Databases
  <2>15. QED
    BY <2>1, <2>2, <2>3, <2>4, <2>5, <2>7, <2>8, <2>9, <2>10, <2>11, <2>12, <2>13, <2>14
       DEF Work, Step
<1>4. CASE UNCHANGED vars
  BY <1>4 DEF vars, MoneyInv, Recorded, Creditors, DatabaseWithin, AdriftWithin,
     SnapshotsWithin, RowsOf, Within, Opening, Exchange
<1>5. CASE Interfere
  BY <1>5, MoneyInterfere
<1>6. QED
  BY <1>1, <1>2, <1>3, <1>4, <1>5 DEF Next, CalmNext

(* Requests that overlap and overwrite each other's balances lose money;   *)
(* they never make any: a balance holds at most its first deposit and one  *)
(* hundredth for every recorded request.                                   *)
THEOREM MoneyIsNotMade == Spec => []NoMoneyFromNothing
<1>1. Init => MoneyInv
  <2>. SUFFICES ASSUME Init
                PROVE  MoneyInv
    OBVIOUS
  <2>1. Recorded = DOMAIN Past /\ IsFiniteSet(Recorded)
    BY LedgerAssumption DEF Init, Recorded, IsPast
  <2>2. Creditors = Recorded
    BY <2>1, LedgerAssumption DEF Init, Recorded, Creditors, IsPast
  <2>. PICK n \in Nat : n = Cardinality(Creditors)
    BY <2>1, <2>2, FS_CardinalityType
  <2>3. ASSUME NEW b \in RowsOf(OpeningDatabase)
        PROVE  Within(b, OpeningDatabase.balance[b], n)
    <3>1. /\ b[1] \in Requests /\ b[1] \in DOMAIN Past
          /\ OpeningDatabase.balance[b].amount = InitialDeposit
      BY <2>3 DEF RowsOf, OpeningDatabase, BalanceIds
    <3>2. call[b[1]] = InitializeCall(Past[b[1]])
      BY <3>1 DEF Init, IsPast
    <3>3. Opening(b[1]) = InitialDeposit
      BY <3>2 DEF Opening, InitializeCall
    <3>4. QED
      BY <3>1, <3>3 DEF Within, InitialDeposit
  <2>4. /\ DatabaseWithin(durable, n) /\ DatabaseWithin(working, n)
        /\ AdriftWithin(n) /\ SnapshotsWithin(n)
    BY <2>3 DEF Init, DatabaseWithin, AdriftWithin, SnapshotsWithin
  <2>5. \A r \in Requests : (pc[r] = "absent" /\ record[r] = "none") \/ pc[r] = "done"
    BY DEF Init, IsPast
  <2>6. QED
    BY <2>1, <2>4, <2>5 DEF MoneyInv
<1>2. LedgerInv /\ MoneyInv /\ [Next]_vars => MoneyInv'
  BY MoneyNext
<1>3. LedgerInv /\ MoneyInv => NoMoneyFromNothing
  <2>. SUFFICES ASSUME LedgerInv, MoneyInv, NEW db \in Databases, NEW b \in RowsOf(db)
                PROVE  db.balance[b].amount <= Opening(b[1]) + Cardinality(Recorded)
    BY DEF NoMoneyFromNothing
  <2>1. IsFiniteSet(Recorded) /\ Creditors \in SUBSET Recorded
    BY DEF MoneyInv, Creditors, Recorded
  <2>2. /\ Cardinality(Creditors) \in Nat /\ Cardinality(Recorded) \in Nat
        /\ Cardinality(Creditors) <= Cardinality(Recorded)
    BY <2>1, FS_Subset, FS_CardinalityType
  <2>3. TypeOK /\ db \in Database /\ DatabaseWithin(db, Cardinality(Creditors))
    BY DEF LedgerInv, TypeOK, MoneyInv, Databases
  <2>4. DatabaseWithin(db, Cardinality(Recorded))
    BY <2>2, <2>3, WithinMore
  <2>5. QED
    BY <2>4 DEF DatabaseWithin, Within
<1>4. QED
  BY <1>1, <1>2, <1>3, LedgerSound, PTL DEF Spec
=============================================================================
