------------------------ MODULE LedgerUniquenessProofs ------------------------
(***************************************************************************)
(* With one request at a time a user has one wallet and a wallet one       *)
(* balance per currency, for every set of users, currencies, requests and  *)
(* calls.                                                                  *)
(***************************************************************************)
EXTENDS LedgerProofs

USE DEF aside

AtWork(r) == pc[r] \notin {"absent", "done"}

-----------------------------------------------------------------------------
(* What writes do to unique keys.                                          *)

(* A handler that creates a balance its wallet does not have keeps the     *)
(* balances unique.                                                        *)
LEMMA WithRowUnique ==
  ASSUME LedgerInv, UniqueIn(working), NEW r \in Requests, NEW side \in Sides,
         NEW money \in Int, walletOf[r] # NoWallet, Missing(r, side)
  PROVE  UniqueIn(WithRow(r, side, money))
<1>. DEFINE new == WithRow(r, side, money)
            id == <<r, side>>
<1>1. TypeOK
  BY DEF LedgerInv
<1>2. new.wallet = working.wallet
  BY <1>1 DEF WithRow, TypeOK, Database
<1>3. \A b \in BalanceIds :
        new.balance[b] = IF b = id
                         THEN [wallet |-> walletOf[r], currency |-> CurrencyOf(r, side),
                               amount |-> money, availableAmount |-> money]
                         ELSE working.balance[b]
  BY <1>1, WithRowIs
<1>. HIDE DEF new, id
<1>4. ASSUME NEW a \in RowsOf(new), NEW b \in RowsOf(new),
             new.balance[a].wallet = new.balance[b].wallet,
             new.balance[a].currency = new.balance[b].currency
      PROVE  a = b
  <2>1. ASSUME NEW c \in RowsOf(new), c # id
        PROVE  /\ c \in RowsOf(working) /\ new.balance[c] = working.balance[c]
               /\ ~(/\ working.balance[c].wallet = walletOf[r]
                    /\ working.balance[c].currency = CurrencyOf(r, side))
    BY <1>3, <2>1 DEF RowsOf, Missing, BalancesOf
  <2>2. ASSUME id \in BalanceIds
        PROVE  /\ new.balance[id].wallet = walletOf[r]
               /\ new.balance[id].currency = CurrencyOf(r, side)
    BY <1>3, <2>2
  <2>3. a \in BalanceIds /\ b \in BalanceIds
    BY DEF RowsOf
  <2>4. CASE a # id /\ b # id
    BY <1>4, <2>1, <2>4 DEF UniqueIn
  <2>5. CASE a = id \/ b = id
    BY <1>4, <2>1, <2>2, <2>3, <2>5
  <2>6. QED
    BY <2>4, <2>5
<1>5. QED
  BY <1>2, <1>4 DEF UniqueIn, new

(* An update keeps the keys of its row.                                    *)
LEMMA UpdatedUnique ==
  ASSUME NEW db \in Database, UniqueIn(db), NEW id \in BalanceIds, NEW a \in Int, NEW v \in Int
  PROVE  UniqueIn(Updated(db, id, a, v))
<1>. DEFINE new == Updated(db, id, a, v)
<1>1. new.wallet = db.wallet
  BY DEF Updated, Database
<1>2. \A b \in BalanceIds :
        new.balance[b] = IF b = id /\ db.balance[id] # NoRow
                         THEN [wallet |-> db.balance[id].wallet,
                               currency |-> db.balance[id].currency,
                               amount |-> a, availableAmount |-> v]
                         ELSE db.balance[b]
  BY UpdatedIs
<1>. HIDE DEF new
<1>3. ASSUME NEW b \in RowsOf(new)
      PROVE  /\ b \in RowsOf(db)
             /\ new.balance[b].wallet = db.balance[b].wallet
             /\ new.balance[b].currency = db.balance[b].currency
  BY <1>2 DEF RowsOf
<1>4. QED
  BY <1>1, <1>3 DEF UniqueIn, new

(* A write keeps keys unique, in a transaction or out of one.              *)
LEMMA StoredUnique ==
  ASSUME UniqueIn(durable), UniqueIn(working), adrift = {}, NEW db, UniqueIn(db), Store(db)
  PROVE  UniqueIn(durable)' /\ UniqueIn(working)'
<1>1. UniqueIn(durable') /\ UniqueIn(working')
  BY DEF Store
<1>2. QED
  BY <1>1 DEF UniqueIn, RowsOf

(* A failure or a step that writes nothing keeps them.                     *)
LEMMA KeptUnique ==
  ASSUME UniqueIn(durable), UniqueIn(working),
         durable' \in {durable, working}, working' \in {durable, working}
  PROVE  UniqueIn(durable)' /\ UniqueIn(working)'
<1>1. UniqueIn(durable') /\ UniqueIn(working')
  OBVIOUS
<1>2. QED
  BY <1>1 DEF UniqueIn, RowsOf

(* While one request is at work, or starts with none at work, the others   *)
(* look nothing up.                                                        *)
LEMMA OthersRest ==
  ASSUME LedgerInv, OneAtATime, NEW r \in Requests, Quiescent \/ AtWork(r), NEW p, Goto(r, p)
  PROVE  OneAtATime' /\ \A q \in Requests \ {r} : StillMissing(q)'
<1>1. pc' = [pc EXCEPT ![r] = p] /\ pc \in [Requests -> PCs]
  BY DEF Goto, LedgerInv, TypeOK
<1>2. \A q \in Requests \ {r} : pc'[q] \in {"absent", "done"}
  BY <1>1 DEF OneAtATime, Quiescent, AtWork
<1>3. OneAtATime'
  BY <1>2 DEF OneAtATime
<1>4. QED
  BY <1>2, <1>3 DEF StillMissing

(* What is left to show of a step of r.                                    *)
LEMMA StepUnique ==
  ASSUME LedgerInv, UniqueInv, adrift' = {}, NEW r \in Requests, Quiescent \/ AtWork(r), NEW p, Goto(r, p),
         UniqueIn(durable)', UniqueIn(working)', StillMissing(r)'
  PROVE  UniqueInv'
<1>1. OneAtATime' /\ \A q \in Requests \ {r} : StillMissing(q)'
  BY OthersRest DEF UniqueInv
<1>2. QED
  BY <1>1 DEF UniqueInv

-----------------------------------------------------------------------------
(* The steps.                                                              *)

(* A request that ends has nothing to create.                              *)
LEMMA EndUnique ==
  ASSUME LedgerInv, UniqueInv, adrift' = {}, NEW r \in Requests, AtWork(r), Goto(r, "done"),
         UniqueIn(durable)', UniqueIn(working)'
  PROVE  UniqueInv'
<1>1. pc'[r] = "done"
  BY DEF Goto, LedgerInv, TypeOK
<1>2. StillMissing(r)'
  BY <1>1 DEF StillMissing
<1>3. QED
  BY <1>2, StepUnique

LEMMA FailUnique ==
  ASSUME LedgerInv, UniqueInv, adrift' = {}, NEW r \in Requests, AtWork(r), Fail(r)
  PROVE  UniqueInv'
<1>1. UniqueIn(durable)' /\ UniqueIn(working)'
  BY KeptUnique DEF Fail, UniqueInv
<1>2. QED
  BY <1>1, EndUnique DEF Fail

LEMMA SubmitUnique ==
  ASSUME LedgerInv, UniqueInv, adrift' = {}, NEW r \in Requests, SerialSubmit(r)
  PROVE  UniqueInv'
<1>1. UniqueIn(durable)' /\ UniqueIn(working)'
  BY KeptUnique DEF SerialSubmit, Submit, UniqueInv
<1>2. pc'[r] = "wallet"
  BY DEF SerialSubmit, Submit, Goto, LedgerInv, TypeOK
<1>3. StillMissing(r)'
  BY <1>2 DEF StillMissing
<1>4. QED
  BY <1>1, <1>3, StepUnique DEF SerialSubmit, Submit

(* What a look-up did not find is not there.                               *)
LEMMA NotFound ==
  ASSUME LedgerInv, NEW r \in Requests, NEW side \in Sides, walletOf[r] # NoWallet,
         NoRow \in Reads(r, side)
  PROVE  Missing(r, side)
<1>. SUFFICES ASSUME ~Missing(r, side) PROVE FALSE
  OBVIOUS
<1>1. PICK b \in BalancesOf(walletOf[r], CurrencyOf(r, side)) :
        NoRow = [id |-> b, amount |-> working.balance[b].amount,
                 availableAmount |-> working.balance[b].availableAmount]
  BY DEF Reads, Missing
<1>2. b \in BalanceIds /\ working.balance[b] \in Row
  BY DEF BalancesOf, LedgerInv, TypeOK, Database
<1>3. [id |-> b, amount |-> working.balance[b].amount,
       availableAmount |-> working.balance[b].availableAmount] \in Snapshot
  BY <1>2 DEF Snapshot, Row
<1>4. QED
  BY <1>1, <1>3, NullAssumption

(* Looking for the wallet: what is not found is opened next.               *)
LEMMA FindWalletUnique ==
  ASSUME LedgerInv, UniqueInv, adrift' = {}, NEW r \in Requests, FindWallet(r)
  PROVE  UniqueInv'
<1>1. CASE Fail(r)
  BY <1>1, FailUnique DEF FindWallet, AtWork
<1>2. ASSUME NEW p \in {"balances", "record", "openWallet"}, Goto(r, p),
             UNCHANGED <<call, durable, working>>,
             p = "openWallet" => WalletsOf(call[r].user) = {},
             p = "balances" => call[r].source # call[r].target
      PROVE  UniqueInv'
  <2>1. UniqueIn(durable)' /\ UniqueIn(working)'
    BY <1>2, KeptUnique DEF UniqueInv
  <2>2. pc'[r] = p
    BY <1>2 DEF Goto, LedgerInv, TypeOK
  <2>3. StillMissing(r)'
    BY <1>2, <2>2 DEF StillMissing, WalletsOf
  <2>4. QED
    BY <1>2, <2>1, <2>3, StepUnique DEF FindWallet, AtWork
<1>3. CASE Exchange(r) /\ ~Fail(r)
  BY <1>2, <1>3 DEF FindWallet, Exchange
<1>4. CASE ~Exchange(r) /\ ~Fail(r)
  BY <1>2, <1>4 DEF FindWallet
<1>5. QED
  BY <1>1, <1>3, <1>4

LEMMA OpenWalletUnique ==
  ASSUME LedgerInv, UniqueInv, adrift' = {}, NEW r \in Requests, OpenWallet(r)
  PROVE  UniqueInv'
<1>. DEFINE db == [working EXCEPT !.wallet[r] = call[r].user]
<1>1. /\ db.balance = working.balance
      /\ \A w \in WalletIds : db.wallet[w] = IF w = r THEN call[r].user ELSE working.wallet[w]
  BY DEF LedgerInv, TypeOK, Database, WalletIds
<1>2. \A w \in WalletIds : working.wallet[w] # call[r].user
  BY DEF OpenWallet, UniqueInv, StillMissing, WalletsOf
<1>3. UniqueIn(db)
  BY <1>1, <1>2 DEF UniqueIn, UniqueInv, RowsOf
<1>4. UniqueIn(durable)' /\ UniqueIn(working)'
  BY <1>3, StoredUnique DEF OpenWallet, UniqueInv
<1>5. pc'[r] = "record"
  BY DEF OpenWallet, Goto, LedgerInv, TypeOK
<1>6. StillMissing(r)'
  BY <1>5 DEF StillMissing
<1>7. QED
  BY <1>4, <1>6, StepUnique DEF OpenWallet, AtWork

(* Reading writes nothing; what it does not find is noted as missing.      *)
LEMMA ReadStepUnique ==
  ASSUME LedgerInv, UniqueInv, adrift' = {}, NEW r \in Requests, AtWork(r), NEW p, Goto(r, p),
         UNCHANGED <<call, durable, working, walletOf>>, StillMissing(r)'
  PROVE  UniqueInv'
<1>1. UniqueIn(durable)' /\ UniqueIn(working)'
  BY KeptUnique DEF UniqueInv
<1>2. QED
  BY <1>1, StepUnique

(* Missing speaks of what reading leaves alone.                            *)
LEMMA MissingKept ==
  ASSUME UNCHANGED <<call, working, walletOf>>, NEW r \in Requests, NEW side \in Sides
  PROVE  Missing(r, side)' <=> Missing(r, side)
BY DEF Missing, BalancesOf, CurrencyOf

LEMMA ReadBalancesUnique ==
  ASSUME LedgerInv, UniqueInv, adrift' = {}, NEW r \in Requests, ReadBalances(r)
  PROVE  UniqueInv'
<1>1. PICK s \in Reads(r, "source"), t \in Reads(r, "target") :
        /\ seen' = [seen EXCEPT ![r] = [side \in Sides |-> IF side = "source" THEN s ELSE t]]
        /\ Goto(r, IF s = NoRow THEN "makeSource"
                   ELSE IF t = NoRow THEN "makeTarget" ELSE "record")
  BY DEF ReadBalances
<1>. DEFINE p == IF s = NoRow THEN "makeSource"
                 ELSE IF t = NoRow THEN "makeTarget" ELSE "record"
<1>2. pc[r] = "balances" /\ walletOf[r] # NoWallet /\ call[r].source # call[r].target
  BY DEF ReadBalances, UniqueInv, StillMissing, LedgerInv, PositionSound, PCs
<1>3. UNCHANGED <<call, durable, working, walletOf>>
  BY DEF ReadBalances
<1>4. pc'[r] = p /\ seen'[r]["target"] = t
  BY <1>1 DEF Goto, LedgerInv, TypeOK, Sides
<1>5. s = NoRow => Missing(r, "source")
  BY <1>1, <1>2, NotFound DEF Sides
<1>6. t = NoRow => Missing(r, "target")
  BY <1>1, <1>2, NotFound DEF Sides
<1>7. /\ Missing(r, "source")' <=> Missing(r, "source")
      /\ Missing(r, "target")' <=> Missing(r, "target")
  BY <1>3, MissingKept DEF Sides
<1>8. StillMissing(r)'
  BY <1>2, <1>3, <1>4, <1>5, <1>6, <1>7 DEF StillMissing
<1>9. QED
  BY <1>1, <1>2, <1>3, <1>8, ReadStepUnique DEF AtWork

LEMMA RereadBalanceUnique ==
  ASSUME LedgerInv, UniqueInv, adrift' = {}, NEW r \in Requests, NEW side \in Sides,
         RereadBalance(r, side, IF side = "source" THEN "rereadSource" ELSE "rereadTarget")
  PROVE  UniqueInv'
<1>. DEFINE p == IF side = "source" /\ seen[r]["target"] = NoRow THEN "makeTarget" ELSE "record"
<1>1. /\ pc[r] = IF side = "source" THEN "rereadSource" ELSE "rereadTarget"
      /\ Goto(r, p)
      /\ UNCHANGED <<call, durable, working, walletOf>>
  BY DEF RereadBalance
<1>2. pc'[r] = p
  BY <1>1 DEF Goto, LedgerInv, TypeOK
<1>3. side = "source" /\ seen[r]["target"] = NoRow => Missing(r, "target")
  BY <1>1 DEF UniqueInv, StillMissing
<1>4. Missing(r, "target")' <=> Missing(r, "target")
  BY <1>1, MissingKept DEF Sides
<1>5. StillMissing(r)'
  BY <1>2, <1>3, <1>4 DEF StillMissing
<1>6. QED
  BY <1>1, <1>5, ReadStepUnique DEF AtWork

LEMMA CreateRecordUnique ==
  ASSUME LedgerInv, UniqueInv, adrift' = {}, NEW r \in Requests, CreateRecord(r)
  PROVE  UniqueInv'
<1>1. CASE Fail(r)
  BY <1>1, FailUnique DEF CreateRecord, AtWork
<1>2. CASE ~Fail(r)
  <2>. DEFINE p == IF Exchange(r) THEN "write" ELSE "balance"
  <2>1. Goto(r, p) /\ pc[r] = "record" /\ UNCHANGED <<call, durable, working, walletOf>>
    BY <1>2 DEF CreateRecord
  <2>2. pc'[r] = p
    BY <2>1 DEF Goto, LedgerInv, TypeOK
  <2>3. StillMissing(r)'
    BY <2>1, <2>2 DEF StillMissing, Exchange
  <2>4. QED
    BY <2>1, <2>3, ReadStepUnique DEF AtWork
<1>3. QED
  BY <1>1, <1>2

LEMMA ReadBalanceUnique ==
  ASSUME LedgerInv, UniqueInv, adrift' = {}, NEW r \in Requests, ReadBalance(r)
  PROVE  UniqueInv'
<1>1. PICK t \in Reads(r, "target") :
        /\ seen' = [seen EXCEPT ![r]["target"] = t]
        /\ Goto(r, IF call[r].op = "initialize" /\ t # NoRow THEN "complete" ELSE "write")
  BY DEF ReadBalance
<1>. DEFINE p == IF call[r].op = "initialize" /\ t # NoRow THEN "complete" ELSE "write"
<1>2. pc[r] = "balance" /\ walletOf[r] # NoWallet
  BY DEF ReadBalance, LedgerInv, PositionSound, PCs
<1>3. UNCHANGED <<call, durable, working, walletOf>>
  BY DEF ReadBalance
<1>4. pc'[r] = p /\ seen'[r]["target"] = t
  BY <1>1 DEF Goto, LedgerInv, TypeOK, Sides
<1>5. t = NoRow => Missing(r, "target")
  BY <1>1, <1>2, NotFound DEF Sides
<1>6. Missing(r, "target")' <=> Missing(r, "target")
  BY <1>3, MissingKept DEF Sides
<1>7. StillMissing(r)'
  BY <1>4, <1>5, <1>6 DEF StillMissing
<1>8. QED
  BY <1>1, <1>2, <1>3, <1>7, ReadStepUnique DEF AtWork

(* Creating a missing balance does not create another one: the two         *)
(* currencies of an exchange differ.                                       *)
LEMMA MakeBalanceUnique ==
  ASSUME LedgerInv, UniqueInv, adrift' = {}, NEW r \in Requests, MakeSource(r) \/ MakeTarget(r)
  PROVE  UniqueInv'
<1>1. CASE Fail(r)
  BY <1>1, FailUnique DEF MakeSource, MakeTarget, MakeBalance, AtWork
<1>2. CASE ~Fail(r)
  <2>1. PICK side \in Sides :
          /\ pc[r] = IF side = "source" THEN "makeSource" ELSE "makeTarget"
          /\ Store(WithRow(r, side, 0))
          /\ Goto(r, IF side = "source" THEN "rereadSource" ELSE "rereadTarget")
          /\ UNCHANGED <<call, walletOf, seen>>
    BY <1>2 DEF MakeSource, MakeTarget, MakeBalance, Sides
  <2>2. walletOf[r] # NoWallet
    BY <2>1 DEF LedgerInv, PositionSound, PCs
  <2>3. Missing(r, side)
    BY <2>1 DEF UniqueInv, StillMissing, Sides
  <2>4. UniqueIn(WithRow(r, side, 0))
    BY <2>2, <2>3, WithRowUnique DEF UniqueInv
  <2>5. UniqueIn(durable)' /\ UniqueIn(working)'
    BY <2>1, <2>4, StoredUnique DEF UniqueInv
  <2>6. pc'[r] = IF side = "source" THEN "rereadSource" ELSE "rereadTarget"
    BY <2>1 DEF Goto, LedgerInv, TypeOK
  <2>7. ASSUME side = "source", seen[r]["target"] = NoRow
        PROVE  Missing(r, "target")'
    <3>1. Missing(r, "target") /\ call[r].source # call[r].target
      BY <2>1, <2>7 DEF UniqueInv, StillMissing
    <3>2. working' = WithRow(r, side, 0)
      BY <2>1 DEF Store, UniqueInv
    <3>3. \A b \in BalanceIds :
            WithRow(r, side, 0).balance[b] =
              IF b = <<r, side>> THEN [wallet |-> walletOf[r], currency |-> call[r].source,
                                       amount |-> 0, availableAmount |-> 0]
                                 ELSE working.balance[b]
      <4>1. \A b \in BalanceIds :
              WithRow(r, side, 0).balance[b] =
                IF b = <<r, side>>
                THEN [wallet |-> walletOf[r], currency |-> CurrencyOf(r, side),
                      amount |-> 0, availableAmount |-> 0]
                ELSE working.balance[b]
        BY <2>2, WithRowIs DEF LedgerInv
      <4>2. QED
        BY <2>7, <4>1 DEF CurrencyOf
    <3>4. QED
      BY <2>1, <3>1, <3>2, <3>3 DEF Missing, BalancesOf, CurrencyOf
  <2>8. StillMissing(r)'
    <3>1. side = "source" => call'[r].source # call'[r].target
      BY <2>1 DEF UniqueInv, StillMissing
    <3>2. QED
      BY <2>1, <2>6, <2>7, <3>1 DEF StillMissing, Sides
  <2>9. QED
    BY <2>1, <2>5, <2>8, StepUnique DEF AtWork, Sides
<1>3. QED
  BY <1>1, <1>2

(* A deposit makes the balance it did not find, or updates the one it did. *)
LEMMA DepositUnique ==
  ASSUME LedgerInv, UniqueInv, adrift' = {}, NEW r \in Requests, Deposit(r)
  PROVE  UniqueInv'
<1>. DEFINE t == seen[r]["target"]
            x == call[r].amount
<1>1. CASE Fail(r)
  BY <1>1, FailUnique DEF Deposit, AtWork
<1>2. CASE ~Fail(r)
  <2>1. /\ pc[r] = "write" /\ ~Exchange(r)
        /\ Store(IF t = NoRow THEN WithRow(r, "target", x) ELSE Credited(working, t, x))
        /\ Goto(r, "complete")
    BY <1>2 DEF Deposit
  <2>2. x \in Int /\ walletOf[r] # NoWallet
    BY <2>1 DEF LedgerInv, TypeOK, Call, PositionSound, PCs
  <2>3. ASSUME t = NoRow PROVE UniqueIn(WithRow(r, "target", x))
    <3>1. Missing(r, "target")
      BY <2>1, <2>3 DEF UniqueInv, StillMissing
    <3>2. QED
      BY <2>2, <2>3, <3>1, WithRowUnique DEF UniqueInv, Sides
  <2>4. ASSUME t # NoRow PROVE UniqueIn(Credited(working, t, x))
    <3>1. t \in Snapshot
      BY <2>4 DEF LedgerInv, TypeOK, Sides
    <3>2. t.id \in BalanceIds /\ t.amount \in Int /\ t.availableAmount \in Int
      BY <3>1 DEF Snapshot
    <3>3. Plus(t.amount, x) \in Int /\ Plus(t.availableAmount, x) \in Int
      BY <3>2, PlusSound
    <3>4. working \in Database /\ UniqueIn(working)
      BY DEF LedgerInv, TypeOK, UniqueInv
    <3>5. QED
      BY <3>2, <3>3, <3>4, UpdatedUnique DEF Credited
  <2>5. UniqueIn(durable)' /\ UniqueIn(working)'
    BY <2>1, <2>3, <2>4, StoredUnique DEF UniqueInv
  <2>6. pc'[r] = "complete"
    BY <2>1 DEF Goto, LedgerInv, TypeOK
  <2>7. StillMissing(r)'
    BY <2>6 DEF StillMissing
  <2>8. QED
    BY <2>1, <2>5, <2>7, StepUnique DEF AtWork
<1>3. QED
  BY <1>1, <1>2

(* Both updates of an exchange are of rows that are there.                 *)
LEMMA MoveFundsUnique ==
  ASSUME LedgerInv, UniqueInv, adrift' = {}, NEW r \in Requests, MoveFunds(r)
  PROVE  UniqueInv'
<1>. DEFINE x == call[r].amount
            s == seen[r]["source"]
            t == seen[r]["target"]
            debited == Debited(working, s, x)
            moved == Credited(debited, t, x)
<1>1. pc[r] = "write" /\ Exchange(r) /\ s # NoRow /\ t # NoRow /\ x \in Int
  BY DEF MoveFunds, LedgerInv, PositionSound, Sufficient, TypeOK, Call
<1>2. s \in Snapshot /\ t \in Snapshot
  BY <1>1 DEF LedgerInv, TypeOK, Sides
<1>3. /\ s.id \in BalanceIds /\ s.amount \in Int /\ s.availableAmount \in Int
      /\ t.id \in BalanceIds /\ t.amount \in Int /\ t.availableAmount \in Int
  BY <1>2 DEF Snapshot
<1>4. working \in Database /\ UniqueIn(working)
  BY DEF LedgerInv, TypeOK, UniqueInv
<1>5. debited \in Database /\ UniqueIn(debited)
  <2>1. s.amount - x \in Int /\ s.availableAmount - x \in Int
    BY <1>1, <1>3
  <2>2. QED
    BY <1>3, <1>4, <2>1, UpdatedIs, UpdatedUnique DEF Debited, Minus
<1>6. UniqueIn(moved)
  <2>1. Plus(t.amount, x) \in Int /\ Plus(t.availableAmount, x) \in Int
    BY <1>3, PlusSound
  <2>2. QED
    BY <1>3, <1>5, <2>1, UpdatedUnique DEF Credited
<1>7. CASE Fail(r)
  BY <1>1, <1>7, FailUnique DEF AtWork
<1>8. CASE Store(moved) /\ Goto(r, "complete")
  <2>1. UniqueIn(durable)' /\ UniqueIn(working)'
    BY <1>6, <1>8, StoredUnique DEF UniqueInv
  <2>2. pc'[r] = "complete"
    BY <1>8 DEF Goto, LedgerInv, TypeOK
  <2>3. StillMissing(r)'
    BY <2>2 DEF StillMissing
  <2>4. QED
    BY <1>1, <1>8, <2>1, <2>3, StepUnique DEF AtWork
<1>9. CASE Store(debited) /\ Goto(r, "done")
  <2>1. UniqueIn(durable)' /\ UniqueIn(working)'
    BY <1>5, <1>9, StoredUnique DEF UniqueInv
  <2>2. QED
    BY <1>1, <1>9, <2>1, EndUnique DEF AtWork
<1>10. QED
  BY <1>7, <1>8, <1>9 DEF MoveFunds

LEMMA CompleteRecordUnique ==
  ASSUME LedgerInv, UniqueInv, adrift' = {}, NEW r \in Requests, CompleteRecord(r)
  PROVE  UniqueInv'
<1>1. CASE Fail(r)
  BY <1>1, FailUnique DEF CompleteRecord, AtWork
<1>2. CASE ~Fail(r)
  <2>1. Goto(r, "finish") /\ pc[r] = "complete" /\ UNCHANGED <<call, durable, working, walletOf>>
    BY <1>2 DEF CompleteRecord
  <2>2. pc'[r] = "finish"
    BY <2>1 DEF Goto, LedgerInv, TypeOK
  <2>3. StillMissing(r)'
    BY <2>2 DEF StillMissing
  <2>4. QED
    BY <2>1, <2>3, ReadStepUnique DEF AtWork
<1>3. QED
  BY <1>1, <1>2

LEMMA FinishUnique ==
  ASSUME LedgerInv, UniqueInv, adrift' = {}, NEW r \in Requests, Finish(r)
  PROVE  UniqueInv'
<1>1. CASE Fail(r)
  BY <1>1, FailUnique DEF Finish, AtWork
<1>2. CASE ~Fail(r)
  <2>1. /\ Goto(r, "done") /\ pc[r] = "finish"
        /\ durable' \in {durable, working} /\ working' = working
    BY <1>2 DEF Finish
  <2>2. UniqueIn(durable)' /\ UniqueIn(working)'
    BY <2>1, KeptUnique DEF UniqueInv
  <2>3. QED
    BY <2>1, <2>2, EndUnique DEF AtWork
<1>3. QED
  BY <1>1, <1>2

-----------------------------------------------------------------------------
(* The specification.                                                      *)

LEMMA OpeningUnique ==
  ASSUME Init
  PROVE  UniqueInv
<1>1. \A r \in Requests : pc[r] \in {"absent", "done"}
  BY DEF Init
<1>2. UniqueIn(OpeningDatabase)
  <2>1. \A w \in WalletIds :
          OpeningDatabase.wallet[w] = IF w \in DOMAIN Past THEN Past[w] ELSE NoUser
    BY DEF OpeningDatabase
  <2>2. ASSUME NEW b \in RowsOf(OpeningDatabase)
        PROVE  b = <<b[1], "target">> /\ OpeningDatabase.balance[b].wallet = b[1]
    BY DEF OpeningDatabase, RowsOf, BalanceIds
  <2>3. QED
    BY <2>1, <2>2, PastAssumption, LedgerAssumption DEF UniqueIn
<1>3. QED
  BY <1>1, <1>2 DEF Init, UniqueInv, OneAtATime, StillMissing

(* Nothing goes adrift while nobody comes between two awaits.              *)
LEMMA NothingAdrift ==
  ASSUME adrift = {}, [SerialNext]_vars
  PROVE  adrift' = {}
<1>1. ASSUME NEW r \in Requests, Step(r) PROVE adrift' = {}
  <2>1. CASE Refuse(r) \/ FindWallet(r) \/ OpenWallet(r) \/ ReadBalances(r)
    BY <2>1 DEF Refuse, FindWallet, OpenWallet, ReadBalances, Fail, Store
  <2>2. CASE MakeSource(r) \/ MakeTarget(r) \/ RereadSource(r) \/ RereadTarget(r)
    BY <2>2 DEF MakeSource, MakeTarget, RereadSource, RereadTarget, MakeBalance,
                RereadBalance, Fail, Store
  <2>3. CASE CreateRecord(r) \/ ReadBalance(r) \/ Deposit(r)
    BY <2>3 DEF CreateRecord, ReadBalance, Deposit, Fail, Store
  <2>4. CASE MoveFunds(r) \/ CompleteRecord(r) \/ Finish(r)
    BY <2>4 DEF MoveFunds, CompleteRecord, Finish, Fail, Store
  <2>5. QED
    BY <1>1, <2>1, <2>2, <2>3, <2>4 DEF Step
<1>2. QED
  BY <1>1 DEF SerialNext, Work, SerialSubmit, Submit, DatabaseError, Fail, Crash, vars

LEMMA SerialStepUnique ==
  ASSUME LedgerInv, UniqueInv, [SerialNext]_vars
  PROVE  UniqueInv'
<1>. adrift' = {}
  BY NothingAdrift DEF UniqueInv
<1>1. CASE UNCHANGED vars
  <2>1. UniqueIn(durable)' /\ UniqueIn(working)'
    BY <1>1, KeptUnique DEF UniqueInv, vars
  <2>2. QED
    BY <1>1, <2>1 DEF vars, UniqueInv, OneAtATime, StillMissing, Missing, BalancesOf,
                      WalletsOf, CurrencyOf, Exchange
<1>2. ASSUME NEW r \in Requests, SerialSubmit(r) PROVE UniqueInv'
  BY <1>2, SubmitUnique
<1>3. ASSUME NEW r \in Requests, Step(r) PROVE UniqueInv'
  <2>1. CASE Refuse(r)
    BY <2>1, FailUnique DEF Refuse, AtWork
  <2>2. CASE FindWallet(r) \/ OpenWallet(r)
    BY <2>2, FindWalletUnique, OpenWalletUnique
  <2>3. CASE ReadBalances(r) \/ RereadSource(r) \/ RereadTarget(r) \/ ReadBalance(r)
    BY <2>3, ReadBalancesUnique, ReadBalanceUnique, RereadBalanceUnique
       DEF RereadSource, RereadTarget, Sides
  <2>4. CASE MakeSource(r) \/ MakeTarget(r)
    BY <2>4, MakeBalanceUnique
  <2>5. CASE CreateRecord(r) \/ CompleteRecord(r) \/ Finish(r)
    BY <2>5, CreateRecordUnique, CompleteRecordUnique, FinishUnique
  <2>6. CASE Deposit(r) \/ MoveFunds(r)
    BY <2>6, DepositUnique, MoveFundsUnique
  <2>7. QED
    BY <1>3, <2>1, <2>2, <2>3, <2>4, <2>5, <2>6 DEF Step
<1>4. ASSUME NEW r \in Requests, DatabaseError(r) PROVE UniqueInv'
  BY <1>4, FailUnique DEF DatabaseError, AtWork
<1>5. CASE Crash
  <2>1. UniqueIn(durable)' /\ UniqueIn(working)'
    BY <1>5, KeptUnique DEF UniqueInv, Crash
  <2>2. \A r \in Requests : pc'[r] \in {"absent", "done"}
    BY <1>5 DEF Crash
  <2>3. QED
    BY <2>1, <2>2 DEF UniqueInv, OneAtATime, StillMissing
<1>6. QED
  BY <1>1, <1>2, <1>3, <1>4, <1>5 DEF SerialNext, Work

(* What a look-up did not find is still absent when it is created, and     *)
(* keys are unique in what is committed and in the open transaction.       *)
THEOREM KeysStayUnique == SerialSpec => []UniqueInv
<1>1. [SerialNext]_vars => [Next]_vars
  BY DEF SerialNext, Next, CalmNext, SerialSubmit
<1>2. Init => LedgerInv /\ UniqueInv
  BY OpeningSound, OpeningUnique
<1>3. LedgerInv /\ UniqueInv /\ [SerialNext]_vars => LedgerInv' /\ UniqueInv'
  BY <1>1, NextSound, SerialStepUnique
<1>4. QED
  BY <1>2, <1>3, PTL DEF SerialSpec

(* One request at a time: a user has one wallet, although no index says so *)
(* (initializeUserWallet.command.ts:54).                                   *)
THEOREM WalletsStayUnique == SerialSpec => []OneWalletPerUser
<1>1. UniqueInv => OneWalletPerUser
  BY DEF UniqueInv, UniqueIn, OneWalletPerUser
<1>2. QED
  BY <1>1, KeysStayUnique, PTL

(* One request at a time: a wallet has one balance per currency, although  *)
(* each of three handlers creates those it does not find.                  *)
THEOREM BalancesStayUnique == SerialSpec => []OneBalancePerCurrency
<1>1. UniqueInv => OneBalancePerCurrency
  BY DEF UniqueInv, UniqueIn, OneBalancePerCurrency
<1>2. QED
  BY <1>1, KeysStayUnique, PTL
=============================================================================
