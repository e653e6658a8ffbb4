--------------------------- MODULE LedgerBooksProofs ---------------------------
(***************************************************************************)
(* With one request at a time, and whatever fails, the committed balances  *)
(* are what the committed requests add up to, and the ledger implements    *)
(* AccountBook, for every set of users, currencies, requests and calls.    *)
(***************************************************************************)
EXTENDS LedgerUniquenessProofs, LedgerAudit

USE DEF aside

-----------------------------------------------------------------------------
(* Sums over finite sets.  SumFunctionOnSet is defined by recursion, and   *)
(* what is proved of it goes by a smallest set for which it would fail.    *)

(* A set of subsets of a finite set has a minimal member.                  *)
LEMMA MinimalSubset ==
  ASSUME NEW S, IsFiniteSet(S), NEW B \in SUBSET (SUBSET S), B # {}
  PROVE  \E T \in B : \A U \in B : U \subseteq T => U = T
<1>1. IsWellFoundedOn(StrictSubsetOrdering(S), FiniteSubsetsOf(S))
  BY FS_StrictSubsetOrderingWellFounded
<1>2. B \subseteq FiniteSubsetsOf(S)
  BY FS_FiniteSubsetsOfFinite
<1>3. PICK T \in B : \A U \in B : <<U, T>> \notin StrictSubsetOrdering(S)
  BY <1>1, <1>2, WFMin
<1>4. ASSUME NEW U \in B, U \subseteq T, U # T PROVE FALSE
  BY <1>3, <1>4 DEF StrictSubsetOrdering
<1> QED  BY <1>4

(* The recursive equation, over the subsets of a set: an element that the  *)
(* definition chooses, and the sum of the rest.                            *)
Chosen(s) == CHOOSE x \in s : TRUE

Partial(f, g, s) == IF s = {} THEN 0 ELSE f[Chosen(s)] + g[s \ {Chosen(s)}]

IsSum(f, g, S) == g = [s \in SUBSET S |-> Partial(f, g, s)]

(* SumFunctionOnSet is the value, at the whole set, of a function on its   *)
(* subsets that is chosen to satisfy the recursive equation.               *)
LEMMA SumIs ==
  ASSUME NEW f, NEW S
  PROVE  SumFunctionOnSet(f, S) = (CHOOSE g : IsSum(f, g, S))[S]
BY DEF SumFunctionOnSet, FoldFunctionOnSet, MapThenFoldSet, IsSum, Partial, Chosen

(* The recursive definition of a sum has a solution.                       *)
LEMMA SumExists ==
  ASSUME NEW f, NEW S, IsFiniteSet(S)
  PROVE  \E g : IsSum(f, g, S)
<1>. DEFINE Upto(n) == \E g : \A s \in SUBSET S :
                          Cardinality(s) <= n => g[s] = Partial(f, g, s)
            Bad == {n \in Nat : ~ Upto(n)}
<1>1. \A s \in SUBSET S : IsFiniteSet(s) /\ Cardinality(s) \in Nat
  BY FS_Subset, FS_CardinalityType
<1>2. Upto(0)
  <2>. DEFINE g == [s \in SUBSET S |-> 0]
  <2>1. ASSUME NEW s \in SUBSET S, Cardinality(s) <= 0
        PROVE  g[s] = Partial(f, g, s)
    <3>1. s = {}
      BY <1>1, <2>1, FS_EmptySet
    <3> QED  BY <3>1 DEF Partial
  <2> QED  BY <2>1
<1>3. ASSUME NEW n \in Nat, Upto(n)  PROVE Upto(n + 1)
  <2>1. PICK g : \A s \in SUBSET S : Cardinality(s) <= n => g[s] = Partial(f, g, s)
    BY <1>3
  <2>. DEFINE h == [s \in SUBSET S |-> Partial(f, g, s)]
  <2>2. ASSUME NEW s \in SUBSET S, Cardinality(s) <= n + 1
        PROVE  h[s] = Partial(f, h, s)
    <3>1. CASE s = {}
      BY <3>1 DEF Partial
    <3>2. CASE s # {}
      <4>. DEFINE u == s \ {Chosen(s)}
      <4>1. Chosen(s) \in s
        BY <3>2 DEF Chosen
      <4>2. u \in SUBSET S /\ Cardinality(u) <= n
        BY <1>1, <2>2, <4>1, FS_RemoveElement
      <4>3. h[u] = g[u]
        BY <2>1, <4>2
      <4>4. h[s] = f[Chosen(s)] + g[u]
        BY <3>2 DEF Partial
      <4>5. Partial(f, h, s) = f[Chosen(s)] + h[u]
        BY <3>2 DEF Partial
      <4> QED  BY <4>3, <4>4, <4>5
    <3> QED  BY <3>1, <3>2
  <2> HIDE DEF h
  <2> QED  BY <2>2
<1> HIDE DEF Upto
<1>4. Bad = {}
  <2> SUFFICES ASSUME Bad # {}  PROVE FALSE
    OBVIOUS
  <2>1. PICK m \in Bad : \A k \in Bad : <<k, m>> \notin OpToRel(<, Nat)
    <3>1. Bad \subseteq Nat
      OBVIOUS
    <3> HIDE DEF Bad
    <3> QED  BY <3>1, WFMin, NatLessThanWellFounded
  <2>2. \A k \in Bad : ~(k < m)
    BY <2>1 DEF OpToRel
  <2>3. m \in Nat \ {0}
    BY <1>2
  <2>4. m - 1 \in Nat /\ m - 1 < m /\ (m - 1) + 1 = m
    BY <2>3
  <2>5. Upto(m - 1)
    BY <2>2, <2>4
  <2> QED  BY <1>3, <2>4, <2>5
<1>5. Upto(Cardinality(S))
  BY <1>1, <1>4
<1>6. PICK g : \A s \in SUBSET S : g[s] = Partial(f, g, s)
  BY <1>1, <1>5, FS_Subset DEF Upto
<1>. DEFINE h == [s \in SUBSET S |-> g[s]]
<1>7. \A s \in SUBSET S : Partial(f, h, s) = Partial(f, g, s)
  <2>1. \A s \in SUBSET S : h[s \ {Chosen(s)}] = g[s \ {Chosen(s)}]
    OBVIOUS
  <2> QED  BY <2>1 DEF Partial
<1>8. h = [s \in SUBSET S |-> Partial(f, h, s)]
  BY <1>6, <1>7
<1> QED  BY <1>8 DEF IsSum

(* Solutions agree where both are defined.                                 *)
LEMMA SumsAgree ==
  ASSUME NEW f, NEW S, IsFiniteSet(S), NEW T \in SUBSET S, NEW g, NEW h,
         IsSum(f, g, S), IsSum(f, h, T)
  PROVE  \A s \in SUBSET T : g[s] = h[s]
<1>. DEFINE Bad == {s \in SUBSET T : g[s] # h[s]}
<1> SUFFICES ASSUME Bad # {}  PROVE FALSE
  OBVIOUS
<1>1. IsFiniteSet(T)
  BY FS_Subset
<1>2. PICK s \in Bad : \A u \in Bad : u \subseteq s => u = s
  <2>1. Bad \in SUBSET (SUBSET T)
    OBVIOUS
  <2> HIDE DEF Bad
  <2> QED  BY <1>1, <2>1, MinimalSubset
<1>3. g[s] = Partial(f, g, s) /\ h[s] = Partial(f, h, s)
  BY DEF IsSum
<1>4. s # {}
  BY <1>3 DEF Partial
<1>5. Chosen(s) \in s
  BY <1>4 DEF Chosen
<1>6. g[s \ {Chosen(s)}] = h[s \ {Chosen(s)}]
  BY <1>2, <1>5
<1> QED  BY <1>3, <1>6 DEF Partial

(* The sum over the empty set, and the defining equation.                  *)
LEMMA SumUnfolds ==
  ASSUME NEW f, NEW S, IsFiniteSet(S)
  PROVE  /\ S = {} => SumFunctionOnSet(f, S) = 0
         /\ S # {} => SumFunctionOnSet(f, S) =
                        f[Chosen(S)] + SumFunctionOnSet(f, S \ {Chosen(S)})
<1>. DEFINE g == CHOOSE g : IsSum(f, g, S)
            T == S \ {Chosen(S)}
            h == CHOOSE h : IsSum(f, h, T)
<1>1. IsFiniteSet(T) /\ T \in SUBSET S
  BY FS_RemoveElement
<1>2. IsSum(f, g, S) /\ IsSum(f, h, T)
  BY <1>1, SumExists
<1>3. SumFunctionOnSet(f, S) = g[S] /\ SumFunctionOnSet(f, T) = h[T]
  BY SumIs
<1>. HIDE DEF g, h, T
<1>4. g[S] = Partial(f, g, S)
  BY <1>2 DEF IsSum
<1>5. g[T] = h[T]
  BY <1>1, <1>2, SumsAgree
<1> QED  BY <1>3, <1>4, <1>5 DEF Partial, T

(* A sum of integers is one.                                               *)
LEMMA SumTyped ==
  ASSUME NEW D, NEW f \in [D -> Int], NEW S \in SUBSET D, IsFiniteSet(S)
  PROVE  SumFunctionOnSet(f, S) \in Int
<1>. DEFINE Bad == {s \in SUBSET S : SumFunctionOnSet(f, s) \notin Int}
<1> SUFFICES ASSUME Bad # {}  PROVE FALSE
  OBVIOUS
<1>1. PICK s \in Bad : \A u \in Bad : u \subseteq s => u = s
  <2>1. Bad \in SUBSET (SUBSET S)
    OBVIOUS
  <2> HIDE DEF Bad
  <2> QED  BY <2>1, MinimalSubset
<1>2. IsFiniteSet(s)
  BY FS_Subset
<1>3. s # {}
  <2>1. s = {} => SumFunctionOnSet(f, s) = 0
    BY <1>2, SumUnfolds
  <2>2. SumFunctionOnSet(f, s) \notin Int
    OBVIOUS
  <2> QED  BY <2>1, <2>2
<1>4. Chosen(s) \in s
  BY <1>3 DEF Chosen
<1>5. SumFunctionOnSet(f, s \ {Chosen(s)}) \in Int
  BY <1>1, <1>4
<1>6. f[Chosen(s)] \in Int
  BY <1>4
<1> QED  BY <1>2, <1>3, <1>5, <1>6, SumUnfolds

(* Any element may be the one taken out.                                   *)
LEMMA SumWithout ==
  ASSUME NEW D, NEW f \in [D -> Int], NEW S \in SUBSET D, IsFiniteSet(S), NEW x \in S
  PROVE  SumFunctionOnSet(f, S) = f[x] + SumFunctionOnSet(f, S \ {x})
<1>. DEFINE Bad == {s \in SUBSET S : \E y \in s : SumFunctionOnSet(f, s) #
                                        f[y] + SumFunctionOnSet(f, s \ {y})}
<1> SUFFICES ASSUME Bad # {}  PROVE FALSE
  OBVIOUS
<1>1. PICK s \in Bad : \A u \in Bad : u \subseteq s => u = s
  <2>1. Bad \in SUBSET (SUBSET S)
    OBVIOUS
  <2> HIDE DEF Bad
  <2> QED  BY <2>1, MinimalSubset
<1>2. PICK y \in s : SumFunctionOnSet(f, s) # f[y] + SumFunctionOnSet(f, s \ {y})
  OBVIOUS
<1>. DEFINE c == Chosen(s)
            rest == (s \ {y}) \ {c}
<1>3. c \in s
  BY <1>2 DEF Chosen
<1>. HIDE DEF c
<1>4. \A u \in SUBSET s : IsFiniteSet(u) /\ SumFunctionOnSet(f, u) \in Int
  BY FS_Subset, SumTyped
<1>5. SumFunctionOnSet(f, s) = f[c] + SumFunctionOnSet(f, s \ {c})
  BY <1>4, <1>2, SumUnfolds DEF c
<1>6. y # c
  BY <1>2, <1>5
<1>7. SumFunctionOnSet(f, s \ {c}) = f[y] + SumFunctionOnSet(f, rest)
  <2>1. s \ {c} \notin Bad
    BY <1>1, <1>3
  <2>2. (s \ {c}) \ {y} = rest
    OBVIOUS
  <2> QED  BY <1>2, <1>6, <2>1, <2>2
<1>8. SumFunctionOnSet(f, s \ {y}) = f[c] + SumFunctionOnSet(f, rest)
  <2>1. s \ {y} \notin Bad
    BY <1>1, <1>2
  <2> QED  BY <1>3, <1>6, <2>1
<1>9. f[c] \in Int /\ f[y] \in Int /\ SumFunctionOnSet(f, rest) \in Int
  BY <1>3, <1>4
<1> HIDE DEF rest, Bad
<1> QED  BY <1>2, <1>5, <1>7, <1>8, <1>9

(* One element more adds its value.                                        *)
LEMMA SumWith ==
  ASSUME NEW D, NEW f \in [D -> Int], NEW S \in SUBSET D, IsFiniteSet(S), NEW x \in D \ S
  PROVE  SumFunctionOnSet(f, S \cup {x}) = f[x] + SumFunctionOnSet(f, S)
<1>1. IsFiniteSet(S \cup {x}) /\ (S \cup {x}) \ {x} = S
  BY FS_AddElement
<1> QED  BY <1>1, SumWithout

(* A sum depends on the function only where it adds it up.                 *)
LEMMA SumSame ==
  ASSUME NEW S, IsFiniteSet(S), NEW f, NEW g, \A x \in S : f[x] = g[x]
  PROVE  SumFunctionOnSet(f, S) = SumFunctionOnSet(g, S)
<1>. DEFINE Bad == {s \in SUBSET S : SumFunctionOnSet(f, s) # SumFunctionOnSet(g, s)}
<1> SUFFICES ASSUME Bad # {}  PROVE FALSE
  OBVIOUS
<1>1. PICK s \in Bad : \A u \in Bad : u \subseteq s => u = s
  <2>1. Bad \in SUBSET (SUBSET S)
    OBVIOUS
  <2> HIDE DEF Bad
  <2> QED  BY <2>1, MinimalSubset
<1>2. IsFiniteSet(s)
  BY FS_Subset
<1>3. s # {}
  BY <1>2, SumUnfolds
<1>4. Chosen(s) \in s
  BY <1>3 DEF Chosen
<1>5. SumFunctionOnSet(f, s \ {Chosen(s)}) = SumFunctionOnSet(g, s \ {Chosen(s)})
  BY <1>1, <1>4
<1> QED  BY <1>2, <1>3, <1>4, <1>5, SumUnfolds

-----------------------------------------------------------------------------
(* Balances.  A wallet has one row of a currency, or none, so its balance  *)
(* is that row's.                                                          *)

(* Where keys are unique a wallet has at most one row of a currency.       *)
LEMMA HeldOnce ==
  ASSUME NEW db \in Database, UniqueIn(db), NEW w, NEW c,
         NEW a \in HeldIn(db, w, c), NEW b \in HeldIn(db, w, c)
  PROVE  a = b
BY DEF UniqueIn, HeldIn

(* A balance is the amount of the one row there is, or nothing.            *)
LEMMA BalanceIs ==
  ASSUME NEW db \in Database, UniqueIn(db), NEW w, NEW c
  PROVE  /\ HeldIn(db, w, c) = {} => Balance(db, w, c) = 0
         /\ \A b \in HeldIn(db, w, c) :
              /\ Balance(db, w, c) = db.balance[b].availableAmount
              /\ Balance(db, w, c) \in Int
<1>. DEFINE f == [b \in RowsOf(db) |-> db.balance[b].availableAmount]
<1>1. f \in [RowsOf(db) -> Int]
  BY DEF RowsOf, Database, Row
<1>2. Balance(db, w, c) = SumFunctionOnSet(f, HeldIn(db, w, c))
  BY DEF Balance
<1>3. IsFiniteSet({}) /\ SumFunctionOnSet(f, {}) = 0
  BY FS_EmptySet, SumUnfolds
<1>4. ASSUME NEW b \in HeldIn(db, w, c)
      PROVE  SumFunctionOnSet(f, HeldIn(db, w, c)) = f[b] /\ f[b] \in Int
  <2>1. HeldIn(db, w, c) = {b} /\ b \in RowsOf(db)
    BY HeldOnce DEF HeldIn
  <2>2. IsFiniteSet({b}) /\ {b} \ {b} = {}
    BY FS_Singleton
  <2>3. f[b] \in Int
    BY <1>1, <2>1
  <2> HIDE DEF f
  <2>4. SumFunctionOnSet(f, {b}) = f[b] + SumFunctionOnSet(f, {b} \ {b})
    BY <1>1, <2>1, <2>2, SumWithout
  <2>5. SumFunctionOnSet(f, {b}) = f[b] + 0
    BY <1>3, <2>2, <2>4, Zenon
  <2>6. SumFunctionOnSet(f, {b}) = f[b]
    BY <2>3, <2>5
  <2> QED  BY <2>1, <2>3, <2>6, Zenon
<1>5. \A b \in HeldIn(db, w, c) : f[b] = db.balance[b].availableAmount
  BY DEF HeldIn
<1>. HIDE DEF f
<1> QED  BY <1>2, <1>3, <1>4, <1>5

(* Two databases that hold the same of a currency have the same balance.   *)
LEMMA BalanceSame ==
  ASSUME NEW db \in Database, UniqueIn(db), NEW new \in Database, UniqueIn(new), NEW w, NEW c,
         HeldIn(new, w, c) = HeldIn(db, w, c),
         \A b \in HeldIn(db, w, c) : new.balance[b].availableAmount = db.balance[b].availableAmount
  PROVE  Balance(new, w, c) = Balance(db, w, c)
<1>1. CASE HeldIn(db, w, c) = {}
  BY <1>1, BalanceIs
<1>2. ASSUME NEW b \in HeldIn(db, w, c) PROVE Balance(new, w, c) = Balance(db, w, c)
  BY <1>2, BalanceIs
<1> QED  BY <1>1, <1>2

-----------------------------------------------------------------------------
(* Records.                                                                *)

(* What a record moves is a number.                                        *)
LEMMA MovementTyped ==
  ASSUME TypeOK, NEW c
  PROVE  Movement(c) \in [Requests -> Int]
<1>1. \A r \in Requests : In(r, c) \in Int /\ Out(r, c) \in Int
  BY DEF TypeOK, Call, In, Out, Carry
<1> QED  BY <1>1 DEF Movement

(* So is what the records of finitely many requests add up to.             *)
LEMMA RecountedTyped ==
  ASSUME TypeOK, NEW S \in SUBSET Requests, IsFiniteSet(S), NEW w, NEW c
  PROVE  /\ SumFunctionOnSet(Movement(c), On(S, w)) \in Int
         /\ Recounted(S, w, c) \in Int
<1>1. On(S, w) \in SUBSET S /\ On(S, w) \in SUBSET Requests /\ IsFiniteSet(On(S, w))
  BY FS_Subset DEF On
<1>2. SumFunctionOnSet(Movement(c), On(S, w)) \in Int
  BY <1>1, MovementTyped, SumTyped
<1> QED  BY <1>2 DEF Recounted, Deposited, InitialDeposit

(* One more request adds its movement to its wallet.                       *)
LEMMA MovementAdded ==
  ASSUME TypeOK, NEW S \in SUBSET Requests, IsFiniteSet(S), NEW r \in Requests \ S, NEW w, NEW c
  PROVE  SumFunctionOnSet(Movement(c), On(S \cup {r}, w)) =
           SumFunctionOnSet(Movement(c), On(S, w)) +
             IF walletOf[r] = w THEN In(r, c) - Out(r, c) ELSE 0
<1>1. /\ On(S, w) \in SUBSET Requests /\ IsFiniteSet(On(S, w))
      /\ r \in Requests \ On(S, w)
  BY FS_Subset DEF On
<1>2. Movement(c)[r] = In(r, c) - Out(r, c) /\ In(r, c) - Out(r, c) \in Int
  BY MovementTyped DEF Movement
<1>3. SumFunctionOnSet(Movement(c), On(S, w)) \in Int
  BY RecountedTyped
<1>4. CASE walletOf[r] = w
  <2>1. On(S \cup {r}, w) = On(S, w) \cup {r}
    BY <1>4 DEF On
  <2>2. SumFunctionOnSet(Movement(c), On(S, w) \cup {r}) =
          Movement(c)[r] + SumFunctionOnSet(Movement(c), On(S, w))
    BY <1>1, MovementTyped, SumWith
  <2>3. \A i \in Int, j \in Int : i + j = j + i
    OBVIOUS
  <2> QED  BY <1>2, <1>3, <1>4, <2>1, <2>2, <2>3
<1>5. CASE walletOf[r] # w
  <2>1. On(S \cup {r}, w) = On(S, w)
    BY <1>5 DEF On
  <2> QED  BY <1>3, <1>5, <2>1
<1> QED  BY <1>4, <1>5

(* A deposit or an exchange.                                               *)
LEMMA RecountedMoved ==
  ASSUME TypeOK, NEW S \in SUBSET Requests, IsFiniteSet(S), NEW r \in Requests \ S,
         call[r].op # "initialize", NEW w, NEW c
  PROVE  Recounted(S \cup {r}, w, c) =
           Recounted(S, w, c) + IF walletOf[r] = w THEN In(r, c) - Out(r, c) ELSE 0
<1>1. Deposited(S \cup {r}, w, c) = Deposited(S, w, c) /\ Deposited(S, w, c) \in Int
  BY DEF Deposited, On, InitialDeposit
<1>2. In(r, c) - Out(r, c) \in Int
  BY MovementTyped DEF Movement
<1>3. SumFunctionOnSet(Movement(c), On(S, w)) \in Int
  BY RecountedTyped
<1> QED  BY <1>1, <1>2, <1>3, MovementAdded DEF Recounted

(* A verification into a wallet that has had its deposit adds nothing.     *)
LEMMA RecountedAgain ==
  ASSUME TypeOK, NEW S \in SUBSET Requests, IsFiniteSet(S), NEW r \in Requests \ S,
         call[r].op = "initialize", NEW w, NEW c,
         walletOf[r] = w /\ call[r].target = c =>
           \E q \in S : walletOf[q] = w /\ call[q].op = "initialize" /\ call[q].target = c
  PROVE  Recounted(S \cup {r}, w, c) = Recounted(S, w, c)
<1>1. Deposited(S \cup {r}, w, c) = Deposited(S, w, c) /\ Deposited(S, w, c) \in Int
  BY DEF Deposited, On, InitialDeposit
<1>2. In(r, c) - Out(r, c) = 0
  BY DEF In, Out, Exchange
<1>3. SumFunctionOnSet(Movement(c), On(S, w)) \in Int
  BY RecountedTyped
<1> QED  BY <1>1, <1>2, <1>3, MovementAdded DEF Recounted

(* The verification that opens a wallet makes its first deposit.           *)
LEMMA RecountedOpening ==
  ASSUME TypeOK, NEW S \in SUBSET Requests, IsFiniteSet(S), NEW r \in Requests \ S,
         call[r].op = "initialize", On(S, walletOf[r]) = {}
  PROVE  Recounted(S \cup {r}, walletOf[r], call[r].target) = InitialDeposit
<1>. DEFINE w == walletOf[r]
            c == call[r].target
<1>1. Deposited(S \cup {r}, w, c) = InitialDeposit
  BY DEF Deposited, On
<1>2. In(r, c) - Out(r, c) = 0
  BY DEF In, Out, Exchange
<1>3. SumFunctionOnSet(Movement(c), On(S, w)) = 0
  BY FS_EmptySet, SumUnfolds
<1>4. SumFunctionOnSet(Movement(c), On(S \cup {r}, w)) = 0
  BY <1>2, <1>3, MovementAdded
<1> QED  BY <1>1, <1>4 DEF Recounted, InitialDeposit

-----------------------------------------------------------------------------
(* One request at a time.                                                  *)

LedgerSoundNow == LedgerInv /\ UniqueInv /\ BooksInv

(* While a request is at work nobody else is: it alone may have posted, it *)
(* has not committed, and the two frames of the transaction are its own.   *)
LEMMA OthersIdle ==
  ASSUME LedgerSoundNow, NEW r \in Requests, AtWork(r)
  PROVE  /\ \A q \in Requests \ {r} : pc[q] \in {"absent", "done"}
         /\ Posted \in SUBSET {r} /\ r \notin Committed /\ reply[r] = "none"
         /\ Committed \in SUBSET (Requests \ {r})
         /\ transactionCount = 2 /\ InTransaction
<1>1. reply[r] = "none"
  BY DEF LedgerSoundNow, BooksInv, HandlerSound, AtWork
<1> QED  BY <1>1 DEF LedgerSoundNow, UniqueInv, OneAtATime, AtWork, Posted, Committed, BooksInv,
                    Quiescent, InTransaction

(* Who has committed is done.                                              *)
LEMMA CommittedDone ==
  ASSUME LedgerSoundNow, NEW q \in Committed
  PROVE  q \in Requests /\ pc[q] = "done" /\ record[q] = "COMPLETED"
BY DEF Committed, LedgerSoundNow, BooksInv, HandlerSound

(* A step of the request at work leaves the others where they were.        *)
LEMMA OthersDone ==
  ASSUME LedgerSoundNow, NEW r \in Requests, AtWork(r), NEW p, Goto(r, p)
  PROVE  /\ pc'[r] = p
         /\ \A q \in Requests \ {r} : pc'[q] = pc[q] /\ pc'[q] \in {"absent", "done"}
BY OthersIdle DEF Goto, LedgerSoundNow, LedgerInv, TypeOK

(* Nothing but their records needs to be known of requests not at work.    *)
LEMMA HandlerIdle ==
  ASSUME NEW q \in Requests, pc[q] \in {"absent", "done"}, HandlerSound(q), pc'[q] = pc[q],
         call' = call, record'[q] = record[q], reply'[q] = reply[q]
  PROVE  HandlerSound(q)'
BY DEF HandlerSound, BetweenReads, Exchange, Doomed

(* What requests that keep their wallets say of a currency stays the same. *)
LEMMA RecountedKept ==
  ASSUME NEW S \in SUBSET Requests, call' = call, \A q \in S : walletOf'[q] = walletOf[q],
         NEW w, NEW c
  PROVE  Recounted(S, w, c)' = Recounted(S, w, c)
<1>1. On(S, w)' = On(S, w)
  BY DEF On
<1>2. Deposited(S, w, c)' = Deposited(S, w, c)
  BY <1>1 DEF Deposited
<1>3. \A r \in Requests : In(r, c)' = In(r, c) /\ Out(r, c)' = Out(r, c)
  BY DEF In, Out, Exchange
<1>4. Movement(c)' = Movement(c)
  BY <1>3 DEF Movement
<1> QED  BY <1>1, <1>2, <1>4 DEF Recounted

(* To be balanced after a step is to be balanced by what the new databases *)
(* hold, as calls and the wallets of those concerned are kept.             *)
LEMMA BalancedIs ==
  ASSUME NEW S \in SUBSET Requests, call' = call, \A q \in S : walletOf'[q] = walletOf[q], NEW db
  PROVE  /\ Committed' = S /\ durable' = db => (Balanced(durable, Committed)' <=> Balanced(db, S))
         /\ Committed' \cup Posted' = S /\ working' = db =>
              (Balanced(working, Committed \cup Posted)' <=> Balanced(db, S))
<1>1. ASSUME Committed' = S, durable' = db, NEW w \in WalletIds, NEW c \in Currencies
      PROVE  /\ Balance(durable, w, c)' = Balance(db, w, c)
             /\ Recounted(Committed, w, c)' = Recounted(S, w, c)
  <2>1. Balance(durable, w, c)' = Balance(db, w, c)
    BY <1>1 DEF Balance, HeldIn, RowsOf
  <2>2. Recounted(Committed, w, c)' = Recounted(S, w, c)'
    BY <1>1, Zenon DEF Recounted, Deposited, On
  <2> QED  BY <2>1, <2>2, RecountedKept
<1>2. ASSUME Committed' \cup Posted' = S, working' = db, NEW w \in WalletIds, NEW c \in Currencies
      PROVE  /\ Balance(working, w, c)' = Balance(db, w, c)
             /\ Recounted(Committed \cup Posted, w, c)' = Recounted(S, w, c)
  <2>1. Balance(working, w, c)' = Balance(db, w, c)
    BY <1>2 DEF Balance, HeldIn, RowsOf
  <2>2. Recounted(Committed \cup Posted, w, c)' = Recounted(S, w, c)'
    BY <1>2, Zenon DEF Recounted, Deposited, On
  <2> QED  BY <2>1, <2>2, RecountedKept
<1>3. ASSUME Committed' = S, durable' = db
      PROVE  Balanced(durable, Committed)' <=> Balanced(db, S)
  BY <1>1, <1>3 DEF Balanced, WalletIds
<1>4. ASSUME Committed' \cup Posted' = S, working' = db
      PROVE  Balanced(working, Committed \cup Posted)' <=> Balanced(db, S)
  BY <1>2, <1>4 DEF Balanced, WalletIds
<1> QED  BY <1>3, <1>4

(* The other properties of a database speak of what does not change.       *)
LEMMA HousedIs ==
  /\ RowsHoused(durable)' <=> RowsHoused(durable')
  /\ RowsHoused(working)' <=> RowsHoused(working')
BY DEF RowsHoused, RowsOf

(* Nor does this one, as calls are kept.                                   *)
LEMMA NotFundedIs ==
  ASSUME call' = call
  PROVE  /\ NotFunded(durable)' <=> NotFunded(durable')
         /\ NotFunded(working)' <=> NotFunded(working')
BY DEF NotFunded, RowsOf

(* The rows of a wallet are a matter of the database they are in.          *)
LEMMA HeldIs ==
  ASSUME NEW w, NEW c
  PROVE  /\ HeldIn(durable, w, c)' = HeldIn(durable', w, c)
         /\ HeldIn(working, w, c)' = HeldIn(working', w, c)
BY DEF HeldIn, RowsOf

(* A wallet that was opened by a verification stays so, given its deposit. *)
LEMMA OpenedKept ==
  ASSUME call' = call, NEW w \in WalletIds, walletOf'[w] = walletOf[w],
         NEW db, call[w].op = "initialize", walletOf[w] = w, call[w].user = db.wallet[w],
         pc'[w] \in {"record", "balance", "write"} \/ HeldIn(db, w, call[w].target) # {}
  PROVE  /\ durable' = db => OpenedBy(durable, w)'
         /\ working' = db => OpenedBy(working, w)'
<1>1. HeldIn(durable, w, call[w].target)' = HeldIn(durable', w, call[w].target)
  BY DEF HeldIn, RowsOf
<1>2. HeldIn(working, w, call[w].target)' = HeldIn(working', w, call[w].target)
  BY DEF HeldIn, RowsOf
<1>3. durable' = db => OpenedBy(durable, w)'
  BY <1>1 DEF OpenedBy
<1>4. working' = db => OpenedBy(working, w)'
  BY <1>2 DEF OpenedBy
<1> QED  BY <1>3, <1>4

-----------------------------------------------------------------------------
(* A request that goes on within the open transaction.                     *)

Proceeds(r, p) ==
  /\ AtWork(r) /\ p \notin {"absent", "done"} /\ Goto(r, p)
  /\ UNCHANGED <<call, durable, transactionCount, reply>>
  /\ \A q \in Requests \ {r} :
       walletOf'[q] = walletOf[q] /\ seen'[q] = seen[q] /\ record'[q] = record[q]

(* A request that goes on settles nothing; it has posted once it has       *)
(* written.                                                                *)
LEMMA ProceedsSettles ==
  ASSUME LedgerSoundNow, NEW r \in Requests, NEW p, Proceeds(r, p)
  PROVE  /\ Committed' = Committed
         /\ \A q \in Committed : walletOf'[q] = walletOf[q]
         /\ Posted' = IF p \in {"complete", "finish"} THEN {r} ELSE {}
         /\ Posted = IF pc[r] \in {"complete", "finish"} THEN {r} ELSE {}
<1>1. /\ pc'[r] = p /\ p \notin {"absent", "done"} /\ AtWork(r)
      /\ \A q \in Requests \ {r} : pc'[q] = pc[q] /\ pc'[q] \in {"absent", "done"}
      /\ \A q \in Requests \ {r} : record'[q] = record[q] /\ walletOf'[q] = walletOf[q]
  BY OthersDone DEF Proceeds
<1>2. Committed' = Committed /\ r \notin Committed
  BY OthersIdle DEF Committed, Proceeds
<1> QED  BY <1>1, <1>2 DEF Posted, Committed, AtWork

(* What is committed stays balanced while it is left alone.                *)
LEMMA DurableKept ==
  ASSUME LedgerSoundNow, call' = call, durable' = durable, Committed' = Committed,
         \A q \in Committed : walletOf'[q] = walletOf[q]
  PROVE  DurableBooks'
<1>1. DurableBooks /\ Committed \in SUBSET Requests
  BY DEF LedgerSoundNow, BooksInv, Committed
<1>2. \A q \in Committed' : walletOf'[q] # NoWallet /\ durable'.wallet[walletOf'[q]] # NoUser
  BY <1>1 DEF DurableBooks
<1>3. ASSUME NEW w \in WalletIds, durable'.wallet[w] # NoUser
      PROVE  w \in Committed' /\ OpenedBy(durable, w)'
  <2>1. w \in Committed /\ OpenedBy(durable, w)
    BY <1>1, <1>3 DEF DurableBooks
  <2>2. HeldIn(durable, w, call[w].target) # {}
    BY <2>1, CommittedDone DEF OpenedBy
  <2> QED  BY <2>1, <2>2, OpenedKept DEF OpenedBy
<1>4. RowsHoused(durable)' /\ NotFunded(durable)'
  BY <1>1, HousedIs, NotFundedIs DEF DurableBooks
<1>5. Balanced(durable, Committed)'
  BY <1>1, BalancedIs DEF DurableBooks
<1> QED  BY <1>2, <1>3, <1>4, <1>5 DEF DurableBooks

(* With nothing uncommitted the two views are balanced alike.              *)
LEMMA QuietBooks ==
  /\ DurableBooks /\ working = durable /\ Posted = {} => WorkingBooks
  /\ DurableBooks' /\ working' = durable' /\ Posted' = {} => WorkingBooks'
<1>1. ASSUME DurableBooks, working = durable, Posted = {}
      PROVE  WorkingBooks
  <2>1. Committed \cup Posted = Committed
    BY <1>1
  <2> QED  BY <1>1, <2>1 DEF DurableBooks, WorkingBooks
<1>2. ASSUME DurableBooks', working' = durable', Posted' = {}
      PROVE  WorkingBooks'
  <2>1. Committed' \cup Posted' = Committed'
    BY <1>2
  <2> QED  BY <1>2, <2>1 DEF DurableBooks, WorkingBooks
<1> QED  BY <1>1, <1>2

(* What is left to show of a request that goes on: its own position and    *)
(* the books of the open transaction.                                      *)
LEMMA ProceedsBooks ==
  ASSUME LedgerSoundNow, adrift' = {}, NEW r \in Requests, NEW p, Proceeds(r, p), HandlerSound(r)', WorkingBooks'
  PROVE  BooksInv'
<1>. USE DEF Proceeds
<1>1. /\ pc'[r] = p /\ AtWork(r)
      /\ \A q \in Requests \ {r} : pc'[q] = pc[q] /\ pc'[q] \in {"absent", "done"}
  BY OthersDone
<1>2. Committed' = Committed /\ \A q \in Committed : walletOf'[q] = walletOf[q]
  BY ProceedsSettles
<1>3. Committed \in SUBSET (Requests \ {r}) /\ transactionCount' = 2
  BY OthersIdle
<1>4. ~Quiescent'
  BY <1>1 DEF Quiescent
<1>5. \A q \in Requests : HandlerSound(q)'
  BY <1>1, HandlerIdle DEF LedgerSoundNow, BooksInv
<1>6. DurableBooks'
  BY <1>2, DurableKept
<1>7. IsFiniteSet(Committed')
  BY <1>2 DEF LedgerSoundNow, BooksInv
<1> QED  BY <1>3, <1>4, <1>5, <1>6, <1>7 DEF BooksInv

(* A step that writes nothing, before the money moves.                     *)
LEMMA ReadingBooks ==
  ASSUME LedgerSoundNow, adrift' = {}, NEW r \in Requests, NEW p, Proceeds(r, p), HandlerSound(r)',
         working' = working, pc[r] \notin {"complete", "finish"}, p \notin {"complete", "finish"},
         pc[r] \in {"record", "balance", "write"} =>
           p \in {"record", "balance", "write"} /\ walletOf'[r] = walletOf[r]
  PROVE  BooksInv'
<1>. USE DEF Proceeds
<1>1. /\ pc'[r] = p /\ AtWork(r)
      /\ \A q \in Requests \ {r} : pc'[q] = pc[q] /\ pc'[q] \in {"absent", "done"}
  BY OthersDone
<1>2. /\ Committed' = Committed /\ \A q \in Committed : walletOf'[q] = walletOf[q]
      /\ Posted = {} /\ Posted' = {}
  BY ProceedsSettles
<1>3. Committed \in SUBSET (Requests \ {r})
  BY OthersIdle
<1>4. WorkingBooks
  BY DEF LedgerSoundNow, BooksInv
<1>5. \A q \in Committed' : working'.wallet[walletOf'[q]] # NoUser
  BY <1>2, <1>4 DEF WorkingBooks
<1>6. ASSUME NEW w \in WalletIds, working'.wallet[w] # NoUser
      PROVE  /\ w \in Committed' \/ pc'[w] \in {"record", "balance", "write", "complete", "finish"}
             /\ OpenedBy(working, w)'
  <2>1. /\ w \in Committed \/ pc[w] \in {"record", "balance", "write", "complete", "finish"}
        /\ OpenedBy(working, w)
    BY <1>4, <1>6 DEF WorkingBooks
  <2>2. CASE w = r
    <3>1. pc[r] \in {"record", "balance", "write"}
      BY <1>3, <2>1, <2>2
    <3> QED  BY <1>1, <2>1, <2>2, <3>1, OpenedKept DEF OpenedBy, WalletIds
  <2>3. CASE w # r
    <3>1. w \in Requests \ {r}
      BY <2>3 DEF WalletIds
    <3> QED  BY <1>1, <1>2, <2>1, <3>1, OpenedKept DEF OpenedBy
  <2> QED  BY <2>2, <2>3
<1>7. RowsHoused(working)'
  BY <1>4, HousedIs DEF WorkingBooks
<1>8. NotFunded(working)' /\ Balanced(working, Committed \cup Posted)'
  <2>1. \A q \in Requests : ~Doomed(q)
    BY <1>1 DEF Doomed
  <2>2. NotFunded(working) /\ Balanced(working, Committed \cup Posted)
    BY <1>4, <2>1 DEF WorkingBooks
  <2>3. Committed \cup Posted = Committed /\ Committed' \cup Posted' = Committed /\ Committed \in SUBSET Requests
    BY <1>2, <1>3
  <2>4. Balanced(working, Committed \cup Posted)'
    BY <1>2, <2>2, <2>3, BalancedIs
  <2> QED  BY <2>2, <2>4, NotFundedIs
<1>9. WorkingBooks'
  BY <1>5, <1>6, <1>7, <1>8 DEF WorkingBooks
<1> QED  BY <1>9, ProceedsBooks

-----------------------------------------------------------------------------
(* A request that begins or ends.                                          *)

(* What ends all work without an answer leaves what is committed, which    *)
(* was balanced without it.                                                *)
LEMMA RollbackBooks ==
  ASSUME LedgerSoundNow, adrift' = {}, LedgerInv', UNCHANGED <<call, durable, walletOf, seen, record>>,
         working' = durable, transactionCount' = 0,
         \A q \in Requests :
           /\ pc'[q] \in {"absent", "done"}
           /\ pc[q] = "done" => pc'[q] = "done"
           /\ pc'[q] = "absent" => reply'[q] = "none"
           /\ reply'[q] = "ok" <=> reply[q] = "ok"
  PROVE  BooksInv'
<1>1. Committed' = Committed /\ Posted' = {}
  BY DEF Committed, Posted
<1>2. DurableBooks'
  BY <1>1, DurableKept
<1>3. WorkingBooks'
  BY <1>1, <1>2, QuietBooks
<1>4. Quiescent' /\ transactionCount' = 0 /\ working' = durable'
  BY DEF Quiescent
<1>5. ASSUME NEW q \in Requests
      PROVE  HandlerSound(q)'
  <2>1. HandlerSound(q)
    BY DEF LedgerSoundNow, BooksInv
  <2>2. call'[q] = call[q] /\ record'[q] = record[q]
    OBVIOUS
  <2> QED  BY <2>1, <2>2 DEF HandlerSound, BetweenReads, Doomed
<1>6. IsFiniteSet(Committed')
  BY <1>1 DEF LedgerSoundNow, BooksInv
<1> QED  BY <1>2, <1>3, <1>4, <1>5, <1>6 DEF BooksInv

(* A failure at any await, the commit included.                            *)
LEMMA FailBooks ==
  ASSUME LedgerSoundNow, adrift' = {}, LedgerInv', NEW r \in Requests, AtWork(r), Fail(r)
  PROVE  BooksInv'
<1>1. /\ pc'[r] = "done"
      /\ \A q \in Requests \ {r} : pc'[q] = pc[q] /\ pc'[q] \in {"absent", "done"}
  BY OthersDone DEF Fail
<1>2. reply'[r] = "error" /\ \A q \in Requests \ {r} : reply'[q] = reply[q]
  BY DEF Fail, LedgerSoundNow, LedgerInv, TypeOK
<1>3. reply[r] # "ok" /\ \A q \in Requests : pc[q] = "absent" => reply[q] = "none"
  BY OthersIdle DEF LedgerSoundNow, BooksInv, HandlerSound
<1>4. transactionCount' = 0
  BY OthersIdle DEF Fail, CountAfterFailure
<1> QED  BY <1>1, <1>2, <1>3, <1>4, RollbackBooks DEF Fail

(* The process dies.                                                       *)
LEMMA CrashBooks ==
  ASSUME LedgerSoundNow, adrift' = {}, LedgerInv', Crash
  PROVE  BooksInv'
<1>1. \A q \in Requests : pc'[q] = IF pc[q] = "absent" THEN "absent" ELSE "done"
  BY DEF Crash
<1>2. UNCHANGED <<call, durable, walletOf, seen, record, reply>>
  BY DEF Crash
<1>3. working' = durable /\ transactionCount' = 0
  BY DEF Crash
<1>4. \A q \in Requests : pc[q] = "absent" => reply[q] = "none"
  BY DEF LedgerSoundNow, BooksInv, HandlerSound
<1> QED  BY <1>1, <1>2, <1>3, <1>4, RollbackBooks

(* A request starts with nothing uncommitted.                              *)
LEMMA SubmitBooks ==
  ASSUME LedgerSoundNow, adrift' = {}, LedgerInv', NEW r \in Requests, SerialSubmit(r)
  PROVE  BooksInv'
<1>. USE DEF SerialSubmit, Submit
<1>1. /\ pc'[r] = "wallet" /\ pc[r] = "absent"
      /\ \A q \in Requests \ {r} : pc'[q] = pc[q] /\ pc'[q] \in {"absent", "done"}
  BY DEF Goto, Quiescent, LedgerSoundNow, LedgerInv, TypeOK
<1>2. Committed' = Committed /\ Posted' = {}
  BY <1>1 DEF Committed, Posted
<1>3. DurableBooks'
  BY <1>2, DurableKept
<1>4. WorkingBooks'
  <2>1. TypeOK' /\ working' = durable'
    BY DEF LedgerInv, LedgerSoundNow, BooksInv
  <2> QED  BY <1>2, <1>3, <2>1, QuietBooks
<1>5. ~Quiescent' /\ transactionCount' = 2
  BY <1>1 DEF Quiescent, LedgerSoundNow, BooksInv
<1>6. HandlerSound(r)'
  BY <1>1 DEF HandlerSound, LedgerSoundNow, BooksInv, BetweenReads, Doomed
<1>7. \A q \in Requests : HandlerSound(q)'
  BY <1>1, <1>6, HandlerIdle DEF LedgerSoundNow, BooksInv
<1>8. IsFiniteSet(Committed')
  BY <1>2 DEF LedgerSoundNow, BooksInv
<1> QED  BY <1>3, <1>4, <1>5, <1>7, <1>8 DEF BooksInv

(* The commit: what the transaction holds is balanced by the requests that *)
(* have committed now.                                                     *)
LEMMA FinishBooks ==
  ASSUME LedgerSoundNow, adrift' = {}, LedgerInv', NEW r \in Requests, Finish(r)
  PROVE  BooksInv'
<1>0. pc[r] = "finish" /\ AtWork(r) /\ record[r] = "COMPLETED"
  BY DEF Finish, AtWork, LedgerSoundNow, BooksInv, HandlerSound
<1>1. transactionCount = 2 /\ InTransaction
  BY <1>0, OthersIdle
<1>2. /\ transactionCount' = 0 /\ durable' = working /\ working' = working
      /\ Goto(r, "done") /\ reply' = [reply EXCEPT ![r] = "ok"]
      /\ UNCHANGED <<call, walletOf, seen, record>>
  BY <1>1 DEF Finish
<1>r. reply'[r] = "ok" /\ \A q \in Requests \ {r} : reply'[q] = reply[q]
  BY <1>2 DEF LedgerSoundNow, LedgerInv, TypeOK
<1>3. /\ pc'[r] = "done"
      /\ \A q \in Requests \ {r} : pc'[q] = pc[q] /\ pc'[q] \in {"absent", "done"}
  BY <1>0, <1>2, OthersDone
<1>4. Posted = {r} /\ Committed' = Committed \cup {r} /\ Posted' = {} /\ Committed \in SUBSET Requests
  <2>1. Posted = {r}
    BY <1>0, OthersIdle DEF Posted
  <2> QED  BY <1>r, <1>3, <2>1 DEF Committed, Posted
<1>5. WorkingBooks
  BY DEF LedgerSoundNow, BooksInv
<1>6. walletOf[r] \in WalletIds /\ working.wallet[walletOf[r]] # NoUser
  <2>1. walletOf[r] # NoWallet /\ walletOf[r] \in WalletIds \cup {NoWallet} /\ call[r].user \in Users
    BY <1>0 DEF LedgerSoundNow, LedgerInv, PositionSound, PCs, TypeOK, Call
  <2>2. working.wallet[walletOf[r]] = call[r].user
    BY <1>0 DEF LedgerSoundNow, BooksInv, HandlerSound
  <2> QED  BY <2>1, <2>2, LedgerAssumption
<1>7. DurableBooks'
  <2>1. \A q \in Committed' : walletOf'[q] # NoWallet /\ durable'.wallet[walletOf'[q]] # NoUser
    <3>1. walletOf[r] # NoWallet /\ \A q \in Committed : walletOf[q] # NoWallet
      BY <1>6, LedgerAssumption DEF WalletIds, LedgerSoundNow, BooksInv, DurableBooks
    <3> QED  BY <1>2, <1>4, <1>5, <1>6, <3>1 DEF WorkingBooks
  <2>2. ASSUME NEW w \in WalletIds, durable'.wallet[w] # NoUser
        PROVE  w \in Committed' /\ OpenedBy(durable, w)'
    <3>1. /\ w \in Committed \/ pc[w] \in {"record", "balance", "write", "complete", "finish"}
          /\ OpenedBy(working, w)
      BY <1>2, <1>5, <2>2 DEF WorkingBooks
    <3>2. w \in Committed \cup {r} /\ pc[w] \in {"finish", "done"}
      BY <1>0, <1>3, <3>1, CommittedDone, OthersIdle DEF WalletIds
    <3>3. HeldIn(working, w, call[w].target) # {}
      BY <3>1, <3>2 DEF OpenedBy
    <3> QED  BY <1>2, <1>4, <3>1, <3>2, <3>3, OpenedKept DEF OpenedBy
  <2>3. NotFunded(working) /\ Balanced(working, Committed \cup Posted)
    <3>1. \A q \in Requests : ~Doomed(q)
      BY <1>0, <1>3 DEF Doomed
    <3> QED  BY <1>5, <3>1 DEF WorkingBooks
  <2>4. RowsHoused(durable)' /\ NotFunded(durable)'
    BY <1>2, <1>5, <2>3, HousedIs, NotFundedIs DEF WorkingBooks
  <2>5. Balanced(durable, Committed)'
    <3>1. Committed \cup Posted = Committed' /\ Committed \cup Posted \in SUBSET Requests
      BY <1>4
    <3> QED  BY <1>2, <2>3, <3>1, BalancedIs
  <2> QED  BY <2>1, <2>2, <2>4, <2>5 DEF DurableBooks
<1>8. WorkingBooks'
  <2>1. TypeOK' /\ working' = durable'
    BY <1>2 DEF LedgerInv
  <2> QED  BY <1>4, <1>7, <2>1, QuietBooks
<1>9. Quiescent' /\ transactionCount' = 0 /\ working' = durable'
  BY <1>2, <1>3 DEF Quiescent
<1>10. HandlerSound(r)'
  BY <1>0, <1>2, <1>3 DEF HandlerSound, LedgerSoundNow, BooksInv, BetweenReads, Doomed
<1>11. \A q \in Requests : HandlerSound(q)'
  BY <1>2, <1>3, <1>10, <1>r, HandlerIdle DEF LedgerSoundNow, BooksInv
<1>12. IsFiniteSet(Committed')
  BY <1>4, FS_AddElement DEF LedgerSoundNow, BooksInv
<1> QED  BY <1>7, <1>8, <1>9, <1>11, <1>12 DEF BooksInv

-----------------------------------------------------------------------------
(* The steps that read.                                                    *)

(* A balance as read is fresh.                                             *)
LEMMA ReadFresh ==
  ASSUME NEW r \in Requests, NEW side \in Sides, NEW s \in Reads(r, side)
  PROVE  s # NoRow =>
           /\ s.id \in HeldIn(working, walletOf[r], CurrencyOf(r, side))
           /\ working.balance[s.id].availableAmount = s.availableAmount
<1>. SUFFICES ASSUME s # NoRow
              PROVE  /\ s.id \in HeldIn(working, walletOf[r], CurrencyOf(r, side))
                     /\ working.balance[s.id].availableAmount = s.availableAmount
  OBVIOUS
<1>1. PICK b \in BalancesOf(walletOf[r], CurrencyOf(r, side)) :
        s = [id |-> b, amount |-> working.balance[b].amount,
             availableAmount |-> working.balance[b].availableAmount]
  BY DEF Reads
<1>2. b \in HeldIn(working, walletOf[r], CurrencyOf(r, side))
  BY DEF BalancesOf, HeldIn, RowsOf
<1> QED  BY <1>1, <1>2

(* What a request has read stays fresh while it only reads.                *)
LEMMA FreshIs ==
  ASSUME NEW r \in Requests, NEW side \in Sides,
         working' = working, call' = call, walletOf'[r] = walletOf[r],
         \/ seen'[r][side] \in Reads(r, side)
         \/ seen'[r][side] = seen[r][side] /\ Fresh(r, side)
  PROVE  Fresh(r, side)'
<1>. DEFINE s == seen'[r][side]
<1>1. s # NoRow => /\ s.id \in HeldIn(working, walletOf[r], CurrencyOf(r, side))
                   /\ working.balance[s.id].availableAmount = s.availableAmount
  BY ReadFresh DEF Fresh
<1>2. HeldIn(working, walletOf[r], CurrencyOf(r, side))' =
        HeldIn(working, walletOf[r], CurrencyOf(r, side))
  BY DEF HeldIn, RowsOf, CurrencyOf
<1> QED  BY <1>1, <1>2 DEF Fresh

(* What a wallet of no request but its own holds.                          *)
LEMMA EmptyIs ==
  ASSUME working' = working, NEW r \in Requests,
         \A c \in Currencies : HeldIn(working, r, c) = {}
  PROVE  \A c \in Currencies : HeldIn(working, r, c)' = {}
BY HeldIs

(* The wallet a handler finds was opened by an earlier verification, never *)
(* by the request itself.                                                  *)
LEMMA FindWalletBooks ==
  ASSUME LedgerSoundNow, adrift' = {}, LedgerInv', NEW r \in Requests, FindWallet(r)
  PROVE  BooksInv'
<1>0. pc[r] = "wallet" /\ AtWork(r)
  BY DEF FindWallet, AtWork
<1>1. CASE Fail(r)
  BY <1>0, <1>1, FailBooks
<1>2. CASE /\ Exchange(r) => call[r].amount > 0 /\ call[r].source # call[r].target
           /\ \E w \in WalletsOf(call[r].user) :
                walletOf' = [walletOf EXCEPT ![r] = w]
           /\ Goto(r, IF Exchange(r) THEN "balances" ELSE "record")
           /\ UNCHANGED <<aside, durable, working, transactionCount, seen, record, reply>>
  <2>. DEFINE p == IF Exchange(r) THEN "balances" ELSE "record"
  <2>1. PICK w \in WalletsOf(call[r].user) : walletOf' = [walletOf EXCEPT ![r] = w]
    BY <1>2
  <2>2. walletOf'[r] = w /\ \A q \in Requests \ {r} : walletOf'[q] = walletOf[q]
    BY <2>1 DEF LedgerSoundNow, LedgerInv, TypeOK
  <2>3. Proceeds(r, p) /\ pc'[r] = p
    BY <1>0, <1>2, <2>2, OthersDone DEF Proceeds
  <2>4. w # r
    <3>1. working.wallet[w] = call[r].user /\ w \in WalletIds /\ call[r].user \in Users
      BY DEF WalletsOf, LedgerSoundNow, LedgerInv, TypeOK, Call
    <3>2. working.wallet[w] # NoUser
      BY <3>1, LedgerAssumption
    <3>3. w \in Committed \/ pc[w] \in {"record", "balance", "write", "complete", "finish"}
      BY <3>1, <3>2 DEF LedgerSoundNow, BooksInv, WorkingBooks
    <3> QED  BY <1>0, <3>3, OthersIdle
  <2>5. working.wallet[w] = call[r].user
    BY DEF WalletsOf
  <2>6. HandlerSound(r)'
    BY <1>0, <1>2, <2>2, <2>3, <2>4, <2>5
       DEF HandlerSound, BetweenReads, Exchange, LedgerSoundNow, BooksInv
  <2>7. p \notin {"complete", "finish"}
    OBVIOUS
  <2> HIDE DEF p
  <2> QED  BY <1>0, <1>2, <2>3, <2>6, <2>7, ReadingBooks
<1>3. CASE /\ call[r].op = "initialize"
           /\ Goto(r, "openWallet")
           /\ UNCHANGED <<aside, durable, working, transactionCount, walletOf, seen,
                          record, reply>>
  <2>1. Proceeds(r, "openWallet") /\ pc'[r] = "openWallet"
    BY <1>0, <1>3, OthersDone DEF Proceeds
  <2>2. HandlerSound(r)'
    BY <1>0, <1>3, <2>1 DEF HandlerSound, BetweenReads, Exchange, LedgerSoundNow, BooksInv
  <2> QED  BY <1>0, <1>3, <2>1, <2>2, ReadingBooks
<1> QED  BY <1>1, <1>2, <1>3 DEF FindWallet

(* The reads between the look-up of the wallet and the record.             *)
LEMMA ExchangeReads ==
  ASSUME LedgerSoundNow, adrift' = {}, NEW r \in Requests,
         pc[r] \in BetweenReads \cup {"balances"}, NEW p \in BetweenReads \cup {"record"},
         Goto(r, p),
         UNCHANGED <<aside, durable, working, transactionCount, walletOf, record, reply>>,
         \A q \in Requests \ {r} : seen'[q] = seen[q],
         \A side \in Sides : \/ seen'[r][side] \in Reads(r, side)
                             \/ seen'[r][side] = seen[r][side] /\ Fresh(r, side)
  PROVE  BooksInv'
<1>1. AtWork(r) /\ Proceeds(r, p) /\ pc'[r] = p
  BY OthersDone DEF Proceeds, AtWork, BetweenReads
<1>2. Fresh(r, "source")' /\ Fresh(r, "target")'
  BY FreshIs DEF Sides
<1>3. Exchange(r) /\ HandlerSound(r)
  BY DEF HandlerSound, LedgerSoundNow, BooksInv
<1>4. walletOf[r] # r
  <2>1. working.wallet[walletOf[r]] = call[r].user /\ call[r].user \in Users
    BY <1>3 DEF HandlerSound, BetweenReads, LedgerSoundNow, LedgerInv, TypeOK, Call
  <2>2. working.wallet[walletOf[r]] # NoUser
    BY <2>1, LedgerAssumption
  <2> SUFFICES ASSUME walletOf[r] = r  PROVE FALSE
    OBVIOUS
  <2>3. OpenedBy(working, r)
    BY <2>2 DEF LedgerSoundNow, BooksInv, WorkingBooks, WalletIds
  <2> QED  BY <1>3, <2>3 DEF OpenedBy, Exchange
<1>5. HandlerSound(r)'
  BY <1>1, <1>2, <1>3, <1>4 DEF HandlerSound, BetweenReads, Exchange, Doomed
<1> QED  BY <1>1, <1>5, ReadingBooks DEF BetweenReads

(* An exchange reads both balances in one step.                            *)
LEMMA ReadBalancesBooks ==
  ASSUME LedgerSoundNow, adrift' = {}, NEW r \in Requests, ReadBalances(r)
  PROVE  BooksInv'
<1>1. PICK s \in Reads(r, "source"), t \in Reads(r, "target") :
        /\ seen' = [seen EXCEPT ![r] = [side \in Sides |-> IF side = "source" THEN s ELSE t]]
        /\ Goto(r, IF s = NoRow THEN "makeSource"
                   ELSE IF t = NoRow THEN "makeTarget" ELSE "record")
  BY DEF ReadBalances
<1>. DEFINE p == IF s = NoRow THEN "makeSource"
                 ELSE IF t = NoRow THEN "makeTarget" ELSE "record"
<1>2. /\ seen'[r]["source"] = s /\ seen'[r]["target"] = t
      /\ \A q \in Requests \ {r} : seen'[q] = seen[q]
  BY <1>1 DEF LedgerSoundNow, LedgerInv, TypeOK, Sides
<1>3. p \in BetweenReads \cup {"record"} /\ Goto(r, p)
  BY <1>1 DEF BetweenReads
<1>. HIDE DEF p
<1> QED  BY <1>2, <1>3, ExchangeReads DEF ReadBalances, Sides

(* Having created a balance it reads that one again; the other it has read *)
(* is still what it was.                                                   *)
LEMMA RereadBalanceBooks ==
  ASSUME LedgerSoundNow, adrift' = {}, NEW r \in Requests, NEW side \in Sides,
         RereadBalance(r, side, IF side = "source" THEN "rereadSource" ELSE "rereadTarget")
  PROVE  BooksInv'
<1>1. PICK s \in Reads(r, side) : seen' = [seen EXCEPT ![r][side] = s]
  BY DEF RereadBalance
<1>. DEFINE p == IF side = "source" /\ seen[r]["target"] = NoRow THEN "makeTarget" ELSE "record"
<1>2. /\ pc[r] \in BetweenReads
      /\ p \in BetweenReads \cup {"record"} /\ Goto(r, p)
      /\ UNCHANGED <<aside, durable, working, transactionCount, walletOf, record, reply>>
  BY DEF RereadBalance, BetweenReads
<1>3. /\ seen'[r][side] = s
      /\ \A d \in Sides \ {side} : seen'[r][d] = seen[r][d]
      /\ \A q \in Requests \ {r} : seen'[q] = seen[q]
  BY <1>1 DEF LedgerSoundNow, LedgerInv, TypeOK
<1>4. \A d \in Sides : Fresh(r, d)
  BY <1>2 DEF LedgerSoundNow, BooksInv, HandlerSound, Sides
<1>. HIDE DEF p
<1> QED  BY <1>2, <1>3, <1>4, ExchangeReads

(* A PENDING record counts for nothing, and an exchange keeps what it has  *)
(* read.                                                                   *)
LEMMA CreateRecordBooks ==
  ASSUME LedgerSoundNow, adrift' = {}, LedgerInv', NEW r \in Requests, CreateRecord(r)
  PROVE  BooksInv'
<1>0. pc[r] = "record" /\ AtWork(r)
  BY DEF CreateRecord, AtWork
<1>1. CASE Fail(r)
  BY <1>0, <1>1, FailBooks
<1>2. CASE ~Fail(r)
  <2>. DEFINE p == IF Exchange(r) THEN "write" ELSE "balance"
  <2>1. /\ Goto(r, p) /\ record' = [record EXCEPT ![r] = "PENDING"]
        /\ UNCHANGED <<aside, durable, working, transactionCount, walletOf, seen, reply>>
    BY <1>2 DEF CreateRecord
  <2>2. record'[r] = "PENDING" /\ \A q \in Requests \ {r} : record'[q] = record[q]
    BY <2>1 DEF LedgerSoundNow, LedgerInv, TypeOK
  <2>3. Proceeds(r, p) /\ pc'[r] = p
    BY <1>0, <2>1, <2>2, OthersDone DEF Proceeds
  <2>4. HandlerSound(r)
    BY DEF LedgerSoundNow, BooksInv
  <2>5. Exchange(r) => Fresh(r, "source")' /\ Fresh(r, "target")'
    BY <1>0, <2>1, <2>4, FreshIs DEF HandlerSound, Sides
  <2>6. walletOf[r] = r => \A c \in Currencies : HeldIn(working, r, c)' = {}
    BY <1>0, <2>1, <2>4, EmptyIs DEF HandlerSound
  <2>7. HandlerSound(r)'
    BY <1>0, <2>1, <2>2, <2>3, <2>4, <2>5, <2>6 DEF HandlerSound, BetweenReads, Exchange, Doomed
  <2>8. p \in {"write", "balance"}
    OBVIOUS
  <2> HIDE DEF p
  <2> QED  BY <1>0, <2>1, <2>3, <2>7, <2>8, ReadingBooks
<1> QED  BY <1>1, <1>2

-----------------------------------------------------------------------------
(* The steps that write.                                                   *)

(* What is left to show of a step that keeps wallets and adds rows.        *)
LEMMA WritingBooks ==
  ASSUME LedgerSoundNow, adrift' = {}, NEW r \in Requests, NEW p, Proceeds(r, p), HandlerSound(r)',
         UNCHANGED walletOf, working'.wallet = working.wallet, RowsHoused(working'),
         \A w \in WalletIds, c \in Currencies :
           HeldIn(working, w, c) # {} => HeldIn(working', w, c) # {},
         pc[r] \in {"record", "balance", "write", "complete", "finish"} => p \in {"complete", "finish"},
         p \in {"complete", "finish"} /\ call[r].op = "initialize" /\ walletOf[r] = r =>
           HeldIn(working', r, call[r].target) # {},
         ~Doomed(r)' => /\ NotFunded(working')
                        /\ Balanced(working', Committed \cup (IF p \in {"complete", "finish"}
                                                            THEN {r} ELSE {}))
  PROVE  BooksInv'
<1>. USE DEF Proceeds
<1>1. /\ pc'[r] = p /\ AtWork(r)
      /\ \A q \in Requests \ {r} : pc'[q] = pc[q] /\ pc'[q] \in {"absent", "done"}
  BY OthersDone
<1>2. /\ Committed' = Committed
      /\ Posted' = IF p \in {"complete", "finish"} THEN {r} ELSE {}
      /\ Committed' \cup Posted' \in SUBSET Requests
  BY ProceedsSettles DEF Committed
<1>3. Committed \in SUBSET (Requests \ {r})
  BY OthersIdle
<1>4. WorkingBooks
  BY DEF LedgerSoundNow, BooksInv
<1>5. \A q \in Committed' : working'.wallet[walletOf'[q]] # NoUser
  BY <1>2, <1>4 DEF WorkingBooks
<1>6. ASSUME NEW w \in WalletIds, working'.wallet[w] # NoUser
      PROVE  /\ w \in Committed' \/ pc'[w] \in {"record", "balance", "write", "complete", "finish"}
             /\ OpenedBy(working, w)'
  <2>1. /\ w \in Committed \/ pc[w] \in {"record", "balance", "write", "complete", "finish"}
        /\ OpenedBy(working, w)
    BY <1>4, <1>6 DEF WorkingBooks
  <2>2. CASE w = r
    <3>1. pc[r] \in {"record", "balance", "write", "complete", "finish"}
      BY <1>3, <2>1, <2>2
    <3>2. p \in {"complete", "finish"}
      BY <3>1
    <3> QED  BY <1>1, <2>1, <2>2, <3>2, OpenedKept DEF OpenedBy, WalletIds
  <2>3. CASE w # r
    <3>1. w \in Requests \ {r}
      BY <2>3 DEF WalletIds
    <3>2. w \in Committed
      BY <1>1, <2>1, <3>1
    <3>3. HeldIn(working', w, call[w].target) # {}
      <4>1. call[w].target \in Currencies
        BY <3>1 DEF LedgerSoundNow, LedgerInv, TypeOK, Call
      <4> QED  BY <2>1, <3>2, <4>1, CommittedDone DEF OpenedBy
    <3> QED  BY <1>2, <2>1, <3>2, <3>3, OpenedKept DEF OpenedBy
  <2> QED  BY <2>2, <2>3
<1>7. RowsHoused(working)'
  BY HousedIs
<1>8. ASSUME ~Doomed(r)'
      PROVE  NotFunded(working)' /\ Balanced(working, Committed \cup Posted)'
  BY <1>2, <1>8, BalancedIs, NotFundedIs
<1>9. WorkingBooks'
  BY <1>5, <1>6, <1>7, <1>8 DEF WorkingBooks
<1> QED  BY <1>9, ProceedsBooks

(* A wallet that a verification did not open itself was opened before, by  *)
(* a committed verification of the same user, and has the first deposit.   *)
LEMMA Reopened ==
  ASSUME LedgerSoundNow, NEW r \in Requests, pc[r] \in {"record", "balance", "write"},
         call[r].op = "initialize", walletOf[r] # r
  PROVE  /\ walletOf[r] \in Committed /\ walletOf[walletOf[r]] = walletOf[r]
         /\ call[walletOf[r]].op = "initialize" /\ call[walletOf[r]].target = call[r].target
         /\ HeldIn(working, walletOf[r], call[r].target) # {}
<1>. DEFINE w == walletOf[r]
<1>1. AtWork(r) /\ w \in WalletIds /\ call[r].user \in Users
  BY DEF AtWork, LedgerSoundNow, LedgerInv, PositionSound, PCs, TypeOK, Call
<1>2. working.wallet[w] = call[r].user /\ working.wallet[w] # NoUser
  BY <1>1, LedgerAssumption DEF LedgerSoundNow, BooksInv, HandlerSound
<1>3. /\ w \in Committed \/ pc[w] \in {"record", "balance", "write", "complete", "finish"}
      /\ OpenedBy(working, w)
  BY <1>1, <1>2 DEF LedgerSoundNow, BooksInv, WorkingBooks
<1>4. w \in Committed
  BY <1>1, <1>3, OthersIdle DEF WalletIds
<1>5. /\ walletOf[w] = w /\ call[w].op = "initialize" /\ call[w].user = call[r].user
      /\ HeldIn(working, w, call[w].target) # {}
  BY <1>2, <1>3, <1>4, CommittedDone DEF OpenedBy
<1>6. call[w] = InitializeCall(call[w].user) /\ call[r] = InitializeCall(call[r].user)
  BY <1>1, <1>5 DEF LedgerSoundNow, BooksInv, HandlerSound, WalletIds
<1>7. call[w].target = call[r].target
  BY <1>5, <1>6
<1> QED  BY <1>4, <1>5, <1>7

(* Nobody has recorded anything of a wallet before it is committed.        *)
LEMMA NothingOn ==
  ASSUME LedgerSoundNow, NEW r \in Requests, AtWork(r)
  PROVE  On(Committed, r) = {}
<1>. SUFFICES ASSUME NEW q \in Committed, walletOf[q] = r
              PROVE  FALSE
  BY DEF On
<1>1. r \in Committed
  BY DEF LedgerSoundNow, BooksInv, DurableBooks, WalletIds
<1> QED  BY <1>1, CommittedDone DEF AtWork

(* Before the money moves what the transaction holds is balanced by what   *)
(* is committed.                                                           *)
LEMMA BalancedBefore ==
  ASSUME LedgerSoundNow, NEW r \in Requests, AtWork(r), pc[r] \notin {"complete", "finish"}
  PROVE  /\ NotFunded(working) /\ Balanced(working, Committed)
         /\ RowsHoused(working)
         /\ Committed \in SUBSET Requests /\ IsFiniteSet(Committed) /\ r \in Requests \ Committed
<1>1. \A q \in Requests : ~Doomed(q)
  BY OthersIdle DEF Doomed
<1>2. Posted = {}
  BY OthersIdle DEF Posted
<1>3. Committed \cup Posted = Committed
  BY <1>2
<1> QED  BY <1>1, <1>3, OthersIdle DEF LedgerSoundNow, BooksInv, WorkingBooks

(* A new wallet holds no row, and no record is of it.                      *)
LEMMA OpenWalletBooks ==
  ASSUME LedgerSoundNow, adrift' = {}, NEW r \in Requests, OpenWallet(r)
  PROVE  BooksInv'
<1>. DEFINE db == [working EXCEPT !.wallet[r] = call[r].user]
<1>0. pc[r] = "openWallet" /\ AtWork(r)
  BY DEF OpenWallet, AtWork
<1>1. /\ db.balance = working.balance
      /\ \A w \in WalletIds : db.wallet[w] = IF w = r THEN call[r].user ELSE working.wallet[w]
  BY DEF LedgerSoundNow, LedgerInv, TypeOK, Database, WalletIds
<1>2. InTransaction
  BY <1>0, OthersIdle
<1>3. working' = db /\ durable' = durable
  BY <1>2 DEF OpenWallet, Store, LedgerSoundNow, BooksInv
<1>. HIDE DEF db
<1>4. /\ walletOf'[r] = r /\ \A q \in Requests \ {r} : walletOf'[q] = walletOf[q]
      /\ UNCHANGED <<call, interruptions, transactionCount, seen, record, reply>>
  BY DEF OpenWallet, LedgerSoundNow, LedgerInv, TypeOK
<1>5. Proceeds(r, "record") /\ pc'[r] = "record"
  BY <1>0, <1>3, <1>4, OthersDone DEF Proceeds, OpenWallet
<1>6. /\ Committed' = Committed /\ Posted' = {} /\ Committed \in SUBSET Requests
      /\ \A q \in Committed : walletOf'[q] = walletOf[q]
  BY <1>5, ProceedsSettles DEF Committed
<1>7. WorkingBooks
  BY DEF LedgerSoundNow, BooksInv
<1>8. working.wallet[r] = NoUser /\ call[r].user # NoUser
  <2>1. r \notin Committed /\ r \in WalletIds
    BY <1>0, OthersIdle DEF WalletIds
  <2>2. call[r].user \in Users
    BY DEF LedgerSoundNow, LedgerInv, TypeOK, Call
  <2> QED  BY <1>0, <1>7, <2>1, <2>2, LedgerAssumption DEF WorkingBooks
<1>9. /\ RowsOf(working') = RowsOf(working)
      /\ \A w, c : HeldIn(working', w, c) = HeldIn(working, w, c)
      /\ \A w, c : Balance(working', w, c) = Balance(working, w, c)
  BY <1>1, <1>3 DEF RowsOf, HeldIn, Balance
<1>10. \A c \in Currencies : HeldIn(working', r, c) = {}
  <2>1. RowsHoused(working)
    BY <1>7 DEF WorkingBooks
  <2>2. \A c : HeldIn(working, r, c) = {}
    BY <1>8, <2>1 DEF RowsHoused, HeldIn
  <2> QED  BY <1>9, <2>2
<1>11. HandlerSound(r)'
  <2>1. \A c \in Currencies : HeldIn(working, r, c)' = {}
    BY <1>10, HeldIs
  <2>2. HandlerSound(r) /\ ~Exchange(r)'
    BY <1>0, <1>4 DEF HandlerSound, LedgerSoundNow, BooksInv, Exchange
  <2>3. working'.wallet[walletOf'[r]] = call'[r].user
    BY <1>1, <1>3, <1>4 DEF WalletIds
  <2> QED  BY <1>0, <1>4, <1>5, <2>1, <2>2, <2>3 DEF HandlerSound, BetweenReads, Doomed
<1>12. WorkingBooks'
  <2>1. ASSUME NEW q \in Committed'
        PROVE  working'.wallet[walletOf'[q]] # NoUser
    <3>1. working.wallet[walletOf[q]] # NoUser /\ walletOf'[q] = walletOf[q]
      BY <1>6, <1>7, <2>1 DEF WorkingBooks
    <3>2. walletOf[q] \in WalletIds
      <4>1. walletOf[q] # NoWallet /\ q \in Requests
        BY <1>6, <2>1 DEF LedgerSoundNow, BooksInv, DurableBooks
      <4> QED  BY <4>1 DEF LedgerSoundNow, LedgerInv, TypeOK
    <3> QED  BY <1>1, <1>3, <1>8, <3>1, <3>2
  <2>2. ASSUME NEW w \in WalletIds, working'.wallet[w] # NoUser
        PROVE  /\ w \in Committed' \/ pc'[w] \in {"record", "balance", "write", "complete", "finish"}
               /\ OpenedBy(working, w)'
    <3>1. CASE w = r
      <4>1. call[r].op = "initialize"
        BY <1>0 DEF HandlerSound, LedgerSoundNow, BooksInv
      <4> QED  BY <1>1, <1>3, <1>4, <1>5, <2>2, <3>1, <4>1 DEF OpenedBy
    <3>2. CASE w # r
      <4>1. /\ w \in Committed \/ pc[w] \in {"record", "balance", "write", "complete", "finish"}
            /\ OpenedBy(working, w)
        BY <1>1, <1>3, <1>7, <2>2, <3>2 DEF WorkingBooks
      <4>2. w \in Committed /\ pc[w] = "done"
        BY <1>0, <4>1, <3>2, OthersIdle, CommittedDone DEF WalletIds
      <4>3. call'[w] = call[w] /\ walletOf'[w] = walletOf[w] /\ pc'[w] = "done"
        BY <1>0, <1>4, <1>5, <3>2, <4>2, OthersDone DEF Proceeds, WalletIds
      <4>4. HeldIn(working', w, call[w].target) # {} /\ call[w].user = working'.wallet[w]
        BY <1>1, <1>3, <1>9, <3>2, <4>1, <4>2 DEF OpenedBy
      <4> QED  BY <1>4, <1>6, <4>1, <4>2, <4>3, <4>4, OpenedKept DEF OpenedBy
    <3> QED  BY <3>1, <3>2
  <2>3. RowsHoused(working)'
    <3>1. RowsHoused(working')
      <4> SUFFICES ASSUME NEW b \in RowsOf(working')
                   PROVE  working'.wallet[working'.balance[b].wallet] # NoUser
        BY DEF RowsHoused
      <4>1. /\ b \in RowsOf(working) /\ working'.balance[b] = working.balance[b]
            /\ working.wallet[working.balance[b].wallet] # NoUser
        BY <1>1, <1>3, <1>7, <1>9 DEF WorkingBooks, RowsHoused
      <4>2. working.balance[b].wallet \in WalletIds
        BY <4>1 DEF RowsOf, LedgerSoundNow, LedgerInv, TypeOK, Database, Row
      <4> QED  BY <1>1, <1>3, <1>8, <4>1, <4>2
    <3> QED  BY <3>1, HousedIs
  <2>4. NotFunded(working)' /\ Balanced(working, Committed \cup Posted)'
    <3>1. NotFunded(working) /\ Balanced(working, Committed)
      BY <1>0, BalancedBefore
    <3>2. NotFunded(working') /\ Balanced(working', Committed)
      BY <1>1, <1>3, <1>9, <3>1 DEF NotFunded, Balanced
    <3>3. Committed' \cup Posted' = Committed
      BY <1>6
    <3> QED  BY <1>4, <1>6, <3>2, <3>3, BalancedIs, NotFundedIs
  <2> QED  BY <2>1, <2>2, <2>3, <2>4 DEF WorkingBooks
<1> QED  BY <1>5, <1>11, <1>12, ProceedsBooks

(* A balance that is created where none was is the only one there.         *)
LEMMA WithRowHeld ==
  ASSUME LedgerInv, UniqueIn(working), NEW r \in Requests, NEW side \in Sides,
         NEW money \in Int, walletOf[r] # NoWallet, Missing(r, side),
         UniqueIn(WithRow(r, side, money))
  PROVE  LET db == WithRow(r, side, money)
             W == walletOf[r]
             C == CurrencyOf(r, side)
         IN  /\ db \in Database /\ db.wallet = working.wallet
             /\ <<r, side>> \notin RowsOf(working)
             /\ RowsOf(db) = RowsOf(working) \cup {<<r, side>>}
             /\ \A b \in RowsOf(working) : db.balance[b] = working.balance[b]
             /\ db.balance[<<r, side>>].wallet = W
             /\ \A w, c : HeldIn(db, w, c) = IF w = W /\ c = C THEN {<<r, side>>}
                                             ELSE HeldIn(working, w, c)
             /\ HeldIn(working, W, C) = {} /\ Balance(working, W, C) = 0
             /\ \A w, c : Balance(db, w, c) = IF w = W /\ c = C THEN money
                                              ELSE Balance(working, w, c)
<1>. DEFINE db == WithRow(r, side, money)
            W == walletOf[r]
            C == CurrencyOf(r, side)
            id == <<r, side>>
            row == [wallet |-> W, currency |-> C, amount |-> money, availableAmount |-> money]
<1>0. working \in Database /\ TypeOK
  BY DEF LedgerInv, TypeOK
<1>1. HeldIn(working, W, C) = {}
  BY DEF Missing, BalancesOf, HeldIn, RowsOf
<1>2. id \in BalanceIds /\ id[1] = r /\ id[2] = side
  BY DEF BalanceIds
<1>3. id \notin RowsOf(working)
  <2> SUFFICES ASSUME id \in RowsOf(working)  PROVE FALSE
    OBVIOUS
  <2>1. RowSound(id, working.balance[id])
    BY DEF LedgerInv, DatabaseSound
  <2>2. working.balance[id].wallet = W /\ working.balance[id].currency = C
    BY <1>2, <2>1 DEF RowSound
  <2> QED  BY <1>1, <2>2 DEF HeldIn
<1>4. /\ db \in Database
      /\ \A b \in BalanceIds : db.balance[b] = IF b = id THEN row ELSE working.balance[b]
  BY <1>0, WithRowIs
<1>5. db.wallet = working.wallet
  BY <1>0 DEF WithRow, Database
<1>6. row.wallet = W /\ row.currency = C /\ row.availableAmount = money
  OBVIOUS
<1>7. row # NoRow
  <2>1. row \in Row
    BY <1>0, <1>2 DEF TypeOK, Row, Call, CurrencyOf
  <2> QED  BY <2>1, NullAssumption
<1>. HIDE DEF db, id, row
<1>8. RowsOf(db) = RowsOf(working) \cup {id}
  BY <1>2, <1>4, <1>7 DEF RowsOf
<1>9. \A b \in RowsOf(working) : db.balance[b] = working.balance[b]
  BY <1>3, <1>4 DEF RowsOf
<1>10. db.balance[id] = row
  BY <1>2, <1>4
<1>11. ASSUME NEW w, NEW c
       PROVE  HeldIn(db, w, c) = IF w = W /\ c = C THEN {id} ELSE HeldIn(working, w, c)
  <2>1. \A b : b \in HeldIn(db, w, c) <=> \/ b \in HeldIn(working, w, c)
                                          \/ b = id /\ w = W /\ c = C
    BY <1>3, <1>6, <1>8, <1>9, <1>10 DEF HeldIn
  <2>2. CASE w = W /\ c = C
    BY <1>1, <2>1, <2>2
  <2>3. CASE ~(w = W /\ c = C)
    <3>1. \A b : b \in HeldIn(db, w, c) <=> b \in HeldIn(working, w, c)
      BY <2>1, <2>3
    <3>2. HeldIn(db, w, c) = HeldIn(working, w, c)
      BY <3>1
    <3> QED  BY <2>3, <3>2
  <2> QED  BY <2>2, <2>3
<1>12. Balance(working, W, C) = 0
  BY <1>0, <1>1, BalanceIs
<1>13. ASSUME NEW w, NEW c
       PROVE  Balance(db, w, c) = IF w = W /\ c = C THEN money ELSE Balance(working, w, c)
  <2>0. UniqueIn(db)
    BY DEF db
  <2>1. CASE w = W /\ c = C
    <3>1. id \in HeldIn(db, w, c)
      BY <1>11, <2>1
    <3> QED  BY <1>4, <1>6, <1>10, <2>0, <2>1, <3>1, BalanceIs
  <2>2. CASE ~(w = W /\ c = C)
    <3>1. HeldIn(db, w, c) = HeldIn(working, w, c)
      BY <1>11, <2>2
    <3>2. \A b \in HeldIn(working, w, c) :
            db.balance[b].availableAmount = working.balance[b].availableAmount
      BY <1>9 DEF HeldIn
    <3>3. Balance(db, w, c) = Balance(working, w, c)
      BY <1>0, <1>4, <2>0, <3>1, <3>2, BalanceSame
    <3> QED  BY <2>2, <3>3
  <2> QED  BY <2>1, <2>2
<1> QED  BY <1>1, <1>3, <1>4, <1>5, <1>6, <1>8, <1>9, <1>10, <1>11, <1>12, <1>13 DEF db, id

(* An update changes one balance and no keys.                              *)
LEMMA UpdatedHeld ==
  ASSUME NEW db \in Database, UniqueIn(db), NEW id \in RowsOf(db), NEW a \in Int, NEW v \in Int
  PROVE  LET new == Updated(db, id, a, v)
         IN  /\ new \in Database /\ new.wallet = db.wallet /\ UniqueIn(new)
             /\ RowsOf(new) = RowsOf(db)
             /\ \A b \in RowsOf(db) : new.balance[b].wallet = db.balance[b].wallet
             /\ \A b \in RowsOf(db) : b # id => new.balance[b] = db.balance[b]
             /\ \A w, c : HeldIn(new, w, c) = HeldIn(db, w, c)
             /\ \A w, c : Balance(new, w, c) = IF id \in HeldIn(db, w, c) THEN v
                                               ELSE Balance(db, w, c)
<1>. DEFINE new == Updated(db, id, a, v)
            row == [wallet |-> db.balance[id].wallet, currency |-> db.balance[id].currency,
                    amount |-> a, availableAmount |-> v]
<1>0. id \in BalanceIds /\ db.balance[id] # NoRow
  BY DEF RowsOf
<1>1. /\ new \in Database
      /\ \A b \in BalanceIds : new.balance[b] = IF b = id THEN row ELSE db.balance[b]
  BY <1>0, UpdatedIs
<1>2. new.wallet = db.wallet
  BY DEF Updated, Database
<1>3. UniqueIn(new)
  BY <1>0, UpdatedUnique
<1>4. row.wallet = db.balance[id].wallet /\ row.currency = db.balance[id].currency
      /\ row.availableAmount = v
  OBVIOUS
<1>5. row # NoRow
  <2>1. db.balance[id] \in Row
    BY <1>0 DEF Database
  <2>2. row \in Row
    BY <2>1 DEF Row
  <2> QED  BY <2>2, NullAssumption
<1>. HIDE DEF new, row
<1>6. RowsOf(new) = RowsOf(db)
  BY <1>0, <1>1, <1>5 DEF RowsOf
<1>7. \A b \in RowsOf(db) : b # id => new.balance[b] = db.balance[b]
  BY <1>1 DEF RowsOf
<1>8. new.balance[id] = row
  BY <1>0, <1>1
<1>9. \A b \in RowsOf(db) : /\ new.balance[b].wallet = db.balance[b].wallet
                            /\ new.balance[b].currency = db.balance[b].currency
  BY <1>4, <1>7, <1>8
<1>10. \A w, c : HeldIn(new, w, c) = HeldIn(db, w, c)
  BY <1>6, <1>9 DEF HeldIn
<1>11. ASSUME NEW w, NEW c
       PROVE  Balance(new, w, c) = IF id \in HeldIn(db, w, c) THEN v ELSE Balance(db, w, c)
  <2>1. CASE id \in HeldIn(db, w, c)
    <3>1. id \in HeldIn(new, w, c)
      BY <1>10, <2>1
    <3>2. Balance(new, w, c) = new.balance[id].availableAmount
      BY <1>1, <1>3, <3>1, BalanceIs
    <3> QED  BY <1>4, <1>8, <2>1, <3>2
  <2>2. CASE id \notin HeldIn(db, w, c)
    <3>1. \A b \in HeldIn(db, w, c) :
            new.balance[b].availableAmount = db.balance[b].availableAmount
      BY <1>7, <2>2 DEF HeldIn
    <3>2. Balance(new, w, c) = Balance(db, w, c)
      BY <1>1, <1>3, <1>10, <3>1, BalanceSame
    <3> QED  BY <2>2, <3>2
  <2> QED  BY <2>1, <2>2
<1> QED  BY <1>1, <1>2, <1>3, <1>6, <1>7, <1>9, <1>10, <1>11 DEF new

(* A verification that finds the first deposit made leaves it as it is,    *)
(* and its record adds nothing: the wallet was opened by another one.      *)
LEMMA ReadBalanceBooks ==
  ASSUME LedgerSoundNow, adrift' = {}, NEW r \in Requests, ReadBalance(r)
  PROVE  BooksInv'
<1>0. pc[r] = "balance" /\ AtWork(r) /\ ~Exchange(r) /\ HandlerSound(r)
  BY DEF ReadBalance, AtWork, LedgerSoundNow, LedgerInv, PositionSound, BooksInv
<1>1. PICK t \in Reads(r, "target") :
        /\ seen' = [seen EXCEPT ![r]["target"] = t]
        /\ Goto(r, IF call[r].op = "initialize" /\ t # NoRow THEN "complete" ELSE "write")
  BY DEF ReadBalance
<1>2. seen'[r]["target"] = t /\ \A q \in Requests \ {r} : seen'[q] = seen[q]
  BY <1>1 DEF LedgerSoundNow, LedgerInv, TypeOK, Sides
<1>3. UNCHANGED <<aside, durable, working, transactionCount, walletOf, record, reply>>
  BY DEF ReadBalance
<1>4. ~Exchange(r)' /\ ~Doomed(r)
  BY <1>0, <1>3 DEF Exchange, Doomed
<1>5. CASE ~(call[r].op = "initialize" /\ t # NoRow)
  <2>1. Proceeds(r, "write") /\ pc'[r] = "write"
    BY <1>0, <1>1, <1>2, <1>3, <1>5, OthersDone DEF Proceeds
  <2>2. Fresh(r, "target")'
    BY <1>2, <1>3, FreshIs DEF Sides
  <2>3. walletOf[r] = r => \A c \in Currencies : HeldIn(working, r, c)' = {}
    BY <1>0, <1>3, EmptyIs DEF HandlerSound
  <2>4. HandlerSound(r)'
    BY <1>0, <1>2, <1>3, <1>4, <1>5, <2>1, <2>2, <2>3 DEF HandlerSound, BetweenReads
  <2> QED  BY <1>0, <1>3, <2>1, <2>4, ReadingBooks
<1>6. CASE call[r].op = "initialize" /\ t # NoRow
  <2>1. Proceeds(r, "complete") /\ pc'[r] = "complete"
    BY <1>0, <1>1, <1>2, <1>3, <1>6, OthersDone DEF Proceeds
  <2>2. HandlerSound(r)'
    BY <1>0, <1>3, <1>4, <1>6, <2>1 DEF HandlerSound, BetweenReads
  <2>3. call[r].target \in Currencies
    BY DEF LedgerSoundNow, LedgerInv, TypeOK, Call
  <2>4. walletOf[r] # r
    <3>1. t.id \in HeldIn(working, walletOf[r], call[r].target)
      BY <1>6, ReadFresh DEF Sides, CurrencyOf
    <3> QED  BY <1>0, <2>3, <3>1 DEF HandlerSound
  <2>5. /\ NotFunded(working) /\ Balanced(working, Committed) /\ RowsHoused(working)
        /\ Committed \in SUBSET Requests /\ IsFiniteSet(Committed) /\ r \in Requests \ Committed
    BY <1>0, BalancedBefore
  <2>6. Balanced(working, Committed \cup {r})
    <3>1. \E q \in Committed : /\ walletOf[q] = walletOf[r] /\ call[q].op = "initialize"
                             /\ call[q].target = call[r].target
      BY <1>0, <1>6, <2>4, Reopened
    <3>2. TypeOK
      BY DEF LedgerSoundNow, LedgerInv
    <3>3. \A w \in WalletIds, c \in Currencies :
            Recounted(Committed \cup {r}, w, c) = Recounted(Committed, w, c)
      BY <1>6, <2>5, <3>1, <3>2, RecountedAgain
    <3> QED  BY <2>5, <3>3 DEF Balanced
  <2> QED  BY <1>3, <2>1, <2>2, <2>4, <2>5, <2>6, WritingBooks
<1> QED  BY <1>5, <1>6

(* An exchange that creates a balance leaves the books as they are: it is  *)
(* empty, and the other one that was read is not touched.                  *)
LEMMA MakeBalanceBooks ==
  ASSUME LedgerSoundNow, adrift' = {}, LedgerInv', NEW r \in Requests, NEW side \in Sides,
         MakeBalance(r, side, IF side = "source" THEN "makeSource" ELSE "makeTarget",
                              IF side = "source" THEN "rereadSource" ELSE "rereadTarget")
  PROVE  BooksInv'
<1>. DEFINE from == IF side = "source" THEN "makeSource" ELSE "makeTarget"
            to == IF side = "source" THEN "rereadSource" ELSE "rereadTarget"
            db == WithRow(r, side, 0)
            W == walletOf[r]
            C == CurrencyOf(r, side)
<1>0. /\ pc[r] = from /\ pc[r] \in BetweenReads /\ AtWork(r)
      /\ pc[r] \notin {"record", "balance", "write", "complete", "finish"}
      /\ to \in BetweenReads /\ to \notin {"record", "balance", "write", "complete", "finish"}
  BY DEF MakeBalance, AtWork, BetweenReads
<1>1. CASE Fail(r)
  BY <1>0, <1>1, FailBooks
<1>2. CASE CanCreate(r) /\ Store(db) /\ Goto(r, to)
           /\ UNCHANGED <<call, interruptions, transactionCount, walletOf, seen, record, reply>>
  <2>1. HandlerSound(r) /\ Exchange(r) /\ Fresh(r, "source") /\ Fresh(r, "target")
    BY <1>0 DEF LedgerSoundNow, BooksInv, HandlerSound
  <2>2. W # NoWallet /\ W \in WalletIds /\ TypeOK /\ LedgerInv /\ UniqueIn(working)
    BY <1>0 DEF LedgerSoundNow, LedgerInv, PositionSound, BetweenReads, PCs, TypeOK, UniqueInv
  <2>3. Missing(r, side)
    BY <1>0 DEF LedgerSoundNow, UniqueInv, StillMissing, Sides
  <2>4. UniqueIn(db)
    BY <2>2, <2>3, WithRowUnique
  <2>5. /\ db \in Database /\ db.wallet = working.wallet
        /\ <<r, side>> \notin RowsOf(working)
        /\ RowsOf(db) = RowsOf(working) \cup {<<r, side>>}
        /\ \A b \in RowsOf(working) : db.balance[b] = working.balance[b]
        /\ db.balance[<<r, side>>].wallet = W
        /\ \A w, c : HeldIn(db, w, c) = IF w = W /\ c = C THEN {<<r, side>>}
                                        ELSE HeldIn(working, w, c)
        /\ HeldIn(working, W, C) = {} /\ Balance(working, W, C) = 0
        /\ \A w, c : Balance(db, w, c) = IF w = W /\ c = C THEN 0
                                         ELSE Balance(working, w, c)
    BY <2>2, <2>3, <2>4, WithRowHeld
  <2>6. working' = db /\ durable' = durable
    BY <1>0, <1>2, OthersIdle DEF Store, LedgerSoundNow, BooksInv
  <2>. HIDE DEF db, to, from, W, C
  <2>7. Proceeds(r, to) /\ pc'[r] = to
    BY <1>0, <1>2, <2>6, OthersDone DEF Proceeds, BetweenReads
  <2>8. ASSUME NEW d \in Sides, Fresh(r, d) PROVE Fresh(r, d)'
    <3>. DEFINE s == seen[r][d]
    <3>. SUFFICES ASSUME s # NoRow
                  PROVE  /\ s.id \in HeldIn(working, walletOf[r], CurrencyOf(r, d))'
                         /\ working'.balance[s.id].availableAmount = s.availableAmount
      BY <1>2 DEF Fresh
    <3>1. /\ s.id \in HeldIn(working, W, CurrencyOf(r, d))
          /\ working.balance[s.id].availableAmount = s.availableAmount
      BY <2>8 DEF Fresh, W
    <3>2. CurrencyOf(r, d) # C
      BY <2>5, <3>1
    <3>3. s.id \in HeldIn(working', W, CurrencyOf(r, d)) /\ s.id \in RowsOf(working)
      BY <2>5, <2>6, <3>1, <3>2 DEF HeldIn
    <3>4. HeldIn(working, walletOf[r], CurrencyOf(r, d))' = HeldIn(working', W, CurrencyOf(r, d))
      BY <1>2 DEF HeldIn, RowsOf, CurrencyOf, W
    <3> QED  BY <2>5, <2>6, <3>1, <3>3, <3>4
  <2>9. HandlerSound(r)'
    <3>1. Fresh(r, "source")' /\ Fresh(r, "target")'
      BY <2>1, <2>8 DEF Sides
    <3>2. Exchange(r)'
      BY <1>2, <2>1 DEF Exchange
    <3>3. /\ working'.wallet = working.wallet
          /\ pc[r] \notin {"absent", "wallet", "openWallet", "done"}
          /\ pc'[r] \notin {"openWallet", "record", "balance", "write", "complete", "finish"}
          /\ reply'[r] = "none"
      BY <1>0, <1>2, <2>1, <2>5, <2>6, <2>7, OthersIdle DEF BetweenReads
    <3> QED  BY <1>0, <1>2, <2>1, <2>7, <3>1, <3>2, <3>3 DEF HandlerSound
  <2>10. RowsHoused(working')
    <3>1. RowsHoused(working) /\ working.wallet[W] # NoUser
      BY <1>0, <1>2, BalancedBefore DEF CanCreate, W, BetweenReads
    <3> QED  BY <2>5, <2>6, <3>1 DEF RowsHoused
  <2>11. NotFunded(working') /\ Balanced(working', Committed)
    <3>1. NotFunded(working) /\ Balanced(working, Committed)
      BY <1>0, BalancedBefore
    <3>2. <<r, side>>[1] = r /\ call[r].op # "fund"
      BY <2>1 DEF Exchange
    <3>3. NotFunded(working')
      BY <2>5, <2>6, <3>1, <3>2 DEF NotFunded
    <3> QED  BY <2>5, <2>6, <3>1, <3>3 DEF Balanced
  <2>12. \A w \in WalletIds, c \in Currencies :
           HeldIn(working, w, c) # {} => HeldIn(working', w, c) # {}
    BY <2>5, <2>6
  <2>13. /\ to \notin {"complete", "finish"} /\ UNCHANGED walletOf
         /\ Committed \cup {} = Committed
    BY <1>0, <1>2
  <2> QED  BY <1>0, <2>5, <2>6, <2>7, <2>9, <2>10, <2>11, <2>12, <2>13, WritingBooks
<1> QED  BY <1>1, <1>2 DEF MakeBalance

(* A credit of a balance that was read fresh.                              *)
LEMMA CreditHeld ==
  ASSUME NEW db \in Database, UniqueIn(db), NEW r \in Requests,
         LedgerInv, seen[r]["target"] # NoRow, seen[r]["target"].availableAmount >= 0,
         NEW w, seen[r]["target"].id \in HeldIn(db, w, call[r].target)
  PROVE  LET t == seen[r]["target"]
             new == Credited(db, t, call[r].amount)
         IN  /\ new \in Database /\ new.wallet = db.wallet
             /\ RowsOf(new) = RowsOf(db)
             /\ \A b \in RowsOf(db) : new.balance[b].wallet = db.balance[b].wallet
             /\ \A v, c : HeldIn(new, v, c) = HeldIn(db, v, c)
             /\ \A v, c : Balance(new, v, c) =
                  IF v = w /\ c = call[r].target THEN t.availableAmount + Carry(call[r].amount)
                                                 ELSE Balance(db, v, c)
<1>. DEFINE t == seen[r]["target"]
            x == call[r].amount
<1>1. t \in Snapshot /\ t.amount \in Int /\ t.availableAmount \in Int
  BY DEF LedgerInv, TypeOK, Sides, Snapshot
<1>2. t.id \in RowsOf(db)
  BY DEF HeldIn
<1>3. Plus(t.amount, x) \in Int /\ Plus(t.availableAmount, x) \in Int
  BY <1>1, PlusSound
<1>4. Plus(t.availableAmount, x) = t.availableAmount + Carry(x)
  BY DEF Plus
<1>5. \A v, c : t.id \in HeldIn(db, v, c) <=> v = w /\ c = call[r].target
  BY DEF HeldIn
<1>6. Credited(db, t, x) = Updated(db, t.id, Plus(t.amount, x), Plus(t.availableAmount, x))
  BY DEF Credited
<1>. HIDE DEF t, x
<1> QED  BY <1>2, <1>3, <1>4, <1>5, <1>6, UpdatedHeld DEF t, x

(* Balances made by deposits aside, none is below zero.                    *)
LEMMA ReadCredit ==
  ASSUME LedgerSoundNow, NEW r \in Requests, seen[r]["target"] # NoRow, Fresh(r, "target"),
         NotFunded(working)
  PROVE  /\ seen[r]["target"].availableAmount >= 0
         /\ seen[r]["target"].id \in HeldIn(working, walletOf[r], call[r].target)
         /\ Balance(working, walletOf[r], call[r].target) = seen[r]["target"].availableAmount
<1>. DEFINE t == seen[r]["target"]
<1>1. /\ t.id \in HeldIn(working, walletOf[r], call[r].target)
      /\ working.balance[t.id].availableAmount = t.availableAmount
  BY DEF Fresh, CurrencyOf
<1>2. working \in Database /\ UniqueIn(working)
  BY DEF LedgerSoundNow, LedgerInv, TypeOK, UniqueInv
<1>3. Balance(working, walletOf[r], call[r].target) = t.availableAmount
  BY <1>1, <1>2, BalanceIs
<1>4. t.id \in RowsOf(working) /\ RowSound(t.id, working.balance[t.id])
  BY <1>1 DEF HeldIn, LedgerSoundNow, LedgerInv, DatabaseSound
<1>5. call[t.id[1]].op # "fund"
  BY <1>4 DEF NotFunded
<1>6. t.availableAmount >= 0
  BY <1>1, <1>4, <1>5 DEF RowSound, MoneySound, NegativeFund
<1> QED  BY <1>1, <1>3, <1>6

(* A deposit credits what it read by what its record says, or makes the    *)
(* first deposit into an empty wallet; one that makes another balance will *)
(* not stay.                                                               *)
LEMMA DepositBooks ==
  ASSUME LedgerSoundNow, adrift' = {}, LedgerInv', NEW r \in Requests, Deposit(r)
  PROVE  BooksInv'
<1>. DEFINE t == seen[r]["target"]
            x == call[r].amount
            W == walletOf[r]
            C == call[r].target
            db == IF t = NoRow THEN WithRow(r, "target", x) ELSE Credited(working, t, x)
<1>0. /\ pc[r] = "write" /\ AtWork(r) /\ ~Exchange(r) /\ HandlerSound(r) /\ LedgerInv /\ TypeOK
      /\ UniqueIn(working) /\ working \in Database
  BY DEF Deposit, AtWork, LedgerSoundNow, LedgerInv, TypeOK, UniqueInv, BooksInv
<1>1. CASE Fail(r)
  BY <1>0, <1>1, FailBooks
<1>2. CASE DepositAccepted(r) /\ Store(db) /\ Goto(r, "complete")
           /\ UNCHANGED <<call, interruptions, transactionCount, walletOf, seen, record, reply>>
  <2>1. W # NoWallet /\ W \in WalletIds /\ C \in Currencies /\ x \in Int
    BY <1>0 DEF LedgerInv, PositionSound, PCs, TypeOK, Call
  <2>2. working' = db /\ durable' = durable
    BY <1>0, <1>2, OthersIdle DEF Store, LedgerSoundNow, BooksInv
  <2>. HIDE DEF db
  <2>3. Proceeds(r, "complete") /\ pc'[r] = "complete"
    BY <1>0, <1>2, <2>2, OthersDone DEF Proceeds
  <2>4. /\ NotFunded(working) /\ Balanced(working, Committed) /\ RowsHoused(working)
        /\ Committed \in SUBSET Requests /\ IsFiniteSet(Committed) /\ r \in Requests \ Committed
    BY <1>0, BalancedBefore
  <2>5. working.wallet[W] = call[r].user /\ working.wallet[W] # NoUser
    BY <1>0, LedgerAssumption DEF HandlerSound, TypeOK, Call
  <2>6. ASSUME working'.wallet = working.wallet
        PROVE  HandlerSound(r)'
    <3>1. call[r].op # "initialize" => call[r].op = "fund"
      BY <1>0 DEF Exchange, TypeOK, Call, Ops
    <3>2. call[r].op # "initialize" /\ ~Doomed(r)' => Appendable(call[r].amount)
      BY <1>2, <2>3, <3>1 DEF Doomed, DepositAccepted
    <3>. HIDE DEF t, x, W, C
    <3> QED  BY <1>0, <1>2, <2>3, <2>5, <2>6, <3>1, <3>2
             DEF HandlerSound, BetweenReads, Exchange, W
  <2>7. CASE t = NoRow
    <3>1. Missing(r, "target")
      BY <1>0, <2>7 DEF LedgerSoundNow, UniqueInv, StillMissing
    <3>2. UniqueIn(WithRow(r, "target", x))
      BY <1>0, <2>1, <3>1, WithRowUnique DEF Sides
    <3>3. /\ db \in Database /\ db.wallet = working.wallet
          /\ RowsOf(db) = RowsOf(working) \cup {<<r, "target">>}
          /\ \A b \in RowsOf(working) : db.balance[b] = working.balance[b]
          /\ db.balance[<<r, "target">>].wallet = W
          /\ \A w, c : HeldIn(db, w, c) = IF w = W /\ c = C THEN {<<r, "target">>}
                                          ELSE HeldIn(working, w, c)
          /\ \A w, c : Balance(db, w, c) = IF w = W /\ c = C THEN x
                                           ELSE Balance(working, w, c)
      <4>1. CurrencyOf(r, "target") = C
        BY DEF CurrencyOf
      <4>2. db = WithRow(r, "target", x) /\ "target" \in Sides
        BY <2>7 DEF db, Sides
      <4>. DEFINE new == WithRow(r, "target", x)
                  D == CurrencyOf(r, "target")
      <4>3. /\ new \in Database /\ new.wallet = working.wallet
            /\ RowsOf(new) = RowsOf(working) \cup {<<r, "target">>}
            /\ \A b \in RowsOf(working) : new.balance[b] = working.balance[b]
            /\ new.balance[<<r, "target">>].wallet = W
            /\ \A w, c : HeldIn(new, w, c) = IF w = W /\ c = D THEN {<<r, "target">>}
                                             ELSE HeldIn(working, w, c)
            /\ \A w, c : Balance(new, w, c) = IF w = W /\ c = D THEN x
                                              ELSE Balance(working, w, c)
        BY <1>0, <2>1, <3>1, <3>2, <4>2, WithRowHeld
      <4>. HIDE DEF new, D, W, C, x, t
      <4>4. db = new /\ D = C
        BY <4>1, <4>2 DEF new, D
      <4> QED  BY <4>3, <4>4, Zenon
    <3>4. HandlerSound(r)'
      BY <2>2, <2>6, <3>3
    <3>5. RowsHoused(working')
      BY <2>2, <2>4, <2>5, <3>3 DEF RowsHoused
    <3>6. \A w \in WalletIds, c \in Currencies :
            HeldIn(working, w, c) # {} => HeldIn(working', w, c) # {}
      BY <2>2, <3>3
    <3>7. HeldIn(working', W, C) # {}
      BY <2>2, <3>3
    <3>8. ASSUME ~Doomed(r)'
          PROVE  NotFunded(working') /\ Balanced(working', Committed \cup {r})
      <4>1. call[r].op = "initialize" /\ x = InitialDeposit
        BY <1>0, <1>2, <2>3, <2>7, <3>8
           DEF Doomed, Exchange, TypeOK, Call, Ops, LedgerInv, PositionSound
      <4>2. NotFunded(working')
        <5>1. <<r, "target">>[1] = r
          OBVIOUS
        <5> QED  BY <2>2, <2>4, <3>3, <4>1, <5>1 DEF NotFunded
      <4>3. W = r
        <5>. SUFFICES ASSUME W # r  PROVE FALSE
          OBVIOUS
        <5>1. HeldIn(working, W, C) # {}
          BY <1>0, <4>1, Reopened
        <5> QED  BY <3>1, <5>1 DEF Missing, BalancesOf, HeldIn, RowsOf, CurrencyOf
      <4>4. On(Committed, r) = {}
        BY <1>0, NothingOn
      <4>5. ASSUME NEW w \in WalletIds, NEW c \in Currencies
            PROVE  Balance(working', w, c) = Recounted(Committed \cup {r}, w, c)
        <5>1. CASE w = W /\ c = C
          BY <1>0, <2>2, <2>4, <3>3, <4>1, <4>3, <4>4, <5>1, RecountedOpening
        <5>2. CASE ~(w = W /\ c = C)
          <6>1. Recounted(Committed \cup {r}, w, c) = Recounted(Committed, w, c)
            BY <1>0, <2>4, <4>1, <5>2, RecountedAgain
          <6> QED  BY <2>2, <2>4, <3>3, <5>2, <6>1 DEF Balanced
        <5> QED  BY <5>1, <5>2
      <4> QED  BY <4>2, <4>5 DEF Balanced
    <3>9. UNCHANGED walletOf /\ working'.wallet = working.wallet
      BY <1>2, <2>2, <3>3
    <3>. HIDE DEF x, t
    <3> QED  BY <2>3, <3>4, <3>5, <3>6, <3>7, <3>8, <3>9, WritingBooks
  <2>8. CASE t # NoRow
    <3>1. Fresh(r, "target") /\ call[r].op = "fund"
      BY <1>0, <2>8 DEF HandlerSound, Exchange, TypeOK, Call, Ops
    <3>2. /\ t.availableAmount >= 0 /\ t.id \in HeldIn(working, W, C)
          /\ Balance(working, W, C) = t.availableAmount
      BY <2>4, <2>8, <3>1, ReadCredit
    <3>3. /\ db \in Database /\ db.wallet = working.wallet
          /\ RowsOf(db) = RowsOf(working)
          /\ \A b \in RowsOf(working) : db.balance[b].wallet = working.balance[b].wallet
          /\ \A w, c : HeldIn(db, w, c) = HeldIn(working, w, c)
          /\ \A w, c : Balance(db, w, c) =
               IF w = W /\ c = C THEN t.availableAmount + Carry(x) ELSE Balance(working, w, c)
      BY <1>0, <2>8, <3>2, CreditHeld DEF db
    <3>4. HandlerSound(r)'
      BY <2>2, <2>6, <3>3
    <3>5. RowsHoused(working')
      BY <2>2, <2>4, <3>3 DEF RowsHoused
    <3>6. NotFunded(working')
      BY <2>2, <2>4, <3>3 DEF NotFunded
    <3>7. ASSUME NEW w \in WalletIds, NEW c \in Currencies
          PROVE  Balance(working', w, c) = Recounted(Committed \cup {r}, w, c)
      <4>1. Recounted(Committed \cup {r}, w, c) =
              Recounted(Committed, w, c) + IF W = w THEN In(r, c) - Out(r, c) ELSE 0
        BY <1>0, <2>4, <3>1, RecountedMoved
      <4>2. Balance(working, w, c) = Recounted(Committed, w, c) /\ Recounted(Committed, w, c) \in Int
        BY <1>0, <2>4, RecountedTyped DEF Balanced
      <4>3. Out(r, c) = 0 /\ In(r, c) = IF c = C THEN Carry(x) ELSE 0
        BY <1>0, <3>1 DEF In, Out
      <4>4. Carry(x) \in Int
        BY DEF Carry
      <4>5. CASE w = W /\ c = C
        BY <2>2, <3>2, <3>3, <4>1, <4>2, <4>3, <4>4, <4>5
      <4>6. CASE ~(w = W /\ c = C)
        BY <2>2, <3>3, <4>1, <4>2, <4>3, <4>6
      <4> QED  BY <4>5, <4>6
    <3>8. Balanced(working', Committed \cup {r})
      BY <3>7 DEF Balanced
    <3>9. UNCHANGED walletOf /\ working'.wallet = working.wallet
      BY <1>2, <2>2, <3>3
    <3>. HIDE DEF x, t
    <3>10. \A w \in WalletIds, c \in Currencies :
             HeldIn(working, w, c) # {} => HeldIn(working', w, c) # {}
      BY <2>2, <3>3
    <3>11. call[r].op # "initialize"
      BY <3>1
    <3> QED  BY <2>3, <3>4, <3>5, <3>6, <3>8, <3>9, <3>10, <3>11, WritingBooks
  <2> QED  BY <2>7, <2>8
<1> QED  BY <1>1, <1>2 DEF Deposit

(* An exchange writes both balances as it read them, less what leaves the  *)
(* one and more what its record says of the other.                         *)
LEMMA MoveFundsBooks ==
  ASSUME LedgerSoundNow, adrift' = {}, LedgerInv', NEW r \in Requests, MoveFunds(r)
  PROVE  BooksInv'
<1>. DEFINE s == seen[r]["source"]
            t == seen[r]["target"]
            x == call[r].amount
            W == walletOf[r]
            A == call[r].source
            C == call[r].target
            debited == Debited(working, s, x)
            db == Credited(debited, t, x)
<1>0. /\ pc[r] = "write" /\ AtWork(r) /\ Exchange(r) /\ HandlerSound(r) /\ LedgerInv /\ TypeOK
      /\ UniqueIn(working) /\ working \in Database /\ InTransaction
  BY OthersIdle DEF MoveFunds, AtWork, LedgerSoundNow, LedgerInv, TypeOK, UniqueInv, BooksInv
<1>1. CASE Fail(r)
  BY <1>0, <1>1, FailBooks
<1>2. CASE CreditAccepted(r) /\ Store(db) /\ Goto(r, "complete")
           /\ UNCHANGED <<call, interruptions, transactionCount, walletOf, seen, record, reply>>
  <2>1. /\ W \in WalletIds /\ A \in Currencies /\ C \in Currencies /\ x \in Int
        /\ s # NoRow /\ t # NoRow /\ s \in Snapshot
    <3>1. Sufficient(r) /\ W # NoWallet
      BY <1>0 DEF LedgerInv, PositionSound, PCs
    <3> QED  BY <1>0, <3>1 DEF TypeOK, Call, Sides, Sufficient
  <2>2. working' = db /\ durable' = durable
    <3>1. adrift = {}
      BY DEF LedgerSoundNow, BooksInv
    <3> QED  BY <1>0, <1>2, <3>1 DEF Store
  <2>. HIDE DEF db
  <2>3. Proceeds(r, "complete") /\ pc'[r] = "complete"
    BY <1>0, <1>2, <2>2, OthersDone DEF Proceeds
  <2>4. /\ NotFunded(working) /\ Balanced(working, Committed) /\ RowsHoused(working)
        /\ Committed \in SUBSET Requests /\ IsFiniteSet(Committed) /\ r \in Requests \ Committed
    BY <1>0, BalancedBefore
  <2>5. working.wallet[W] = call[r].user /\ A # C
    BY <1>0 DEF HandlerSound
  <2>6. Fresh(r, "source") /\ Fresh(r, "target")
    BY <1>0 DEF HandlerSound
  <2>7. /\ s.id \in HeldIn(working, W, A) /\ s.id \in RowsOf(working)
        /\ Balance(working, W, A) = s.availableAmount
        /\ s.amount \in Int /\ s.availableAmount \in Int
    <3>1. /\ s.id \in HeldIn(working, W, A)
          /\ working.balance[s.id].availableAmount = s.availableAmount
      BY <2>1, <2>6 DEF Fresh, CurrencyOf
    <3>2. Balance(working, W, A) = s.availableAmount
      BY <1>0, <3>1, BalanceIs
    <3>3. s.amount \in Int /\ s.availableAmount \in Int
      BY <2>1 DEF Snapshot
    <3> QED  BY <3>1, <3>2, <3>3 DEF HeldIn
  <2>8. /\ t.availableAmount >= 0 /\ t.id \in HeldIn(working, W, C)
        /\ Balance(working, W, C) = t.availableAmount
    BY <2>1, <2>4, <2>6, ReadCredit
  <2>9. /\ debited \in Database /\ debited.wallet = working.wallet /\ UniqueIn(debited)
        /\ RowsOf(debited) = RowsOf(working)
        /\ \A b \in RowsOf(working) : debited.balance[b].wallet = working.balance[b].wallet
        /\ \A w, c : HeldIn(debited, w, c) = HeldIn(working, w, c)
        /\ \A w, c : Balance(debited, w, c) =
             IF w = W /\ c = A THEN s.availableAmount - x ELSE Balance(working, w, c)
    <3>1. s.amount - x \in Int /\ s.availableAmount - x \in Int
      BY <2>1, <2>7
    <3>2. \A w, c : s.id \in HeldIn(working, w, c) <=> w = W /\ c = A
      BY <2>7 DEF HeldIn
    <3>3. debited = Updated(working, s.id, s.amount - x, s.availableAmount - x)
      BY DEF Debited, Minus
    <3>. HIDE DEF debited, s, x, W, A
    <3> QED  BY <1>0, <2>7, <3>1, <3>2, <3>3, UpdatedHeld
  <2>. HIDE DEF debited
  <2>10. /\ db.wallet = working.wallet /\ RowsOf(db) = RowsOf(working)
         /\ \A b \in RowsOf(working) : db.balance[b].wallet = working.balance[b].wallet
         /\ \A w, c : HeldIn(db, w, c) = HeldIn(working, w, c)
         /\ \A w, c : Balance(db, w, c) =
              IF w = W /\ c = C THEN t.availableAmount + Carry(x) ELSE Balance(debited, w, c)
    <3>1. t.id \in HeldIn(debited, W, C)
      BY <2>8, <2>9
    <3>2. /\ db.wallet = debited.wallet /\ RowsOf(db) = RowsOf(debited)
          /\ \A b \in RowsOf(debited) : db.balance[b].wallet = debited.balance[b].wallet
          /\ \A w, c : HeldIn(db, w, c) = HeldIn(debited, w, c)
          /\ \A w, c : Balance(db, w, c) =
               IF w = W /\ c = C THEN t.availableAmount + Carry(x) ELSE Balance(debited, w, c)
      <4>1. /\ debited \in Database /\ UniqueIn(debited) /\ LedgerInv
            /\ t # NoRow /\ t.availableAmount >= 0 /\ t.id \in HeldIn(debited, W, C)
        BY <1>0, <2>1, <2>8, <2>9, <3>1
      <4> QED  BY <4>1, CreditHeld DEF db
    <3>. HIDE DEF s, t, x, W, A, C
    <3> QED  BY <2>9, <3>2
  <2>11. HandlerSound(r)'
    <3>1. call[r].op # "trade" /\ Appendable(call[r].amount)
      BY <1>2 DEF CreditAccepted
    <3> QED  BY <1>0, <1>2, <2>2, <2>3, <2>10, <3>1 DEF HandlerSound, BetweenReads, Exchange
  <2>12. RowsHoused(working') /\ NotFunded(working')
    BY <2>2, <2>4, <2>10 DEF RowsHoused, NotFunded
  <2>13. ASSUME NEW w \in WalletIds, NEW c \in Currencies
         PROVE  Balance(working', w, c) = Recounted(Committed \cup {r}, w, c)
    <3>1. Recounted(Committed \cup {r}, w, c) =
            Recounted(Committed, w, c) + IF W = w THEN In(r, c) - Out(r, c) ELSE 0
      BY <1>0, <2>4, RecountedMoved DEF Exchange
    <3>2. Balance(working, w, c) = Recounted(Committed, w, c) /\ Recounted(Committed, w, c) \in Int
      BY <1>0, <2>4, RecountedTyped DEF Balanced
    <3>3. /\ Out(r, c) = IF c = A THEN x ELSE 0
          /\ In(r, c) = IF c = C THEN Carry(x) ELSE 0
      BY <1>0 DEF In, Out, Exchange
    <3>4. Carry(x) \in Int
      BY DEF Carry
    <3>5. Balance(working', w, c) = IF w = W /\ c = C THEN t.availableAmount + Carry(x)
                                    ELSE IF w = W /\ c = A THEN s.availableAmount - x
                                    ELSE Balance(working, w, c)
      BY <2>2, <2>9, <2>10
    <3>. HIDE DEF s, t, x, W, A, C
    <3>6. CASE w = W /\ c = C
      BY <2>5, <2>8, <3>1, <3>2, <3>3, <3>4, <3>5, <3>6
    <3>7. CASE w = W /\ c = A
      BY <2>1, <2>5, <2>7, <3>1, <3>2, <3>3, <3>5, <3>7
    <3>8. CASE ~(w = W /\ c = A) /\ ~(w = W /\ c = C)
      BY <3>1, <3>2, <3>3, <3>5, <3>8
    <3> QED  BY <3>6, <3>7, <3>8
  <2>14. Balanced(working', Committed \cup {r})
    BY <2>13 DEF Balanced
  <2>15. UNCHANGED walletOf /\ working'.wallet = working.wallet
    BY <1>2, <2>2, <2>10
  <2>16. \A w \in WalletIds, c \in Currencies :
           HeldIn(working, w, c) # {} => HeldIn(working', w, c) # {}
    BY <2>2, <2>10
  <2>17. call[r].op # "initialize"
    BY <1>0 DEF Exchange
  <2>. HIDE DEF s, t, x, W, A, C
  <2> QED  BY <2>3, <2>11, <2>12, <2>14, <2>15, <2>16, <2>17, WritingBooks
<1> QED  BY <1>0, <1>1, <1>2 DEF MoveFunds

(* The record becomes COMPLETED after the money has moved and before the   *)
(* commit; a deposit that made its own balance never comes this far.       *)
LEMMA CompleteRecordBooks ==
  ASSUME LedgerSoundNow, adrift' = {}, LedgerInv', NEW r \in Requests, CompleteRecord(r)
  PROVE  BooksInv'
<1>0. pc[r] = "complete" /\ AtWork(r) /\ HandlerSound(r) /\ WorkingBooks /\ TypeOK
  BY DEF CompleteRecord, AtWork, LedgerSoundNow, BooksInv, LedgerInv
<1>1. CASE Fail(r)
  BY <1>0, <1>1, FailBooks
<1>2. CASE /\ call[r].op = "fund" => seen[r]["target"] # NoRow
           /\ record' = [record EXCEPT ![r] = "COMPLETED"]
           /\ Goto(r, "finish")
           /\ UNCHANGED <<aside, durable, working, transactionCount, walletOf, seen, reply>>
  <2>1. record'[r] = "COMPLETED" /\ \A q \in Requests \ {r} : record'[q] = record[q]
    BY <1>0, <1>2 DEF TypeOK
  <2>2. Proceeds(r, "finish") /\ pc'[r] = "finish"
    BY <1>0, <1>2, <2>1, OthersDone DEF Proceeds
  <2>3. HandlerSound(r)'
    BY <1>0, <1>2, <2>1, <2>2 DEF HandlerSound, BetweenReads, Exchange, Doomed
  <2>4. NotFunded(working) /\ Balanced(working, Committed \cup {r})
    <3>1. \A q \in Requests : ~Doomed(q)
      BY <1>0, <1>2, OthersIdle DEF Doomed
    <3>2. Posted = {r}
      BY <1>0, OthersIdle DEF Posted
    <3> QED  BY <1>0, <3>1, <3>2 DEF WorkingBooks
  <2>5. ASSUME walletOf[r] = r
        PROVE  HeldIn(working, r, call[r].target) # {}
    <3>1. working.wallet[r] # NoUser /\ r \in WalletIds
      BY <1>0, <2>5, LedgerAssumption DEF HandlerSound, TypeOK, Call, WalletIds
    <3>2. OpenedBy(working, r)
      BY <1>0, <3>1 DEF WorkingBooks
    <3> QED  BY <1>0, <3>2 DEF OpenedBy
  <2>6. RowsHoused(working)
    BY <1>0 DEF WorkingBooks
  <2>7. UNCHANGED <<working, walletOf>>
    BY <1>2
  <2> QED  BY <2>2, <2>3, <2>4, <2>5, <2>6, <2>7, WritingBooks
<1>3. adrift = {}
  BY DEF LedgerSoundNow, BooksInv
<1> QED  BY <1>1, <1>2, <1>3 DEF CompleteRecord

-----------------------------------------------------------------------------
(* The specification.                                                      *)

(* A wallet nobody has recorded anything of.                               *)
LEMMA RecountedNothing ==
  ASSUME NEW S, NEW w, NEW c, On(S, w) = {}
  PROVE  Recounted(S, w, c) = 0
<1>1. SumFunctionOnSet(Movement(c), On(S, w)) = 0
  BY FS_EmptySet, SumUnfolds
<1>2. Deposited(S, w, c) = 0
  BY DEF Deposited
<1> QED  BY <1>1, <1>2 DEF Recounted

(* The process starts with one wallet for each verification before it, and *)
(* in it one row, the deposit.                                             *)
LEMMA OpeningRows ==
  ASSUME Init
  PROVE  /\ \A p \in DOMAIN Past :
              /\ p \in Requests /\ pc[p] = "done" /\ walletOf[p] = p
              /\ call[p].op = "initialize" /\ call[p].user = Past[p]
              /\ call[p].target = Home[Past[p]]
              /\ <<p, "target">> \in HeldIn(durable, p, call[p].target)
              /\ durable.balance[<<p, "target">>].availableAmount = InitialDeposit
         /\ \A b \in RowsOf(durable) :
              /\ b[1] \in DOMAIN Past /\ b = <<b[1], "target">>
              /\ durable.balance[b].wallet = b[1]
              /\ durable.balance[b].currency = call[b[1]].target
<1>. DEFINE P == DOMAIN Past
<1>1. /\ P \in SUBSET Requests /\ \A p \in P : Past[p] \in Users
  BY LedgerAssumption
<1>2. \A r \in P : /\ pc[r] = "done" /\ walletOf[r] = r
                   /\ call[r] = InitializeCall(Past[r])
  BY <1>1 DEF Init, IsPast
<1>4. ASSUME NEW p \in P
      PROVE  /\ p \in Requests /\ pc[p] = "done" /\ walletOf[p] = p
             /\ call[p].op = "initialize" /\ call[p].user = Past[p]
             /\ call[p].target = Home[Past[p]]
  <2>1. p \in Requests
    BY <1>1
  <2>2. /\ call[p] = InitializeCall(Past[p])
        /\ pc[p] = "done" /\ walletOf[p] = p
    BY <1>2
  <2> QED  BY <2>1, <2>2 DEF InitializeCall
<1>6. ASSUME NEW b \in RowsOf(durable)
      PROVE  /\ b[1] \in P /\ b = <<b[1], "target">>
             /\ durable.balance[b].wallet = b[1]
             /\ durable.balance[b].currency = call[b[1]].target
  <2>1. /\ b \in BalanceIds
        /\ durable.balance[b] = OpeningDatabase.balance[b] /\ durable.balance[b] # NoRow
    BY <1>6 DEF Init, RowsOf
  <2>2. /\ b[1] \in P /\ b = <<b[1], "target">>
        /\ OpeningDatabase.balance[b] =
             [wallet |-> b[1], currency |-> Home[Past[b[1]]],
              amount |-> InitialDeposit, availableAmount |-> InitialDeposit]
    BY <2>1 DEF OpeningDatabase, BalanceIds
  <2> QED  BY <1>4, <2>1, <2>2
<1>7. ASSUME NEW p \in P
      PROVE  /\ <<p, "target">> \in HeldIn(durable, p, call[p].target)
             /\ durable.balance[<<p, "target">>].availableAmount = InitialDeposit
  <2>. DEFINE id == <<p, "target">>
              row == [wallet |-> p, currency |-> Home[Past[p]],
                      amount |-> InitialDeposit, availableAmount |-> InitialDeposit]
  <2>1. id \in BalanceIds /\ id[1] = p /\ id[2] = "target"
    BY <1>4 DEF BalanceIds, Sides
  <2>2. durable.balance[id] = row
    BY <2>1 DEF Init, OpeningDatabase
  <2>3. row \in Row
    BY <1>1, LedgerAssumption DEF Row, WalletIds, InitialDeposit
  <2> QED  BY <1>4, <2>1, <2>2, <2>3, NullAssumption DEF HeldIn, RowsOf
<1> QED  BY <1>4, <1>6, <1>7

(* The process starts with the first deposits of the verifications before  *)
(* it, and their records.                                                  *)
LEMMA OpeningBooks ==
  ASSUME Init
  PROVE  BooksInv
<1>. DEFINE P == DOMAIN Past
<1>0. LedgerInv /\ TypeOK /\ UniqueIn(durable) /\ durable \in Database
  BY OpeningSound, OpeningUnique DEF LedgerInv, TypeOK, UniqueInv
<1>1. /\ P \in SUBSET Requests /\ IsFiniteSet(P) /\ \A p \in P : Past[p] \in Users
      /\ NoUser \notin Users /\ NoWallet \notin Requests
  BY LedgerAssumption
<1>2. \A r \in Requests : /\ pc[r] = IF r \in P THEN "done" ELSE "absent"
                          /\ record[r] = IF r \in P THEN "COMPLETED" ELSE "none"
                          /\ reply[r] = IF r \in P THEN "ok" ELSE "none"
                          /\ walletOf[r] = IF r \in P THEN r ELSE NoWallet
                          /\ IF r \in P THEN call[r] = InitializeCall(Past[r]) ELSE call[r] \in Calls
  BY DEF Init, IsPast
<1>3. Committed = P /\ Posted = {} /\ Quiescent
  BY <1>1, <1>2 DEF Committed, Posted, Quiescent
<1>4. \A p \in P : /\ p \in Requests /\ pc[p] = "done" /\ walletOf[p] = p
                   /\ call[p].op = "initialize" /\ call[p].user = Past[p]
                   /\ call[p].target = Home[Past[p]]
  BY OpeningRows
<1>5. \A w \in WalletIds : durable.wallet[w] = IF w \in P THEN Past[w] ELSE NoUser
  BY DEF Init, OpeningDatabase
<1>6. \A b \in RowsOf(durable) : /\ b[1] \in P /\ b = <<b[1], "target">>
                                 /\ durable.balance[b].wallet = b[1]
                                 /\ durable.balance[b].currency = call[b[1]].target
  BY OpeningRows
<1>7. \A p \in P : /\ <<p, "target">> \in HeldIn(durable, p, call[p].target)
                   /\ durable.balance[<<p, "target">>].availableAmount = InitialDeposit
  BY OpeningRows
<1>8. \A r \in Requests : HandlerSound(r)
  <2>. SUFFICES ASSUME NEW r \in Requests
                PROVE  HandlerSound(r)
    OBVIOUS
  <2>1. call[r].op = "initialize" => call[r] = InitializeCall(call[r].user)
    <3>1. CASE r \in P
      <4>1. call[r] = InitializeCall(Past[r])
        BY <1>2, <3>1
      <4> QED  BY <1>4, <3>1, <4>1
    <3>2. CASE r \notin P
      BY <1>2, <3>2, LedgerAssumption
    <3> QED  BY <3>1, <3>2
  <2> QED  BY <1>2, <2>1 DEF HandlerSound, BetweenReads, Doomed
<1>9. Balanced(durable, P)
  <2>. SUFFICES ASSUME NEW w \in WalletIds, NEW c \in Currencies
                PROVE  Balance(durable, w, c) = Recounted(P, w, c)
    BY DEF Balanced
  <2>. DEFINE S == P \ {w}
  <2>1. S \in SUBSET Requests /\ IsFiniteSet(S) /\ w \notin S
    BY <1>1, FS_Subset
  <2>2. On(S, w) = {}
    BY <1>4 DEF On
  <2>3. CASE w \in P
    <3>1. S \cup {w} = P /\ w \in Requests \ S /\ walletOf[w] = w /\ call[w].op = "initialize"
      BY <1>4, <2>1, <2>3
    <3>. HIDE DEF S, P
    <3>2. CASE c = call[w].target
      <4>1. Recounted(P, w, c) = InitialDeposit
        BY <1>0, <2>1, <2>2, <3>1, <3>2, RecountedOpening
      <4> QED  BY <1>0, <1>7, <2>3, <3>2, <4>1, BalanceIs
    <3>3. CASE c # call[w].target
      <4>1. Recounted(P, w, c) = 0
        BY <1>0, <2>1, <2>2, <3>1, <3>3, RecountedAgain, RecountedNothing
      <4>2. HeldIn(durable, w, c) = {}
        BY <1>6, <3>3 DEF HeldIn
      <4> QED  BY <1>0, <4>1, <4>2, BalanceIs
    <3> QED  BY <3>2, <3>3
  <2>4. CASE w \notin P
    <3>1. S = P
      BY <2>4
    <3>2. HeldIn(durable, w, c) = {}
      BY <1>6, <2>4 DEF HeldIn
    <3> QED  BY <1>0, <2>2, <3>1, <3>2, BalanceIs, RecountedNothing
  <2> QED  BY <2>3, <2>4
<1>10. DurableBooks
  <2>1. \A r \in P : walletOf[r] # NoWallet /\ durable.wallet[walletOf[r]] # NoUser
    BY <1>1, <1>4, <1>5 DEF WalletIds
  <2>2. \A w \in WalletIds : durable.wallet[w] # NoUser => w \in P /\ OpenedBy(durable, w)
    BY <1>4, <1>5, <1>7 DEF OpenedBy
  <2>3. RowsHoused(durable)
    BY <1>1, <1>4, <1>5, <1>6 DEF RowsHoused, WalletIds
  <2>4. NotFunded(durable)
    BY <1>4, <1>6 DEF NotFunded
  <2> QED  BY <1>3, <1>9, <2>1, <2>2, <2>3, <2>4 DEF DurableBooks
<1>11. working = durable /\ transactionCount = 0 /\ adrift = {}
  BY DEF Init
<1>12. WorkingBooks
  BY <1>3, <1>10, <1>11, QuietBooks
<1> QED  BY <1>1, <1>3, <1>8, <1>10, <1>11, <1>12 DEF BooksInv

(* Every step keeps the books, given that it keeps the invariants the      *)
(* books rest on.                                                          *)
LEMMA SerialStepBooks ==
  ASSUME LedgerSoundNow, LedgerInv', [SerialNext]_vars
  PROVE  BooksInv'
<1>. adrift' = {}
  BY NothingAdrift DEF LedgerSoundNow, BooksInv
<1>1. CASE UNCHANGED vars
  <2>1. BooksInv /\ Committed' = Committed /\ Posted' = Posted
    BY <1>1 DEF vars, LedgerSoundNow, Committed, Posted
  <2>2. ASSUME NEW q \in Requests
        PROVE  HandlerSound(q)'
    <3>1. UNCHANGED <<working, call, pc, walletOf, seen, record, reply>>
      BY <1>1 DEF vars
    <3>4. HandlerSound(q)
      BY <2>1 DEF BooksInv
    <3>2. \A w, c : HeldIn(working, w, c)' = HeldIn(working, w, c)
      BY <3>1 DEF HeldIn, RowsOf
    <3>3. /\ Exchange(q)' <=> Exchange(q)
          /\ \A side : Fresh(q, side)' <=> Fresh(q, side)
      BY <3>1, <3>2 DEF Exchange, Fresh, CurrencyOf
    <3> QED  BY <3>1, <3>2, <3>3, <3>4 DEF HandlerSound, Doomed
  <2>3. DurableBooks'
    BY <1>1, <2>1, DurableKept DEF vars
  <2>4. WorkingBooks'
    <3>1. UNCHANGED <<working, call, pc, walletOf, seen>>
      BY <1>1 DEF vars
    <3>2. WorkingBooks /\ Committed \cup Posted \in SUBSET Requests
      BY <2>1 DEF BooksInv, Committed, Posted
    <3>3. \A w : OpenedBy(working, w)' <=> OpenedBy(working, w)
      BY <3>1, HeldIs DEF OpenedBy
    <3>4. \A q : Doomed(q)' <=> Doomed(q)
      BY <3>1 DEF Doomed
    <3>5. RowsHoused(working)' <=> RowsHoused(working)
      BY <3>1, HousedIs
    <3>6. NotFunded(working)' <=> NotFunded(working)
      BY <3>1, NotFundedIs
    <3>7. Balanced(working, Committed \cup Posted)' <=> Balanced(working, Committed \cup Posted)
      BY <2>1, <3>1, <3>2, BalancedIs
    <3> QED  BY <2>1, <3>1, <3>2, <3>3, <3>4, <3>5, <3>6, <3>7 DEF WorkingBooks
  <2>5. Quiescent' <=> Quiescent
    BY <1>1 DEF vars, Quiescent
  <2> QED  BY <1>1, <2>1, <2>2, <2>3, <2>4, <2>5 DEF vars, BooksInv
<1>2. ASSUME NEW r \in Requests, SerialSubmit(r) PROVE BooksInv'
  BY <1>2, SubmitBooks
<1>3. ASSUME NEW r \in Requests, Step(r) PROVE BooksInv'
  <2>1. CASE Refuse(r)
    BY <2>1, FailBooks DEF Refuse, AtWork
  <2>2. CASE FindWallet(r) \/ OpenWallet(r)
    BY <2>2, FindWalletBooks, OpenWalletBooks
  <2>3. CASE ReadBalances(r) \/ RereadSource(r) \/ RereadTarget(r) \/ ReadBalance(r)
    BY <2>3, ReadBalancesBooks, ReadBalanceBooks, RereadBalanceBooks
       DEF RereadSource, RereadTarget, Sides
  <2>4. CASE MakeSource(r) \/ MakeTarget(r)
    BY <2>4, MakeBalanceBooks DEF MakeSource, MakeTarget, Sides
  <2>5. CASE CreateRecord(r) \/ CompleteRecord(r) \/ Finish(r)
    BY <2>5, CreateRecordBooks, CompleteRecordBooks, FinishBooks
  <2>6. CASE Deposit(r) \/ MoveFunds(r)
    BY <2>6, DepositBooks, MoveFundsBooks
  <2> QED  BY <1>3, <2>1, <2>2, <2>3, <2>4, <2>5, <2>6 DEF Step
<1>4. ASSUME NEW r \in Requests, DatabaseError(r) PROVE BooksInv'
  BY <1>4, FailBooks DEF DatabaseError, AtWork
<1>5. CASE Crash
  BY <1>5, CrashBooks
<1> QED  BY <1>1, <1>2, <1>3, <1>4, <1>5 DEF SerialNext, Work

(* All three invariants of the ledger hold together.                       *)
LEMMA LedgerStaysSound == SerialSpec => []LedgerSoundNow
<1>1. [SerialNext]_vars => [Next]_vars
  BY DEF SerialNext, Next, CalmNext, SerialSubmit
<1>2. Init => LedgerSoundNow
  BY OpeningSound, OpeningUnique, OpeningBooks DEF LedgerSoundNow
<1>3. LedgerSoundNow /\ [SerialNext]_vars => LedgerSoundNow'
  BY <1>1, NextSound, SerialStepUnique, SerialStepBooks DEF LedgerSoundNow
<1> QED  BY <1>2, <1>3, PTL DEF SerialSpec

(* What is committed is balanced by the requests that committed, and what  *)
(* the open transaction holds by these and the request that has written.   *)
THEOREM BooksAreKept == SerialSpec => []BooksInv
<1>1. LedgerSoundNow => BooksInv
  BY DEF LedgerSoundNow
<1> QED  BY <1>1, LedgerStaysSound, PTL

(* One request at a time, whatever fails and at whichever await, crashes   *)
(* included: between requests every committed balance is what the requests *)
(* answered "ok" add up to, whose records are COMPLETED                    *)
(* (convertCurrency.command.ts:137, txInterceptor.interceptor.ts:45).      *)
THEOREM RecordsAddUp == SerialSpec => []LedgerMatchesRecords
<1>1. BooksInv => LedgerMatchesRecords
  <2>. SUFFICES ASSUME BooksInv
                PROVE  Committed \subseteq Completed /\ Balanced(durable, Committed)
    BY DEF LedgerMatchesRecords
  <2>1. Committed \subseteq Completed
    BY DEF Completed, Committed, BooksInv, HandlerSound
  <2> QED  BY <2>1 DEF BooksInv, DurableBooks
<1> QED  BY <1>1, BooksAreKept, PTL

-----------------------------------------------------------------------------
(* The ledger implements AccountBook.                                      *)

(* No row that a deposit has not created is below zero, nor any balance.   *)
LEMMA NotBelowZero ==
  ASSUME NEW db \in Database, UniqueIn(db), DatabaseSound(db), NotFunded(db), NEW w, NEW c
  PROVE  Balance(db, w, c) >= 0
<1>1. ASSUME NEW b \in HeldIn(db, w, c)
      PROVE  db.balance[b].availableAmount >= 0
  <2>1. b \in RowsOf(db) /\ ~NegativeFund(b[1])
    BY DEF HeldIn, NotFunded, NegativeFund
  <2> QED  BY <2>1 DEF DatabaseSound, RowSound, MoneySound
<1> QED  BY <1>1, BalanceIs

(* The book is what the committed requests add up to.                      *)
LEMMA BookIs ==
  ASSUME LedgerSoundNow, NEW w \in WalletIds, NEW c \in Currencies
  PROVE  /\ Book[w][c] = Recounted(Committed, w, c)
         /\ Book[w][c] \in Int /\ Book[w][c] >= 0
<1>1. Book[w][c] = Balance(durable, w, c)
  BY DEF Book
<1>2. durable \in Database /\ UniqueIn(durable) /\ DatabaseSound(durable) /\ NotFunded(durable)
  BY DEF LedgerSoundNow, LedgerInv, TypeOK, UniqueInv, BooksInv, DurableBooks
<1>3. Balance(durable, w, c) = Recounted(Committed, w, c)
  BY DEF LedgerSoundNow, BooksInv, DurableBooks, Balanced
<1>4. Balance(durable, w, c) \in Int /\ Balance(durable, w, c) >= 0
  BY <1>2, BalanceIs, NotBelowZero
<1> QED  BY <1>1, <1>3, <1>4

(* A step that neither commits nor ends a request is none of the book.     *)
LEMMA StutterImplements ==
  ASSUME UNCHANGED <<call, durable, reply>>
  PROVE  UNCHANGED Accounts!vars
<1>1. Book' = Book
  BY DEF Book, Balance, HeldIn, RowsOf
<1> QED  BY <1>1 DEF Accounts!vars

(* A request that fails is refused.                                        *)
LEMMA RefusalImplements ==
  ASSUME LedgerSoundNow, NEW r \in Requests, AtWork(r), Fail(r)
  PROVE  Accounts!Refuse(r)
<1>1. reply[r] = "none"
  BY OthersIdle
<1>2. Book' = Book
  BY DEF Fail, Book, Balance, HeldIn, RowsOf
<1> QED  BY <1>1, <1>2 DEF Fail, Accounts!Refuse, Accounts!Close

(* At the commit, the open transaction has the committed wallets and       *)
(* perhaps one that the request has opened.                                *)
LEMMA OwnersKept ==
  ASSUME LedgerSoundNow, NEW r \in Requests, AtWork(r)
  PROVE  /\ \A w \in WalletIds \ {r} : working.wallet[w] = durable.wallet[w]
         /\ durable.wallet[r] = NoUser
         /\ working.wallet[r] # NoUser => walletOf[r] = r /\ call[r].op = "initialize"
         /\ \A w \in WalletIds : durable.wallet[w] # NoUser => w \in Committed /\ OpenedBy(durable, w)
<1>1. DurableBooks /\ WorkingBooks
  BY DEF LedgerSoundNow, BooksInv
<1>2. \A w \in WalletIds : durable.wallet[w] # NoUser => w \in Committed /\ OpenedBy(durable, w)
  BY <1>1 DEF DurableBooks
<1>3. durable.wallet[r] = NoUser
  BY <1>2, OthersIdle DEF WalletIds
<1>4. ASSUME NEW w \in WalletIds \ {r}
      PROVE  working.wallet[w] = durable.wallet[w]
  <2>1. CASE working.wallet[w] # NoUser
    <3>1. /\ w \in Committed \/ pc[w] \in {"record", "balance", "write", "complete", "finish"}
          /\ OpenedBy(working, w)
      BY <1>1, <2>1 DEF WorkingBooks
    <3>2. w \in Committed
      BY <3>1, OthersIdle DEF WalletIds
    <3>3. durable.wallet[w] # NoUser
      BY <1>1, <3>1, <3>2 DEF DurableBooks, OpenedBy
    <3> QED  BY <1>2, <3>1, <3>3 DEF OpenedBy
  <2>2. CASE working.wallet[w] = NoUser
    BY <1>1, <1>2, <2>2 DEF WorkingBooks, OpenedBy
  <2> QED  BY <2>1, <2>2
<1>5. working.wallet[r] # NoUser => walletOf[r] = r /\ call[r].op = "initialize"
  BY <1>1 DEF WorkingBooks, OpenedBy, WalletIds
<1> QED  BY <1>2, <1>3, <1>4, <1>5

(* The commit: the book becomes what the open transaction holds.           *)
LEMMA CommitIs ==
  ASSUME LedgerSoundNow, NEW r \in Requests, Finish(r)
  PROVE  /\ AtWork(r) /\ pc[r] = "finish"
         /\ durable' = working
         /\ Accounts!Close(r, "ok")
         /\ walletOf[r] \in WalletIds /\ working.wallet[walletOf[r]] = call[r].user
         /\ call[r].user \in Users /\ call[r].user # NoUser
         /\ NotFunded(working)
         /\ Committed \in SUBSET Requests /\ IsFiniteSet(Committed) /\ r \in Requests \ Committed
         /\ Book' = [w \in WalletIds |-> [c \in Currencies |-> Balance(working, w, c)]]
         /\ \A w \in WalletIds, c \in Currencies :
              Balance(working, w, c) = Recounted(Committed \cup {r}, w, c)
<1>1. AtWork(r) /\ pc[r] = "finish"
  BY DEF Finish, AtWork
<1>2. /\ transactionCount = 2 /\ InTransaction /\ Posted \in SUBSET {r} /\ reply[r] = "none"
      /\ r \notin Committed
  BY <1>1, OthersIdle
<1>3. durable' = working /\ reply' = [reply EXCEPT ![r] = "ok"] /\ call' = call
  BY <1>2 DEF Finish
<1>4. call[r].user \in Users /\ call[r].user # NoUser
  BY LedgerAssumption DEF LedgerSoundNow, LedgerInv, TypeOK, Call
<1>5. working.wallet[walletOf[r]] = call[r].user
  BY <1>1 DEF LedgerSoundNow, BooksInv, HandlerSound
<1>6. walletOf[r] \in WalletIds
  BY <1>1 DEF LedgerSoundNow, LedgerInv, PositionSound, PCs, TypeOK
<1>7. NotFunded(working) /\ Balanced(working, Committed \cup Posted)
  <2>1. \A q \in Requests : ~Doomed(q)
    BY <1>1, OthersIdle DEF Doomed
  <2> QED  BY <2>1 DEF LedgerSoundNow, BooksInv, WorkingBooks
<1>8. Posted = {r}
  BY <1>1, <1>2 DEF Posted
<1>9. Book' = [w \in WalletIds |-> [c \in Currencies |-> Balance(working, w, c)]]
  BY <1>3 DEF Book, Balance, HeldIn, RowsOf
<1>10. Committed \in SUBSET Requests /\ IsFiniteSet(Committed)
  BY DEF LedgerSoundNow, BooksInv, Committed
<1>11. Accounts!Close(r, "ok")
  BY <1>2, <1>3 DEF Accounts!Close
<1>12. \A w \in WalletIds, c \in Currencies :
         Balance(working, w, c) = Recounted(Committed \cup {r}, w, c)
  BY <1>7, <1>8 DEF Balanced
<1> QED
  BY <1>1, <1>2, <1>3, <1>4, <1>5, <1>6, <1>7, <1>9, <1>10, <1>11, <1>12

(* A verification that has opened its wallet.                              *)
LEMMA OpenImplements ==
  ASSUME LedgerSoundNow, NEW r \in Requests, Finish(r),
         call[r].op = "initialize", walletOf[r] = r
  PROVE  Accounts!Open(r)
<1>. DEFINE u == call[r].user
            C == call[r].target
<1>1. /\ AtWork(r) /\ durable' = working /\ Accounts!Close(r, "ok")
      /\ r \in WalletIds /\ working.wallet[r] = u /\ u \in Users /\ u # NoUser
      /\ Committed \in SUBSET Requests /\ IsFiniteSet(Committed) /\ r \in Requests \ Committed
  BY CommitIs
<1>2. /\ Book' = [w \in WalletIds |-> [c \in Currencies |-> Balance(working, w, c)]]
      /\ \A w \in WalletIds, c \in Currencies :
           Balance(working, w, c) = Recounted(Committed \cup {r}, w, c)
  BY CommitIs
<1>3. /\ TypeOK /\ UniqueIn(working)
      /\ durable.wallet \in [WalletIds -> Users \cup {NoUser}]
      /\ working.wallet \in [WalletIds -> Users \cup {NoUser}]
  BY DEF LedgerSoundNow, LedgerInv, TypeOK, Database, UniqueInv
<1>4. C = Home[u] /\ C \in Currencies
  <2>1. call[r] = InitializeCall(u)
    BY DEF LedgerSoundNow, BooksInv, HandlerSound
  <2>2. C = Home[u]
    BY <2>1 DEF InitializeCall
  <2> QED  BY <1>1, <2>2, LedgerAssumption
<1>5. /\ \A w \in WalletIds \ {r} : working.wallet[w] = durable.wallet[w]
      /\ durable.wallet[r] = NoUser
  BY <1>1, OwnersKept
<1>6. Accounts!Owned(u) = {}
  <2>. SUFFICES ASSUME NEW w \in Requests, durable.wallet[w] = u
                PROVE  FALSE
    BY DEF Accounts!Owned
  <2>1. w # r /\ working.wallet[w] = u
    BY <1>1, <1>5 DEF WalletIds
  <2> QED  BY <1>1, <1>3, <2>1 DEF UniqueIn, WalletIds
<1>7. working.wallet = [durable.wallet EXCEPT ![r] = u]
  <2>. DEFINE f == working.wallet
              g == durable.wallet
  <2>1. f \in [WalletIds -> Users \cup {NoUser}] /\ g \in [WalletIds -> Users \cup {NoUser}]
    BY <1>3
  <2>2. f[r] = u /\ \A w \in WalletIds \ {r} : f[w] = g[w]
    BY <1>1, <1>5
  <2>. HIDE DEF f, g, u
  <2>3. f = [g EXCEPT ![r] = u]
    BY <1>1, <2>1, <2>2
  <2> QED  BY <2>3 DEF f, g
<1>8. ASSUME NEW w \in WalletIds, NEW c \in Currencies
      PROVE  Balance(working, w, c) = IF w = r /\ c = C THEN InitialDeposit ELSE Book[w][c]
  <2>1. CASE w = r /\ c = C
    <3>1. On(Committed, walletOf[r]) = {}
      BY <1>1, NothingOn
    <3>2. Recounted(Committed \cup {r}, walletOf[r], call[r].target) = InitialDeposit
      BY <1>1, <1>3, <3>1, RecountedOpening
    <3> QED  BY <1>2, <2>1, <3>2
  <2>2. CASE ~(w = r /\ c = C)
    <3>1. Recounted(Committed \cup {r}, w, c) = Recounted(Committed, w, c)
      BY <1>1, <1>3, <2>2, RecountedAgain
    <3> QED  BY <1>2, <2>2, <3>1, BookIs
  <2> QED  BY <2>1, <2>2
<1>9. Book' = [Book EXCEPT ![r][C] = InitialDeposit]
  <2>1. Book' = [w \in WalletIds |-> [c \in Currencies |->
                   IF w = r /\ c = C THEN InitialDeposit ELSE Book[w][c]]]
    BY <1>2, <1>8
  <2>2. Book = [w \in WalletIds |-> [c \in Currencies |-> Book[w][c]]]
    BY DEF Book
  <2> QED  BY <1>1, <1>4, <2>1, <2>2
<1> QED  BY <1>1, <1>4, <1>6, <1>7, <1>9 DEF Accounts!Open

(* Any other request leaves the wallets as they are.                       *)
LEMMA OwnersSame ==
  ASSUME LedgerSoundNow, NEW r \in Requests, Finish(r),
         ~(call[r].op = "initialize" /\ walletOf[r] = r)
  PROVE  /\ working.wallet = durable.wallet
         /\ walletOf[r] \in Accounts!Owned(call[r].user)
         /\ walletOf[r] \in Committed /\ walletOf[walletOf[r]] = walletOf[r]
         /\ call[walletOf[r]].op = "initialize"
         /\ call[walletOf[r]].user = call[r].user
<1>. DEFINE W == walletOf[r]
<1>1. /\ AtWork(r) /\ W \in WalletIds
      /\ working.wallet[W] = call[r].user /\ call[r].user # NoUser
  BY CommitIs
<1>2. /\ \A w \in WalletIds \ {r} : working.wallet[w] = durable.wallet[w]
      /\ durable.wallet[r] = NoUser /\ working.wallet[r] = NoUser
      /\ \A w \in WalletIds : durable.wallet[w] # NoUser => w \in Committed /\ OpenedBy(durable, w)
  BY <1>1, OwnersKept
<1>3. /\ durable.wallet \in [WalletIds -> Users \cup {NoUser}]
      /\ working.wallet \in [WalletIds -> Users \cup {NoUser}]
  BY DEF LedgerSoundNow, LedgerInv, TypeOK, Database
<1>4. working.wallet = durable.wallet
  BY <1>2, <1>3
<1>5. W \in Accounts!Owned(call[r].user)
  BY <1>1, <1>4 DEF Accounts!Owned, WalletIds
<1>6. W \in Committed /\ OpenedBy(durable, W) /\ durable.wallet[W] = call[r].user
  BY <1>1, <1>2, <1>4
<1> QED  BY <1>4, <1>5, <1>6 DEF OpenedBy

(* A verification of a user who had a wallet.                              *)
LEMMA OpenAgainImplements ==
  ASSUME LedgerSoundNow, NEW r \in Requests, Finish(r),
         call[r].op = "initialize", walletOf[r] # r
  PROVE  Accounts!OpenAgain(r)
<1>. DEFINE W == walletOf[r]
<1>1. /\ durable' = working /\ Accounts!Close(r, "ok")
      /\ Committed \in SUBSET Requests /\ IsFiniteSet(Committed) /\ r \in Requests \ Committed
      /\ Book' = [w \in WalletIds |-> [c \in Currencies |-> Balance(working, w, c)]]
      /\ \A w \in WalletIds, c \in Currencies :
           Balance(working, w, c) = Recounted(Committed \cup {r}, w, c)
  BY CommitIs
<1>2. /\ working.wallet = durable.wallet
      /\ W \in Accounts!Owned(call[r].user) /\ W \in Committed /\ walletOf[W] = W
      /\ call[W].op = "initialize" /\ call[W].user = call[r].user
  BY OwnersSame
<1>3. call[W].target = call[r].target
  <2>1. call[W] = InitializeCall(call[W].user) /\ call[r] = InitializeCall(call[r].user)
    BY <1>1, <1>2 DEF LedgerSoundNow, BooksInv, HandlerSound
  <2> QED  BY <1>2, <2>1
<1>4. TypeOK
  BY DEF LedgerSoundNow, LedgerInv
<1>5. ASSUME NEW w \in WalletIds, NEW c \in Currencies
      PROVE  Balance(working, w, c) = Book[w][c]
  <2>1. walletOf[r] = w /\ call[r].target = c =>
          \E q \in Committed : walletOf[q] = w /\ call[q].op = "initialize" /\ call[q].target = c
    BY <1>2, <1>3
  <2>2. Recounted(Committed \cup {r}, w, c) = Recounted(Committed, w, c)
    BY <1>1, <1>4, <2>1, RecountedAgain
  <2> QED  BY <1>1, <2>2, BookIs
<1>6. Book' = Book
  <2>1. Book' = [w \in WalletIds |-> [c \in Currencies |-> Book[w][c]]]
    BY <1>1, <1>5
  <2> QED  BY <2>1 DEF Book
<1> QED  BY <1>1, <1>2, <1>6 DEF Accounts!OpenAgain

(* A deposit and an exchange: what the request moves is added to the book. *)
LEMMA MovedIs ==
  ASSUME LedgerSoundNow, NEW r \in Requests, Finish(r), call[r].op # "initialize"
  PROVE  /\ Book' = [w \in WalletIds |-> [c \in Currencies |-> Balance(working, w, c)]]
         /\ \A w \in WalletIds, c \in Currencies :
              /\ Balance(working, w, c) =
                   Book[w][c] + IF walletOf[r] = w THEN In(r, c) - Out(r, c) ELSE 0
              /\ Balance(working, w, c) >= 0
<1>1. /\ Committed \in SUBSET Requests /\ IsFiniteSet(Committed) /\ r \in Requests \ Committed
      /\ NotFunded(working)
      /\ Book' = [w \in WalletIds |-> [c \in Currencies |-> Balance(working, w, c)]]
      /\ \A w \in WalletIds, c \in Currencies :
           Balance(working, w, c) = Recounted(Committed \cup {r}, w, c)
  BY CommitIs
<1>2. TypeOK /\ working \in Database /\ UniqueIn(working) /\ DatabaseSound(working)
  BY DEF LedgerSoundNow, LedgerInv, TypeOK, UniqueInv
<1>3. ASSUME NEW w \in WalletIds, NEW c \in Currencies
      PROVE  /\ Balance(working, w, c) =
                  Book[w][c] + IF walletOf[r] = w THEN In(r, c) - Out(r, c) ELSE 0
             /\ Balance(working, w, c) >= 0
  <2>1. Recounted(Committed \cup {r}, w, c) =
          Recounted(Committed, w, c) + IF walletOf[r] = w THEN In(r, c) - Out(r, c) ELSE 0
    <3>1. \A S \in SUBSET Requests : IsFiniteSet(S) /\ r \in Requests \ S =>
            Recounted(S \cup {r}, w, c) =
              Recounted(S, w, c) + IF walletOf[r] = w THEN In(r, c) - Out(r, c) ELSE 0
      BY <1>2, RecountedMoved
    <3> QED  BY <1>1, <3>1, Zenon
  <2>2. Book[w][c] = Recounted(Committed, w, c)
    BY BookIs
  <2>3. Balance(working, w, c) >= 0
    BY <1>1, <1>2, NotBelowZero
  <2>4. Balance(working, w, c) = Recounted(Committed \cup {r}, w, c)
    BY <1>1
  <2> QED  BY <2>1, <2>2, <2>3, <2>4
<1> QED  BY <1>1, <1>3

(* What a request that is about to commit has asked for.                   *)
LEMMA AcceptedIs ==
  ASSUME LedgerSoundNow, NEW r \in Requests, Finish(r), call[r].op # "initialize"
  PROVE  /\ call[r].op \in {"fund", "convert"} /\ Appendable(call[r].amount)
         /\ call[r].amount \in Int
         /\ call[r].source \in Currencies /\ call[r].target \in Currencies
         /\ call[r].op = "convert" => call[r].source # call[r].target /\ call[r].amount > 0
<1>1. pc[r] = "finish" /\ ~Doomed(r)
  BY DEF Finish, Doomed
<1>2. HandlerSound(r) /\ PositionSound(r)
  BY DEF LedgerSoundNow, BooksInv, LedgerInv
<1>3. /\ call[r].op \in Ops /\ call[r].amount \in Int
      /\ call[r].source \in Currencies /\ call[r].target \in Currencies
  BY DEF LedgerSoundNow, LedgerInv, TypeOK, Call
<1>4. call[r].op # "trade" /\ Appendable(call[r].amount)
  BY <1>1, <1>2 DEF HandlerSound
<1>5. call[r].op = "convert" => call[r].source # call[r].target /\ call[r].amount > 0
  BY <1>1, <1>2 DEF HandlerSound, PositionSound, Exchange
<1> QED  BY <1>3, <1>4, <1>5 DEF Ops

(* The arithmetic of the book is that of the ledger.                       *)
LEMMA SameArithmetic ==
  ASSUME NEW b, NEW x
  PROVE  /\ Accounts!Plus(b, x) = Plus(b, x) /\ Accounts!Minus(b, x) = Minus(b, x)
         /\ Accounts!Appendable(x) <=> Appendable(x)
<1>1. Accounts!LeadingDigit = LeadingDigit
  BY Zenon DEF LeadingDigit, Accounts!LeadingDigit
<1>2. Accounts!Carry(x) = Carry(x)
  BY <1>1, Zenon DEF Carry, Accounts!Carry
<1> QED  BY <1>2, Zenon DEF Plus, Accounts!Plus, Minus, Accounts!Minus, Appendable, Accounts!Appendable

(* A deposit adds what Plus makes of it.                                   *)
LEMMA DepositImplements ==
  ASSUME LedgerSoundNow, NEW r \in Requests, Finish(r), call[r].op = "fund"
  PROVE  Accounts!Deposit(r)
<1>. DEFINE W == walletOf[r]
            C == call[r].target
            x == call[r].amount
<1>1. /\ durable' = working /\ Accounts!Close(r, "ok") /\ W \in WalletIds
  BY CommitIs
<1>2. working.wallet = durable.wallet /\ W \in Accounts!Owned(call[r].user)
  BY OwnersSame
<1>3. Appendable(x) /\ x \in Int /\ C \in Currencies
  BY AcceptedIs
<1>4. ASSUME NEW w \in WalletIds, NEW c \in Currencies
      PROVE  Balance(working, w, c) =
               IF w = W /\ c = C THEN Plus(Book[w][c], x) ELSE Book[w][c]
  <2>1. In(r, c) - Out(r, c) = IF c = C THEN Carry(x) ELSE 0
    BY DEF In, Out, Exchange, Carry
  <2>2. Book[w][c] \in Int /\ Book[w][c] >= 0
    BY BookIs
  <2>3. Balance(working, w, c) =
          Book[w][c] + IF walletOf[r] = w THEN In(r, c) - Out(r, c) ELSE 0
    BY MovedIs
  <2>. HIDE DEF C, x
  <2> QED  BY <2>1, <2>2, <2>3 DEF Plus
<1>5. Book' = [Book EXCEPT ![W][C] = Plus(@, x)]
  <2>1. Book' = [w \in WalletIds |-> [c \in Currencies |->
                   IF w = W /\ c = C THEN Plus(Book[w][c], x) ELSE Book[w][c]]]
    BY <1>4, MovedIs
  <2>2. Book = [w \in WalletIds |-> [c \in Currencies |-> Book[w][c]]]
    BY DEF Book
  <2> QED  BY <1>1, <1>3, <2>1, <2>2
<1>6. /\ \A b : Accounts!Plus(b, x) = Plus(b, x)
      /\ Accounts!Appendable(x)
  BY <1>3, SameArithmetic
<1> QED  BY <1>1, <1>2, <1>5, <1>6 DEF Accounts!Deposit

(* A conversion takes the amount from one account, which had it, and adds  *)
(* what Plus makes of it to the other.                                     *)
LEMMA ConvertImplements ==
  ASSUME LedgerSoundNow, NEW r \in Requests, Finish(r), call[r].op = "convert"
  PROVE  Accounts!Convert(r)
<1>. DEFINE W == walletOf[r]
            A == call[r].source
            C == call[r].target
            x == call[r].amount
<1>1. /\ durable' = working /\ Accounts!Close(r, "ok") /\ W \in WalletIds
  BY CommitIs
<1>2. working.wallet = durable.wallet /\ W \in Accounts!Owned(call[r].user)
  BY OwnersSame
<1>3. /\ Appendable(x) /\ x \in Int /\ x > 0
      /\ A \in Currencies /\ C \in Currencies /\ A # C
  BY AcceptedIs
<1>4. ASSUME NEW w \in WalletIds, NEW c \in Currencies
      PROVE  /\ Balance(working, w, c) =
                  IF w = W /\ c = A THEN Minus(Book[w][c], x)
                  ELSE IF w = W /\ c = C THEN Plus(Book[w][c], x) ELSE Book[w][c]
             /\ Balance(working, w, c) >= 0
  <2>1. In(r, c) - Out(r, c) = IF c = A THEN -x ELSE IF c = C THEN Carry(x) ELSE 0
    BY <1>3 DEF In, Out, Exchange, Carry
  <2>2. Book[w][c] \in Int /\ Book[w][c] >= 0
    BY BookIs
  <2>3. /\ Balance(working, w, c) =
             Book[w][c] + IF walletOf[r] = w THEN In(r, c) - Out(r, c) ELSE 0
        /\ Balance(working, w, c) >= 0
    BY MovedIs
  <2>4. x \in Int /\ A # C
    BY <1>3
  <2>. HIDE DEF A, C, x
  <2> QED  BY <2>1, <2>2, <2>3, <2>4 DEF Plus, Minus
<1>5. Book[W][A] >= x
  <2>1. Book[W][A] - x >= 0 /\ Book[W][A] \in Int
    BY <1>1, <1>3, <1>4, BookIs DEF Minus
  <2> QED  BY <1>3, <2>1
<1>6. Book' = [Book EXCEPT ![W][A] = Minus(@, x), ![W][C] = Plus(@, x)]
  <2>1. Book' = [w \in WalletIds |-> [c \in Currencies |->
                   IF w = W /\ c = A THEN Minus(Book[w][c], x)
                   ELSE IF w = W /\ c = C THEN Plus(Book[w][c], x) ELSE Book[w][c]]]
    BY <1>4, MovedIs
  <2>2. Book = [w \in WalletIds |-> [c \in Currencies |-> Book[w][c]]]
    BY DEF Book
  <2>. HIDE DEF A, C, x, W
  <2> QED  BY <1>1, <1>3, <2>1, <2>2
<1>7. /\ \A b : Accounts!Plus(b, x) = Plus(b, x) /\ Accounts!Minus(b, x) = Minus(b, x)
      /\ Accounts!Appendable(x)
  BY <1>3, SameArithmetic
<1> QED  BY <1>1, <1>2, <1>3, <1>5, <1>6, <1>7 DEF Accounts!Convert

(* The process starts with the book of the verifications before it.        *)
LEMMA OpeningImplements ==
  ASSUME Init
  PROVE  Accounts!Init
<1>. DEFINE P == DOMAIN Past
<1>1. TypeOK /\ UniqueIn(durable) /\ durable \in Database
  BY OpeningSound, OpeningUnique DEF LedgerInv, TypeOK, UniqueInv
<1>2. call \in [Requests -> Accounts!Call]
  <2>1. Call = Accounts!Call
    BY DEF Call, Accounts!Call, Ops
  <2> QED  BY <1>1, <2>1 DEF TypeOK
<1>3. durable.wallet = [w \in Requests |-> IF w \in P THEN Past[w] ELSE NoUser]
  BY DEF Init, OpeningDatabase, WalletIds
<1>4. reply = [r \in Requests |-> IF r \in P THEN "ok" ELSE "none"]
  BY DEF Init, IsPast
<1>5. ASSUME NEW w \in WalletIds, NEW c \in Currencies
      PROVE  Balance(durable, w, c) =
               IF w \in P /\ c = Home[Past[w]] THEN InitialDeposit ELSE 0
  <2>1. CASE w \in P /\ c = Home[Past[w]]
    <3>1. /\ <<w, "target">> \in HeldIn(durable, w, c)
          /\ durable.balance[<<w, "target">>].availableAmount = InitialDeposit
      BY <2>1, OpeningRows
    <3> QED  BY <1>1, <2>1, <3>1, BalanceIs
  <2>2. CASE ~(w \in P /\ c = Home[Past[w]])
    <3>1. HeldIn(durable, w, c) = {}
      BY <2>2, OpeningRows DEF HeldIn
    <3> QED  BY <1>1, <2>2, <3>1, BalanceIs
  <2> QED  BY <2>1, <2>2
<1>6. Book = [w \in Requests |-> [c \in Currencies |->
                IF w \in P /\ c = Home[Past[w]] THEN InitialDeposit ELSE 0]]
  BY <1>5 DEF Book, WalletIds
<1> QED  BY <1>2, <1>3, <1>4, <1>6 DEF Accounts!Init

(* Only the end of a request, by commit or by failure, is seen in the book.*)
LEMMA SerialStepImplements ==
  ASSUME LedgerSoundNow, [SerialNext]_vars
  PROVE  Accounts!Next \/ UNCHANGED Accounts!vars
<1>1. CASE UNCHANGED vars \/ Crash
  BY <1>1, StutterImplements DEF vars, Crash
<1>2. ASSUME NEW r \in Requests, SerialSubmit(r)
      PROVE  UNCHANGED Accounts!vars
  BY <1>2, StutterImplements DEF SerialSubmit, Submit
<1>3. ASSUME NEW r \in Requests, Step(r) \/ DatabaseError(r)
      PROVE  Accounts!Next \/ UNCHANGED Accounts!vars
  <2>1. AtWork(r)
    BY <1>3 DEF Step, DatabaseError, AtWork, Refuse, FindWallet, OpenWallet, ReadBalances,
                MakeSource, MakeTarget, MakeBalance, RereadSource, RereadTarget, RereadBalance,
                CreateRecord, ReadBalance, Deposit, MoveFunds, CompleteRecord, Finish
  <2>2. InTransaction
    BY <2>1, OthersIdle
  <2>3. CASE Fail(r)
    BY <2>1, <2>3, RefusalImplements DEF Accounts!Next
  <2>4. CASE Finish(r)
    <3>1. CASE call[r].op = "initialize"
      BY <2>4, <3>1, OpenImplements, OpenAgainImplements DEF Accounts!Next
    <3>2. CASE call[r].op # "initialize"
      BY <2>4, <3>2, AcceptedIs, DepositImplements, ConvertImplements DEF Accounts!Next
    <3> QED  BY <3>1, <3>2
  <2>5. CASE ~Fail(r) /\ ~Finish(r)
    <3>1. UNCHANGED <<call, durable, reply>>
      BY <1>3, <2>2, <2>5
         DEF Step, DatabaseError, Store, Refuse, FindWallet, OpenWallet, ReadBalances,
             MakeSource, MakeTarget, MakeBalance, RereadSource, RereadTarget, RereadBalance,
             CreateRecord, ReadBalance, Deposit, MoveFunds, CompleteRecord
    <3> QED  BY <3>1, StutterImplements
  <2> QED  BY <2>3, <2>4, <2>5
<1> QED  BY <1>1, <1>2, <1>3 DEF SerialNext, Work

(* One request at a time, whatever fails or dies on the way, the handlers  *)
(* with their reads, writes and rollbacks implement AccountBook: a request *)
(* takes effect once, at its commit, or not at all, and none converts more *)
(* than its user has (convertCurrency.command.ts:104).                     *)
THEOREM LedgerImplementsAccountBook == SerialSpec => ImplementsAccountBook
<1>1. Init => Accounts!Init
  BY OpeningImplements
<1>2. LedgerSoundNow /\ [SerialNext]_vars => [Accounts!Next]_(Accounts!vars)
  BY SerialStepImplements
<1> QED
  BY <1>1, <1>2, LedgerStaysSound, PTL DEF SerialSpec, ImplementsAccountBook, Accounts!Spec

(* One request at a time no account is ever overdrawn, not even by the     *)
(* negative deposits that nothing validates (fundWallet.command.ts:86):    *)
(* those it takes fail before they are committed.                          *)
THEOREM NoDebt ==
  SerialSpec => [](\A w \in WalletIds, c \in Currencies : Book[w][c] >= 0)
<1>1. LedgerSoundNow => \A w \in WalletIds, c \in Currencies : Book[w][c] >= 0
  BY BookIs
<1> QED  BY <1>1, LedgerStaysSound, PTL
=============================================================================
