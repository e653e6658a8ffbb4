----------------------------- MODULE AccountBook -----------------------------
(***************************************************************************)
(* What the ledger promises clients whose requests do not overlap: a book  *)
(* of accounts in which a request takes effect in one step or not at all,  *)
(* whatever is read, written and rolled back underneath.  A user opens one *)
(* wallet, with the deposit of the country; nobody converts more than the  *)
(* account of the source holds; no trade is ever accepted.  A request may  *)
(* also be refused, or be cut off for ever.                                *)
(***************************************************************************)
EXTENDS Money

CONSTANTS Users, Currencies, Requests, Home, Past, NoUser, InitialDeposit

VARIABLES call,     \* what each request asks for
          owner,    \* whose wallet a request has opened
          book,     \* what a wallet holds of each currency
          outcome   \* whether it took effect

vars == <<call, owner, book, outcome>>

Call == [op : {"fund", "convert", "trade", "initialize"}, user : Users,
         source : Currencies, target : Currencies, amount : Int]

Init ==
  /\ call \in [Requests -> Call]
  /\ owner = [w \in Requests |-> IF w \in DOMAIN Past THEN Past[w] ELSE NoUser]
  /\ book = [w \in Requests |-> [c \in Currencies |->
               IF w \in DOMAIN Past /\ c = Home[Past[w]] THEN InitialDeposit ELSE 0]]
  /\ outcome = [r \in Requests |-> IF r \in DOMAIN Past THEN "ok" ELSE "none"]

Owned(u) == {w \in Requests : owner[w] = u}

Close(r, a) ==
  /\ outcome[r] = "none"
  /\ outcome' = [outcome EXCEPT ![r] = a]
  /\ UNCHANGED call

Refuse(r) ==
  /\ Close(r, "error")
  /\ UNCHANGED <<owner, book>>

Open(r) ==
  /\ call[r].op = "initialize"
  /\ Owned(call[r].user) = {}
  /\ owner' = [owner EXCEPT ![r] = call[r].user]
  /\ book' = [book EXCEPT ![r][Home[call[r].user]] = InitialDeposit]
  /\ Close(r, "ok")

(* A second verification of a user changes nothing.                        *)
OpenAgain(r) ==
  /\ call[r].op = "initialize"
  /\ Owned(call[r].user) # {}
  /\ UNCHANGED <<owner, book>>
  /\ Close(r, "ok")

Deposit(r) ==
  /\ call[r].op = "fund"
  /\ Appendable(call[r].amount)
  /\ \E w \in Owned(call[r].user) :
       book' = [book EXCEPT ![w][call[r].target] = Plus(@, call[r].amount)]
  /\ UNCHANGED owner
  /\ Close(r, "ok")

Convert(r) ==
  /\ call[r].op = "convert"
  /\ call[r].source # call[r].target
  /\ call[r].amount > 0 /\ Appendable(call[r].amount)
  /\ \E w \in Owned(call[r].user) :
       /\ book[w][call[r].source] >= call[r].amount
       /\ book' = [book EXCEPT ![w][call[r].source] = Minus(@, call[r].amount),
                               ![w][call[r].target] = Plus(@, call[r].amount)]
  /\ UNCHANGED owner
  /\ Close(r, "ok")

Next ==
  \E r \in Requests :
    Refuse(r) \/ Open(r) \/ OpenAgain(r) \/ Deposit(r) \/ Convert(r)

Spec == Init /\ [][Next]_vars
=============================================================================
