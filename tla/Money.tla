-------------------------------- MODULE Money --------------------------------
(***************************************************************************)
(* Balance arithmetic.  The balance columns are decimal(10,2), which the   *)
(* driver hands to the code as text ("100.00"), while the amount of a      *)
(* request is a JavaScript number.  So `balance - amount` subtracts, but   *)
(* `balance + amount` writes the digits of the amount after the text of    *)
(* the balance, and the column rounds what it is given to two decimals.    *)
(* All values are in hundredths.                                           *)
(***************************************************************************)
EXTENDS Integers

LeadingDigit[n \in Nat] == IF n < 10 THEN n ELSE LeadingDigit[n \div 10]

(* "100.00" + 50 is "100.0050", still a number; the digits of a negative   *)
(* amount or of one with decimals of its own make it none ("100.00-5",     *)
(* "100.000.5") and the column refuses it.                                 *)
Appendable(amount) == amount >= 0 /\ amount % 100 = 0

(* The third decimal of the text, which alone decides the rounding, is the *)
(* first digit of the amount.  Rounding goes away from zero.               *)
Carry(amount) == IF LeadingDigit[amount \div 100] >= 5 THEN 1 ELSE 0

Plus(balance, amount) ==
  IF balance >= 0 THEN balance + Carry(amount) ELSE balance - Carry(amount)

(* Slip: the debit adds.                                                   *)
Minus_Added(balance, amount) == balance + amount

Minus(balance, amount) == balance - amount
=============================================================================
