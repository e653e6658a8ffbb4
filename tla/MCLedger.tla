------------------------------- MODULE MCLedger -------------------------------
EXTENDS LedgerAudit, TLC

CONSTANTS ada, ben, NGN, USD, p, r1, r2, r3

MCHome == (ada :> NGN) @@ (ben :> USD)
MCPast == p :> ada

MCCall(op, u, source, target, amount) ==
  [op |-> op, user |-> u, source |-> source, target |-> target, amount |-> amount]

(* Exchanges out of Ada's opening balance: two that fit, the larger only   *)
(* once, one with decimals, one that never fits; deposits with and without *)
(* a balance to meet, a negative one; verifications.                       *)
OverlapCalls ==
  {MCCall("convert", ada, NGN, USD, 7000000),
   MCCall("convert", ada, NGN, USD, 50),
   MCCall("trade", ada, NGN, USD, 300000),
   MCCall("fund", ada, USD, USD, 5000),
   MCCall("fund", ada, USD, USD, -5000),
   MCCall("initialize", ben, USD, USD, 12000000)}

(* The same, with deposits that do and do not round up, an exchange of the *)
(* whole balance, of a currency for itself and of nothing.                 *)
SerialCalls ==
  {MCCall("convert", ada, NGN, USD, 12000000),
   MCCall("convert", ada, NGN, USD, 50),
   MCCall("convert", ada, USD, NGN, 1),
   MCCall("convert", ada, NGN, NGN, 5000),
   MCCall("convert", ada, NGN, USD, 0),
   MCCall("trade", ada, NGN, USD, 300000),
   MCCall("fund", ada, NGN, NGN, 5000),
   MCCall("fund", ada, NGN, NGN, 4000),
   MCCall("fund", ada, USD, USD, 5000),
   MCCall("fund", ben, USD, USD, 5000),
   MCCall("initialize", ada, NGN, NGN, 12000000),
   MCCall("initialize", ben, USD, USD, 12000000)}

(* Requests only name themselves.                                          *)
RequestSymmetry == Permutations({r1, r2, r3})
=============================================================================
