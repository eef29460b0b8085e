------------------------------- MODULE MCBilling -------------------------------
(* One address, either provider; limits of 1, 1 and 2 where the plans have      *)
(* 100, 5000 and 25000, so that a counter of 3 is past them all.                *)
EXTENDS Billing, TLC

MCLimit == [FREE |-> 1, PRO |-> 1, AGENCY |-> 2]
MCTitle == [PRO |-> {"pro"}, AGENCY |-> {"agency"}]
MCProducts == {"PRO", "AGENCY"}
================================================================================
