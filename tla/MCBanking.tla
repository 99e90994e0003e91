------------------------------- MODULE MCBanking -------------------------------
(***************************************************************************)
(* Two processes of the application and two accounts.  Amounts are 1, and  *)
(* 2, which is over every limit; one of the currencies is not supported.   *)
(***************************************************************************)
EXTENDS Banking, TLC

CONSTANTS c1, c2, a1, a2, ann, bob

MCMoney == {1, 2}

MCLimit == [type \in EventTypeName |-> 1]

MCSymmetry ==
  Permutations(Client) \cup Permutations(Account) \cup Permutations(Customer)

(* What a table holds after a failure matters no more once no rebuild is   *)
(* left: which rows it has still does, for the list shows their ids.       *)
Doomed(t) == t \in spoiled /\ rebuilds = MaxRebuilds

MCView ==
  <<log, client, jobs, told, spoiled, failures, rebuilds,
    IF Doomed("accounts") THEN <<Listed(accounts)>> ELSE <<accounts>>,
    IF Doomed("account_analytics") THEN 0 ELSE openings>>
=============================================================================
