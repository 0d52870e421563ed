------------------------------ MODULE MCWallet ------------------------------
(* Wallet instantiated with two keys, five kinds of unlock conditions and  *)
(* two transactions.                                                       *)
EXTENDS Wallet, TLC

CONSTANTS k1, k2, t1, t2, g1

\* The standard conditions of each key, and three non-standard ones that
\* each differ from a standard one in a single field the fast path tests.
MCUnlockConds ==
    { [timelock |-> 0, keys |-> <<k1>>, sigs |-> 1],
      [timelock |-> 0, keys |-> <<k2>>, sigs |-> 1],
      [timelock |-> 0, keys |-> <<k1>>, sigs |-> 2],
      [timelock |-> 1, keys |-> <<k1>>, sigs |-> 1],
      [timelock |-> 0, keys |-> <<k1, k2>>, sigs |-> 1] }

\* The owner holds k1 alone: it owns its standard address and the two
\* single-key non-standard ones, and not k2's or the two-key address.
MCOwnerConds ==
    { [timelock |-> 0, keys |-> <<k1>>, sigs |-> 1],
      [timelock |-> 0, keys |-> <<k1>>, sigs |-> 2],
      [timelock |-> 1, keys |-> <<k1>>, sigs |-> 1] }

MCTxnIds == {t1, t2}

MCGenesis == <<[id |-> g1, addr |-> StandardAddress(k1)]>>

MCSymmetry == Permutations(MCTxnIds)
=============================================================================
