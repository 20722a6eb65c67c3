------------------------------ MODULE MCEconomy ------------------------------
(***************************************************************************)
(* Instances of Economy for TLC.  bob has an address and also signs with a *)
(* key; ann is not doxed; the names of ann, bob and the key begin alike,   *)
(* and both validators have one account.  The brackets and the bounds of   *)
(* the rate are the code's, the emission of a block is three times as      *)
(* much; an epoch has two blocks, a word 8192 values, the two bytes of a   *)
(* rent slot two, less than the grace period, and the money is small.      *)
(***************************************************************************)
EXTENDS Economy, TLC

CONSTANTS founder, ann, bob, key, twoWay, stability, swapRoute, quest1, quest2, odd,
          v1, v2, deed1, sham

Accounts4 == {founder, ann, bob, key}
Address == [a \in Accounts4 |-> IF a = key THEN bob ELSE a]
Beginnings == [a \in Accounts4 |-> IF a = founder THEN "e5" ELSE "a0"]
Levels == (founder :> 3) @@ (ann :> 0) @@ (bob :> 2) @@ (key :> 2)
CutNames == [a \in Accounts4 |-> IF a = key THEN odd ELSE a]
LastByte == [v \in {v1, v2} |-> "01"]
QuestRewards == (quest1 :> 2) @@ (quest2 :> 3)
SelfMinters == (twoWay :> "dexLP") @@ (Registry :> "futureTasks")
               @@ (stability :> "none") @@ (swapRoute :> "none")

\* One deed hash is made of the bytes of a lawyer's record of bob's first claim.
Lookalikes == sham :> [role |-> "lawyer", claim |-> <<bob, deed1, 1>>]

\* Amounts have digits of base 16 and block numbers of base 2, written 8 and 9.
RECURSIVE Digits(_, _, _)
Digits(n, base, zero) ==
    IF n = 0 THEN <<>> ELSE Append(Digits(n \div base, base, zero), zero + (n % base))
AmountThenBlock(amount, b) == Digits(amount, 16, 0) \o Digits(b, 2, 8)

ProgressiveStakingBrackets ==
    << [upTo |-> 1001, pct |-> 15], [upTo |-> 10001, pct |-> 8],
       [upTo |-> 100001, pct |-> 4], [upTo |-> 1000001, pct |-> 2],
       [upTo |-> 0, pct |-> 1] >>

Scenario(ops, n, b) == [ops |-> ops, calls |-> n, blocks |-> b]

\* Which operations are interleaved with each other, in how many calls and blocks.
Workloads ==
    { Scenario({"stakes", "unstaking"}, 4, 5),
      Scenario({"stakes", "rates"}, 4, 4),
      Scenario({"stakes", "unstaking", "restart"}, 3, 4),
      Scenario({"governance", "restart"}, 4, 2),
      Scenario({"governance", "markets"}, 3, 2),
      Scenario({"stakes", "tasks", "funding"}, 3, 4),
      Scenario({"tasks", "faucet", "restart"}, 3, 2),
      Scenario({"tasks", "rent"}, 2, 4),
      Scenario({"community", "tasks", "funding"}, 3, 1),
      Scenario({"bounties", "funding"}, 4, 1),
      Scenario({"faucet"}, 4, 4),
      Scenario({"rent"}, 3, 6),
      Scenario({"storage", "restart"}, 3, 3),
      Scenario({"mrt"}, 6, 1),
      Scenario({"mrt", "restart"}, 4, 2),
      Scenario({"sway", "swap"}, 4, 1),
      Scenario({"swap", "locks"}, 2, 4),
      Scenario({"locks"}, 3, 3) }

LockWorkload == {Scenario({"locks"}, 3, 3)}

\* Validators are interchangeable.
Symmetry == Permutations(Validators)
=============================================================================
