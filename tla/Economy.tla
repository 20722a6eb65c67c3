------------------------------ MODULE Economy --------------------------------
(***************************************************************************)
(* The native economy: emission and the governance of its rate, quests and *)
(* the faucet, state rent and the storage endowment, mineral rights, and   *)
(* the exchange, on one chain.  They meet in the block, which pays the     *)
(* validators, the treasury's share and the live supply the quest cap is   *)
(* taken from; in the economic snapshot that quests, rent, storage and     *)
(* mineral rights accrue into; and in a restart, which loses what is not   *)
(* in an account.                                                          *)
(***************************************************************************)
EXTENDS Governance, Quests, Endowment, MineralRights, Exchange

vars == <<callVars, econoVars, stakingVars, govVars, questVars, endowVars, mrtVars, exchangeVars>>

Init ==
    /\ CallsInit
    /\ EconoInit
    /\ StakingInit
    /\ GovernanceInit
    /\ QuestsInit
    /\ EndowmentInit
    /\ MrtInit
    /\ ExchangeInit

\* ProduceBlock after its transactions, at the height they ran at: RolloverEpoch
\* and the economic policy at an epoch's end, then the validators, the treasury
\* and the live supply.
ProduceBlock ==
    /\ NextBlock
    /\ StakingBlock(block)
    /\ QuestsBlock(block, TreasuryShareOf(Paid(block)))
    /\ UNCHANGED <<govVars, endowVars, mrtVars, exchangeVars>>

\* A restart reads the accounts back from the store and starts everything else
\* anew.
Restart ==
    /\ Uses("restart")
    /\ Between
    /\ EconoRestart
    /\ StakingRestart
    /\ UNCHANGED <<supply, govVars, questVars, endowVars, mrtVars, exchangeVars>>

Next ==
    \/ ProduceBlock
    \/ Restart
    \/ /\ \/ Uses("stakes") /\ StakeNext
          \/ Uses("unstaking") /\ UnstakeNext
       /\ UNCHANGED <<govVars, questVars, endowVars, mrtVars, exchangeVars>>
    \/ /\ \/ Uses("governance") /\ GovernanceNext(VoteTypes, {0, 1})
          \/ Uses("rates") /\ GovernanceNext({"inflation"}, {0})
          \/ Uses("markets") /\ MarketNext
       /\ UNCHANGED <<questVars, endowVars, mrtVars, exchangeVars>>
    \/ /\ \/ Uses("tasks") /\ TaskNext
          \/ Uses("funding") /\ FundNext
          \/ Uses("bounties") /\ BountyNext
          \/ Uses("community") /\ CommunityNext
          \/ Uses("faucet") /\ FaucetNext
       /\ UNCHANGED <<stakingVars, govVars, endowVars, mrtVars, exchangeVars>>
    \/ /\ \/ Uses("rent") /\ RentNext
          \/ Uses("storage") /\ StorageNext
       /\ UNCHANGED <<stakingVars, govVars, questVars, mrtVars, exchangeVars>>
    \/ /\ Uses("mrt") /\ MrtNext
       /\ UNCHANGED <<stakingVars, govVars, questVars, endowVars, exchangeVars>>
    \/ /\ \/ Uses("sway") /\ SwayNext
          \/ Uses("swap") /\ SwapNext
          \/ Uses("locks") /\ LockNext
       /\ UNCHANGED <<econoVars, stakingVars, govVars, questVars, endowVars, mrtVars>>

Spec == Init /\ [][Next]_vars
=============================================================================
