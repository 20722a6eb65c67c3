----------------------------- MODULE Governance ------------------------------
(***************************************************************************)
(* The governance precompile 0x1D (src/evm/governance.go) on top of the    *)
(* emission it steers: a proposal of type "inflation" that passes sets the *)
(* rate of module Staking.                                                 *)
(*                                                                         *)
(* A proposal's identifier is its title, its proposer and the block.  Its  *)
(* description and target are stored and read by no condition; they are    *)
(* left out.  Bonds, voting periods and credits are constants of the code  *)
(* that no operation uses.  (ApplyForCurator, ElectCuratorCouncil and      *)
(* DistributeCuratorRewards have no caller.)                               *)
(***************************************************************************)
EXTENDS Staking

CONSTANTS
    Titles,         \* title hashes
    VoteTypes,      \* types of a proposal
    Proposers,      \* bound: the accounts that make proposals ...
    Voters          \* ... and the accounts that vote and trade

ASSUME GovernanceAssumption ==
    /\ VoteTypes \subseteq {"direct", "quadratic", "futarchy", "inflation"}
    /\ Proposers \subseteq Accounts /\ Voters \subseteq Accounts

VARIABLES
    prop,           \* proposals: [type, status, pct]
    propCount,      \* proposal_count: every creation is listed
    tally,          \* yes and no votes
    ballot,         \* accounts with a record of their vote
    yesBy,          \* history: accounts that voted yes
    market,         \* markets created
    trade           \* the last trade of an account in a market

govVars == <<prop, propCount, tally, ballot, yesBy, market, trade>>

None0 == [id \in {} |-> 0]

GovernanceInit ==
    /\ prop = None0
    /\ propCount = 0
    /\ tally = None0
    /\ ballot = None0
    /\ yesBy = None0
    /\ market = {}
    /\ trade = None0

\* f with value v for id.
Put(f, id, v) == [i \in DOMAIN f \cup {id} |-> IF i = id THEN v ELSE f[i]]

-----------------------------------------------------------------------------

\* govCreateProposal.  Created again in the same block, a proposal is active
\* once more and has no yes votes; its no votes and its ballots stay.
CreateProposal(c, title, type, p) ==
    LET id == <<title, c, block>>
    IN /\ Call
       /\ prop' = Put(prop, id, [type |-> type, status |-> "active", pct |-> p])
       /\ propCount' = propCount + 1
       /\ tally' = Put(tally, id, [yes |-> 0, no |-> IF id \in DOMAIN tally THEN tally[id].no ELSE 0])
       /\ ballot' = IF id \in DOMAIN ballot THEN ballot ELSE Put(ballot, id, {})
       /\ yesBy' = IF id \in DOMAIN yesBy THEN yesBy ELSE Put(yesBy, id, {})
       /\ UNCHANGED <<market, trade, stakingVars, econoVars>>

\* The ballots once c has voted: a slot of zeros is no record, so a no without
\* credits can be cast again.  (Mutant: a vote without credits leaves no record.)
RecordedIfCredits(id, c, yes, credits) ==
    IF credits > 0 THEN ballot[id] \cup {c} ELSE ballot[id]
Recorded(id, c, yes, credits) ==
    IF yes \/ credits > 0 THEN ballot[id] \cup {c} ELSE ballot[id]

\* govVote.  For a quadratic proposal credits are looked up after the vote is
\* counted, nobody has any, and the error of a vote with credits undoes nothing.
Vote(c, id, yes, credits) ==
    /\ Call
    /\ prop[id].status = "active"
    /\ c \notin ballot[id]
    /\ ballot' = [ballot EXCEPT ![id] = Recorded(id, c, yes, credits)]
    /\ tally' = IF yes THEN [tally EXCEPT ![id].yes = @ + 1]
                       ELSE [tally EXCEPT ![id].no = @ + 1]
    /\ yesBy' = IF yes THEN [yesBy EXCEPT ![id] = @ \cup {c}] ELSE yesBy
    /\ UNCHANGED <<prop, propCount, market, trade, stakingVars, econoVars>>

Threshold(type) ==
    CASE type = "direct" -> 50
      [] type = "quadratic" -> 60
      [] type = "futarchy" -> 66
      [] OTHER -> 0

\* (Mutant: a turnout is enough.)
PassesOnTurnout(id) == tally[id].yes + tally[id].no > 0
Passes(id) ==
    LET total == tally[id].yes + tally[id].no
    IN /\ total > 0
       /\ (tally[id].yes * 100) \div total > Threshold(prop[id].type)

\* govFinalize, by anyone and at any time.
Finalize(id) ==
    /\ Call
    /\ prop[id].status = "active"
    /\ prop' = [prop EXCEPT ![id].status = IF Passes(id) THEN "passed" ELSE "failed"]
    /\ IF Passes(id) /\ prop[id].type = "inflation"
       THEN SetInflationPct(prop[id].pct)
       ELSE UNCHANGED pct
    /\ UNCHANGED <<propCount, tally, ballot, yesBy, market, trade, stakeVars, payVars, econoVars>>

CreateMarket(id) ==
    /\ Call
    /\ market' = market \cup {<<id, block>>}
    /\ UNCHANGED <<prop, propCount, tally, ballot, yesBy, trade, stakingVars, econoVars>>

\* govTradeMarket replaces an earlier trade, and asks for no market to exist.
TradeMarket(c, m, side) ==
    /\ Call
    /\ trade' = Put(trade, <<m, c>>, side)
    /\ UNCHANGED <<prop, propCount, tally, ballot, yesBy, market, stakingVars, econoVars>>

GovernanceNext(types, lots) ==
    \/ \E c \in Proposers, title \in Titles, type \in types :
           \E p \in IF type = "inflation" THEN Pcts ELSE {0} : CreateProposal(c, title, type, p)
    \/ \E id \in DOMAIN prop :
          \/ \E c \in Voters, yes \in BOOLEAN, credits \in lots : Vote(c, id, yes, credits)
          \/ Finalize(id)

MarketNext ==
    \/ \E id \in DOMAIN prop : CreateMarket(id)
    \/ \E c \in Voters, id \in DOMAIN prop, side \in {0, 1} : TradeMarket(c, <<id, block>>, side)

-----------------------------------------------------------------------------
(* Properties *)

\* A proposal has no more yes votes than accounts that voted yes, through errors
\* after the count, re-creations in the same block and repeated votes.
OneYesEach == \A id \in DOMAIN tally : tally[id].yes <= Cardinality(yesBy[id])

\* The rate of emission moves only at the finalization of an active inflation
\* proposal somebody voted for, to the rate it names, inside the bounds; a
\* restart alone takes it back to the default.
RateMovedByVote ==
    [][pct' # pct =>
          \/ pct' = DefaultPct /\ stake' = NoValidators /\ propCount' = propCount
          \/ \E id \in DOMAIN prop :
                /\ prop[id].status = "active" /\ prop'[id].status = "passed"
                /\ prop[id].type = "inflation" /\ yesBy[id] # {}
                /\ pct' = prop[id].pct /\ pct' \in MinPct .. MaxPct]_<<govVars, stakingVars>>
=============================================================================
