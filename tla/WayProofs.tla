------------------------------ MODULE WayProofs ------------------------------
(***************************************************************************)
(* Votes and the rate of emission, the emission itself, quests and their   *)
(* cap, and storage, in the whole economy of module Economy.               *)
(***************************************************************************)
EXTENDS Economy, Sums, TLAPS

-----------------------------------------------------------------------------
(* Governance *)

Proposals ==
    [type : VoteTypes \cup {"inflation"}, status : {"active", "passed", "failed"}, pct : Nat]
Tallies == [yes : Nat, no : Nat]

GovTypes ==
    /\ prop \in [DOMAIN prop -> Proposals]
    /\ tally \in [DOMAIN prop -> Tallies]
    /\ ballot \in [DOMAIN prop -> SUBSET Accounts]
    /\ yesBy \in [DOMAIN prop -> SUBSET Accounts]

\* What makes the count inductive: whoever voted yes has a record that keeps it
\* from voting again, also after the proposal was created anew.
GovInv ==
    /\ GovTypes
    /\ \A id \in DOMAIN prop :
          /\ yesBy[id] \subseteq ballot[id]
          /\ tally[id].yes <= Cardinality(yesBy[id])

LEMMA VotersFinite ==
  ASSUME NEW S \in SUBSET Accounts
  PROVE  IsFiniteSet(S) /\ Cardinality(S) \in Nat
BY QuestsAssumption, FS_Subset, FS_CardinalityType

\* One more voter is one more.
LEMMA OneMoreVoter ==
  ASSUME NEW S \in SUBSET Accounts, NEW c \in Accounts, c \notin S
  PROVE  Cardinality(S \cup {c}) = Cardinality(S) + 1
BY VotersFinite, FS_AddElement

LEMMA CreateProposalKeeps ==
  ASSUME GovInv, NEW c \in Accounts, NEW title,
         NEW type \in VoteTypes \cup {"inflation"}, NEW p \in Nat,
         CreateProposal(c, title, type, p)
  PROVE  GovInv'
<1> DEFINE id == <<title, c, block>>
           D == DOMAIN prop \cup {id}
           t == [yes |-> 0, no |-> IF id \in DOMAIN tally THEN tally[id].no ELSE 0]
           r == [type |-> type, status |-> "active", pct |-> p]
<1>1. DOMAIN tally = DOMAIN prop /\ DOMAIN ballot = DOMAIN prop /\ DOMAIN yesBy = DOMAIN prop
  BY DEF GovInv, GovTypes
<1>2. /\ prop' = Put(prop, id, r)
      /\ tally' = Put(tally, id, t)
      /\ ballot' = IF id \in DOMAIN ballot THEN ballot ELSE Put(ballot, id, {})
      /\ yesBy' = IF id \in DOMAIN yesBy THEN yesBy ELSE Put(yesBy, id, {})
  BY DEF CreateProposal
<1>3. r \in Proposals /\ t \in Tallies /\ t.yes = 0
  BY <1>1 DEF Proposals, Tallies, GovInv, GovTypes
<1> HIDE DEF id, t, r
<1>4. DOMAIN prop' = D
  BY <1>2 DEF Put
<1>5. /\ prop' \in [D -> Proposals]
      /\ tally' \in [D -> Tallies]
      /\ ballot' \in [D -> SUBSET Accounts]
      /\ yesBy' \in [D -> SUBSET Accounts]
  <2>1. prop' \in [D -> Proposals] /\ tally' \in [D -> Tallies]
    BY <1>1, <1>2, <1>3 DEF Put, GovInv, GovTypes
  <2>2. ballot' \in [D -> SUBSET Accounts] /\ yesBy' \in [D -> SUBSET Accounts]
    BY <1>1, <1>2 DEF Put, GovInv, GovTypes
  <2> QED
    BY <2>1, <2>2
<1>6. ASSUME NEW i \in D
      PROVE  yesBy'[i] \subseteq ballot'[i] /\ tally'[i].yes <= Cardinality(yesBy'[i])
  <2>1. CASE i = id
    <3>1. tally'[i].yes = 0
      BY <1>1, <1>2, <1>3, <2>1 DEF Put
    <3>2. yesBy'[i] \subseteq ballot'[i]
      BY <1>1, <1>2, <2>1 DEF Put, GovInv
    <3>3. Cardinality(yesBy'[i]) \in Nat
      BY <1>5, <2>1, VotersFinite
    <3> QED
      BY <3>1, <3>2, <3>3
  <2>2. CASE i # id
    BY <1>1, <1>2, <2>2 DEF Put, GovInv
  <2> QED
    BY <2>1, <2>2
<1> QED
  BY <1>4, <1>5, <1>6 DEF GovInv, GovTypes

LEMMA VoteKeeps ==
  ASSUME GovInv, NEW c \in Accounts, NEW id \in DOMAIN prop,
         NEW yes \in BOOLEAN, NEW credits \in {0, 1}, Vote(c, id, yes, credits)
  PROVE  GovInv'
<1>1. /\ prop' = prop
      /\ c \notin ballot[id]
      /\ ballot' = [ballot EXCEPT ![id] = Recorded(id, c, yes, credits)]
      /\ yesBy' = IF yes THEN [yesBy EXCEPT ![id] = yesBy[id] \cup {c}] ELSE yesBy
      /\ tally' = IF yes THEN [tally EXCEPT ![id] = [tally[id] EXCEPT !.yes = tally[id].yes + 1]]
                         ELSE [tally EXCEPT ![id] = [tally[id] EXCEPT !.no = tally[id].no + 1]]
  BY DEF Vote
<1>2. /\ tally[id] \in Tallies
      /\ ballot[id] \in SUBSET Accounts /\ yesBy[id] \in SUBSET Accounts
      /\ yesBy[id] \subseteq ballot[id]
      /\ tally[id].yes <= Cardinality(yesBy[id])
      /\ tally[id].yes \in Nat
  BY DEF GovInv, GovTypes, Tallies
<1>3. /\ Recorded(id, c, yes, credits) \in SUBSET Accounts
      /\ ballot[id] \subseteq Recorded(id, c, yes, credits)
      /\ yes => c \in Recorded(id, c, yes, credits)
  BY <1>2 DEF Recorded
<1>4. ballot' \in [DOMAIN prop -> SUBSET Accounts] /\ yesBy' \in [DOMAIN prop -> SUBSET Accounts]
  BY <1>1, <1>2, <1>3 DEF GovInv, GovTypes
<1>5. /\ [tally[id] EXCEPT !.yes = tally[id].yes + 1] \in Tallies
      /\ [tally[id] EXCEPT !.no = tally[id].no + 1] \in Tallies
      /\ [tally[id] EXCEPT !.yes = tally[id].yes + 1].yes = tally[id].yes + 1
      /\ [tally[id] EXCEPT !.no = tally[id].no + 1].yes = tally[id].yes
  BY <1>2 DEF Tallies
<1>6. tally' \in [DOMAIN prop -> Tallies]
  BY <1>1, <1>5 DEF GovInv, GovTypes
<1>7. yesBy'[id] \subseteq ballot'[id] /\ tally'[id].yes <= Cardinality(yesBy'[id])
  <2>1. CASE yes
    <3>1. yesBy'[id] = yesBy[id] \cup {c} /\ tally'[id].yes = tally[id].yes + 1
      BY <1>1, <1>5, <2>1 DEF GovInv, GovTypes
    <3>2. Cardinality(yesBy[id] \cup {c}) = Cardinality(yesBy[id]) + 1
      BY <1>1, <1>2, OneMoreVoter
    <3>3. ballot'[id] = Recorded(id, c, yes, credits)
      BY <1>1 DEF GovInv, GovTypes
    <3>4. Cardinality(yesBy[id]) \in Nat
      BY <1>2, VotersFinite
    <3>5. yesBy'[id] \subseteq ballot'[id]
      BY <1>2, <1>3, <2>1, <3>1, <3>3
    <3>6. tally'[id].yes <= Cardinality(yesBy'[id])
      BY <1>2, <3>1, <3>2, <3>4
    <3> QED
      BY <3>5, <3>6
  <2>2. CASE ~yes
    <3>1. yesBy' = yesBy /\ tally'[id].yes = tally[id].yes
      BY <1>1, <1>5, <2>2 DEF GovInv, GovTypes
    <3>2. ballot'[id] = Recorded(id, c, yes, credits)
      BY <1>1 DEF GovInv, GovTypes
    <3> QED
      BY <1>2, <1>3, <3>1, <3>2
  <2> QED
    BY <2>1, <2>2
<1>8. ASSUME NEW i \in DOMAIN prop, i # id
      PROVE  yesBy'[i] \subseteq ballot'[i] /\ tally'[i].yes <= Cardinality(yesBy'[i])
  <2>1. yesBy'[i] = yesBy[i] /\ ballot'[i] = ballot[i] /\ tally'[i] = tally[i]
    BY <1>1, <1>8 DEF GovInv, GovTypes
  <2> QED
    BY <2>1 DEF GovInv
<1> QED
  BY <1>1, <1>4, <1>6, <1>7, <1>8 DEF GovInv, GovTypes

LEMMA FinalizeKeeps ==
  ASSUME GovInv, NEW id \in DOMAIN prop, Finalize(id)
  PROVE  GovInv'
<1> DEFINE st == IF Passes(id) THEN "passed" ELSE "failed"
<1>1. /\ prop' = [prop EXCEPT ![id] = [prop[id] EXCEPT !.status = st]]
      /\ tally' = tally /\ ballot' = ballot /\ yesBy' = yesBy
  BY DEF Finalize
<1>2. [prop[id] EXCEPT !.status = st] \in Proposals
  BY DEF GovInv, GovTypes, Proposals
<1> HIDE DEF st
<1>3. DOMAIN prop' = DOMAIN prop /\ prop' \in [DOMAIN prop -> Proposals]
  BY <1>1, <1>2 DEF GovInv, GovTypes
<1> QED
  BY <1>1, <1>3 DEF GovInv, GovTypes

LEMMA GovUnchanged ==
  ASSUME GovInv, UNCHANGED <<prop, tally, ballot, yesBy>>
  PROVE  GovInv'
BY DEF GovInv, GovTypes

\* The state of governance changes in its own calls only.
LEMMA GovSteps ==
  ASSUME [Next]_vars
  PROVE  \/ UNCHANGED govVars
         \/ GovernanceNext(VoteTypes, {0, 1}) \/ GovernanceNext({"inflation"}, {0})
         \/ MarketNext
BY DEF Next, ProduceBlock, Restart, vars

LEMMA GovInvInitially == Init => GovInv
BY DEF Init, GovernanceInit, None0, GovInv, GovTypes

LEMMA GovCallsKeep ==
  ASSUME GovInv, NEW types \in SUBSET (VoteTypes \cup {"inflation"}),
         NEW lots \in SUBSET {0, 1}, GovernanceNext(types, lots)
  PROVE  GovInv'
<1>0. /\ Proposers \subseteq Accounts /\ Voters \subseteq Accounts
      /\ Pcts \subseteq Nat
  BY GovernanceAssumption, StakingAssumption
<1>1. ASSUME NEW c \in Proposers, NEW title \in Titles, NEW type \in types,
             NEW p \in IF type = "inflation" THEN Pcts ELSE {0},
             CreateProposal(c, title, type, p)
      PROVE  GovInv'
  <2>1. p \in Nat /\ type \in VoteTypes \cup {"inflation"} /\ c \in Accounts
    BY <1>0
  <2> QED
    BY <1>1, <2>1, CreateProposalKeeps
<1>2. ASSUME NEW id \in DOMAIN prop, NEW c \in Voters, NEW yes \in BOOLEAN,
             NEW credits \in lots, Vote(c, id, yes, credits)
      PROVE  GovInv'
  BY <1>0, <1>2, VoteKeeps
<1>3. ASSUME NEW id \in DOMAIN prop, Finalize(id)
      PROVE  GovInv'
  BY <1>3, FinalizeKeeps
<1> QED
  BY <1>1, <1>2, <1>3 DEF GovernanceNext

LEMMA GovInvKept ==
  ASSUME GovInv, [Next]_vars
  PROVE  GovInv'
<1>1. CASE UNCHANGED govVars
  BY <1>1, GovUnchanged DEF govVars
<1>2. CASE MarketNext
  BY <1>2, GovUnchanged DEF MarketNext, CreateMarket, TradeMarket
<1> QED
  BY <1>1, <1>2, GovSteps, GovCallsKeep

\* No account adds two yes votes to a proposal (govVote, govCreateProposal): its
\* record outlives the error of a quadratic vote and the re-creation that clears
\* the count.
THEOREM OneVoteEach == Spec => []OneYesEach
<1>1. GovInv => OneYesEach
  BY DEF GovInv, GovTypes, OneYesEach
<1> QED
  BY <1>1, GovInvInitially, GovInvKept, PTL DEF Spec

-----------------------------------------------------------------------------
(* The rate *)

\* An inflation proposal that passes has a vote behind it.
LEMMA PassedHasVotes ==
  ASSUME GovInv, NEW id \in DOMAIN prop, prop[id].type = "inflation", Passes(id)
  PROVE  yesBy[id] # {}
<1>1. /\ tally[id].yes \in Nat /\ tally[id].no \in Nat
      /\ tally[id].yes <= Cardinality(yesBy[id])
  BY DEF GovInv, GovTypes, Tallies
<1>2. Threshold("inflation") = 0
  BY DEF Threshold
<1>3. /\ tally[id].yes + tally[id].no > 0
      /\ (tally[id].yes * 100) \div (tally[id].yes + tally[id].no) > 0
  BY <1>2 DEF Passes
<1>4. tally[id].yes # 0
  BY <1>1, <1>3
<1> QED
  BY <1>1, <1>4, FS_EmptySet

LEMMA FinalizeMovesRate ==
  ASSUME GovInv, NEW id \in DOMAIN prop, Finalize(id), pct' # pct
  PROVE  /\ prop[id].status = "active" /\ prop'[id].status = "passed"
         /\ prop[id].type = "inflation" /\ yesBy[id] # {}
         /\ pct' = prop[id].pct /\ pct' \in MinPct .. MaxPct
<1>1. /\ prop[id].status = "active"
      /\ Passes(id) /\ prop[id].type = "inflation"
      /\ SetInflationPct(prop[id].pct)
      /\ prop' = [prop EXCEPT ![id] = [prop[id] EXCEPT !.status = "passed"]]
  BY DEF Finalize
<1>2. prop[id] \in Proposals
  BY DEF GovInv, GovTypes
<1>3. prop'[id].status = "passed"
  BY <1>1, <1>2 DEF Proposals
<1>4. prop[id].pct \in Nat /\ MinPct \in Nat /\ MaxPct \in Nat
  BY <1>2, StakingAssumption DEF Proposals
<1>5. pct' = prop[id].pct /\ pct' \in MinPct .. MaxPct
  BY <1>1, <1>4 DEF SetInflationPct, Clamp
<1> QED
  BY <1>1, <1>3, <1>5, PassedHasVotes

\* The rate is left alone by every step but a finalization and a restart.
LEMMA RateSteps ==
  ASSUME [Next]_vars, pct' # pct
  PROVE  Restart \/ \E id \in DOMAIN prop : Finalize(id)
<1>1. ProduceBlock => pct' = pct
  BY DEF ProduceBlock, StakingBlock
<1>2. StakeNext \/ UnstakeNext => pct' = pct
  BY DEF StakeNext, UnstakeNext, RegisterStake, RemoveStake, ClaimReward
<1>3. ASSUME NEW types, NEW lots, GovernanceNext(types, lots)
      PROVE  \E id \in DOMAIN prop : Finalize(id)
  <2>1. \A c, title, type, p : CreateProposal(c, title, type, p) => pct' = pct
    BY DEF CreateProposal, stakingVars
  <2>2. \A c, id, yes, credits : Vote(c, id, yes, credits) => pct' = pct
    BY DEF Vote, stakingVars
  <2> QED
    BY <1>3, <2>1, <2>2 DEF GovernanceNext
<1>4. MarketNext => pct' = pct
  BY DEF MarketNext, CreateMarket, TradeMarket, stakingVars
<1>5. UNCHANGED stakingVars => pct' = pct
  BY DEF stakingVars
<1>6. UNCHANGED vars => UNCHANGED stakingVars
  BY DEF vars
<1> QED
  BY <1>1, <1>2, <1>3, <1>4, <1>5, <1>6 DEF Next

\* The rate of emission moves only when an active inflation proposal somebody
\* voted for is finalized (govFinalize), to the rate it names and inside the
\* bounds; a restart takes it back to the default.
THEOREM RateMovesByVote == Spec => RateMovedByVote
<1> DEFINE Moved ==
      \/ pct' = DefaultPct /\ stake' = NoValidators /\ propCount' = propCount
      \/ \E id \in DOMAIN prop :
            /\ prop[id].status = "active" /\ prop'[id].status = "passed"
            /\ prop[id].type = "inflation" /\ yesBy[id] # {}
            /\ pct' = prop[id].pct /\ pct' \in MinPct .. MaxPct
<1>1. GovInv /\ [Next]_vars => [pct' # pct => Moved]_<<govVars, stakingVars>>
  <2> SUFFICES ASSUME GovInv, [Next]_vars, pct' # pct PROVE Moved
    OBVIOUS
  <2>1. CASE Restart
    <3>1. pct' = Clamp(DefaultPct) /\ stake' = NoValidators /\ propCount' = propCount
      BY <2>1 DEF Restart, StakingRestart, govVars
    <3>2. Clamp(DefaultPct) = DefaultPct
      BY StakingAssumption DEF Clamp
    <3> QED
      BY <3>1, <3>2
  <2>2. CASE \E id \in DOMAIN prop : Finalize(id)
    BY <2>2, FinalizeMovesRate
  <2> QED
    BY <2>1, <2>2, RateSteps
<1> QED
  BY <1>1, GovInvInitially, GovInvKept, PTL DEF Spec, RateMovedByVote

-----------------------------------------------------------------------------
(* Rewards: the operators of module Staking *)

LEMMA MinOfTwo ==
  ASSUME NEW a \in Int, NEW b \in Int
  PROVE  Min({a, b}) = IF a <= b THEN a ELSE b
BY DEF Min

\* Quotients: what division by a positive number does to order and sign.
LEMMA DivFacts ==
  ASSUME NEW a \in Nat, NEW d \in Nat \ {0}
  PROVE  a \div d \in Nat /\ (a \div d) * d <= a
OBVIOUS

LEMMA DivMonotone ==
  ASSUME NEW a \in Nat, NEW b \in Nat, a <= b, NEW d \in Nat \ {0}
  PROVE  a \div d <= b \div d
OBVIOUS

\* A bracket holds at least nothing of a stake, and not less of a larger one.
LEMMA BracketFacts ==
  ASSUME NEW i \in DOMAIN Brackets, NEW s \in Nat, NEW t \in Nat, s <= t
  PROVE  /\ TokensInBracket(i, s) \in Nat
         /\ TokensInBracket(i, s) <= TokensInBracket(i, t)
         /\ Brackets[i].pct \in Nat
<1>1. /\ Brackets \in Seq([upTo : Nat, pct : Nat])
      /\ \A j \in 2 .. Len(Brackets) :
            Brackets[j].upTo = 0 \/ Brackets[j - 1].upTo <= Brackets[j].upTo
  BY StakingAssumption
<1>2. /\ DOMAIN Brackets = 1 .. Len(Brackets) /\ Len(Brackets) \in Nat
      /\ \A j \in 1 .. Len(Brackets) : Brackets[j].upTo \in Nat /\ Brackets[j].pct \in Nat
  <2> DEFINE B == [upTo : Nat, pct : Nat]
  <2>1. \A x \in B : x.upTo \in Nat /\ x.pct \in Nat
    OBVIOUS
  <2>2. Brackets \in Seq(B)
    BY <1>1
  <2> HIDE DEF B
  <2>3. /\ DOMAIN Brackets = 1 .. Len(Brackets) /\ Len(Brackets) \in Nat
        /\ \A j \in 1 .. Len(Brackets) : Brackets[j] \in B
    BY <2>2
  <2> QED
    BY <2>1, <2>3
<1> DEFINE lower == IF i = 1 THEN 0 ELSE Brackets[i - 1].upTo
           upTo == Brackets[i].upTo
           Above(x) == IF x > lower THEN x - lower ELSE 0
<1>3. lower \in Nat /\ upTo \in Nat /\ (upTo = 0 \/ lower <= upTo)
  BY <1>1, <1>2, SMTT(30)
<1>4. \A x \in Nat : TokensInBracket(i, x) = IF upTo = 0 THEN Above(x) ELSE Min({Above(x), upTo - lower})
  BY DEF TokensInBracket
<1> HIDE DEF lower, upTo
<1>5. Above(s) \in Nat /\ Above(t) \in Nat /\ Above(s) <= Above(t)
  BY <1>3
<1> HIDE DEF Above
<1>6. ASSUME NEW x \in Nat, Above(x) \in Nat, upTo # 0
      PROVE  TokensInBracket(i, x) = IF Above(x) <= upTo - lower THEN Above(x) ELSE upTo - lower
  <2>1. Min({Above(x), upTo - lower}) = IF Above(x) <= upTo - lower THEN Above(x) ELSE upTo - lower
    BY <1>3, <1>6, MinOfTwo
  <2> QED
    BY <1>4, <1>6, <2>1
<1>7. TokensInBracket(i, s) \in Nat /\ TokensInBracket(i, s) <= TokensInBracket(i, t)
  <2>1. CASE upTo = 0
    BY <1>4, <1>5, <2>1
  <2>2. CASE upTo # 0
    BY <1>3, <1>5, <1>6, <2>2
  <2> QED
    BY <2>1, <2>2
<1> QED
  BY <1>2, <1>7

\* A larger stake is not rewarded less: the bracket table keeps the order.
LEMMA RewardFacts ==
  ASSUME NEW s \in Nat, NEW t \in Nat, s <= t
  PROVE  CalculateReward(s) \in Nat /\ CalculateReward(s) <= CalculateReward(t)
<1> DEFINE f(x) == [i \in DOMAIN Brackets |-> TokensInBracket(i, x) * Brackets[i].pct]
           F(x) == SumFunctionOnSet(f(x), DOMAIN Brackets)
<1>1. IsFiniteSet(DOMAIN Brackets)
  <2>1. DOMAIN Brackets = 1 .. Len(Brackets) /\ Len(Brackets) \in Nat
    BY StakingAssumption
  <2> QED
    BY <2>1, FS_Interval
<1>2. ASSUME NEW i \in DOMAIN Brackets
      PROVE  f(s)[i] \in Nat /\ f(t)[i] \in Nat /\ f(s)[i] <= f(t)[i]
  <2>1. /\ TokensInBracket(i, s) \in Nat /\ TokensInBracket(i, t) \in Nat
        /\ TokensInBracket(i, s) <= TokensInBracket(i, t)
        /\ Brackets[i].pct \in Nat
    BY BracketFacts
  <2>2. \A a, b, c \in Nat : a <= b => a * c \in Nat /\ b * c \in Nat /\ a * c <= b * c
    OBVIOUS
  <2> QED
    BY <2>1, <2>2
<1>3. \A i \in DOMAIN Brackets : f(s)[i] \in Nat
  BY <1>2
<1>4. \A i \in DOMAIN Brackets : f(t)[i] \in Nat
  BY <1>2
<1>5. \A i \in DOMAIN Brackets : f(s)[i] \in Int /\ f(t)[i] \in Int /\ f(s)[i] <= f(t)[i]
  BY <1>2
<1>6. /\ CalculateReward(s) = IF s < MinStake THEN 0 ELSE F(s) \div 100
      /\ CalculateReward(t) = IF t < MinStake THEN 0 ELSE F(t) \div 100
  BY DEF CalculateReward
<1> HIDE DEF f
<1>7. F(s) \in Nat
  BY <1>1, <1>3, SumNat
<1>8. F(t) \in Nat
  BY <1>1, <1>4, SumNat
<1>9. F(s) <= F(t)
  BY <1>1, <1>5, SumLeq
<1> HIDE DEF F
<1>10. MinStake \in Nat
  BY StakingAssumption
<1> QED
  BY <1>6, <1>7, <1>8, <1>9, <1>10

\* The emission of a year and the cap of an epoch are natural numbers.
LEMMA EmissionNat ==
  ASSUME pct \in Nat
  PROVE  AnnualEmission \in Nat /\ EpochCap \in Nat
<1>1. Supply * pct \in Nat
  BY StakingAssumption
<1>2. AnnualEmission \in Nat
  BY <1>1, DivFacts DEF AnnualEmission
<1>3. AnnualEmission * EpochLength \in Nat /\ BlocksPerYear \in Nat \ {0}
  BY <1>2, EconoAssumption, StakingAssumption
<1>4. EpochCap \in Nat
  BY <1>3, DivFacts DEF EpochCap
<1> QED
  BY <1>2, <1>4

\* What may be paid is covered by the carry and fits what the epoch has left.
LEMMA AvailableFacts ==
  ASSUME pct \in Nat, NEW a \in Nat, NEW m \in Nat
  PROVE  /\ Available(a, m) \in Nat
         /\ Available(a, m) * BlocksPerYear <= a
         /\ EpochCap > 0 /\ Available(a, m) > 0 => m + Available(a, m) <= EpochCap
<1> DEFINE whole == a \div BlocksPerYear
           left == IF m < EpochCap THEN EpochCap - m ELSE 0
<1>1. EpochCap \in Nat /\ BlocksPerYear \in Nat \ {0}
  BY EmissionNat, StakingAssumption
<1>2. whole \in Nat /\ whole * BlocksPerYear <= a
  BY <1>1, DivFacts
<1>3. left \in Nat
  BY <1>1
<1>4. Available(a, m) = IF EpochCap > 0 THEN Min({whole, left}) ELSE whole
  BY DEF Available
<1> HIDE DEF whole
<1>5. Min({whole, left}) = IF whole <= left THEN whole ELSE left
  <2> HIDE DEF left
  <2> QED
    BY <1>2, <1>3, MinOfTwo
<1>6. Available(a, m) \in Nat /\ Available(a, m) <= whole
      /\ (EpochCap > 0 => Available(a, m) <= left)
  BY <1>2, <1>3, <1>4, <1>5
<1>7. Available(a, m) * BlocksPerYear <= whole * BlocksPerYear
  <2>1. \A x, y, z \in Nat : x <= y => x * z <= y * z
    OBVIOUS
  <2> QED
    BY <1>1, <1>2, <1>6, <2>1
<1>8. Available(a, m) * BlocksPerYear \in Nat /\ whole * BlocksPerYear \in Nat
  BY <1>1, <1>2, <1>6
<1> QED
  BY <1>1, <1>2, <1>6, <1>7, <1>8

StakeTypes ==
    /\ DOMAIN stake \subseteq Validators
    /\ stake \in [DOMAIN stake -> Nat]
    /\ accumulated \in [DOMAIN stake -> Nat]

\* The rewards of all stakes.
LEMMA AnnualFacts ==
  ASSUME StakeTypes
  PROVE  /\ IsFiniteSet(DOMAIN stake) /\ IsFiniteSet(Validators)
         /\ \A v \in DOMAIN stake : stake[v] \in Nat /\ CalculateReward(stake[v]) \in Nat
         /\ TotalAnnual \in Nat
<1>1. IsFiniteSet(DOMAIN stake) /\ IsFiniteSet(Validators)
  BY StakingAssumption, FS_Subset DEF StakeTypes
<1>2. \A v \in DOMAIN stake : stake[v] \in Nat /\ CalculateReward(stake[v]) \in Nat
  <2>1. \A v \in DOMAIN stake : stake[v] \in Nat /\ stake[v] <= stake[v]
    BY DEF StakeTypes
  <2> QED
    BY <2>1, RewardFacts
<1> DEFINE f == [v \in DOMAIN stake |-> CalculateReward(stake[v])]
<1>3. \A v \in DOMAIN stake : f[v] \in Nat
  BY <1>2
<1>4. TotalAnnual = SumFunctionOnSet(f, DOMAIN stake)
  BY DEF TotalAnnual
<1> HIDE DEF f
<1>5. SumFunctionOnSet(f, DOMAIN stake) \in Nat
  BY <1>1, <1>3, SumNat
<1> QED
  BY <1>1, <1>2, <1>4, <1>5

\* Shares are rounded down, so together they are not more than what is shared.
LEMMA SharesFit ==
  ASSUME StakeTypes, NEW n \in Nat
  PROVE  LET f == [v \in DOMAIN stake |-> Share(v, n)]
         IN  /\ \A v : Share(v, n) \in Nat
             /\ SumFunctionOnSet(f, DOMAIN stake) \in Nat
             /\ SumFunctionOnSet(f, DOMAIN stake) <= n
<1> DEFINE f == [v \in DOMAIN stake |-> Share(v, n)]
           r == [v \in DOMAIN stake |-> CalculateReward(stake[v])]
           T == TotalAnnual
           D == DOMAIN stake
           tf == [v \in D |-> T * f[v]]
           nr == [v \in D |-> n * r[v]]
<1>1. /\ IsFiniteSet(D) /\ T \in Nat /\ \A v \in D : r[v] \in Nat
      /\ T = SumFunctionOnSet(r, D)
  BY AnnualFacts DEF TotalAnnual
<1>2. \A v : Share(v, n) \in Nat /\ (v \in D => f[v] = Share(v, n))
  <2>1. \A v \in D : n * r[v] \in Nat
    BY <1>1
  <2>2. \A v \in D : T # 0 => (n * r[v]) \div T \in Nat
    BY <1>1, <2>1, DivFacts
  <2> QED
    BY <2>2 DEF Share
<1>3. ASSUME T # 0, NEW v \in D PROVE T * f[v] <= n * r[v] /\ T * f[v] \in Nat
  <2>1. f[v] = (n * r[v]) \div T
    BY <1>3 DEF Share
  <2>2. n * r[v] \in Nat /\ T \in Nat \ {0}
    BY <1>1, <1>3
  <2>3. ((n * r[v]) \div T) * T <= n * r[v] /\ (n * r[v]) \div T \in Nat
    <3> HIDE DEF r, T
    <3> QED BY <2>2, DivFacts
  <2>4. \A x \in Nat : x * T = T * x /\ T * x \in Nat
    BY <2>2
  <2> QED
    BY <2>1, <2>3, <2>4
<1>4. ASSUME T = 0, NEW v \in D PROVE f[v] = 0
  BY <1>4 DEF Share
<1>5. \A v \in D : f[v] \in Nat
  BY <1>2
<1>6. \A v \in D : tf[v] = T * f[v] /\ nr[v] = n * r[v]
  OBVIOUS
<1> HIDE DEF f, r, T, D, tf, nr
<1>7. SumFunctionOnSet(f, D) \in Nat
  BY <1>1, <1>5, SumNat
<1>8. SumFunctionOnSet(f, D) <= n
  <2>1. CASE T = 0
    <3>1. \A v \in D : f[v] = 0
      BY <1>4, <2>1
    <3>2. SumFunctionOnSet(f, D) = 0
      BY <1>1, <3>1, SumZero
    <3> QED
      BY <3>2
  <2>2. CASE T # 0
    <3>1. SumFunctionOnSet(tf, D) = T * SumFunctionOnSet(f, D)
      <4>1. \A v \in D : f[v] \in Int /\ tf[v] = T * f[v]
        BY <1>5, <1>6
      <4>2. T \in Int
        BY <1>1
      <4> QED
        BY <1>1, <4>1, <4>2, SumScale
    <3>2. SumFunctionOnSet(nr, D) = n * SumFunctionOnSet(r, D)
      <4>1. \A v \in D : r[v] \in Int /\ nr[v] = n * r[v]
        BY <1>1, <1>6
      <4>2. n \in Int
        OBVIOUS
      <4> QED
        BY <1>1, <4>1, <4>2, SumScale
    <3>3. \A v \in D : tf[v] \in Int /\ nr[v] \in Int /\ tf[v] <= nr[v]
      <4>1. \A v \in D : n * r[v] \in Int
        BY <1>1
      <4> QED
        BY <1>3, <1>6, <2>2, <4>1
    <3>4. SumFunctionOnSet(tf, D) <= SumFunctionOnSet(nr, D)
      BY <1>1, <3>3, SumLeq
    <3>5. \A x \in Nat : T * x <= n * T => x <= n
      <4>1. \A x, y, z \in Nat : z # 0 /\ x >= y + 1 => z * x >= z * y + z
        OBVIOUS
      <4>2. \A x, y \in Nat : x * y = y * x /\ x * y \in Nat
        OBVIOUS
      <4> QED
        BY <1>1, <2>2, <4>1, <4>2
    <3> QED
      BY <1>1, <1>7, <3>1, <3>2, <3>4, <3>5
  <2> QED
    BY <2>1, <2>2
<1> QED
  BY <1>2, <1>7, <1>8 DEF f, D

-----------------------------------------------------------------------------
(* Emission *)

PayTypes ==
    /\ pct \in Nat /\ accrued \in Nat /\ epochMinted \in Nat /\ emitted \in Int
    /\ balance \in [Range(Name) -> Nat]
    /\ epochShares \in Nat /\ epochShares <= TreasuryShareOf(epochMinted)
    /\ supply \in Nat

\* What a block pays: all of it is accrued, and the epoch has room for it.
LEMMA BlockFacts ==
  ASSUME StakeTypes, PayTypes, NEW b
  PROVE  /\ Emission \in Nat /\ MintedSoFar(b) \in Nat
         /\ Payable(b) \in Nat /\ Paid(b) \in Nat /\ Paid(b) <= Payable(b)
         /\ Paid(b) * BlocksPerYear <= accrued + Emission
         /\ EpochCap > 0 /\ Paid(b) > 0 => MintedSoFar(b) + Paid(b) <= EpochCap
         /\ \A v : Share(v, Payable(b)) \in Nat
<1>1. Emission \in Nat /\ EpochCap \in Nat
  BY EmissionNat DEF PayTypes, Emission
<1>2. MintedSoFar(b) \in Nat
  BY DEF PayTypes, MintedSoFar
<1>3. accrued + Emission \in Nat
  BY <1>1 DEF PayTypes
<1>4. /\ Payable(b) \in Nat
      /\ Payable(b) * BlocksPerYear <= accrued + Emission
      /\ EpochCap > 0 /\ Payable(b) > 0 => MintedSoFar(b) + Payable(b) <= EpochCap
  <2> DEFINE a == accrued + Emission
             m == MintedSoFar(b)
  <2>1. /\ Available(a, m) \in Nat
        /\ Available(a, m) * BlocksPerYear <= a
        /\ EpochCap > 0 /\ Available(a, m) > 0 => m + Available(a, m) <= EpochCap
    <3>1. a \in Nat /\ m \in Nat /\ pct \in Nat
      BY <1>2, <1>3 DEF PayTypes
    <3> HIDE DEF a, m
    <3> QED
      BY <3>1, AvailableFacts
  <2>2. Payable(b) = IF TotalAnnual = 0 THEN 0 ELSE Available(a, m)
    BY DEF Payable
  <2>3. 0 * BlocksPerYear = 0
    BY StakingAssumption
  <2> HIDE DEF m
  <2> QED
    BY <1>3, <2>1, <2>2, <2>3 DEF m
<1>5. Paid(b) \in Nat /\ Paid(b) <= Payable(b) /\ \A v : Share(v, Payable(b)) \in Nat
  BY <1>4, SharesFit DEF Paid, Rewards
<1>6. Paid(b) * BlocksPerYear <= Payable(b) * BlocksPerYear
  <2>1. \A x, y, z \in Nat : x <= y => x * z <= y * z
    OBVIOUS
  <2>2. BlocksPerYear \in Nat
    BY StakingAssumption
  <2> QED
    BY <1>4, <1>5, <2>1, <2>2
<1>7. Paid(b) * BlocksPerYear \in Nat /\ Payable(b) * BlocksPerYear \in Nat
  BY <1>4, <1>5, StakingAssumption
<1> QED
  BY <1>1, <1>2, <1>3, <1>4, <1>5, <1>6, <1>7

\* The accounts of the validators.
LEMMA NamesFinite == IsFiniteSet(Range(Name)) /\ \A v \in Validators : Name[v] \in Range(Name)
<1>1. Name \in [Validators -> Range(Name)] /\ IsFiniteSet(Validators)
  BY StakingAssumption
<1>2. Name \in Surjection(Validators, Range(Name))
  BY <1>1 DEF Surjection, Range
<1>3. IsFiniteSet(Range(Name))
  BY <1>1, <1>2, FS_Surjection
<1> QED
  BY <1>1, <1>3

\* What the accounts are credited in a block is what the block counts as paid,
\* whichever validators share one.
LEMMA BlockCredits ==
  ASSUME StakeTypes, PayTypes, NEW b,
         balance' = [n \in Range(Name) |-> balance[n] + Credit(n, b)]
  PROVE  /\ TotalPaid \in Nat /\ TotalPaid' = TotalPaid + Paid(b)
         /\ balance' \in [Range(Name) -> Nat]
<1> DEFINE N == Range(Name)
           D == DOMAIN stake
           f == Rewards(b)
           h == [n \in N |-> Credit(n, b)]
           k == balance'
<1>1. IsFiniteSet(N) /\ IsFiniteSet(D) /\ \A v \in D : Name[v] \in N
  BY AnnualFacts, NamesFinite DEF StakeTypes
<1>2. \A v \in D : f[v] \in Nat
  BY BlockFacts DEF Rewards
<1>3. \A v \in D : f[v] \in Int
  BY <1>2
<1>4. \A n \in N : h[n] = SumFunctionOnSet(f, {v \in D : Name[v] = n})
  BY DEF Credit
<1>5. \A n \in N : balance[n] \in Nat
  BY DEF PayTypes
<1>6. Paid(b) = SumFunctionOnSet(f, D)
  BY DEF Paid
<1>7. \A n \in N : k[n] = balance[n] + h[n] /\ k = [m \in N |-> balance[m] + h[m]]
  OBVIOUS
<1> HIDE DEF N, D, f, h, k
<1>8. \A n \in N : h[n] \in Nat
  <2> SUFFICES ASSUME NEW n \in N PROVE h[n] \in Nat
    OBVIOUS
  <2> DEFINE G == {v \in D : Name[v] = n}
  <2>1. IsFiniteSet(G) /\ \A v \in G : f[v] \in Nat
    BY <1>1, <1>2, FS_Subset
  <2>2. h[n] = SumFunctionOnSet(f, G)
    BY <1>4
  <2> HIDE DEF G
  <2> QED
    BY <2>1, <2>2, SumNat
<1>9. SumFunctionOnSet(h, N) = SumFunctionOnSet(f, D)
  BY <1>1, <1>3, <1>4, SumGroups
<1>10. \A n \in N : balance[n] \in Int /\ h[n] \in Int /\ k[n] = balance[n] + h[n]
  BY <1>5, <1>7, <1>8
<1>11. SumFunctionOnSet(k, N) = SumFunctionOnSet(balance, N) + SumFunctionOnSet(h, N)
  BY <1>1, <1>10, SumPlus
<1>12. SumFunctionOnSet(balance, N) \in Nat
  BY <1>1, <1>5, SumNat
<1>13. k \in [N -> Nat]
  <2>1. k = [n \in N |-> balance[n] + h[n]]
    BY DEF k, h, N
  <2> QED
    BY <1>5, <1>8, <2>1
<1> QED
  BY <1>6, <1>9, <1>11, <1>12, <1>13 DEF TotalPaid, k, N

\* The treasury's share grows with what was minted, and the shares of parts are
\* rounded down apart.
LEMMA ShareOfSum ==
  ASSUME NEW x \in Nat, NEW y \in Nat
  PROVE  /\ TreasuryShareOf(x) \in Nat
         /\ TreasuryShareOf(x) + TreasuryShareOf(y) <= TreasuryShareOf(x + y)
<1>1. SharePct \in Nat
  BY StakingAssumption
<1> DEFINE p == x * SharePct
           q == y * SharePct
<1>2. p \in Nat /\ q \in Nat /\ (x + y) * SharePct = p + q
  BY <1>1
<1>3. /\ TreasuryShareOf(x) = p \div 100 /\ TreasuryShareOf(y) = q \div 100
      /\ TreasuryShareOf(x + y) = (p + q) \div 100
  BY <1>2 DEF TreasuryShareOf
<1> HIDE DEF p, q
<1> QED
  BY <1>2, <1>3

EmissionInv == StakeTypes /\ PayTypes /\ EmissionConserved

\* A block: what it pays leaves the carry and enters the accounts and the supply.
LEMMA BlockKeepsEmission ==
  ASSUME EmissionInv, NEW b, StakingBlock(b)
  PROVE  EmissionInv'
<1>0. accrued' = IF Paid(b) = 0 THEN accrued + Emission
                 ELSE (accrued + Emission) - Paid(b) * BlocksPerYear
  BY Zenon DEF StakingBlock, Carry
<1>1. /\ emitted' = emitted + Emission
      /\ epochMinted' = MintedSoFar(b) + Paid(b)
      /\ supply' = supply + Paid(b)
      /\ stake' = stake /\ pct' = pct
      /\ balance' = [n \in Range(Name) |-> balance[n] + Credit(n, b)]
      /\ epochShares' = (IF b % EpochLength = 0 THEN 0 ELSE epochShares) + TreasuryShareOf(Paid(b))
  BY DEF StakingBlock
<1>2. StakeTypes /\ PayTypes /\ EmissionConserved
  BY DEF EmissionInv
<1>3. /\ Emission \in Nat /\ MintedSoFar(b) \in Nat /\ Paid(b) \in Nat
      /\ Paid(b) * BlocksPerYear <= accrued + Emission
  BY <1>2, BlockFacts
<1>4. /\ TotalPaid \in Nat /\ TotalPaid' = TotalPaid + Paid(b)
      /\ balance' \in [Range(Name) -> Nat]
  BY <1>1, <1>2, BlockCredits
<1>5. BlocksPerYear \in Nat /\ Supply0 \in Nat
  BY StakingAssumption, EconoAssumption
<1>6. /\ Paid(b) * BlocksPerYear \in Nat
      /\ accrued' = accrued + Emission - Paid(b) * BlocksPerYear
  <2>1. Paid(b) = 0 => Paid(b) * BlocksPerYear = 0
    BY <1>5
  <2>2. accrued \in Nat /\ Emission \in Nat
    BY <1>2, <1>3 DEF PayTypes
  <2> QED
    <3>1. Paid(b) * BlocksPerYear \in Nat
      BY <1>3, <1>5
    <3>2. CASE Paid(b) = 0
      BY <1>0, <2>1, <2>2, <3>1, <3>2
    <3>3. CASE Paid(b) # 0
      BY <1>0, <2>2, <3>1, <3>3
    <3> QED
      BY <3>1, <3>2, <3>3
<1>7. accrued' \in Nat
  BY <1>2, <1>3, <1>6 DEF PayTypes
<1>8. StakeTypes'
  <2>1. accumulated' = [v \in DOMAIN stake |-> accumulated[v] + Share(v, Payable(b))]
    BY DEF StakingBlock, Rewards
  <2>2. \A v : Share(v, Payable(b)) \in Nat
    BY <1>2, BlockFacts
  <2> QED
    BY <1>1, <1>2, <2>1, <2>2 DEF StakeTypes
<1>9. PayTypes'
  <2> DEFINE e == IF b % EpochLength = 0 THEN 0 ELSE epochShares
             m == MintedSoFar(b)
  <2>1. e \in Nat /\ e <= TreasuryShareOf(m)
    <3>1. epochShares \in Nat /\ epochShares <= TreasuryShareOf(epochMinted) /\ epochMinted \in Nat
      BY <1>2 DEF PayTypes
    <3>2. TreasuryShareOf(0) \in Nat
      BY ShareOfSum
    <3> QED
      BY <3>1, <3>2 DEF MintedSoFar
  <2>2. /\ epochShares' = e + TreasuryShareOf(Paid(b))
        /\ epochMinted' = m + Paid(b)
    BY <1>1
  <2>3. m \in Nat /\ Paid(b) \in Nat
    BY <1>3
  <2> HIDE DEF e, m
  <2>4. /\ TreasuryShareOf(m) \in Nat /\ TreasuryShareOf(Paid(b)) \in Nat
        /\ TreasuryShareOf(m) + TreasuryShareOf(Paid(b)) <= TreasuryShareOf(m + Paid(b))
    BY <2>3, ShareOfSum
  <2>5. TreasuryShareOf(m + Paid(b)) \in Nat
    <3>1. m + Paid(b) \in Nat
      BY <2>3
    <3> QED
      BY <3>1, ShareOfSum
  <2>6. epochShares' \in Nat /\ epochShares' <= TreasuryShareOf(m + Paid(b))
    BY <2>1, <2>2, <2>4, <2>5
  <2>7. TreasuryShareOf(epochMinted)' = TreasuryShareOf(m + Paid(b))
    BY <2>2 DEF TreasuryShareOf
  <2>8. epochMinted' \in Nat /\ emitted' \in Int /\ supply' \in Nat /\ pct' \in Nat
    BY <1>1, <1>2, <1>3, <2>2, <2>3 DEF PayTypes
  <2> QED
    BY <1>4, <1>7, <2>6, <2>7, <2>8 DEF PayTypes
<1>10. EmissionConserved'
  <2>1. \A x, y, z \in Nat : (x + y) * z = x * z + y * z /\ x * z \in Nat
    OBVIOUS
  <2>2. TotalPaid' * BlocksPerYear = TotalPaid * BlocksPerYear + Paid(b) * BlocksPerYear
        /\ TotalPaid * BlocksPerYear \in Nat
    BY <1>3, <1>4, <1>5, <2>1
  <2>3. /\ TotalPaid * BlocksPerYear + accrued = emitted
        /\ supply = Supply0 + TotalPaid
        /\ accrued \in Nat /\ emitted \in Int
    BY <1>2 DEF EmissionConserved, PayTypes
  <2>4. supply' = Supply0 + TotalPaid'
    BY <1>1, <1>3, <1>4, <1>5, <2>3
  <2>5. TotalPaid' * BlocksPerYear + accrued' = emitted'
    BY <1>1, <1>3, <1>6, <2>2, <2>3
  <2>6. accrued' >= 0
    BY <1>7
  <2> QED
    BY <2>4, <2>5, <2>6 DEF EmissionConserved
<1> QED
  BY <1>8, <1>9, <1>10 DEF EmissionInv

\* The supply moves in a block only.
LEMMA SupplySteps ==
  ASSUME [Next]_vars
  PROVE  ProduceBlock \/ supply' = supply
<1>1. StakeNext \/ UnstakeNext \/ MarketNext => supply' = supply
  BY DEF StakeNext, UnstakeNext, RegisterStake, RemoveStake, ClaimReward, MarketNext, CreateMarket,
         TradeMarket, econoVars
<1>2. ASSUME NEW types, NEW lots, GovernanceNext(types, lots) PROVE supply' = supply
  BY <1>2 DEF GovernanceNext, CreateProposal, Vote, Finalize, econoVars
<1>3. TaskNext \/ FundNext => supply' = supply
  BY DEF TaskNext, FundNext, TaskClaim, TaskVerify, TaskAutoVerify, VerifyAndPay, QuestSetAutopilot,
         QuestFund, GiveawayClaim, econoVars
<1>4. BountyNext \/ CommunityNext => supply' = supply
  BY DEF BountyNext, RegisterBounty, ClaimFix, VerifyFix, DelegateMicroTask, CommunityNext,
         CreateTask, EscrowTask, VerifyCommunity, econoVars
<1>5. FaucetNext => supply' = supply
  BY DEF FaucetNext, FaucetDrip, SetDripAmount, SetCooldown, SetDrip, econoVars
<1>6. RentNext \/ StorageNext => supply' = supply
  BY DEF RentNext, RentPay, RentGetDue, StorageNext, RegisterOperator, UnregisterOperator,
         SubmitProof, GetCurrentEpoch, econoVars
<1>7. MrtNext => supply' = supply
  <2>1. \A c, deed, name : RegisterClaim(c, deed, name) => supply' = supply
    BY DEF RegisterClaim, econoVars
  <2>2. \A v, id, role, ok : VerifyClaim(v, id, role, ok) => supply' = supply
    BY DEF VerifyClaim
  <2>3. \A v, id, tier, ounces : ApproveReserve(v, id, tier, ounces) => supply' = supply
    BY DEF ApproveReserve, econoVars
  <2>4. \A v, id, name : IssueTokens(id) \/ EnvironmentalCheck(v, id) \/ TransferRights(v, id, name)
                            => supply' = supply
    BY DEF IssueTokens, EnvironmentalCheck, TransferRights, econoVars
  <2> QED
    BY <2>1, <2>2, <2>3, <2>4 DEF MrtNext
<1>8. UNCHANGED vars => supply' = supply
  BY DEF vars, econoVars
<1>9. UNCHANGED econoVars => supply' = supply
  BY DEF econoVars
<1>10. Restart => supply' = supply
  BY DEF Restart
<1> QED
  BY <1>1, <1>2, <1>3, <1>4, <1>5, <1>6, <1>7, <1>8, <1>9, <1>10 DEF Next

\* The stakes, the rate and the payments move in these steps only.
LEMMA StakingSteps ==
  ASSUME [Next]_vars
  PROVE  ProduceBlock \/ Restart \/ StakeNext \/ UnstakeNext \/ UNCHANGED stakingVars
         \/ \E id \in DOMAIN prop : Finalize(id)
<1>1. ASSUME NEW types, NEW lots, GovernanceNext(types, lots)
      PROVE  UNCHANGED stakingVars \/ \E id \in DOMAIN prop : Finalize(id)
  <2>1. \A c, title, type, p : CreateProposal(c, title, type, p) => UNCHANGED stakingVars
    BY DEF CreateProposal
  <2>2. \A c, id, yes, credits : Vote(c, id, yes, credits) => UNCHANGED stakingVars
    BY DEF Vote
  <2> QED
    BY <1>1, <2>1, <2>2 DEF GovernanceNext
<1>2. MarketNext => UNCHANGED stakingVars
  BY DEF MarketNext, CreateMarket, TradeMarket
<1>3. UNCHANGED vars => UNCHANGED stakingVars
  BY DEF vars
<1> QED
  BY <1>1, <1>2, <1>3 DEF Next

EmissionVars == <<stake, accumulated, pct, accrued, epochMinted, balance, epochShares, emitted, supply>>

LEMMA EmissionUnchanged ==
  ASSUME EmissionInv, UNCHANGED EmissionVars
  PROVE  EmissionInv'
BY DEF EmissionInv, EmissionVars, StakeTypes, PayTypes, EmissionConserved, TotalPaid, TreasuryShareOf

\* Only a block pays; the rate, the stakes and a restart leave the balance between
\* what accrued, what is carried and what was paid.
LEMMA EmissionKept ==
  ASSUME EmissionInv, GovInv, [Next]_vars
  PROVE  EmissionInv'
<1>1. CASE ProduceBlock
  BY <1>1, BlockKeepsEmission DEF ProduceBlock
<1>2. CASE supply' = supply
  <2>1. CASE Restart
    <3>1. /\ stake' = NoValidators /\ accumulated' = NoValidators /\ pct' = Clamp(DefaultPct) /\ accrued' = 0 /\ epochMinted' = 0
          /\ emitted' = emitted - accrued /\ balance' = balance /\ epochShares' = 0
      BY <2>1 DEF Restart, StakingRestart
    <3>2. Clamp(DefaultPct) \in Nat
      BY StakingAssumption DEF Clamp
    <3>3. StakeTypes'
      BY <3>1 DEF StakeTypes, NoValidators
    <3>4. PayTypes'
      <4>1. TreasuryShareOf(epochMinted)' = TreasuryShareOf(0) /\ TreasuryShareOf(0) \in Nat
        BY <3>1, ShareOfSum DEF TreasuryShareOf
      <4> QED
        BY <1>2, <3>1, <3>2, <4>1 DEF EmissionInv, PayTypes
    <3>5. TotalPaid' = TotalPaid
      BY <3>1 DEF TotalPaid
    <3>6. TotalPaid * BlocksPerYear \in Nat
      <4>1. TotalPaid \in Nat
        <5> DEFINE N == Range(Name)
        <5>1. IsFiniteSet(N) /\ \A n \in N : balance[n] \in Nat
          BY NamesFinite DEF EmissionInv, PayTypes
        <5> HIDE DEF N
        <5>2. SumFunctionOnSet(balance, N) \in Nat
          BY <5>1, SumNat
        <5> QED
          BY <5>2 DEF TotalPaid, N
      <4> QED
        BY <4>1, StakingAssumption
    <3>7. EmissionConserved'
      BY <1>2, <3>1, <3>5, <3>6 DEF EmissionInv, EmissionConserved, PayTypes
    <3> QED
      BY <3>3, <3>4, <3>7 DEF EmissionInv
  <2>2. CASE StakeNext \/ UnstakeNext
    <3>1. UNCHANGED <<pct, accrued, epochMinted, balance, epochShares, emitted>>
      BY <2>2 DEF StakeNext, UnstakeNext, RegisterStake, RemoveStake, ClaimReward, payVars
    <3>2. StakeTypes'
      <4>0. StakeTypes /\ Stakes \subseteq Nat
        BY StakingAssumption DEF EmissionInv
      <4>1. ASSUME NEW v \in Validators, NEW s \in Stakes, RegisterStake(v, s) PROVE StakeTypes'
        <5>1. /\ stake' = [w \in DOMAIN stake \cup {v} |-> IF w = v THEN s ELSE stake[w]]
              /\ accumulated' = [w \in DOMAIN stake \cup {v} |->
                                    IF w \in DOMAIN stake THEN accumulated[w] ELSE 0]
          BY <4>1 DEF RegisterStake
        <5> QED
          BY <4>0, <5>1 DEF StakeTypes
      <4>2. ASSUME NEW v \in Validators, RemoveStake(v) PROVE StakeTypes'
        BY <4>0, <4>2 DEF RemoveStake, StakeTypes
      <4>3. ASSUME NEW v \in Validators, ClaimReward(v) PROVE StakeTypes'
        BY <4>0, <4>3 DEF ClaimReward, StakeTypes
      <4> QED
        BY <2>2, <4>1, <4>2, <4>3 DEF StakeNext, UnstakeNext
    <3>3. PayTypes' /\ EmissionConserved'
      BY <1>2, <3>1 DEF EmissionInv, PayTypes, EmissionConserved, TotalPaid, TreasuryShareOf
    <3> QED
      BY <3>2, <3>3 DEF EmissionInv
  <2>3. CASE UNCHANGED stakingVars
    BY <1>2, <2>3, EmissionUnchanged DEF stakingVars, stakeVars, payVars, EmissionVars
  <2>4. ASSUME NEW id \in DOMAIN prop, Finalize(id) PROVE EmissionInv'
    <3>1. UNCHANGED <<stake, accumulated, accrued, epochMinted, balance, epochShares, emitted>>
      BY <2>4 DEF Finalize, stakeVars, payVars
    <3>2. pct' \in Nat
      <4>1. prop[id].pct \in Nat
        BY DEF GovInv, GovTypes, Proposals
      <4>2. pct' = pct \/ pct' = Clamp(prop[id].pct)
        BY <2>4 DEF Finalize, SetInflationPct
      <4> QED
        BY <4>1, <4>2, StakingAssumption DEF Clamp, EmissionInv, PayTypes
    <3> QED
      BY <1>2, <3>1, <3>2 DEF EmissionInv, StakeTypes, PayTypes, EmissionConserved, TotalPaid, TreasuryShareOf
  <2>5. CASE ProduceBlock
    BY <1>1, <2>5
  <2> QED
    BY <2>1, <2>2, <2>3, <2>4, <2>5, StakingSteps
<1> QED
  BY <1>1, <1>2, SupplySteps

LEMMA EmissionInitially == Init => EmissionInv
<1> SUFFICES ASSUME Init PROVE EmissionInv
  OBVIOUS
<1>1. /\ stake = NoValidators /\ accumulated = NoValidators /\ pct = Clamp(DefaultPct) /\ accrued = 0 /\ epochMinted = 0
      /\ emitted = 0 /\ balance = [n \in Range(Name) |-> 0] /\ epochShares = 0 /\ supply = Supply0
  BY DEF Init, StakingInit, EconoInit
<1>2. Clamp(DefaultPct) \in Nat /\ Supply0 \in Nat /\ BlocksPerYear \in Nat
  BY StakingAssumption, EconoAssumption DEF Clamp
<1>3. TotalPaid = 0
  <2> DEFINE N == Range(Name)
  <2>1. IsFiniteSet(N) /\ \A n \in N : balance[n] = 0
    BY <1>1, NamesFinite
  <2> HIDE DEF N
  <2>2. SumFunctionOnSet(balance, N) = 0
    BY <2>1, SumZero
  <2> QED
    BY <2>2 DEF TotalPaid, N
<1>4. StakeTypes /\ PayTypes
  <2>1. TreasuryShareOf(0) \in Nat
    BY ShareOfSum
  <2> QED
    BY <1>1, <1>2, <2>1 DEF StakeTypes, PayTypes, NoValidators
<1> QED
  BY <1>1, <1>2, <1>3, <1>4 DEF EmissionInv, EmissionConserved

\* No emission is lost or made: whatever the stakes, the rates, the brackets and
\* the length of an epoch, what accrued and was not dropped by a restart is carried
\* or was credited to validators, and the carry never goes below zero
\* (DistributeBlockReward, ProduceBlock).
THEOREM EmissionIsConserved == Spec => []EmissionConserved
<1>1. EmissionInv => EmissionConserved
  BY DEF EmissionInv
<1>2. EmissionInv /\ GovInv /\ [Next]_vars => EmissionInv' /\ GovInv'
  BY EmissionKept, GovInvKept
<1> QED
  BY <1>1, <1>2, EmissionInitially, GovInvInitially, PTL DEF Spec

\* A block leaves what its epoch created, the treasury's share included, within
\* the cap and the share of that cap (DistributeBlockReward, RolloverEpoch,
\* ProduceBlock), at whatever rate the block finds and with whatever carry.
THEOREM EpochCapKept == Spec => EpochCapHolds
<1> DEFINE Capped == supply' > supply /\ EpochCap > 0 =>
                        epochMinted' + epochShares' <= EpochCap + TreasuryShareOf(EpochCap)
<1>1. EmissionInv /\ GovInv /\ [Next]_vars => [Capped]_<<supply, stakingVars>>
  <2> SUFFICES ASSUME EmissionInv, GovInv, [Next]_vars, supply' > supply, EpochCap > 0
               PROVE  epochMinted' + epochShares' <= EpochCap + TreasuryShareOf(EpochCap)
    OBVIOUS
  <2>1. supply \in Nat /\ EpochCap \in Nat
    BY EmissionNat DEF EmissionInv, PayTypes
  <2>2. ProduceBlock
    BY <2>1, SupplySteps
  <2> DEFINE b == block
  <2>3. supply' = supply + Paid(b) /\ epochMinted' = MintedSoFar(b) + Paid(b)
    BY <2>2 DEF ProduceBlock, StakingBlock
  <2> HIDE DEF b
  <2>4. /\ Paid(b) \in Nat
        /\ EpochCap > 0 /\ Paid(b) > 0 => MintedSoFar(b) + Paid(b) <= EpochCap
    BY BlockFacts DEF EmissionInv
  <2>5. epochMinted' <= EpochCap
    BY <2>1, <2>3, <2>4
  <2>6. /\ epochMinted' \in Nat /\ epochShares' \in Nat
        /\ epochShares' <= TreasuryShareOf(epochMinted')
    <3>1. EmissionInv'
      BY EmissionKept
    <3>2. TreasuryShareOf(epochMinted)' = TreasuryShareOf(epochMinted')
      BY DEF TreasuryShareOf
    <3> QED
      BY <3>1, <3>2 DEF EmissionInv, PayTypes
  <2> DEFINE m == epochMinted'
             d == EpochCap - m
  <2>7. m \in Nat /\ d \in Nat /\ m + d = EpochCap
    <3>1. m \in Nat /\ m <= EpochCap /\ EpochCap \in Nat
      BY <2>1, <2>5, <2>6
    <3>2. \A x, y \in Nat : x <= y => y - x \in Nat /\ x + (y - x) = y
      OBVIOUS
    <3> HIDE DEF m
    <3> QED
      BY <3>1, <3>2
  <2> HIDE DEF m, d
  <2>8. /\ TreasuryShareOf(m) \in Nat /\ TreasuryShareOf(d) \in Nat
        /\ TreasuryShareOf(m) + TreasuryShareOf(d) <= TreasuryShareOf(m + d)
    BY <2>7, ShareOfSum
  <2>9. TreasuryShareOf(EpochCap) \in Nat /\ TreasuryShareOf(m) <= TreasuryShareOf(EpochCap)
    <3>1. TreasuryShareOf(EpochCap) \in Nat
      BY <2>1, ShareOfSum
    <3>2. TreasuryShareOf(m + d) = TreasuryShareOf(EpochCap)
      BY <2>7
    <3> QED
      BY <2>8, <3>1, <3>2
  <2>10. epochShares' <= TreasuryShareOf(m)
    BY <2>6 DEF m
  <2> QED
    BY <2>1, <2>5, <2>6, <2>8, <2>9, <2>10
<1>2. EmissionInv /\ GovInv /\ [Next]_vars => EmissionInv' /\ GovInv'
  BY EmissionKept, GovInvKept
<1> QED
  BY <1>1, <1>2, EmissionInitially, GovInvInitially, PTL DEF Spec, EpochCapHolds

\* A larger stake has a share that is not smaller.
LEMMA ShareByStake ==
  ASSUME StakeTypes, NEW n \in Nat, NEW v \in DOMAIN stake, NEW w \in DOMAIN stake,
         stake[v] <= stake[w]
  PROVE  Share(v, n) <= Share(w, n)
<1> DEFINE r(u) == CalculateReward(stake[u])
           T == TotalAnnual
<1>1. T \in Nat /\ r(v) \in Nat /\ r(w) \in Nat
  BY AnnualFacts
<1>2. r(v) <= r(w)
  <2>1. stake[v] \in Nat /\ stake[w] \in Nat
    BY DEF StakeTypes
  <2> QED
    BY <2>1, RewardFacts
<1>3. CASE T = 0
  BY <1>3 DEF Share
<1>4. CASE T # 0
  <2>1. Share(v, n) = (n * r(v)) \div T /\ Share(w, n) = (n * r(w)) \div T
    BY <1>4 DEF Share
  <2> HIDE DEF r, T
  <2>2. n * r(v) \in Nat /\ n * r(w) \in Nat
    BY <1>1
  <2>3. n * r(v) <= n * r(w)
    <3>1. \A x, y, z \in Nat : x <= y => z * x <= z * y
      OBVIOUS
    <3> QED
      BY <1>1, <1>2, <3>1
  <2>4. (n * r(v)) \div T <= (n * r(w)) \div T
    <3> DEFINE x == n * r(v)
               y == n * r(w)
    <3>1. x \in Nat /\ y \in Nat /\ x <= y /\ T \in Nat \ {0}
      BY <1>1, <1>4, <2>2, <2>3
    <3> HIDE DEF x, y
    <3> QED
      BY <3>1, DivMonotone DEF x, y
  <2> QED
    BY <2>1, <2>4
<1> QED
  BY <1>3, <1>4

\* No block grants a validator more than another with at least its stake, whatever
\* the bracket table and the stakes (CalculateReward, DistributeBlockReward).
THEOREM PaidInOrderOfStake == Spec => PaidByStake
<1> DEFINE InOrder == block' # block =>
              \A v, w \in DOMAIN stake :
                 stake[v] <= stake[w] =>
                    accumulated'[v] - accumulated[v] <= accumulated'[w] - accumulated[w]
<1>1. EmissionInv /\ [Next]_vars => [InOrder]_<<block, stakingVars>>
  <2> SUFFICES ASSUME EmissionInv, [Next]_vars, block' # block,
                      NEW v \in DOMAIN stake, NEW w \in DOMAIN stake, stake[v] <= stake[w]
               PROVE  accumulated'[v] - accumulated[v] <= accumulated'[w] - accumulated[w]
    OBVIOUS
  <2>1. StakeTypes /\ PayTypes
    BY DEF EmissionInv
  <2>2. accumulated[v] \in Nat /\ accumulated[w] \in Nat
    BY <2>1 DEF StakeTypes
  <2>3. CASE ProduceBlock
    <3> DEFINE b == block
    <3>1. accumulated' = [u \in DOMAIN stake |-> accumulated[u] + Share(u, Payable(b))]
      BY <2>3 DEF ProduceBlock, StakingBlock, Rewards
    <3> HIDE DEF b
    <3>2. /\ accumulated'[v] = accumulated[v] + Share(v, Payable(b))
          /\ accumulated'[w] = accumulated[w] + Share(w, Payable(b))
      BY <3>1
    <3>3. Payable(b) \in Nat /\ Share(v, Payable(b)) \in Nat /\ Share(w, Payable(b)) \in Nat
      BY <2>1, BlockFacts
    <3>4. Share(v, Payable(b)) <= Share(w, Payable(b))
      BY <2>1, <3>3, ShareByStake
    <3> QED
      BY <2>2, <3>2, <3>3, <3>4
  <2>4. UNCHANGED stakingVars => accumulated' = accumulated
    BY DEF stakingVars, stakeVars
  <2>5. ~Restart /\ ~StakeNext /\ ~UnstakeNext
    BY DEF Restart, Between, StakeNext, UnstakeNext, RegisterStake, RemoveStake, ClaimReward, Call
  <2>6. \A id : ~Finalize(id)
    BY DEF Finalize, Call
  <2> QED
    BY <2>2, <2>3, <2>4, <2>5, <2>6, StakingSteps
<1>2. EmissionInv /\ GovInv /\ [Next]_vars => EmissionInv' /\ GovInv'
  BY EmissionKept, GovInvKept
<1> QED
  BY <1>1, <1>2, EmissionInitially, GovInvInitially, PTL DEF Spec, PaidByStake

-----------------------------------------------------------------------------
(* The total of the stakes *)

\* The stakes after v's was set to s, and their sum.
LEMMA StakeSetSum ==
  ASSUME StakeTypes, NEW v, NEW s \in Nat, NEW g
  PROVE  g = [w \in DOMAIN stake \cup {v} |-> IF w = v THEN s ELSE stake[w]]
            => SumFunctionOnSet(g, DOMAIN g) = SumFunctionOnSet(stake, DOMAIN stake)
                                                 + s - (IF v \in DOMAIN stake THEN stake[v] ELSE 0)
<1> DEFINE D == DOMAIN stake
<1>10. SUFFICES ASSUME g = [w \in D \cup {v} |-> IF w = v THEN s ELSE stake[w]]
                PROVE  SumFunctionOnSet(g, DOMAIN g)
                         = SumFunctionOnSet(stake, D) + s - (IF v \in D THEN stake[v] ELSE 0)
  OBVIOUS
<1>0. IsFiniteSet(D) /\ \A w \in D : stake[w] \in Int
  BY AnnualFacts
<1>1. DOMAIN g = D \cup {v}
  BY <1>10
<1>2. \A w \in D \cup {v} : g[w] \in Int
  BY <1>0, <1>10
<1>3. \A w \in D \ {v} : g[w] = stake[w]
  BY <1>10
<1>4. g[v] = s
  BY <1>10
<1>5. SUFFICES SumFunctionOnSet(g, D \cup {v})
                  = SumFunctionOnSet(stake, D) + s - (IF v \in D THEN stake[v] ELSE 0)
  BY <1>1
<1> HIDE DEF D
<1>6. SumFunctionOnSet(stake, D) \in Int
  BY <1>0, SumIsInt
<1>7. CASE v \in D
  <2>1. D \cup {v} = D /\ \A w \in D : stake[w] \in Int /\ g[w] \in Int
    BY <1>0, <1>2, <1>7
  <2>2. SumFunctionOnSet(g, D) = SumFunctionOnSet(stake, D) - stake[v] + g[v]
    BY <1>0, <1>3, <1>7, <2>1, SumReplace
  <2>3. stake[v] \in Int
    BY <1>0, <1>7
  <2>4. SumFunctionOnSet(g, D) = SumFunctionOnSet(stake, D) + s - stake[v]
    BY <1>4, <1>6, <2>2, <2>3
  <2>5. SumFunctionOnSet(g, D \cup {v}) = SumFunctionOnSet(g, D)
    BY <2>1
  <2> QED
    BY <1>7, <2>4, <2>5
<1>8. CASE v \notin D
  <2>1. SumFunctionOnSet(g, D \cup {v}) = SumFunctionOnSet(g, D) + g[v]
    BY <1>0, <1>2, <1>8, SumPut
  <2>2. \A w \in D : stake[w] \in Int /\ g[w] = stake[w]
    BY <1>0, <1>3, <1>8
  <2>3. SumFunctionOnSet(g, D) = SumFunctionOnSet(stake, D)
    BY <1>0, <2>2, SumSame
  <2> QED
    BY <1>4, <1>6, <1>8, <2>1, <2>3
<1> QED
  BY <1>7, <1>8

\* The stakes after v's was removed, and their sum.
LEMMA StakeDropSum ==
  ASSUME StakeTypes, NEW v \in DOMAIN stake, NEW g, g = [w \in DOMAIN stake \ {v} |-> stake[w]]
  PROVE  SumFunctionOnSet(g, DOMAIN g) = SumFunctionOnSet(stake, DOMAIN stake) - stake[v]
<1> DEFINE D == DOMAIN stake
           R == D \ {v}
<1>0. IsFiniteSet(D) /\ \A w \in D : stake[w] \in Int
  BY AnnualFacts
<1>1. DOMAIN g = R /\ R = D \ {v} /\ v \in D
  OBVIOUS
<1>2. \A w \in R : stake[w] \in Int /\ g[w] = stake[w]
  BY <1>0
<1>3. IsFiniteSet(R)
  BY <1>0, FS_RemoveElement
<1> HIDE DEF D, R
<1>4. /\ SumFunctionOnSet(stake, D) = stake[v] + SumFunctionOnSet(stake, R)
      /\ SumFunctionOnSet(stake, R) \in Int
  BY <1>0, <1>1, SumTake
<1>5. SumFunctionOnSet(g, R) = SumFunctionOnSet(stake, R)
  BY <1>2, <1>3, SumSame
<1>6. stake[v] \in Int
  BY <1>0, <1>1
<1> QED
  BY <1>1, <1>4, <1>5, <1>6 DEF D

LEMMA TotalKept ==
  ASSUME StakeTypes, TotalStakedExact, [Next]_vars
  PROVE  TotalStakedExact'
<1>1. SumFunctionOnSet(stake, DOMAIN stake) \in Int
  <2>1. IsFiniteSet(DOMAIN stake) /\ \A w \in DOMAIN stake : stake[w] \in Int
    BY AnnualFacts
  <2> QED
    BY <2>1, SumIsInt
<1>2. CASE UNCHANGED <<stake, totalStaked>>
  BY <1>2 DEF TotalStakedExact
<1>3. CASE Restart
  <2>1. stake' = NoValidators /\ totalStaked' = 0
    BY <1>3 DEF Restart, StakingRestart
  <2>2. DOMAIN NoValidators = {}
    BY DEF NoValidators
  <2> QED
    BY <2>1, <2>2, SumEmpty DEF TotalStakedExact
<1>4. ASSUME NEW v \in Validators, NEW s \in Stakes, RegisterStake(v, s)
      PROVE  TotalStakedExact'
  <2>1. /\ stake' = [w \in DOMAIN stake \cup {v} |-> IF w = v THEN s ELSE stake[w]]
        /\ totalStaked' = totalStaked + s - (IF v \in DOMAIN stake THEN stake[v] ELSE 0)
        /\ s \in Nat
    BY <1>4, StakingAssumption DEF RegisterStake
  <2>2. SumFunctionOnSet(stake', DOMAIN stake')
           = SumFunctionOnSet(stake, DOMAIN stake) + s - (IF v \in DOMAIN stake THEN stake[v] ELSE 0)
    BY <2>1, StakeSetSum
  <2> QED
    BY <2>1, <2>2 DEF TotalStakedExact
<1>5. ASSUME NEW v \in Validators, RemoveStake(v) PROVE TotalStakedExact'
  <2>1. /\ v \in DOMAIN stake /\ stake' = [w \in DOMAIN stake \ {v} |-> stake[w]]
        /\ totalStaked' = totalStaked - stake[v]
    BY <1>5 DEF RemoveStake
  <2>2. SumFunctionOnSet(stake', DOMAIN stake') = SumFunctionOnSet(stake, DOMAIN stake) - stake[v]
    BY <2>1, StakeDropSum
  <2> QED
    BY <2>1, <2>2 DEF TotalStakedExact
<1>6. \A v : ClaimReward(v) => UNCHANGED <<stake, totalStaked>>
  BY DEF ClaimReward
<1>7. CASE StakeNext \/ UnstakeNext
  BY <1>2, <1>4, <1>5, <1>6, <1>7 DEF StakeNext, UnstakeNext
<1>8. ProduceBlock \/ UNCHANGED stakingVars => UNCHANGED <<stake, totalStaked>>
  BY DEF ProduceBlock, StakingBlock, stakingVars, stakeVars
<1>9. \A id : Finalize(id) => UNCHANGED <<stake, totalStaked>>
  BY DEF Finalize, stakeVars
<1> QED
  BY <1>2, <1>3, <1>7, <1>8, <1>9, StakingSteps

\* The total of the stakes is their sum for any set of validators and any sequence
\* of registrations, changes, removals and restarts (RegisterStake, RemoveStake).
THEOREM TotalIsExact == Spec => []TotalStakedExact
<1>1. Init => TotalStakedExact
  <2> SUFFICES ASSUME Init PROVE TotalStakedExact
    OBVIOUS
  <2>1. stake = NoValidators /\ totalStaked = 0 /\ DOMAIN NoValidators = {}
    BY DEF Init, StakingInit, NoValidators
  <2> QED
    BY <2>1, SumEmpty DEF TotalStakedExact
<1>2. EmissionInv /\ TotalStakedExact /\ [Next]_vars => TotalStakedExact'
  BY TotalKept DEF EmissionInv
<1>3. EmissionInv /\ GovInv /\ [Next]_vars => EmissionInv' /\ GovInv'
  BY EmissionKept, GovInvKept
<1> QED
  BY <1>1, <1>2, <1>3, EmissionInitially, GovInvInitially, PTL DEF Spec

-----------------------------------------------------------------------------
(* The cap of the quests *)

CapInv == paid \in Nat /\ PaidWithinCap

\* What quests have paid moves only when one is verified.
LEMMA PaidSteps ==
  ASSUME [Next]_vars
  PROVE  paid' = paid \/ \E t \in Tasks, a \in Addrs : VerifyAndPay(t, a) /\ UNCHANGED stakingVars
<1>1. UNCHANGED questVars => paid' = paid
  BY DEF questVars, taskVars
<1>2. ProduceBlock => paid' = paid
  BY DEF ProduceBlock, QuestsBlock, taskVars
<1>3. ASSUME TaskNext
      PROVE  paid' = paid \/ \E t \in Tasks, a \in Addrs : VerifyAndPay(t, a)
  <2>1. \A c, t : TaskClaim(c, t) => paid' = paid
    BY DEF TaskClaim
  <2>2. \A v, a : QuestSetAutopilot(v, a) => paid' = paid
    BY DEF QuestSetAutopilot
  <2>3. \A c : GiveawayClaim(c) => paid' = paid
    BY DEF GiveawayClaim
  <2> QED
    BY <1>3, <2>1, <2>2, <2>3 DEF TaskNext, TaskVerify, TaskAutoVerify
<1>4. FundNext \/ BountyNext => paid' = paid
  BY DEF FundNext, QuestFund, taskVars, BountyNext, RegisterBounty, ClaimFix, VerifyFix, DelegateMicroTask
<1>5. CommunityNext => paid' = paid
  BY DEF CommunityNext, CreateTask, EscrowTask, VerifyCommunity
<1>6. FaucetNext => paid' = paid
  BY DEF FaucetNext, FaucetDrip, SetDripAmount, SetCooldown, SetDrip, taskVars
<1>7. UNCHANGED vars => UNCHANGED questVars
  BY DEF vars
<1> QED
  BY <1>1, <1>2, <1>3, <1>4, <1>5, <1>6, <1>7 DEF Next, Restart

\* The supply, and with it the cap, never shrinks.
LEMMA SupplyGrows ==
  ASSUME EmissionInv, [Next]_vars
  PROVE  supply \in Nat /\ supply' \in Nat /\ supply <= supply'
<1>1. supply \in Nat
  BY DEF EmissionInv, PayTypes
<1>2. CASE ProduceBlock
  <2> DEFINE b == block
  <2>1. supply' = supply + Paid(b)
    BY <1>2 DEF ProduceBlock, StakingBlock
  <2> HIDE DEF b
  <2>2. Paid(b) \in Nat
    BY BlockFacts DEF EmissionInv
  <2> QED
    BY <1>1, <2>1, <2>2
<1> QED
  BY <1>1, <1>2, SupplySteps

LEMMA CapGrows ==
  \A x, y \in Nat : x <= y => /\ (x * 5) \div 100 \in Nat /\ (y * 5) \div 100 \in Nat
                              /\ (x * 5) \div 100 <= (y * 5) \div 100
OBVIOUS

LEMMA CapKept ==
  ASSUME CapInv, EmissionInv, [Next]_vars
  PROVE  CapInv'
<1>1. supply \in Nat /\ supply' \in Nat /\ supply <= supply'
  BY SupplyGrows
<1>2. QuestCap \in Nat /\ QuestCap' \in Nat /\ QuestCap <= QuestCap'
  BY <1>1, CapGrows DEF QuestCap
<1>3. CASE paid' = paid
  BY <1>2, <1>3 DEF CapInv, PaidWithinCap
<1>4. ASSUME NEW t \in Tasks, NEW a, VerifyAndPay(t, a) PROVE CapInv'
  <2>1. paid' = paid + Reward[t] /\ paid + Reward[t] <= QuestCap /\ Reward[t] \in Nat
    BY <1>4, QuestsAssumption DEF VerifyAndPay, WithinCap
  <2> QED
    BY <1>2, <2>1 DEF CapInv, PaidWithinCap
<1> QED
  BY <1>3, <1>4, PaidSteps

\* Quests never pay, or owe, more than 5 percent of the live supply (verifyAndPay),
\* for any rewards, through blocks that raise the supply in between.
THEOREM QuestsWithinCap == Spec => []PaidWithinCap
<1>1. Init => CapInv
  <2> SUFFICES ASSUME Init PROVE CapInv
    OBVIOUS
  <2>1. paid = 0 /\ supply = Supply0 /\ Supply0 \in Nat
    BY EconoAssumption DEF Init, QuestsInit, EconoInit
  <2> QED
    BY <2>1 DEF CapInv, PaidWithinCap, QuestCap
<1>2. CapInv => PaidWithinCap
  BY DEF CapInv
<1>3. EmissionInv /\ GovInv /\ CapInv /\ [Next]_vars => EmissionInv' /\ GovInv' /\ CapInv'
  BY EmissionKept, GovInvKept, CapKept
<1> QED
  BY <1>1, <1>2, <1>3, EmissionInitially, GovInvInitially, PTL DEF Spec

-----------------------------------------------------------------------------
(* The balances *)

Balances == [Holders -> Int]
HeldOf(f) == SumFunctionOnSet(f, Holders)

LEMMA HoldersFinite ==
  /\ IsFiniteSet(Holders) /\ Accounts \subseteq Holders
  /\ {Treasury, Registry, Pool, Faucet} \subseteq Holders
  /\ Addrs \subseteq Accounts
<1>1. IsFiniteSet(Accounts)
  BY QuestsAssumption
<1>2. IsFiniteSet({Treasury, Registry, Pool, Faucet})
  <2>1. IsFiniteSet({}) /\ {Treasury} = {} \cup {Treasury}
        /\ {Treasury, Registry} = {Treasury} \cup {Registry}
        /\ {Treasury, Registry, Pool} = {Treasury, Registry} \cup {Pool}
        /\ {Treasury, Registry, Pool, Faucet} = {Treasury, Registry, Pool} \cup {Faucet}
    BY FS_EmptySet
  <2>2. IsFiniteSet({Treasury})
    BY <2>1, FS_AddElement
  <2>3. IsFiniteSet({Treasury, Registry})
    BY <2>1, <2>2, FS_AddElement
  <2>4. IsFiniteSet({Treasury, Registry, Pool})
    BY <2>1, <2>3, FS_AddElement
  <2> QED
    BY <2>1, <2>4, FS_AddElement
<1>3. IsFiniteSet(Holders)
  BY <1>1, <1>2, FS_Union DEF Holders
<1> QED
  BY <1>3, PrecompilesAssumption DEF Holders, Addrs

\* A credit, which may be negative.
LEMMA CreditOne ==
  ASSUME NEW f \in Balances, NEW g \in Balances, NEW h \in Holders, NEW n \in Int,
         \A y \in Holders \ {h} : g[y] = f[y], g[h] = f[h] + n
  PROVE  HeldOf(f) \in Int /\ HeldOf(g) = HeldOf(f) + n
<1>1. \A y \in Holders : f[y] \in Int /\ g[y] \in Int
  BY DEF Balances
<1>2. IsFiniteSet(Holders)
  BY HoldersFinite
<1>3. SumFunctionOnSet(g, Holders) = SumFunctionOnSet(f, Holders) - f[h] + g[h]
  BY <1>1, <1>2, SumReplace
<1>4. SumFunctionOnSet(f, Holders) \in Int
  <2>1. \A y \in Holders : f[y] \in Int
    BY <1>1
  <2> QED
    BY <1>2, <2>1, SumIsInt
<1> QED
  BY <1>1, <1>3, <1>4 DEF HeldOf

\* A transfer keeps the sum.
LEMMA MoveKeeps ==
  ASSUME NEW f \in Balances, NEW from \in Holders, NEW to \in Holders, from # to, NEW n \in Int
  PROVE  Move(f, from, to, n) \in Balances /\ HeldOf(Move(f, from, to, n)) = HeldOf(f)
<1> DEFINE m == 0 - n
           g == [f EXCEPT ![from] = @ - n]
           k == Move(f, from, to, n)
<1>1. m \in Int
  OBVIOUS
<1>2. g \in Balances
  BY DEF Balances
<1>3. k \in Balances
  BY DEF Balances, Move
<1>4. (\A y \in Holders \ {from} : g[y] = f[y]) /\ g[from] = f[from] + m
  BY DEF Balances
<1>5. (\A y \in Holders \ {to} : k[y] = g[y]) /\ k[to] = g[to] + n
  BY DEF Balances, Move
<1> HIDE DEF m, g, k
<1>6. HeldOf(f) \in Int /\ HeldOf(g) = HeldOf(f) + m
  BY <1>1, <1>2, <1>4, CreditOne
<1>7. HeldOf(k) = HeldOf(g) + n
  BY <1>2, <1>3, <1>5, CreditOne
<1> QED
  BY <1>3, <1>6, <1>7 DEF m, k

TaskRecords == [known : BOOLEAN, mode : {0, 1}, reward : Nat]
Drips == [amount : Nat, cooldown : Nat, total : Int]

WayTypes ==
    /\ bal \in Balances /\ issued \in Int
    /\ rec \in [Tasks -> TaskRecords] /\ drip \in Drips
    /\ bounty \in [Bounties -> Nat]

\* What a step may do to the sum of the balances: what comes from outside, or the
\* reward of a community task whose payer is short.
Balanced == Held' - Held = issued' - issued
Made(t) ==
    /\ rec[t].known /\ ~Covered(t)
    /\ Held' - Held = rec[t].reward /\ issued' = issued
Accounted == Balanced \/ \E t \in Tasks : Made(t)

LEMMA HeldNow ==
  ASSUME bal \in Balances
  PROVE  Held = HeldOf(bal) /\ Held' = HeldOf(bal') /\ HeldOf(bal) \in Int
<1>1. \A y \in Holders : bal[y] \in Int
  BY DEF Balances
<1>2. SumFunctionOnSet(bal, Holders) \in Int
  BY <1>1, HoldersFinite, SumIsInt
<1> QED
  BY <1>2 DEF Held, HeldOf

\* A step that takes from outside what it adds to the balances.
LEMMA MoneyStep ==
  ASSUME WayTypes, NEW n \in Int, bal' \in Balances, HeldOf(bal') = HeldOf(bal) + n,
         issued' = issued + n
  PROVE  issued' \in Int /\ Accounted
<1>1. Held = HeldOf(bal) /\ Held' = HeldOf(bal') /\ HeldOf(bal) \in Int /\ issued \in Int
  BY HeldNow DEF WayTypes
<1>2. Balanced
  BY <1>1 DEF Balanced
<1> QED
  BY <1>1, <1>2 DEF Accounted

LEMMA TransferStep ==
  ASSUME WayTypes, NEW from \in Holders, NEW to \in Holders, from # to, NEW n \in Int,
         bal' = Move(bal, from, to, n) \/ bal' = bal,
         UNCHANGED <<issued, rec, drip, bounty>>
  PROVE  WayTypes' /\ Accounted
<1>1. bal \in Balances /\ issued \in Int
  BY DEF WayTypes
<1>2. bal' \in Balances /\ HeldOf(bal') = HeldOf(bal) + 0 /\ issued' = issued + 0
  <2>1. Move(bal, from, to, n) \in Balances /\ HeldOf(Move(bal, from, to, n)) = HeldOf(bal)
    BY <1>1, MoveKeeps
  <2>2. HeldOf(bal) \in Int
    BY <1>1, HeldNow
  <2> QED
    BY <1>1, <2>1, <2>2
<1>3. Accounted
  BY <1>2, MoneyStep
<1> QED
  BY <1>2, <1>3 DEF WayTypes

LEMMA IdleStep ==
  ASSUME WayTypes, UNCHANGED <<bal, issued>>
  PROVE  Accounted
<1>1. bal \in Balances /\ issued \in Int /\ HeldOf(bal) \in Int
  BY HeldNow DEF WayTypes
<1>2. bal' \in Balances /\ HeldOf(bal') = HeldOf(bal) + 0 /\ issued' = issued + 0
  BY <1>1
<1> QED
  BY <1>2, MoneyStep

\* Quests: rewards and giveaways are transfers.
LEMMA TaskCallsKeepWay ==
  ASSUME WayTypes, TaskNext
  PROVE  WayTypes' /\ Accounted
<1>1. /\ Accounts \subseteq Holders /\ Treasury \in Holders /\ Pool \in Holders
      /\ Addrs \subseteq Accounts /\ Treasury \notin Accounts /\ Pool \notin Accounts
  BY HoldersFinite, QuestsAssumption
<1>2. ASSUME NEW t \in Tasks, NEW a \in Addrs, VerifyAndPay(t, a) PROVE WayTypes' /\ Accounted
  <2>1. /\ bal' = Move(bal, Treasury, a, Reward[t]) \/ bal' = bal
        /\ UNCHANGED <<issued, rec, drip, bounty>>
    BY <1>2 DEF VerifyAndPay, PayFromTreasury, dripVars, bountyVars
  <2>2. Reward[t] \in Int /\ a \in Holders /\ Treasury # a
    BY <1>1, QuestsAssumption
  <2> QED
    BY <1>1, <2>1, <2>2, TransferStep
<1>3. ASSUME NEW c \in Accounts, GiveawayClaim(c) PROVE WayTypes' /\ Accounted
  <2>1. /\ bal' = Move(bal, Pool, c, Giveaway) \/ bal' = bal
        /\ UNCHANGED <<issued, rec, drip, bounty>>
    BY <1>3 DEF GiveawayClaim, dripVars, bountyVars
  <2>2. Giveaway \in Int /\ c \in Holders /\ Pool # c
    BY <1>1, QuestsAssumption
  <2> QED
    BY <1>1, <2>1, <2>2, TransferStep
<1>4. ASSUME NEW c, NEW t, NEW v, NEW a, TaskClaim(c, t) \/ QuestSetAutopilot(v, a)
      PROVE  WayTypes' /\ Accounted
  <2>1. UNCHANGED <<bal, issued, rec, drip, bounty>>
    BY <1>4 DEF TaskClaim, QuestSetAutopilot, dripVars, moneyVars, bountyVars
  <2> QED
    BY <2>1, IdleStep DEF WayTypes
<1> QED
  BY <1>2, <1>3, <1>4 DEF TaskNext, TaskVerify, TaskAutoVerify

\* Funding comes from outside.
LEMMA FundKeepsWay ==
  ASSUME WayTypes, FundNext
  PROVE  WayTypes' /\ Accounted
<1>0. bal \in Balances /\ issued \in Int /\ Treasury \in Holders
  BY HoldersFinite DEF WayTypes
<1>1. PICK n \in Funds : QuestFund(n)
  BY DEF FundNext
<1>2. /\ bal' = [bal EXCEPT ![Treasury] = @ + n] /\ issued' = issued + n
      /\ UNCHANGED <<rec, drip, bounty>> /\ n \in Int
  BY <1>1, QuestsAssumption DEF QuestFund, taskVars, dripVars, bountyVars
<1>3. bal' \in Balances
  <2>1. bal[Treasury] + n \in Int
    BY <1>0, <1>2 DEF Balances
  <2> QED
    BY <1>0, <1>2, <2>1 DEF Balances
<1>4. (\A y \in Holders \ {Treasury} : bal'[y] = bal[y]) /\ bal'[Treasury] = bal[Treasury] + n
  BY <1>0, <1>2 DEF Balances
<1>5. HeldOf(bal') = HeldOf(bal) + n
  BY <1>0, <1>2, <1>3, <1>4, CreditOne, ZenonT(30)
<1>6. issued' \in Int /\ Accounted
  BY <1>2, <1>3, <1>5, MoneyStep
<1> QED
  BY <1>2, <1>3, <1>6 DEF WayTypes

\* Bounties: what a verified fix is paid is a transfer.
LEMMA BountyCallsKeepWay ==
  ASSUME WayTypes, BountyNext
  PROVE  WayTypes' /\ Accounted
<1>1. /\ Accounts \subseteq Holders /\ Treasury \in Holders
      /\ Addrs \subseteq Accounts /\ Treasury \notin Accounts
  BY HoldersFinite, QuestsAssumption
<1>2. ASSUME NEW b \in Bounties, NEW n \in Worths, RegisterBounty(b, n) PROVE WayTypes' /\ Accounted
  <2>1. UNCHANGED <<bal, issued, rec, drip>> /\ bounty' = [bounty EXCEPT ![b] = n] /\ n \in Nat
    BY <1>2, QuestsAssumption DEF RegisterBounty, dripVars, moneyVars
  <2> QED
    BY <2>1, IdleStep DEF WayTypes
<1>3. ASSUME NEW v, NEW b \in Bounties, NEW a \in Addrs, VerifyFix(v, b, a) PROVE WayTypes' /\ Accounted
  <2>1. /\ bal' = Move(bal, Treasury, a, bounty[b]) \/ bal' = bal
        /\ UNCHANGED <<issued, rec, drip, bounty>>
    BY <1>3 DEF VerifyFix, dripVars
  <2>2. bounty[b] \in Int /\ a \in Holders /\ Treasury # a
    BY <1>1 DEF WayTypes
  <2> QED
    BY <1>1, <2>1, <2>2, TransferStep
<1>4. ASSUME NEW c, NEW b, NEW v, NEW a, NEW n, ClaimFix(c, b) \/ DelegateMicroTask(v, b, a, n)
      PROVE  WayTypes' /\ Accounted
  <2>1. UNCHANGED <<bal, issued, rec, drip, bounty>>
    BY <1>4 DEF ClaimFix, DelegateMicroTask, dripVars, moneyVars
  <2> QED
    BY <2>1, IdleStep DEF WayTypes
<1> QED
  BY <1>2, <1>3, <1>4 DEF BountyNext

\* Community tasks: a reward nobody covers is made, and no other.
LEMMA CommunityCallsKeepWay ==
  ASSUME WayTypes, CommunityNext
  PROVE  WayTypes' /\ Accounted
<1>0. bal \in Balances /\ issued \in Int /\ rec \in [Tasks -> TaskRecords] /\ drip \in Drips
  BY DEF WayTypes
<1>1. /\ Accounts \subseteq Holders /\ Treasury \in Holders /\ Registry \in Holders
      /\ Addrs \subseteq Accounts /\ Treasury \notin Accounts /\ Registry \notin Accounts
  BY HoldersFinite, QuestsAssumption
<1>2. ASSUME NEW t \in Tasks, NEW level \in {0, 1}, NEW mode \in {0, 1}, NEW n \in Amounts,
             CreateTask(t, level, mode, n)
      PROVE  WayTypes' /\ Accounted
  <2>1. /\ UNCHANGED <<bal, issued, drip, bounty>>
        /\ rec' = [rec EXCEPT ![t] = [known |-> level > 0 \/ mode > 0, mode |-> mode, reward |-> n]]
    BY <1>2 DEF CreateTask, dripVars, moneyVars, bountyVars
  <2>2. [known |-> level > 0 \/ mode > 0, mode |-> mode, reward |-> n] \in TaskRecords
    BY QuestsAssumption DEF TaskRecords
  <2>3. rec' \in [Tasks -> TaskRecords]
    BY <1>0, <2>1, <2>2
  <2> QED
    BY <2>1, <2>3, IdleStep DEF WayTypes
<1>3. ASSUME NEW c \in Accounts, NEW t \in Tasks, NEW n \in Amounts, EscrowTask(c, t, n)
      PROVE  WayTypes' /\ Accounted
  <2>1. /\ bal' = Move(bal, c, Registry, n)
        /\ UNCHANGED <<issued, rec, drip, bounty>>
    BY <1>3 DEF EscrowTask, dripVars, bountyVars
  <2>2. n \in Int /\ c \in Holders /\ c # Registry
    BY <1>1, QuestsAssumption
  <2> QED
    BY <1>1, <2>1, <2>2, TransferStep
<1>4. ASSUME NEW v, NEW t \in Tasks, NEW a \in Addrs, VerifyCommunity(v, t, a)
      PROVE  WayTypes' /\ Accounted
  <2> DEFINE n == rec[t].reward
  <2>1. /\ bal' = IF Covered(t) THEN Move(bal, Payer(t), a, n) ELSE [bal EXCEPT ![a] = @ + n]
        /\ rec[t].known /\ UNCHANGED <<issued, rec, drip, bounty>>
    BY <1>4 DEF VerifyCommunity, dripVars, bountyVars
  <2>2. n \in Int
    BY <1>0 DEF TaskRecords
  <2>3. Payer(t) \in Holders /\ a \in Holders /\ Payer(t) # a
    BY <1>1 DEF Payer
  <2>4. CASE Covered(t)
    <3>1. bal' = Move(bal, Payer(t), a, n)
      BY <2>1, <2>4
    <3> HIDE DEF n
    <3> QED
      BY <2>1, <2>2, <2>3, <3>1, TransferStep
  <2>5. CASE ~Covered(t)
    <3>1. bal' = [bal EXCEPT ![a] = @ + n]
      BY <2>1, <2>5
    <3> HIDE DEF n
    <3>2. bal' \in Balances
      <4>1. bal[a] + n \in Int
        BY <1>0, <2>2, <2>3 DEF Balances
      <4> QED
        BY <1>0, <3>1, <4>1 DEF Balances
    <3>3. (\A y \in Holders \ {a} : bal'[y] = bal[y]) /\ bal'[a] = bal[a] + n
      BY <1>0, <2>3, <3>1 DEF Balances
    <3>4. HeldOf(bal) \in Int /\ HeldOf(bal') = HeldOf(bal) + n
      BY <1>0, <2>2, <2>3, <3>2, <3>3, CreditOne
    <3>5. Held' - Held = n
      <4>1. Held = HeldOf(bal) /\ Held' = HeldOf(bal')
        BY <1>0, HeldNow
      <4> QED
        BY <2>2, <3>4, <4>1
    <3>6. Made(t)
      BY <2>1, <2>5, <3>5 DEF Made, n
    <3> QED
      BY <2>1, <3>2, <3>6 DEF Accounted, WayTypes
  <2> QED
    BY <2>4, <2>5
<1> QED
  BY <1>2, <1>3, <1>4 DEF CommunityNext

\* The faucet: what the founder's seed fills is counted, the drip is a transfer.
LEMMA FaucetCallsKeepWay ==
  ASSUME WayTypes, FaucetNext
  PROVE  WayTypes' /\ Accounted
<1>0. bal \in Balances /\ issued \in Int /\ rec \in [Tasks -> TaskRecords] /\ drip \in Drips
  BY DEF WayTypes
<1>1. Accounts \subseteq Holders /\ Faucet \in Holders /\ Faucet \notin Accounts
  BY HoldersFinite, QuestsAssumption
<1>2. ASSUME NEW c \in Accounts, FaucetDrip(c) PROVE WayTypes' /\ Accounted
  <2> DEFINE b == IF Short[c] = Founder THEN SeedAllGenesis ELSE bal
             d == [h \in Holders |-> b[h] - bal[h]]
             n == SumFunctionOnSet(d, Holders)
             k == DripAmount
             pays == ~RateLimited(c) /\ b[Faucet] >= k
  <2>1. /\ issued' = issued + n
        /\ bal' = IF pays THEN Move(b, Faucet, c, k) ELSE b
        /\ drip' = IF pays THEN [drip EXCEPT !.total = @ + k] ELSE drip
        /\ rec' = rec /\ bounty' = bounty
    BY <1>2 DEF FaucetDrip, bountyVars
  <2>2. k \in Nat
    BY <1>0, QuestsAssumption DEF DripAmount, Drips
  <2>3. drip' \in Drips
    <3>1. CASE pays
      BY <1>0, <2>1, <2>2, <3>1 DEF Drips
    <3>2. CASE ~pays
      BY <1>0, <2>1, <3>2
    <3> QED
      BY <3>1, <3>2
  <2>4. b \in Balances
    <3>1. Seed \in Balances
      BY QuestsAssumption DEF Seed, Balances
    <3>2. SeedAllGenesis \in Balances
      <4> HIDE DEF b, d, n, k, pays
      <4> QED BY <1>0, <3>1 DEF SeedAllGenesis, Balances
    <3> QED
      BY <1>0, <3>2
  <2> HIDE DEF b, k, pays
  <2>5. \A h \in Holders : bal[h] \in Int /\ d[h] \in Int /\ b[h] = bal[h] + d[h]
    BY <1>0, <2>4 DEF Balances
  <2>6. (\A h \in Holders : d[h] \in Int) /\ \A h \in Holders : bal[h] \in Int
    BY <2>5
  <2>7. IsFiniteSet(Holders)
    BY HoldersFinite
  <2> HIDE DEF d
  <2>8. HeldOf(b) = HeldOf(bal) + n
    BY <2>5, <2>7, SumPlus DEF HeldOf
  <2>9. n \in Int /\ HeldOf(bal) \in Int
    BY <2>6, <2>7, SumIsInt DEF HeldOf
  <2> HIDE DEF n
  <2>10. bal' \in Balances /\ HeldOf(bal') = HeldOf(b)
    <3>1. c \in Holders /\ Faucet # c /\ k \in Int
      BY <1>1, <2>2
    <3>2. Move(b, Faucet, c, k) \in Balances /\ HeldOf(Move(b, Faucet, c, k)) = HeldOf(b)
      BY <1>1, <2>4, <3>1, MoveKeeps
    <3> QED
      BY <2>1, <2>4, <3>2
  <2>11. HeldOf(bal') = HeldOf(bal) + n /\ issued' = issued + n
    BY <2>1, <2>8, <2>10
  <2>12. issued' \in Int /\ Accounted
    BY <2>9, <2>10, <2>11, MoneyStep
  <2> QED
    BY <2>1, <2>3, <2>10, <2>12 DEF WayTypes
<1>3. ASSUME NEW n \in Amounts, SetDripAmount(n) \/ SetCooldown(n) PROVE WayTypes' /\ Accounted
  <2>1. UNCHANGED <<bal, issued, rec, bounty>> /\ n \in Nat
    BY <1>3, QuestsAssumption DEF SetDripAmount, SetCooldown, SetDrip, taskVars, moneyVars, bountyVars
  <2>2. drip' \in Drips
    BY <1>0, <1>3, <2>1 DEF SetDripAmount, SetCooldown, SetDrip, Drips
  <2> QED
    BY <2>1, <2>2, IdleStep DEF WayTypes
<1> QED
  BY <1>2, <1>3 DEF FaucetNext

\* A block burns of the treasury and pays its share into it.
LEMMA BlockKeepsWay ==
  ASSUME WayTypes, EmissionInv, ProduceBlock
  PROVE  WayTypes' /\ Accounted
<1> DEFINE burn == IF block % EpochLength = 0 THEN TreasuryBurn(bal[Treasury]) ELSE 0
           share == TreasuryShareOf(Paid(block))
           n == share - burn
<1>0. bal \in Balances /\ issued \in Int
  BY DEF WayTypes
<1>1. Treasury \in Holders
  BY HoldersFinite
<1>2. /\ bal' = [bal EXCEPT ![Treasury] = bal[Treasury] - burn + share]
      /\ issued' = issued - burn + share
      /\ rec' = rec /\ drip' = drip /\ bounty' = bounty
  BY DEF ProduceBlock, QuestsBlock, taskVars, dripVars, bountyVars
<1>3. bal[Treasury] \in Int
  BY <1>0, <1>1 DEF Balances
<1>4. burn \in Int
  <2> DEFINE bps == IF BurnBps > MaxBurnBps THEN MaxBurnBps ELSE BurnBps
  <2>1. bps \in Nat
    BY EconoAssumption
  <2>2. \A x \in Int, y \in Nat : (x * y) \div 10000 \in Int
    OBVIOUS
  <2>3. TreasuryBurn(bal[Treasury]) = IF ComputeEconoPhase = 1 THEN (bal[Treasury] * bps) \div 10000 ELSE 0
    BY DEF TreasuryBurn
  <2> HIDE DEF bps
  <2>4. TreasuryBurn(bal[Treasury]) \in Int
    BY <1>3, <2>1, <2>2, <2>3
  <2> QED
    BY <2>4
<1>5. share \in Int
  <2> DEFINE p == Paid(block)
  <2>1. p \in Nat
    BY BlockFacts DEF EmissionInv
  <2>2. SharePct \in Nat
    BY StakingAssumption
  <2>3. \A x, y \in Nat : (x * y) \div 100 \in Int
    OBVIOUS
  <2> HIDE DEF p
  <2> QED
    BY <2>1, <2>2, <2>3 DEF TreasuryShareOf, p
<1> HIDE DEF burn, share
<1>6. n \in Int /\ bal[Treasury] - burn + share = bal[Treasury] + n /\ issued' = issued + n
  BY <1>0, <1>2, <1>3, <1>4, <1>5
<1> HIDE DEF n
<1>7. bal' \in Balances
  <2>1. bal[Treasury] + n \in Int
    BY <1>3, <1>6
  <2>2. bal' = [bal EXCEPT ![Treasury] = bal[Treasury] + n]
    BY <1>2, <1>6, Zenon
  <2> QED
    BY <1>0, <2>1, <2>2 DEF Balances
<1>8. (\A y \in Holders \ {Treasury} : bal'[y] = bal[y]) /\ bal'[Treasury] = bal[Treasury] + n
  BY <1>0, <1>1, <1>2, <1>6 DEF Balances
<1>9. HeldOf(bal) \in Int /\ HeldOf(bal') = HeldOf(bal) + n
  BY <1>0, <1>1, <1>6, <1>7, <1>8, CreditOne
<1>10. issued' \in Int /\ Accounted
  BY <1>6, <1>7, <1>9, MoneyStep
<1> QED
  BY <1>2, <1>7, <1>10 DEF WayTypes

LEMMA WayKept ==
  ASSUME WayTypes, EmissionInv, [Next]_vars
  PROVE  WayTypes' /\ Accounted
<1>1. ASSUME UNCHANGED questVars PROVE WayTypes' /\ Accounted
  <2>1. UNCHANGED <<bal, issued, rec, drip, bounty>>
    BY <1>1 DEF questVars, taskVars, dripVars, moneyVars, bountyVars
  <2> QED
    BY <2>1, IdleStep DEF WayTypes
<1>2. UNCHANGED vars \/ Restart => UNCHANGED questVars
  BY DEF vars, Restart
<1> QED
  BY <1>1, <1>2, BlockKeepsWay, TaskCallsKeepWay, FundKeepsWay, BountyCallsKeepWay,
     CommunityCallsKeepWay, FaucetCallsKeepWay
     DEF Next

LEMMA WayInitially == Init => WayTypes
<1> SUFFICES ASSUME Init PROVE WayTypes
  OBVIOUS
<1>1. /\ bal = [Seed EXCEPT ![Pool] = PoolFund] /\ rec = [t \in Tasks |-> NoTask]
      /\ drip = [amount |-> 0, cooldown |-> 0, total |-> 0]
      /\ issued = TreasurySeed + FounderSeed + FaucetSeed + PoolFund
      /\ bounty = [b \in Bounties |-> 0]
  BY DEF Init, QuestsInit
<1>2. TreasurySeed \in Nat /\ FounderSeed \in Nat /\ FaucetSeed \in Nat /\ PoolFund \in Nat
  BY QuestsAssumption
<1>3. bal \in Balances
  <2>1. Seed \in Balances
    BY <1>2 DEF Seed, Balances
  <2>2. PICK f : f = Seed
    OBVIOUS
  <2>3. bal = [f EXCEPT ![Pool] = PoolFund] /\ f \in Balances /\ PoolFund \in Int
    BY <1>1, <1>2, <2>1, <2>2
  <2> QED
    BY <2>3 DEF Balances
<1> QED
  BY <1>1, <1>2, <1>3 DEF WayTypes, NoTask, TaskRecords, Drips

\* WAY is neither lost nor made by the calls of the task registry, the treasury and
\* the faucet and by the blocks between them, for any number of accounts and any
\* amounts, except for the reward of a community task that its payer does not cover
\* (verifyAndPay, verifyFix, verifyCommunity, escrowTask, drip, SeedAllGenesis).
THEOREM WayIsConserved == Spec => WayConserved
<1>1. EmissionInv /\ WayTypes /\ [Next]_vars => WayTypes' /\ [Accounted]_questVars
  BY WayKept
<1>2. EmissionInv /\ GovInv /\ [Next]_vars => EmissionInv' /\ GovInv'
  BY EmissionKept, GovInvKept
<1> QED
  BY <1>1, <1>2, EmissionInitially, GovInvInitially, WayInitially, PTL
     DEF Spec, WayConserved, Accounted, Balanced, Made
=============================================================================
