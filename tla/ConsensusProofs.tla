-------------------------- MODULE ConsensusProofs ---------------------------
(***************************************************************************)
(* Proofs about module Consensus, for every set of validators, every       *)
(* choice of proposers and every bound.                                    *)
(***************************************************************************)
EXTENDS Consensus, FiniteSetTheorems, TLAPS

\* The voting power is a number.
LEMMA TotalPowerType == TotalPower \in Nat
BY ValidatorsAssumption, FS_Subset, FS_CardinalityType DEF TotalPower

\* A round with no votes is a round.
LEMMA NewRoundType ==
    ASSUME NEW h \in 0 .. MaxBlock + 1, NEW b \in 0 .. MaxBlock
    PROVE  /\ NewRound(h, b) \in Rounds
           /\ NewRound(h, b).height = h
           /\ NewRound(h, b).block = b
           /\ NewRound(h, b).phase = "propose"
BY BoundsAssumption DEF NewRound, Rounds, Phases

\* The inductive invariant holds initially.
LEMMA InitIInv == Init => IInv
<1> SUFFICES ASSUME Init PROVE IInv
  OBVIOUS
<1> USE DEF Init
<1>1. /\ cur \in Rounds
      /\ cur.height = 0 /\ cur.block = 0 /\ cur.phase = "propose"
  BY NewRoundType, BoundsAssumption
<1>2. tick \in [pc : {"idle", "publish", "arm", "assign", "prevote", "exited"},
               height : 0 .. MaxBlock + 1, block : 0 .. MaxBlock]
  BY BoundsAssumption
<1>a. chainHeight \in Nat /\ checks \in 0 .. MaxChecks /\ engineHeight \in 0 .. MaxBlock
  BY BoundsAssumption
<1>b. TypeOK
  BY <1>1, <1>2, <1>a, Zenon DEF TypeOK
<1>3. TickerInv
  BY <1>1, BoundsAssumption DEF TickerInv, HasRound
<1>4. CommitIsFinal /\ QuorumCountedInRound /\ RoundWithinReach /\ QuorumHeightIsCurrent
  BY <1>1 DEF CommitIsFinal, QuorumCountedInRound, RoundWithinReach,
     QuorumHeightIsCurrent, HasRound
<1> QED BY <1>b, <1>3, <1>4 DEF IInv

\* The ticker's first step keeps the invariant: the block is newer than all.
LEMMA RunBlockRoundStep == IInv /\ RunBlockRound => IInv'
<1> SUFFICES ASSUME IInv, RunBlockRound PROVE IInv'
  OBVIOUS
<1>1. /\ tick' = [pc |-> "publish", height |-> engineHeight + 1, block |-> chainHeight + 1]
      /\ chainHeight' = chainHeight + 1
      /\ UNCHANGED <<cur, armed, fired, checks, stopping, finalized, engineHeight>>
      /\ chainHeight < MaxBlock
  BY DEF RunBlockRound, engineVars
<1>2. TypeOK'
  BY <1>1, BoundsAssumption DEF IInv, TypeOK, Heights, Blocks
<1>3. TickerInv'
  BY <1>1, BoundsAssumption DEF IInv, TypeOK, TickerInv, RoundWithinReach, HasRound, Rounds
<1>4. (CommitIsFinal /\ QuorumCountedInRound /\ RoundWithinReach /\ QuorumHeightIsCurrent)'
  BY <1>1 DEF IInv, CommitIsFinal, QuorumCountedInRound, RoundWithinReach,
     QuorumHeightIsCurrent, HasRound
<1> QED BY <1>2, <1>3, <1>4 DEF IInv

\* Publishing keeps it: the new round is in phase propose, and its block is
\* above everything finalized.
LEMMA PublishRoundStep == IInv /\ PublishRound => IInv'
<1> SUFFICES ASSUME IInv, PublishRound PROVE IInv'
  OBVIOUS
<1>1. /\ tick.pc = "publish"
      /\ cur' = NewRound(tick.height, tick.block)
      /\ tick' = [tick EXCEPT !.pc = "arm"]
      /\ UNCHANGED <<chainHeight, armed, fired, checks, stopping, finalized, engineHeight>>
  BY DEF PublishRound, engineVars
<1>2. /\ tick.height \in 0 .. MaxBlock + 1
      /\ tick.block \in 0 .. MaxBlock
      /\ tick.height >= 1 /\ tick.block >= 1
      /\ tick.block = chainHeight
      /\ tick.height <= tick.block
      /\ tick.height <= engineHeight + 1
      /\ engineHeight < tick.block
  BY <1>1, BoundsAssumption DEF IInv, TypeOK, TickerInv, RoundWithinReach, HasRound, Rounds
<1>3. /\ cur' \in Rounds
      /\ cur'.height = tick.height /\ cur'.block = tick.block /\ cur'.phase = "propose"
  BY <1>1, <1>2, NewRoundType
<1>4. TypeOK'
  BY <1>1, <1>3 DEF IInv, TypeOK
<1>5. TickerInv'
  BY <1>1, <1>2, <1>3, BoundsAssumption DEF IInv, TypeOK, TickerInv, HasRound
<1>6. CommitIsFinal' /\ QuorumHeightIsCurrent'
  BY <1>1, <1>3 DEF IInv, CommitIsFinal, QuorumHeightIsCurrent
<1>7. RoundWithinReach'
  BY <1>1, <1>2, <1>3, BoundsAssumption DEF IInv, TypeOK, RoundWithinReach
<1>8. cur'.block \notin finalized'
  BY <1>1, <1>2, <1>3, BoundsAssumption DEF IInv, TypeOK, QuorumHeightIsCurrent, Blocks
<1>9. QuorumCountedInRound'
  BY <1>8 DEF QuorumCountedInRound
<1> QED BY <1>4, <1>5, <1>6, <1>7, <1>9 DEF IInv

\* The remaining ticker steps, the timers and Stop leave the engine alone and
\* keep the height, the block and the power of the round.
LEMMA QuietStep ==
    ASSUME IInv,
           UNCHANGED <<chainHeight, finalized, engineHeight>>,
           TypeOK',
           cur'.height = cur.height, cur'.block = cur.block,
           cur'.precommitPower = cur.precommitPower,
           cur'.phase = "commit" => cur.phase = "commit",
           ~HasRound => cur' = cur,
           tick'.height = tick.height, tick'.block = tick.block,
           \/ tick'.pc = tick.pc
           \/ tick.pc # "publish" /\ tick'.pc \in {"idle", "exited"}
           \/ tick.pc \in {"arm", "assign"} /\ tick'.pc \in {"assign", "prevote"}
    PROVE  IInv'
<1>1. HasRound' = HasRound
  BY DEF HasRound
<1>2. TickerInv'
  BY <1>1, BoundsAssumption DEF IInv, TypeOK, TickerInv
<1>3. CommitIsFinal' /\ QuorumHeightIsCurrent'
  BY DEF IInv, CommitIsFinal, QuorumHeightIsCurrent
<1>4. RoundWithinReach'
  BY <1>1 DEF IInv, RoundWithinReach
<1>5. QuorumCountedInRound'
  BY <1>1 DEF IInv, QuorumCountedInRound
<1> QED BY <1>2, <1>3, <1>4, <1>5 DEF IInv

\* The remaining steps of the ticker goroutine, and Stop, keep the invariant.
\* They leave the engine and the votes that count alone.
LEMMA OtherTickerStep ==
    IInv /\ (ArmTimer \/ AssignTimer \/ OwnPrevote \/ LoopExit \/ Stop) => IInv'
<1> SUFFICES ASSUME IInv, ArmTimer \/ AssignTimer \/ OwnPrevote \/ LoopExit \/ Stop
             PROVE  IInv'
  OBVIOUS
<1> USE BoundsAssumption, ValidatorsAssumption
<1>1. CASE ArmTimer
  <2>1. [block |-> tick.block, height |-> tick.height] \in Timers
    BY <1>1 DEF ArmTimer, IInv, TypeOK, TickerInv, Timers, Blocks, Heights
  <2>2. TypeOK'
    BY <1>1, <2>1 DEF ArmTimer, engineVars, IInv, TypeOK
  <2> QED BY <1>1, <2>2, QuietStep DEF ArmTimer, engineVars, IInv, TypeOK
<1>2. CASE AssignTimer
  <2>1. TypeOK'
    BY <1>2 DEF AssignTimer, engineVars, IInv, TypeOK
  <2> QED BY <1>2, <2>1, QuietStep DEF AssignTimer, engineVars, IInv, TypeOK
<1>3. CASE OwnPrevote
  <2>1. /\ cur' \in Rounds
        /\ cur'.height = cur.height /\ cur'.block = cur.block
        /\ cur'.precommitPower = cur.precommitPower /\ cur'.phase = cur.phase
        /\ ~HasRound => cur' = cur
    <3>1. CASE HasRound /\ cur.height = tick.height
      <4>1. cur' = [cur EXCEPT !.prevotes = @ \cup {Local}, !.prevotePower = @ + 1]
        BY <1>3, <3>1 DEF OwnPrevote
      <4>2. cur \in Rounds /\ cur.prevotes \cup {Local} \in SUBSET Validators
        BY DEF IInv, TypeOK, Rounds
      <4>3. cur.prevotePower + 1 \in Nat
        BY DEF IInv, TypeOK, Rounds
      <4>4. cur' \in Rounds
        BY <4>1, <4>2, <4>3 DEF Rounds
      <4>5. /\ cur'.height = cur.height /\ cur'.block = cur.block
            /\ cur'.precommitPower = cur.precommitPower /\ cur'.phase = cur.phase
        BY <4>1, <4>2 DEF Rounds
      <4> QED BY <3>1, <4>4, <4>5
    <3>2. CASE ~(HasRound /\ cur.height = tick.height)
      BY <1>3, <3>2 DEF OwnPrevote, IInv, TypeOK
    <3> QED BY <3>1, <3>2
  <2>2. TypeOK'
    BY <1>3, <2>1 DEF OwnPrevote, engineVars, IInv, TypeOK
  <2> QED BY <1>3, <2>1, <2>2, QuietStep DEF OwnPrevote, engineVars, IInv, TypeOK
<1>4. CASE LoopExit
  <2>1. TypeOK'
    BY <1>4 DEF LoopExit, engineVars, IInv, TypeOK
  <2> QED BY <1>4, <2>1, QuietStep DEF LoopExit, engineVars, IInv, TypeOK
<1>5. CASE Stop
  <2>1. TypeOK'
    BY <1>5 DEF Stop, engineVars, IInv, TypeOK
  <2> QED BY <1>5, <2>1, QuietStep DEF Stop, engineVars, IInv, TypeOK
<1> QED BY <1>1, <1>2, <1>3, <1>4, <1>5

\* Neither the runtime firing a timer nor handleTimeout disturbs the invariant:
\* a timeout only takes a round out of phase commit, never into it.
LEMMA TimerStep == IInv /\ Timer => IInv'
<1> SUFFICES ASSUME IInv, NEW t \in armed \cup fired, Fire(t) \/ HandleTimeout(t)
             PROVE  IInv'
  BY DEF Timer
<1>1. CASE Fire(t)
  <2>1. TypeOK'
    BY <1>1 DEF Fire, engineVars, IInv, TypeOK
  <2> QED BY <1>1, <2>1, QuietStep DEF Fire, engineVars, IInv, TypeOK
<1>2. CASE HandleTimeout(t)
  <2>1. /\ cur' \in Rounds
        /\ cur'.height = cur.height /\ cur'.block = cur.block
        /\ cur'.precommitPower = cur.precommitPower
        /\ cur'.phase = "commit" => cur.phase = "commit"
        /\ ~HasRound => cur' = cur
    BY <1>2 DEF HandleTimeout, IInv, TypeOK, Rounds, Phases
  <2>2. TypeOK'
    BY <1>2, <2>1 DEF HandleTimeout, engineVars, IInv, TypeOK
  <2> QED BY <1>2, <2>1, <2>2, QuietStep DEF HandleTimeout, engineVars, IInv, TypeOK
<1> QED BY <1>1, <1>2

\* A committing check finalizes the proposal of the current round, which is not
\* below anything finalized before; r is the round with the vote added.
LEMMA CommitStep ==
    ASSUME IInv,
           NEW r \in Rounds, r.block = cur.block, r.height = cur.height, HasRound,
           r.phase = cur.phase, r.precommitPower >= cur.precommitPower,
           CheckCommitLocked(r),
           checks' \in 0 .. MaxChecks,
           UNCHANGED <<chainHeight, tick, fired, stopping>>
    PROVE  IInv'
<1> USE BoundsAssumption
<1>1. /\ cur.block \in Blocks /\ engineHeight \in 0 .. MaxBlock
      /\ engineHeight <= cur.block
      /\ finalized \subseteq Blocks
      /\ Rounds # {}
  BY DEF IInv, TypeOK, Rounds, HasRound, RoundWithinReach, Blocks
<1>2. CASE r.precommitPower >= Threshold /\ cur' = [r EXCEPT !.phase = "commit"]
           /\ armed' = armed \ Stoppable(r) /\ FinalizeBlock(r.block)
  <2>1. /\ cur' \in Rounds
        /\ cur'.block = cur.block /\ cur'.height = cur.height
        /\ cur'.phase = "commit" /\ cur'.precommitPower = r.precommitPower
    BY <1>2 DEF Rounds, Phases
  <2>2. engineHeight' = cur.block /\ finalized' = finalized \cup {cur.block}
    BY <1>1, <1>2 DEF FinalizeBlock, Blocks
  <2>3. TypeOK'
    BY <1>1, <1>2, <2>1, <2>2 DEF IInv, TypeOK, Blocks
  <2>4. HasRound' /\ CommitIsFinal' /\ QuorumCountedInRound'
    BY <1>2, <2>1, <2>2 DEF HasRound, CommitIsFinal, QuorumCountedInRound
  <2>5. RoundWithinReach'
    BY <1>1, <2>1, <2>2 DEF IInv, TypeOK, Rounds, RoundWithinReach, Blocks
  <2>6. QuorumHeightIsCurrent'
    <3>0. \A b \in finalized : b <= engineHeight
      BY DEF IInv, QuorumHeightIsCurrent
    <3>1. \A b \in finalized : b \in Int
      BY <1>1 DEF Blocks
    <3>2. engineHeight \in Int /\ cur.block \in Int
      BY <1>1 DEF Blocks
    <3>3. \A b \in finalized' : b <= engineHeight'
      BY <1>1, <2>2, <3>0, <3>1, <3>2
    <3> QED BY <2>2, <3>3 DEF QuorumHeightIsCurrent
  <2>7. TickerInv'
    BY <1>1, <2>1, <2>2, <2>4 DEF IInv, TypeOK, TickerInv, Rounds, Blocks
  <2> QED BY <2>3, <2>4, <2>5, <2>6, <2>7 DEF IInv
<1>3. CASE r.precommitPower < Threshold /\ cur' = r
           /\ UNCHANGED <<armed, finalized, engineHeight>>
  <2>1. TypeOK'
    BY <1>3 DEF IInv, TypeOK
  <2>2. HasRound' /\ CommitIsFinal' /\ RoundWithinReach' /\ QuorumHeightIsCurrent'
    BY <1>3 DEF IInv, HasRound, CommitIsFinal, RoundWithinReach, QuorumHeightIsCurrent
  <2>3. TickerInv'
    BY <1>3, <2>2 DEF IInv, TickerInv
  <2>4. QuorumCountedInRound'
    BY <1>3, TotalPowerType DEF IInv, TypeOK, Rounds, QuorumCountedInRound, HasRound, Threshold
  <2> QED BY <2>1, <2>2, <2>3, <2>4 DEF IInv
<1> QED BY <1>2, <1>3 DEF CheckCommitLocked

\* Adding a precommit raises the power and keeps the rest of the round.
LEMMA AddPrecommitFacts ==
    ASSUME NEW r \in Rounds, NEW v \in Validators, NEW b \in 0 .. MaxBlock
    PROVE  /\ AddPrecommit(r, v, b) \in Rounds
           /\ AddPrecommit(r, v, b).height = r.height
           /\ AddPrecommit(r, v, b).block = r.block
           /\ AddPrecommit(r, v, b).phase = r.phase
           /\ AddPrecommit(r, v, b).precommitPower = r.precommitPower + 1
<1>1. /\ [r.precommits EXCEPT ![v] = b] \in [Validators -> 0 .. MaxBlock]
      /\ r.precommitPower + 1 \in Nat
  BY DEF Rounds
<1>2. AddPrecommit(r, v, b) = [r EXCEPT !.precommits = [r.precommits EXCEPT ![v] = b],
                                        !.precommitPower = r.precommitPower + 1]
  BY DEF AddPrecommit, Rounds
<1> HIDE DEF AddPrecommit
<1>3. AddPrecommit(r, v, b) \in Rounds
  BY <1>1, <1>2 DEF Rounds
<1> QED BY <1>1, <1>2, <1>3 DEF Rounds

\* A vote of the network, or a recorded local precommit, keeps the invariant.
LEMMA VoteStep == IInv /\ Vote => IInv'
<1> USE BoundsAssumption, ValidatorsAssumption
<1> SUFFICES ASSUME IInv, NEW v \in Validators, NEW h \in Heights,
                    \/ HandlePrevote(v, h)
                    \/ \E b \in Named : HandlePrecommit(v, h, b) \/ RecordPrecommit(v, h, b)
             PROVE  IInv'
  BY DEF Vote
<1>1. CASE HandlePrevote(v, h)
  <2>1. cur' = [cur EXCEPT !.prevotes = @ \cup {v}, !.prevotePower = @ + 1]
    BY <1>1 DEF HandlePrevote
  <2>2. /\ cur \in Rounds /\ cur.prevotes \cup {v} \in SUBSET Validators
        /\ cur.prevotePower + 1 \in Nat
    BY DEF IInv, TypeOK, Rounds
  <2>3. cur' \in Rounds
    BY <2>1, <2>2 DEF Rounds
  <2>4. /\ cur'.height = cur.height /\ cur'.block = cur.block
        /\ cur'.precommitPower = cur.precommitPower /\ cur'.phase = cur.phase
    BY <2>1, <2>2 DEF Rounds
  <2>5. TypeOK'
    BY <1>1, <2>3 DEF HandlePrevote, engineVars, IInv, TypeOK
  <2> QED BY <1>1, <2>4, <2>5, QuietStep DEF HandlePrevote, engineVars
<1>2. ASSUME NEW b \in Named, HandlePrecommit(v, h, b) PROVE IInv'
  <2>1. b \in 0 .. MaxBlock /\ cur \in Rounds /\ checks \in 0 .. MaxChecks
        /\ cur.precommitPower \in Nat
    BY DEF Named, IInv, TypeOK, Rounds
  <2> DEFINE r == AddPrecommit(cur, v, b)
  <2>2. /\ r \in Rounds /\ r.height = cur.height /\ r.block = cur.block
        /\ r.phase = cur.phase /\ r.precommitPower >= cur.precommitPower
    <3> HIDE DEF r
    <3>1. r.precommitPower = cur.precommitPower + 1
      BY <2>1, AddPrecommitFacts DEF r
    <3> QED BY <2>1, <3>1, AddPrecommitFacts DEF r
  <2>3. /\ HasRound /\ CheckCommitLocked(r)
        /\ UNCHANGED <<chainHeight, tick, fired, checks, stopping>>
    BY <1>2 DEF HandlePrecommit
  <2> HIDE DEF r
  <2> QED BY <2>1, <2>2, <2>3, CommitStep
<1>3. ASSUME NEW b \in Named, RecordPrecommit(v, h, b) PROVE IInv'
  <2>1. b \in 0 .. MaxBlock /\ cur \in Rounds /\ cur.precommitPower \in Nat
    BY DEF Named, IInv, TypeOK, Rounds
  <2>2. /\ checks' \in 0 .. MaxChecks
        /\ UNCHANGED <<chainHeight, tick, armed, fired, stopping, finalized, engineHeight>>
        /\ cur' = IF HasRound /\ cur.height = h THEN AddPrecommit(cur, v, b) ELSE cur
    BY <1>3 DEF RecordPrecommit, engineVars, IInv, TypeOK
  <2>3. /\ cur' \in Rounds /\ cur'.height = cur.height /\ cur'.block = cur.block
        /\ cur'.phase = cur.phase
        /\ ~HasRound => cur' = cur
        /\ cur'.precommitPower = cur.precommitPower \/ cur'.precommitPower = cur.precommitPower + 1
    BY <2>1, <2>2, AddPrecommitFacts
  <2>4. TypeOK'
    BY <2>2, <2>3 DEF IInv, TypeOK
  <2>5. HasRound' = HasRound
    BY <2>3 DEF HasRound
  <2>6. CommitIsFinal' /\ RoundWithinReach' /\ QuorumHeightIsCurrent'
    BY <2>2, <2>3, <2>5 DEF IInv, CommitIsFinal, RoundWithinReach, QuorumHeightIsCurrent
  <2>7. TickerInv'
    BY <2>2, <2>3, <2>5 DEF IInv, TickerInv
  <2>8. QuorumCountedInRound'
    BY <2>1, <2>2, <2>3, <2>5, TotalPowerType DEF IInv, QuorumCountedInRound, Threshold
  <2> QED BY <2>4, <2>6, <2>7, <2>8 DEF IInv
<1> QED BY <1>1, <1>2, <1>3

\* The delayed check of precommit keeps the invariant, whichever round it sees.
LEMMA CheckCommitStep == IInv /\ CheckCommit => IInv'
<1> SUFFICES ASSUME IInv, CheckCommit PROVE IInv'
  OBVIOUS
<1>1. /\ checks' \in 0 .. MaxChecks
      /\ UNCHANGED <<chainHeight, tick, fired, stopping>>
      /\ cur \in Rounds
  BY BoundsAssumption DEF CheckCommit, IInv, TypeOK
<1>2. CASE HasRound /\ CheckCommitLocked(cur)
  <2>1. cur.precommitPower >= cur.precommitPower
    BY <1>1 DEF Rounds
  <2> QED BY <1>1, <1>2, <2>1, CommitStep
<1>3. CASE UNCHANGED <<cur, armed, finalized, engineHeight>>
  <2>1. TypeOK'
    BY <1>1, <1>3 DEF IInv, TypeOK
  <2> QED BY <1>1, <1>3, <2>1, QuietStep
<1> QED BY <1>2, <1>3 DEF CheckCommit

\* IInv is inductive: every step of every goroutine keeps it.
LEMMA NextIInv == IInv /\ [Next]_vars => IInv'
<1> SUFFICES ASSUME IInv, [Next]_vars PROVE IInv'
  OBVIOUS
<1>1. CASE UNCHANGED vars
  BY <1>1 DEF vars, IInv, TypeOK, CommitIsFinal, QuorumCountedInRound,
     RoundWithinReach, QuorumHeightIsCurrent, TickerInv, HasRound
<1>2. CASE Ticker
  BY <1>2, RunBlockRoundStep, PublishRoundStep, OtherTickerStep DEF Ticker
<1> QED BY <1>1, <1>2, TimerStep, VoteStep, CheckCommitStep, OtherTickerStep DEF Next

-----------------------------------------------------------------------------
(* Theorems *)

\* The inductive invariant holds in every reachable state.
THEOREM Invariance == Spec => []IInv
BY InitIInv, NextIInv, PTL DEF Spec

\* Every variable keeps its type, in every instance.
THEOREM TypeCorrect == Spec => []TypeOK
<1>1. IInv => TypeOK
  BY DEF IInv
<1> QED BY <1>1, Invariance, PTL

\* A committed round's proposal is the engine's newest finalized block.
THEOREM CommittedRoundsAreFinal == Spec => []CommitIsFinal
<1>1. IInv => CommitIsFinal
  BY DEF IInv
<1> QED BY <1>1, Invariance, PTL

\* No proposal is finalized with less than the threshold counted in its round.
THEOREM FinalizedRoundsHadTheirQuorum == Spec => []QuorumCountedInRound
<1>1. IInv => QuorumCountedInRound
  BY DEF IInv
<1> QED BY <1>1, Invariance, PTL

\* CurrentHeight and the finalized blocks agree, and rounds stay within reach.
THEOREM HeightsAgree == Spec => [](QuorumHeightIsCurrent /\ RoundWithinReach)
<1>1. IInv => QuorumHeightIsCurrent /\ RoundWithinReach
  BY DEF IInv
<1> QED BY <1>1, Invariance, PTL

\* Only PublishRound changes the block of the round.
LEMMA BlockStep ==
    ASSUME IInv, [Next]_vars, cur'.block # cur.block
    PROVE  PublishRound
<1> USE BoundsAssumption, ValidatorsAssumption
<1>1. cur \in Rounds
  BY DEF IInv, TypeOK
<1>2. ASSUME NEW v \in Validators, NEW b \in Named
      PROVE  AddPrecommit(cur, v, b).block = cur.block
  BY <1>1, AddPrecommitFacts DEF Named
<1>3. ASSUME NEW r, r \in Rounds, r.block = cur.block, CheckCommitLocked(r) PROVE FALSE
  <2>1. [r EXCEPT !.phase = "commit"].block = r.block
    BY <1>3 DEF Rounds
  <2> QED BY <1>3, <2>1 DEF CheckCommitLocked
<1>4. ~ UNCHANGED cur
  OBVIOUS
<1>5. ~ OwnPrevote /\ ~ Timer
  BY <1>1, <1>4 DEF OwnPrevote, Timer, Fire, HandleTimeout, Rounds
<1>6. ~ Vote
  <2> SUFFICES ASSUME NEW v \in Validators, NEW h \in Heights,
                      \/ HandlePrevote(v, h)
                      \/ \E b \in Named : HandlePrecommit(v, h, b) \/ RecordPrecommit(v, h, b)
               PROVE  FALSE
    BY DEF Vote
  <2>1. CASE HandlePrevote(v, h)
    BY <1>1, <2>1 DEF HandlePrevote, Rounds
  <2>2. ASSUME NEW b \in Named, HandlePrecommit(v, h, b) PROVE FALSE
    <3>1. b \in 0 .. MaxBlock
      BY DEF Named
    <3> QED BY <1>1, <1>2, <1>3, <2>2, <3>1, AddPrecommitFacts DEF HandlePrecommit
  <2>3. ASSUME NEW b \in Named, RecordPrecommit(v, h, b) PROVE FALSE
    BY <1>2, <2>3 DEF RecordPrecommit
  <2> QED BY <2>1, <2>2, <2>3
<1>7. ~ CheckCommit
  BY <1>1, <1>3, <1>4 DEF CheckCommit
<1>8. ~ (RunBlockRound \/ ArmTimer \/ AssignTimer \/ LoopExit \/ Stop \/ UNCHANGED vars)
  BY <1>4 DEF RunBlockRound, ArmTimer, AssignTimer, LoopExit, Stop, vars
<1> QED BY <1>5, <1>6, <1>7, <1>8 DEF Next, Ticker

\* Rounds only move forward: a newer block, never a lower height.
THEOREM RoundsOnlyAdvance == Spec => RoundsAdvance
<1>1. IInv /\ [Next]_vars =>
        [cur'.block # cur.block => cur'.block > cur.block /\ cur'.height >= cur.height]_vars
  <2> SUFFICES ASSUME IInv, [Next]_vars, cur'.block # cur.block
               PROVE  cur'.block > cur.block /\ cur'.height >= cur.height
    OBVIOUS
  <2>1. PublishRound
    BY BlockStep
  <2>2. cur'.height = tick.height /\ cur'.block = tick.block
    BY <2>1 DEF PublishRound, NewRound
  <2>3. cur.block < tick.block /\ cur.height <= tick.height
    BY <2>1 DEF PublishRound, IInv, TickerInv
  <2> QED BY <2>2, <2>3, BoundsAssumption DEF IInv, TypeOK, Rounds
<1> QED BY <1>1, Invariance, PTL DEF Spec, RoundsAdvance

\* The manager implements the upward-growing ledger of module Finality.
THEOREM Refinement == Spec => ImplementsFinality
<1>1. Init => Ledger!Init
  BY DEF Init, Ledger!Init
<1>2. IInv /\ [Next]_vars => [Ledger!Finalize]_(Ledger!vars)
  <2> SUFFICES ASSUME IInv, [Next]_vars PROVE [Ledger!Finalize]_(Ledger!vars)
    OBVIOUS
  <2> USE BoundsAssumption, ValidatorsAssumption
  <2>1. /\ cur \in Rounds /\ engineHeight \in Nat /\ cur.block \in Nat
    BY DEF IInv, TypeOK, Rounds
  <2>2. ASSUME NEW r, r.block = cur.block, HasRound, CheckCommitLocked(r)
        PROVE  [Ledger!Finalize]_(Ledger!vars)
    <3>1. CASE UNCHANGED <<finalized, engineHeight>>
      BY <3>1 DEF Ledger!vars
    <3>2. CASE FinalizeBlock(cur.block)
      <4>1. engineHeight <= cur.block
        BY <2>2 DEF IInv, RoundWithinReach
      <4>2. CASE engineHeight = cur.block
        <5>1. cur.block \in finalized
          BY <2>2, <4>2 DEF IInv, QuorumHeightIsCurrent, HasRound
        <5> QED BY <3>2, <4>2, <5>1, <2>1 DEF FinalizeBlock, Ledger!vars
      <4>3. CASE engineHeight < cur.block
        BY <2>1, <3>2, <4>3 DEF FinalizeBlock, Ledger!Finalize
      <4> QED BY <2>1, <4>1, <4>2, <4>3
    <3> QED BY <2>2, <3>1, <3>2 DEF CheckCommitLocked
  <2>3. CASE Vote
    <3> SUFFICES ASSUME NEW v \in Validators, NEW h \in Heights,
                        \/ HandlePrevote(v, h)
                        \/ \E b \in Named : HandlePrecommit(v, h, b) \/ RecordPrecommit(v, h, b)
                 PROVE  [Ledger!Finalize]_(Ledger!vars)
      BY <2>3 DEF Vote
    <3>1. ASSUME NEW b \in Named, HandlePrecommit(v, h, b)
          PROVE  [Ledger!Finalize]_(Ledger!vars)
      <4>1. AddPrecommit(cur, v, b).block = cur.block
        BY <2>1, AddPrecommitFacts DEF Named
      <4> QED BY <2>2, <3>1, <4>1 DEF HandlePrecommit
    <3> QED BY <3>1 DEF HandlePrevote, RecordPrecommit, engineVars, Ledger!vars
  <2>4. CASE CheckCommit
    BY <2>2, <2>4 DEF CheckCommit, Ledger!vars
  <2>5. CASE Ticker
    <3>1. UNCHANGED engineVars
      BY <2>5 DEF Ticker, RunBlockRound, PublishRound, ArmTimer, AssignTimer, OwnPrevote, LoopExit
    <3> QED BY <3>1 DEF engineVars, Ledger!vars
  <2>6. CASE Timer \/ Stop
    <3>1. UNCHANGED engineVars
      BY <2>6 DEF Timer, Fire, HandleTimeout, Stop
    <3> QED BY <3>1 DEF engineVars, Ledger!vars
  <2>7. CASE UNCHANGED vars
    BY <2>7 DEF engineVars, vars, Ledger!vars
  <2> QED BY <2>3, <2>4, <2>5, <2>6, <2>7 DEF Next
<1> QED BY <1>1, <1>2, Invariance, PTL DEF Spec, ImplementsFinality, Ledger!Spec
=============================================================================
