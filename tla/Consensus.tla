----------------------------- MODULE Consensus ------------------------------
(***************************************************************************)
(* The consensus manager of one validator node: ConsensusManager           *)
(* (consensus_round.go) driving ConsensusEngine (consensus.go) and Chain   *)
(* (chain.go).  Four kinds of goroutine meet in it:                        *)
(*                                                                         *)
(*   - the ticker loop, which once a second proposes a block when the      *)
(*     local validator is the proposer of the next height.  Only some of   *)
(*     its steps hold consensusMu, so each is an action of its own;        *)
(*   - the timer callbacks, one per proposed round;                        *)
(*   - the vote handler of the P2P node;                                   *)
(*   - callers of precommit, which records a vote and checks for a quorum  *)
(*     in two separate critical sections.                                  *)
(*                                                                         *)
(* A proposed block is known by its height: ProduceBlock increments        *)
(* Chain.Height on every call, so no two proposals of this node share one. *)
(* The height of a round is another number, read from the engine.          *)
(***************************************************************************)
EXTENDS Naturals, FiniteSets

CONSTANTS
    Validators,     \* the identifiers a vote can carry
    Local,          \* this node's validator, 0x01
    ActiveSet,      \* the validators selectNewEpoch chose, power 1 each
    LocalHeights,   \* the heights SelectProposer gives to the local node
    StartHeight,    \* Chain.Height when the manager starts
    MaxBlock,       \* bound: the greatest block height ProduceBlock reaches
    MaxPrevotes,    \* bound: prevotes counted in a round
    MaxPower,       \* bound: precommits counted in a round
    MaxChecks       \* bound: precommit calls between record and check

ASSUME ValidatorsAssumption ==
    /\ IsFiniteSet(Validators)
    /\ ActiveSet \subseteq Validators
    /\ Local \in Validators

ASSUME BoundsAssumption ==
    /\ MaxBlock \in Nat
    /\ StartHeight \in 0 .. MaxBlock
    /\ MaxPrevotes \in Nat
    /\ MaxPower \in Nat
    /\ MaxChecks \in Nat

VARIABLES
    chainHeight,    \* Chain.Height
    cur,            \* CurrentRound
    tick,           \* where the ticker goroutine stands in proposeBlock
    armed,          \* timers that are running
    fired,          \* timers whose callback has started, not yet run
    checks,         \* precommit calls that recorded and have yet to check
    stopping,       \* done is closed
    finalized,      \* the keys of Engine.Blocks
    engineHeight    \* Engine.CurrentHeight

vars == <<chainHeight, cur, tick, armed, fired, checks, stopping,
          finalized, engineHeight>>
engineVars == <<finalized, engineHeight>>

Blocks == 1 .. MaxBlock
Heights == 1 .. MaxBlock + 1
Phases == {"propose", "commit", "timeout"}

\* A round: 0 stands for no proposal and for a validator that has not voted,
\* a precommit is remembered with the block its hash names.
Rounds ==
    [height : 0 .. MaxBlock + 1,
     block : 0 .. MaxBlock,
     phase : Phases,
     prevotes : SUBSET Validators,
     precommits : [Validators -> 0 .. MaxBlock],
     prevotePower : Nat,
     precommitPower : Nat]

NewRound(h, b) ==
    [height |-> h, block |-> b, phase |-> "propose",
     prevotes |-> {}, precommits |-> [v \in Validators |-> 0],
     prevotePower |-> 0, precommitPower |-> 0]

Timers == [block : Blocks, height : Heights]

\* CurrentRound is not nil.
HasRound == cur.block # 0

TotalPower == Cardinality(ActiveSet)

\* uint64(float64(TotalPower) * InstantFinalityThreshold): the conversion
\* truncates.
Threshold == (2 * TotalPower) \div 3

Init ==
    /\ chainHeight = StartHeight
    /\ cur = NewRound(0, 0)
    /\ tick = [pc |-> "idle", height |-> 0, block |-> 0]
    /\ armed = {}
    /\ fired = {}
    /\ checks = 0
    /\ stopping = FALSE
    /\ finalized = {}
    /\ engineHeight = 0

-----------------------------------------------------------------------------
(* The engine and the commit check *)

\* FinalizeBlock: store the block, raise CurrentHeight, never lower it.
\* (Mutants: CurrentHeight takes the round's height; the map key is off by one.)
FinalizeAtRoundHeight(b) ==
    /\ finalized' = finalized \cup {b}
    /\ engineHeight' = cur.height
FinalizeOffByOne(b) ==
    /\ finalized' = finalized \cup {b + 1}
    /\ engineHeight' = IF b > engineHeight THEN b ELSE engineHeight
FinalizeBlock(b) ==
    /\ finalized' = finalized \cup {b}
    /\ engineHeight' = IF b > engineHeight THEN b ELSE engineHeight

\* The timer a commit of round r can stop: Timeout is assigned only after
\* AfterFunc returned, and Stop does not reach a callback that has started.
Stoppable(r) ==
    {t \in armed : t.block = r.block /\ ~(tick.pc = "assign" /\ tick.block = r.block)}

\* checkCommitLocked on the current round, which is now r.  The height and
\* the round it is given are not looked at.
\* (Mutants: the block is not handed to the engine; the power is not compared.)
CheckCommitUnfinalized(r) ==
    /\ cur' = IF r.precommitPower >= Threshold
                THEN [r EXCEPT !.phase = "commit"] ELSE r
    /\ UNCHANGED <<armed, finalized, engineHeight>>
CheckCommitVoteless(r) ==
    /\ cur' = [r EXCEPT !.phase = "commit"]
    /\ armed' = armed \ Stoppable(r)
    /\ FinalizeBlock(r.block)
CheckCommitLocked(r) ==
    \/ /\ r.precommitPower >= Threshold
       /\ cur' = [r EXCEPT !.phase = "commit"]
       /\ armed' = armed \ Stoppable(r)
       /\ FinalizeBlock(r.block)
    \/ /\ r.precommitPower < Threshold
       /\ cur' = r
       /\ UNCHANGED <<armed, finalized, engineHeight>>

-----------------------------------------------------------------------------
(* The ticker goroutine *)

\* runBlockRound up to the call of ProduceBlock, included.  CurrentHeight is
\* read without a lock and used, through height, in every later step.  When
\* another validator is the proposer the function returns: no step.
RunBlockRound ==
    /\ tick.pc = "idle"
    /\ engineHeight + 1 \in LocalHeights
    /\ chainHeight < MaxBlock
    /\ chainHeight' = chainHeight + 1
    /\ tick' = [pc |-> "publish", height |-> engineHeight + 1, block |-> chainHeight + 1]
    /\ UNCHANGED <<cur, armed, fired, checks, stopping, engineVars>>

\* Under consensusMu the new round replaces whatever round was there.
PublishRound ==
    /\ tick.pc = "publish"
    /\ cur' = NewRound(tick.height, tick.block)
    /\ tick' = [tick EXCEPT !.pc = "arm"]
    /\ UNCHANGED <<chainHeight, armed, fired, checks, stopping, engineVars>>

\* The proposal is broadcast and time.AfterFunc starts the timer ...
\* (Mutant: no timer is started.)
ArmTimerNever ==
    /\ tick.pc = "arm"
    /\ tick' = [tick EXCEPT !.pc = "assign"]
    /\ UNCHANGED <<chainHeight, cur, armed, fired, checks, stopping, engineVars>>
ArmTimer ==
    /\ tick.pc = "arm"
    /\ armed' = armed \cup {[block |-> tick.block, height |-> tick.height]}
    /\ tick' = [tick EXCEPT !.pc = "assign"]
    /\ UNCHANGED <<chainHeight, cur, fired, checks, stopping, engineVars>>

\* ... and only then round.Timeout is written, without the lock.
AssignTimer ==
    /\ tick.pc = "assign"
    /\ tick' = [tick EXCEPT !.pc = "prevote"]
    /\ UNCHANGED <<chainHeight, cur, armed, fired, checks, stopping, engineVars>>

\* prevote for the node's own proposal.
OwnPrevote ==
    /\ tick.pc = "prevote"
    /\ cur' = IF HasRound /\ cur.height = tick.height
                THEN [cur EXCEPT !.prevotes = @ \cup {Local}, !.prevotePower = @ + 1]
                ELSE cur
    /\ tick' = [tick EXCEPT !.pc = "idle"]
    /\ UNCHANGED <<chainHeight, armed, fired, checks, stopping, engineVars>>

\* Stop closes done.  The select of consensusLoop picks at random among what
\* is ready, so ticks may still be served before it returns.
Stop ==
    /\ ~stopping
    /\ stopping' = TRUE
    /\ UNCHANGED <<chainHeight, cur, tick, armed, fired, checks, engineVars>>

LoopExit ==
    /\ stopping
    /\ tick.pc = "idle"
    /\ tick' = [tick EXCEPT !.pc = "exited"]
    /\ UNCHANGED <<chainHeight, cur, armed, fired, checks, stopping, engineVars>>

-----------------------------------------------------------------------------
(* Timers *)

\* The runtime starts the callback of a running timer.
Fire(t) ==
    /\ t \in armed
    /\ armed' = armed \ {t}
    /\ fired' = fired \cup {t}
    /\ UNCHANGED <<chainHeight, cur, tick, checks, stopping, engineVars>>

\* handleTimeout(height, 0): only the height is compared, so the callback of
\* a replaced round reaches the round that took its place.
\* (Mutant: a timeout drops the round.)
HandleTimeoutDropsRound(t) ==
    /\ t \in fired
    /\ fired' = fired \ {t}
    /\ cur' = IF HasRound /\ cur.height = t.height THEN NewRound(0, 0) ELSE cur
    /\ UNCHANGED <<chainHeight, tick, armed, checks, stopping, engineVars>>
HandleTimeout(t) ==
    /\ t \in fired
    /\ fired' = fired \ {t}
    /\ cur' = IF HasRound /\ cur.height = t.height
                THEN [cur EXCEPT !.phase = "timeout"] ELSE cur
    /\ UNCHANGED <<chainHeight, tick, armed, checks, stopping, engineVars>>

-----------------------------------------------------------------------------
(* Votes *)

\* handleVote, a prevote: kept under the name of the sending peer.  A vote
\* for another height returns early and changes nothing.
HandlePrevote(from, h) ==
    /\ HasRound /\ cur.height = h
    /\ cur.prevotePower < MaxPrevotes
    /\ cur' = [cur EXCEPT !.prevotes = @ \cup {from}, !.prevotePower = @ + 1]
    /\ UNCHANGED <<chainHeight, tick, armed, fired, checks, stopping, engineVars>>

\* The round after the precommit of v for block b was added to it.  A vote
\* that was already counted is counted again.
AddPrecommit(r, v, b) ==
    [r EXCEPT !.precommits[v] = b, !.precommitPower = @ + 1]

\* handleVote, a precommit of validator v naming block b.
HandlePrecommit(v, h, b) ==
    /\ HasRound /\ cur.height = h
    /\ cur.precommitPower < MaxPower
    /\ CheckCommitLocked(AddPrecommit(cur, v, b))
    /\ UNCHANGED <<chainHeight, tick, fired, checks, stopping>>

\* precommit, first critical section: record when the round matches.
RecordPrecommit(v, h, b) ==
    /\ checks < MaxChecks
    /\ cur.precommitPower < MaxPower
    /\ checks' = checks + 1
    /\ cur' = IF HasRound /\ cur.height = h THEN AddPrecommit(cur, v, b) ELSE cur
    /\ UNCHANGED <<chainHeight, tick, armed, fired, stopping, engineVars>>

\* precommit, second critical section: checkCommit looks at whatever round is
\* the current one by now.
CheckCommit ==
    /\ checks > 0
    /\ checks' = checks - 1
    /\ \/ ~HasRound /\ UNCHANGED <<cur, armed, finalized, engineHeight>>
       \/ HasRound /\ CheckCommitLocked(cur)
    /\ UNCHANGED <<chainHeight, tick, fired, stopping>>

\* The blocks a vote can name: proposals published so far, not only the
\* current one (none before the first).
Named == {b \in 0 .. MaxBlock : b = cur.block \/ (StartHeight < b /\ b < cur.block)}

\* A vote may arrive any number of times.
Vote ==
    \E v \in Validators, h \in Heights :
        \/ HandlePrevote(v, h)
        \/ \E b \in Named : HandlePrecommit(v, h, b) \/ RecordPrecommit(v, h, b)

Timer == \E t \in armed \cup fired : Fire(t) \/ HandleTimeout(t)

Ticker ==
    \/ RunBlockRound \/ PublishRound \/ ArmTimer \/ AssignTimer
    \/ OwnPrevote \/ LoopExit

Next == Ticker \/ Timer \/ Vote \/ CheckCommit \/ Stop

\* A goroutine that is past its first step keeps running, and the runtime
\* fires every timer that is not stopped.  Nothing makes votes arrive.
Fairness ==
    /\ WF_vars(PublishRound \/ ArmTimer \/ AssignTimer \/ OwnPrevote)
    /\ \A t \in Timers : WF_vars(Fire(t)) /\ WF_vars(HandleTimeout(t))
    /\ WF_vars(CheckCommit)

Spec == Init /\ [][Next]_vars
FairSpec == Spec /\ Fairness

-----------------------------------------------------------------------------
(* Properties *)

\* Every variable keeps its type.
TypeOK ==
    /\ chainHeight \in Nat
    /\ cur \in Rounds
    /\ tick \in [pc : {"idle", "publish", "arm", "assign", "prevote", "exited"},
                 height : 0 .. MaxBlock + 1, block : 0 .. MaxBlock]
    /\ armed \subseteq Timers
    /\ fired \subseteq Timers
    /\ checks \in 0 .. MaxChecks
    /\ stopping \in BOOLEAN
    /\ finalized \subseteq Blocks
    /\ engineHeight \in 0 .. MaxBlock

\* A round in phase commit has its proposal in Engine.Blocks, and the engine
\* stands exactly at that block: no newer block was finalized behind the back
\* of the round, whichever goroutine committed it.
CommitIsFinal ==
    cur.phase = "commit" => cur.block \in finalized /\ engineHeight = cur.block

\* A finalized proposal reached the threshold in its own round: votes counted
\* in a round that was replaced before the check do not commit its successor.
QuorumCountedInRound ==
    HasRound /\ cur.block \in finalized => cur.precommitPower >= Threshold

\* The round never runs ahead of the engine by more than one height, and never
\* past the block it proposes, although the height it carries was read before
\* other goroutines finalized blocks.
RoundWithinReach ==
    HasRound => /\ cur.height <= engineHeight + 1
                /\ cur.height <= cur.block
                /\ engineHeight <= cur.block

\* GetQuorumHeight, the greatest key of Engine.Blocks, is CurrentHeight.
QuorumHeightIsCurrent ==
    /\ \A b \in finalized : b <= engineHeight
    /\ engineHeight # 0 => engineHeight \in finalized

\* How the ticker's private copies relate to the shared state, the part that
\* makes the invariants above inductive: the height it read is not above the
\* engine's next one and not below the current round's, the block it is about
\* to publish is the newest of the chain, and it alone replaces the round.
TickerInv ==
    /\ cur.block <= chainHeight
    /\ cur.height <= tick.height
    /\ tick.height <= engineHeight + 1
    /\ tick.pc \notin {"idle", "exited"} => tick.height >= 1 /\ tick.block >= 1
    /\ tick.pc = "publish" => /\ tick.block = chainHeight
                              /\ cur.block < tick.block
                              /\ tick.height <= tick.block
    /\ tick.pc \in {"arm", "assign", "prevote"} => cur.block = tick.block
    /\ ~HasRound => cur = NewRound(0, 0) /\ engineHeight = 0

IInv ==
    /\ TypeOK
    /\ CommitIsFinal
    /\ QuorumCountedInRound
    /\ RoundWithinReach
    /\ QuorumHeightIsCurrent
    /\ TickerInv

\* A new round proposes a newer block, at a height that is not lower.
RoundsAdvance ==
    [][cur'.block # cur.block =>
          cur'.block > cur.block /\ cur'.height >= cur.height]_vars

\* The engine implements the upward-growing ledger of module Finality.
Ledger == INSTANCE Finality WITH ledger <- finalized, tip <- engineHeight
ImplementsFinality == Ledger!Spec

\* Every proposed round is resolved: it commits, times out or is replaced.
RoundResolves ==
    \A b \in Blocks :
        (cur.block = b /\ cur.phase = "propose")
            ~> (cur.block # b \/ cur.phase # "propose")

-----------------------------------------------------------------------------
(* Statements of the repository that the code does not keep *)

\* "FinalizeBlock records a finalized block (2/3+ commits achieved)": behind a
\* committed round stand two thirds of the validators, each with a precommit
\* that names the block of the round.
CommitHasQuorum ==
    cur.phase = "commit" =>
        3 * Cardinality({v \in ActiveSet : cur.precommits[v] = cur.block}) >= 2 * TotalPower
=============================================================================
