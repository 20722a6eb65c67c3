------------------------ MODULE SubscriptionsProofs -------------------------
(***************************************************************************)
(* Proofs about Subscriptions, for any number of connections, subscription *)
(* types, subscriptions and blocks.  The manager's invariant needs no      *)
(* strengthening beyond its parts: that a subscription is closed once      *)
(* rests on the two maps agreeing, and that nothing leaks rests on only a  *)
(* live handler subscribing.  That no head is missed needs what holds in   *)
(* the middle of a broadcast: a subscription that is still owed the block  *)
(* is in what is left of the snapshot, or is being written to.             *)
(***************************************************************************)
EXTENDS Subscriptions, SequenceTheorems, TLAPS

IInv == TypeOK /\ ClosedOnce /\ MapsAgree /\ NoLeak

\* Closing a set of listed subscriptions keeps the length of closes and counts
\* one more close for each of them.
LEMMA ClosedFacts ==
    ASSUME closes \in Seq(Nat), NEW S
    PROVE  /\ Closed(S) \in Seq(Nat)
           /\ Len(Closed(S)) = Len(closes)
           /\ \A i \in DOMAIN closes :
                  Closed(S)[i] = IF i \in S THEN closes[i] + 1 ELSE closes[i]
<1>1. DOMAIN closes = 1 .. Len(closes) /\ Len(closes) \in Nat
  OBVIOUS
<1>2. \A i \in DOMAIN closes : closes[i] \in Nat
  OBVIOUS
<1>3. Closed(S) = [i \in 1 .. Len(closes) |-> IF i \in S THEN closes[i] + 1 ELSE closes[i]]
  BY <1>1 DEF Closed
<1>4. \A i \in 1 .. Len(closes) : (IF i \in S THEN closes[i] + 1 ELSE closes[i]) \in Nat
  BY <1>1, <1>2
<1>5. Closed(S) \in Seq(Nat) /\ Len(Closed(S)) = Len(closes)
  BY <1>1, <1>3, <1>4
<1> QED BY <1>1, <1>3, <1>5

\* Every subscription object belongs to a connection.
LEMMA OwnerIsConn == ASSUME TypeOK, NEW i \in DOMAIN info PROVE info[i].conn \in Conns
<1> DEFINE R == [conn : Conns, type : Types, since : 0 .. MaxBlocks]
<1>0. \A r \in R : r.conn \in Conns
  OBVIOUS
<1> HIDE DEF R
<1>1. info[i] \in R
  <2>1. info \in Seq(R)
    BY DEF TypeOK, R
  <2> QED BY <2>1
<1> QED BY <1>0, <1>1

\* The type and the manager's invariants hold when the node starts.
LEMMA InitIInv == Init => IInv
<1> SUFFICES ASSUME Init PROVE IInv
  OBVIOUS
<1>1. DOMAIN info = {} /\ info \in Seq([conn : Conns, type : Types, since : 0 .. MaxBlocks])
  BY DEF Init
<1>2. closes \in Seq(Nat) /\ last \in Seq(0 .. MaxBlocks) /\ Len(closes) = Len(info)
      /\ Len(last) = Len(info)
  BY DEF Init
<1>3. TypeOK
  BY <1>1, <1>2, SubscriptionsAssumption DEF Init, TypeOK
<1> QED BY <1>1, <1>3 DEF Init, IInv, ClosedOnce, MapsAgree, NoLeak

\* A step that leaves the manager alone, and ends no handler, keeps the
\* invariant when it keeps the types.
LEMMA QuietStep ==
    ASSUME IInv, TypeOK', UNCHANGED managerVars,
           \A c \in Conns : handler'[c] = "gone" => handler[c] = "gone"
    PROVE  IInv'
<1>1. ClosedOnce' /\ MapsAgree'
  BY DEF IInv, ClosedOnce, MapsAgree, managerVars
<1>2. NoLeak'
  <2> SUFFICES ASSUME NEW i \in subs PROVE handler'[info[i].conn] # "gone"
    BY DEF NoLeak, managerVars
  <2>1. info[i].conn \in Conns
    BY OwnerIsConn DEF IInv, TypeOK
  <2> QED BY <2>1 DEF IInv, NoLeak
<1> QED BY <1>1, <1>2 DEF IInv

\* Unsubscribe closes and unlists at most the one subscription it is given.
LEMMA UnsubscribeKeeps ==
    ASSUME IInv, NEW i, Unsubscribe(i)
    PROVE  /\ closes' \in Seq(Nat) /\ Len(closes') = Len(info) /\ info' = info
           /\ subs' \subseteq subs /\ connSubs' \in [Conns -> SUBSET DOMAIN info]
           /\ ClosedOnce' /\ MapsAgree'
<1>1. /\ closes \in Seq(Nat) /\ Len(closes) = Len(info) /\ DOMAIN closes = DOMAIN info
      /\ info \in Seq([conn : Conns, type : Types, since : 0 .. MaxBlocks])
  BY DEF IInv, TypeOK
<1>2. closes' \in Seq(Nat) /\ Len(closes') = Len(info) /\ info' = info
  BY <1>1, ClosedFacts DEF Unsubscribe
<1>3. ClosedOnce'
  <2> SUFFICES ASSUME NEW j \in DOMAIN info
               PROVE  closes'[j] = IF j \in subs' THEN 0 ELSE 1
    BY <1>2 DEF ClosedOnce
  <2>1. closes'[j] = IF j \in {i} \cap subs THEN closes[j] + 1 ELSE closes[j]
    BY <1>1, ClosedFacts DEF Unsubscribe
  <2>2. closes[j] = IF j \in subs THEN 0 ELSE 1
    BY DEF IInv, ClosedOnce
  <2> QED BY <2>1, <2>2 DEF Unsubscribe
<1>4. CASE i \in subs
  <2>1. info[i].conn \in Conns
    BY <1>4, OwnerIsConn DEF IInv, TypeOK
  <2>2. connSubs' = [connSubs EXCEPT ![info[i].conn] = @ \ {i}] /\ subs' = subs \ {i}
    BY <1>4 DEF Unsubscribe
  <2>3. connSubs' \in [Conns -> SUBSET DOMAIN info]
    BY <2>1, <2>2 DEF IInv, TypeOK
  <2>4. MapsAgree'
    BY <1>2, <2>1, <2>2 DEF IInv, TypeOK, MapsAgree
  <2> QED BY <1>2, <1>3, <2>2, <2>3, <2>4
<1>5. CASE i \notin subs
  <2>1. connSubs' = connSubs /\ subs' = subs
    BY <1>5 DEF Unsubscribe
  <2>2. MapsAgree'
    BY <1>2, <2>1 DEF IInv, MapsAgree
  <2> QED BY <1>2, <1>3, <2>1, <2>2 DEF IInv, TypeOK
<1> QED BY <1>4, <1>5

\* CleanupConn closes and unlists the subscriptions of one connection, all of
\* them: the second map names every one.
LEMMA CleanupKeeps ==
    ASSUME IInv, NEW c \in Conns, CleanupConn(c)
    PROVE  /\ closes' \in Seq(Nat) /\ Len(closes') = Len(info) /\ info' = info
           /\ subs' \subseteq subs /\ connSubs' \in [Conns -> SUBSET DOMAIN info]
           /\ ClosedOnce' /\ MapsAgree'
           /\ \A i \in subs' : info[i].conn # c
<1>1. /\ closes \in Seq(Nat) /\ Len(closes) = Len(info) /\ DOMAIN closes = DOMAIN info
      /\ connSubs[c] = {i \in subs : info[i].conn = c}
  BY DEF IInv, TypeOK, MapsAgree
<1>2. closes' \in Seq(Nat) /\ Len(closes') = Len(info) /\ info' = info
  BY <1>1, ClosedFacts DEF CleanupConn
<1>3. /\ subs' = subs \ connSubs[c] /\ connSubs' = [connSubs EXCEPT ![c] = {}]
      /\ \A i \in subs' : info[i].conn # c
  BY <1>1 DEF CleanupConn
<1>4. ClosedOnce'
  <2> SUFFICES ASSUME NEW j \in DOMAIN info
               PROVE  closes'[j] = IF j \in subs' THEN 0 ELSE 1
    BY <1>2 DEF ClosedOnce
  <2>1. closes'[j] = IF j \in connSubs[c] \cap subs THEN closes[j] + 1 ELSE closes[j]
    BY <1>1, ClosedFacts DEF CleanupConn
  <2>2. closes[j] = IF j \in subs THEN 0 ELSE 1
    BY DEF IInv, ClosedOnce
  <2> QED BY <1>1, <1>3, <2>1, <2>2
<1>5. connSubs' \in [Conns -> SUBSET DOMAIN info]
  BY <1>3 DEF IInv, TypeOK
<1>6. MapsAgree'
  BY <1>1, <1>2, <1>3 DEF IInv, TypeOK, MapsAgree
<1> QED BY <1>2, <1>3, <1>4, <1>5, <1>6

\* A new subscription is open, listed under its connection, and its handler is
\* alive.
LEMMA SubscribeStep ==
    ASSUME IInv, NEW c \in Conns, NEW type \in Types, Subscribe(c, type)
    PROVE  IInv'
<1> DEFINE new == [conn |-> c, type |-> type, since |-> height]
           n == Len(info) + 1
<1>1. /\ info \in Seq([conn : Conns, type : Types, since : 0 .. MaxBlocks])
      /\ closes \in Seq(Nat) /\ last \in Seq(0 .. MaxBlocks)
      /\ Len(closes) = Len(info) /\ Len(last) = Len(info)
      /\ new \in [conn : Conns, type : Types, since : 0 .. MaxBlocks]
      /\ 0 \in 0 .. MaxBlocks
  BY SubscriptionsAssumption DEF IInv, TypeOK
<1>2. /\ info' = Append(info, new) /\ closes' = Append(closes, 0) /\ last' = Append(last, 0)
      /\ subs' = subs \cup {n} /\ connSubs' = [connSubs EXCEPT ![c] = @ \cup {n}]
      /\ handler' = [handler EXCEPT ![c] = "replying"] /\ handler[c] = "reading"
      /\ UNCHANGED <<broken, height, cast, requests>>
  BY DEF Subscribe, NextID
<1> HIDE DEF new
<1>3. /\ info' \in Seq([conn : Conns, type : Types, since : 0 .. MaxBlocks])
      /\ closes' \in Seq(Nat) /\ last' \in Seq(0 .. MaxBlocks)
      /\ Len(closes') = Len(info') /\ Len(last') = Len(info')
  BY <1>1, <1>2
<1>4. /\ DOMAIN info' = DOMAIN info \cup {n} /\ n \notin DOMAIN info
      /\ info'[n] = new /\ closes'[n] = 0
      /\ \A i \in DOMAIN info : info'[i] = info[i] /\ closes'[i] = closes[i]
  BY <1>1, <1>2
<1>5. new.conn = c
  BY DEF new
<1>6. TypeOK'
  BY <1>2, <1>3, <1>4 DEF IInv, TypeOK
<1>7. ClosedOnce'
  BY <1>2, <1>4 DEF IInv, TypeOK, ClosedOnce
<1>8. MapsAgree'
  BY <1>2, <1>4, <1>5 DEF IInv, TypeOK, MapsAgree
<1>9. NoLeak'
  BY <1>2, <1>4, <1>5 DEF IInv, TypeOK, NoLeak
<1> QED BY <1>6, <1>7, <1>8, <1>9 DEF IInv

\* Every step of a handler goroutine, and of its client, keeps the invariant.
LEMMA HandlerStep == ASSUME IInv, NEW c \in Conns, Handler(c) PROVE IInv'
<1>1. CASE Accept(c) \/ Reply(c) \/ Disconnect(c)
  <2>1. UNCHANGED managerVars /\ TypeOK'
    BY <1>1 DEF Accept, Reply, Disconnect, managerVars, castVars, IInv, TypeOK
  <2>2. \A d \in Conns : handler'[d] = "gone" => handler[d] = "gone"
    BY <1>1 DEF Accept, Reply, Disconnect, IInv, TypeOK
  <2> QED BY <2>1, <2>2, QuietStep
<1>2. CASE \E type \in Types : Subscribe(c, type)
  BY <1>2, SubscribeStep
<1>3. ASSUME NEW i \in Ids, HandleUnsubscribe(c, i) PROVE IInv'
  <2>1. Unsubscribe(i) /\ handler' = [handler EXCEPT ![c] = "replying"]
        /\ requests' \in 0 .. MaxRequests /\ UNCHANGED <<broken, last, height, cast>>
    BY <1>3, SubscriptionsAssumption DEF HandleUnsubscribe, castVars, IInv, TypeOK
  <2>2. /\ closes' \in Seq(Nat) /\ Len(closes') = Len(info) /\ info' = info
        /\ subs' \subseteq subs /\ connSubs' \in [Conns -> SUBSET DOMAIN info]
        /\ ClosedOnce' /\ MapsAgree'
    BY <2>1, UnsubscribeKeeps
  <2>3. TypeOK'
    BY <2>1, <2>2 DEF IInv, TypeOK
  <2>4. NoLeak'
    BY <2>1, <2>2 DEF IInv, TypeOK, NoLeak
  <2> QED BY <2>2, <2>3, <2>4 DEF IInv
<1>4. CASE Leave(c)
  <2>1. CleanupConn(c) /\ handler' = [handler EXCEPT ![c] = "gone"]
        /\ UNCHANGED <<broken, last, height, cast, requests>>
    BY <1>4 DEF Leave, castVars
  <2>2. /\ closes' \in Seq(Nat) /\ Len(closes') = Len(info) /\ info' = info
        /\ subs' \subseteq subs /\ connSubs' \in [Conns -> SUBSET DOMAIN info]
        /\ ClosedOnce' /\ MapsAgree'
        /\ \A i \in subs' : info[i].conn # c
    BY <2>1, CleanupKeeps
  <2>3. TypeOK'
    BY <2>1, <2>2 DEF IInv, TypeOK
  <2>4. NoLeak'
    BY <2>1, <2>2 DEF IInv, TypeOK, NoLeak
  <2> QED BY <2>2, <2>3, <2>4 DEF IInv
<1> QED BY <1>1, <1>2, <1>3, <1>4 DEF Handler, Serving

\* Every step of the block loop in a broadcast keeps the invariant; only the
\* clean-up after a failed write touches the manager.
LEMMA BroadcastStep == ASSUME IInv, BeginBroadcast \/ Broadcasting PROVE IInv'
<1>1. CASE CleanupAfterWrite
  <2>0. cast.cur \in DOMAIN info
    BY <1>1 DEF CleanupAfterWrite, IInv, TypeOK
  <2>1. info[cast.cur].conn \in Conns
    BY <2>0, OwnerIsConn DEF IInv
  <2>2. /\ closes' \in Seq(Nat) /\ Len(closes') = Len(info) /\ info' = info
        /\ subs' \subseteq subs /\ connSubs' \in [Conns -> SUBSET DOMAIN info]
        /\ ClosedOnce' /\ MapsAgree'
    BY <1>1, <2>1, CleanupKeeps DEF CleanupAfterWrite
  <2>3. cast' = [cast EXCEPT !.pc = "next"] /\ UNCHANGED <<handler, broken, last, height, requests>>
    BY <1>1 DEF CleanupAfterWrite
  <2>4. TypeOK'
    BY <2>2, <2>3 DEF IInv, TypeOK
  <2>5. NoLeak'
    BY <2>2, <2>3 DEF IInv, TypeOK, NoLeak
  <2> QED BY <2>2, <2>4, <2>5 DEF IInv
<1>2. CASE BeginBroadcast
  <2>1. UNCHANGED managerVars /\ TypeOK' /\ handler' = handler
    BY <1>2, SubscriptionsAssumption DEF BeginBroadcast, managerVars, IInv, TypeOK
  <2> QED BY <2>1, QuietStep
<1>3. ASSUME NEW i \in cast.todo, CheckDone(i) PROVE IInv'
  <2>0. i # 0
    BY <1>3 DEF IInv, TypeOK
  <2>1. UNCHANGED managerVars /\ TypeOK' /\ handler' = handler
    BY <1>3, <2>0 DEF CheckDone, managerVars, IInv, TypeOK
  <2> QED BY <2>1, QuietStep
<1>4. CASE WriteOk
  <2>1. UNCHANGED managerVars /\ handler' = handler /\ UNCHANGED <<broken, height, requests>>
        /\ cast' = [cast EXCEPT !.pc = "next"] /\ last' = [last EXCEPT ![cast.cur] = height]
    BY <1>4 DEF WriteOk, managerVars
  <2>2. last' \in Seq(0 .. MaxBlocks) /\ Len(last') = Len(last)
    BY <1>4, <2>1 DEF WriteOk, IInv, TypeOK
  <2>3. TypeOK'
    BY <2>1, <2>2 DEF managerVars, IInv, TypeOK
  <2> QED BY <2>1, <2>3, QuietStep
<1>5. CASE WriteFails
  <2>1. cast.pc = "write" /\ cast' = [cast EXCEPT !.pc = "cleanup"]
        /\ UNCHANGED <<handler, broken, managerVars, last, height, requests>>
    BY <1>5 DEF WriteFails
  <2>2. TypeOK'
    BY <2>1 DEF managerVars, IInv, TypeOK
  <2> QED BY <2>1, <2>2, QuietStep
<1>6. CASE EndBroadcast
  <2>1. UNCHANGED managerVars /\ TypeOK' /\ handler' = handler
    BY <1>6 DEF EndBroadcast, managerVars, IInv, TypeOK
  <2> QED BY <2>1, QuietStep
<1> QED BY <1>1, <1>2, <1>3, <1>4, <1>5, <1>6 DEF Broadcasting

\* IInv is inductive.
LEMMA NextIInv == IInv /\ [Next]_vars => IInv'
<1> SUFFICES ASSUME IInv, [Next]_vars PROVE IInv'
  OBVIOUS
<1>1. CASE UNCHANGED vars
  <2>1. TypeOK' /\ UNCHANGED managerVars /\ handler' = handler
    BY <1>1 DEF vars, managerVars, castVars, IInv, TypeOK
  <2> QED BY <2>1, QuietStep
<1> QED BY <1>1, HandlerStep, BroadcastStep DEF Next

\* The manager, its handlers and the broadcast keep their types, for any number
\* of connections and subscriptions.
THEOREM TypeCorrect == Spec => []TypeOK
<1>1. IInv => TypeOK
  BY DEF IInv
<1> QED BY <1>1, InitIInv, NextIInv, PTL DEF Spec

\* done of a subscription is closed at most once, by whichever of Unsubscribe,
\* the leaving handler and the failing broadcast comes first.
THEOREM DoneClosedOnce == Spec => []ClosedOnce
<1>1. IInv => ClosedOnce
  BY DEF IInv
<1> QED BY <1>1, InitIInv, NextIInv, PTL DEF Spec

\* The two maps agree and nothing is listed for a handler that returned.
THEOREM NothingLeaks == Spec => [](NoLeak /\ MapsAgree)
<1>1. IInv => NoLeak /\ MapsAgree
  BY DEF IInv
<1> QED BY <1>1, InitIInv, NextIInv, PTL DEF Spec

-----------------------------------------------------------------------------
(* The broadcast *)

\* An open newHeads subscription that was there before the last block.
Due(i) == info[i].type = NewHeads /\ info[i].conn \notin broken /\ info[i].since < height

HeadInv ==
    /\ cast.pc = "idle" => cast.todo = {}
    /\ cast.pc = "cleanup" => info[cast.cur].conn \in broken
    /\ \A i \in subs :
          Due(i) => \/ last[i] = height
                    \/ i \in cast.todo
                    \/ cast.pc = "write" /\ cast.cur = i

\* A step that adds no subscription, mends no connection and leaves the block
\* loop alone keeps what the loop owes.
LEMMA OthersOweLess ==
    ASSUME HeadInv, UNCHANGED <<info, castVars>>, subs' \subseteq subs, broken \subseteq broken'
    PROVE  HeadInv'
BY DEF HeadInv, Due, castVars

\* A new subscription is owed nothing before the next block.
LEMMA SubscribeOwesNothing ==
    ASSUME IInv, HeadInv, NEW c \in Conns, NEW type \in Types, Subscribe(c, type)
    PROVE  HeadInv'
<1> DEFINE new == [conn |-> c, type |-> type, since |-> height]
           n == Len(info) + 1
<1>1. /\ info \in Seq([conn : Conns, type : Types, since : 0 .. MaxBlocks])
      /\ last \in Seq(0 .. MaxBlocks) /\ Len(last) = Len(info)
      /\ subs \subseteq DOMAIN info /\ height \in Nat
      /\ cast.cur # 0 => cast.cur \in DOMAIN info
      /\ cast.pc \in {"write", "cleanup"} => cast.cur # 0
  BY SubscriptionsAssumption DEF IInv, TypeOK
<1>2. /\ info' = Append(info, new) /\ last' = Append(last, 0) /\ subs' = subs \cup {n}
      /\ UNCHANGED <<broken, height, cast>>
  BY DEF Subscribe, NextID
<1>3. new.since = height
  OBVIOUS
<1> HIDE DEF new
<1>4. /\ info'[n] = new
      /\ \A i \in DOMAIN info : info'[i] = info[i] /\ last'[i] = last[i]
  BY <1>1, <1>2
<1>5. ~ (info'[n].since < height)
  BY <1>1, <1>3, <1>4
<1> QED BY <1>1, <1>2, <1>4, <1>5 DEF HeadInv, Due

\* Handlers and clients never make the block loop owe more.
LEMMA HandlerKeepsHeads == ASSUME IInv, HeadInv, NEW c \in Conns, Handler(c) PROVE HeadInv'
<1>1. CASE \E type \in Types : Subscribe(c, type)
  BY <1>1, SubscribeOwesNothing
<1>2. CASE Accept(c) \/ Reply(c) \/ Disconnect(c)
  <2>1. UNCHANGED <<info, castVars>> /\ subs' \subseteq subs /\ broken \subseteq broken'
    BY <1>2 DEF Accept, Reply, Disconnect, managerVars
  <2> QED BY <2>1, OthersOweLess
<1>3. CASE Leave(c) \/ \E i \in Ids : HandleUnsubscribe(c, i)
  <2>1. UNCHANGED <<info, castVars>> /\ subs' \subseteq subs /\ broken \subseteq broken'
    BY <1>3 DEF Leave, HandleUnsubscribe, CleanupConn, Unsubscribe
  <2> QED BY <2>1, OthersOweLess
<1> QED BY <1>1, <1>2, <1>3 DEF Handler, Serving

\* The block loop passes over a subscription only when it is not listed any
\* more, or its connection is lost.
LEMMA BroadcastKeepsHeads == ASSUME IInv, HeadInv, BeginBroadcast \/ Broadcasting PROVE HeadInv'
<1>1. CASE BeginBroadcast
  BY <1>1 DEF BeginBroadcast, managerVars, HeadInv, Due
<1>2. ASSUME NEW i \in cast.todo, CheckDone(i) PROVE HeadInv'
  <2>1. i \in DOMAIN info /\ cast.pc = "next"
    BY <1>2 DEF IInv, TypeOK, CheckDone
  <2>2. closes[i] > 0 => i \notin subs
    BY <2>1 DEF IInv, ClosedOnce
  <2>3. /\ cast'.pc \in {"next", "write"} /\ cast'.todo = cast.todo \ {i}
        /\ closes[i] > 0 \/ (cast'.pc = "write" /\ cast'.cur = i)
    BY <1>2, <2>1 DEF CheckDone, IInv, TypeOK
  <2>4. UNCHANGED <<info, subs, broken, last, height>>
    BY <1>2 DEF CheckDone, managerVars
  <2> QED BY <2>1, <2>2, <2>3, <2>4 DEF HeadInv, Due
<1>3. CASE WriteOk
  <2>1. /\ cast' = [cast EXCEPT !.pc = "next"] /\ last' = [last EXCEPT ![cast.cur] = height]
        /\ UNCHANGED <<info, subs, broken, height>> /\ cast.pc = "write"
    BY <1>3 DEF WriteOk, managerVars
  <2>2. /\ cast'.pc = "next" /\ cast'.todo = cast.todo
        /\ subs \subseteq DOMAIN info /\ DOMAIN last = DOMAIN info
        /\ \A i \in DOMAIN last : last'[i] = IF i = cast.cur THEN height ELSE last[i]
    BY <2>1 DEF IInv, TypeOK
  <2> QED BY <2>1, <2>2 DEF HeadInv, Due
<1>4. CASE WriteFails
  <2>1. /\ cast'.pc = "cleanup" /\ cast'.todo = cast.todo /\ cast'.cur = cast.cur
        /\ info[cast.cur].conn \in broken
        /\ UNCHANGED <<info, subs, broken, height, last>> /\ cast.pc = "write"
    BY <1>4 DEF WriteFails, managerVars, IInv, TypeOK
  <2> QED BY <2>1 DEF HeadInv, Due
<1>5. CASE CleanupAfterWrite
  <2>1. /\ cast'.pc = "next" /\ cast'.todo = cast.todo /\ cast.pc = "cleanup"
        /\ UNCHANGED <<info, broken, height, last>> /\ subs' \subseteq subs
    BY <1>5 DEF CleanupAfterWrite, CleanupConn, IInv, TypeOK
  <2> QED BY <2>1 DEF HeadInv, Due
<1>6. CASE EndBroadcast
  BY <1>6 DEF EndBroadcast, managerVars, HeadInv, Due
<1> QED BY <1>1, <1>2, <1>3, <1>4, <1>5, <1>6 DEF Broadcasting

\* No open subscription that was there before a block is passed over by its
\* broadcast, whoever subscribes, unsubscribes, leaves or is lost meanwhile.
THEOREM HeadsReachAll == Spec => []NoHeadMissed
<1>1. Init => HeadInv
  BY DEF Init, HeadInv
<1>2. IInv /\ HeadInv /\ [Next]_vars => HeadInv'
  <2> SUFFICES ASSUME IInv, HeadInv, [Next]_vars PROVE HeadInv'
    OBVIOUS
  <2>1. CASE UNCHANGED vars
    BY <2>1, OthersOweLess DEF vars, managerVars
  <2> QED BY <2>1, HandlerKeepsHeads, BroadcastKeepsHeads DEF Next
<1>3. HeadInv => NoHeadMissed
  BY DEF HeadInv, NoHeadMissed, Due
<1> QED BY <1>1, <1>2, <1>3, InitIInv, NextIInv, PTL DEF Spec
=============================================================================
