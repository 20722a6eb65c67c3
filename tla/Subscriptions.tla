--------------------------- MODULE Subscriptions ----------------------------
(***************************************************************************)
(* WebSocket subscriptions: SubscriptionManager (rpc_ws.go), the handler   *)
(* goroutine of each connection (handleWS in rpc.go) and the block loop,   *)
(* which calls BroadcastNewHead from ProduceBlock and waits for it         *)
(* (cli.go, chain.go).  The manager's maps change under sm.mu; the         *)
(* broadcast takes a snapshot under it and then looks at done and writes   *)
(* to connections with no lock, while handlers subscribe, unsubscribe any  *)
(* identifier, and leave.                                                  *)
(*                                                                         *)
(* A connection is a client's session: one that comes back is another      *)
(* connection.  Writes have no deadline: they return when the client has   *)
(* taken the data or the connection is broken.  A client that stays and    *)
(* stops reading may let a write wait forever.                             *)
(***************************************************************************)
EXTENDS Naturals, Sequences, FiniteSets

CONSTANTS
    Conns,
    Types,          \* what a client may subscribe to: any string is accepted
    NewHeads,       \* the type BroadcastNewHead serves
    Stuck,          \* connections whose client may stay without reading
    MaxSubs,        \* bound: subscriptions made
    MaxBlocks,      \* bound: blocks
    MaxRequests     \* bound: eth_unsubscribe requests

ASSUME SubscriptionsAssumption ==
    /\ NewHeads \in Types
    /\ Stuck \subseteq Conns
    /\ MaxSubs \in Nat /\ MaxBlocks \in Nat /\ MaxRequests \in Nat

VARIABLES
    handler,    \* where the handler goroutine of each connection stands
    broken,     \* connections that are closed or lost
    info,       \* the Subscription objects, by ID, whether or not still listed
    subs,       \* keys of sm.subs
    connSubs,   \* sm.connSubs; a missing entry is the empty set
    closes,     \* how often done was closed, for every object
    last,       \* the last block each subscription was notified of
    height,     \* blocks produced
    cast,       \* where the broadcast stands, what is left of its snapshot
    requests    \* how much of MaxRequests is used up

managerVars == <<info, subs, connSubs, closes>>
castVars == <<last, height, cast>>
vars == <<handler, broken, managerVars, castVars, requests>>

Ids == 1 .. MaxSubs

Init ==
    /\ handler = [c \in Conns |-> "absent"]
    /\ broken = {}
    /\ info = <<>>
    /\ subs = {}
    /\ connSubs = [c \in Conns |-> {}]
    /\ closes = <<>>
    /\ last = <<>>
    /\ height = 0
    /\ cast = [pc |-> "idle", todo |-> {}, cur |-> 0]
    /\ requests = 0

-----------------------------------------------------------------------------
(* The manager, each under sm.mu *)

Closed(ids) == [i \in DOMAIN closes |-> IF i \in ids THEN closes[i] + 1 ELSE closes[i]]

\* Unsubscribe, by anyone who knows the identifier.
Unsubscribe(i) ==
    /\ subs' = subs \ {i}
    /\ connSubs' = IF i \in subs
                     THEN [connSubs EXCEPT ![info[i].conn] = @ \ {i}] ELSE connSubs
    /\ closes' = Closed({i} \cap subs)
    /\ UNCHANGED info

\* CleanupConn.  (Mutant: the subscriptions stay listed.)
CleanupConnMapOnly(c) ==
    /\ closes' = Closed(connSubs[c] \cap subs)
    /\ connSubs' = [connSubs EXCEPT ![c] = {}]
    /\ UNCHANGED <<info, subs>>
CleanupConn(c) ==
    /\ closes' = Closed(connSubs[c] \cap subs)
    /\ subs' = subs \ connSubs[c]
    /\ connSubs' = [connSubs EXCEPT ![c] = {}]
    /\ UNCHANGED info

-----------------------------------------------------------------------------
(* A handler goroutine and its client *)

Accept(c) ==
    /\ handler[c] = "absent"
    /\ handler' = [handler EXCEPT ![c] = "reading"]
    /\ UNCHANGED <<broken, managerVars, castVars, requests>>

\* nextID.Add returns the new value.  (Mutant: the old one.)
NextIDBefore == Len(info)
NextID == Len(info) + 1

\* eth_subscribe: the next ID, then the maps; the reply follows.  A request may
\* be served from the buffer of a connection that is already broken.
Subscribe(c, type) ==
    /\ handler[c] = "reading"
    /\ Len(info) < MaxSubs
    /\ LET i == NextID IN
        /\ info' = Append(info, [conn |-> c, type |-> type, since |-> height])
        /\ subs' = subs \cup {i}
        /\ connSubs' = [connSubs EXCEPT ![c] = @ \cup {i}]
        /\ closes' = Append(closes, 0)
        /\ last' = Append(last, 0)
    /\ handler' = [handler EXCEPT ![c] = "replying"]
    /\ UNCHANGED <<broken, height, cast, requests>>

\* eth_unsubscribe: any identifier, another client's too, or none that exists.
HandleUnsubscribe(c, i) ==
    /\ handler[c] = "reading"
    /\ requests < MaxRequests
    /\ requests' = requests + 1
    /\ Unsubscribe(i)
    /\ handler' = [handler EXCEPT ![c] = "replying"]
    /\ UNCHANGED <<broken, castVars>>

\* The write of a reply ends; its error is ignored.
Reply(c) ==
    /\ handler[c] = "replying"
    /\ handler' = [handler EXCEPT ![c] = "reading"]
    /\ UNCHANGED <<broken, managerVars, castVars, requests>>

\* The client goes away, or the network does.
Disconnect(c) ==
    /\ handler[c] \in {"reading", "replying"} /\ c \notin broken
    /\ broken' = broken \cup {c}
    /\ UNCHANGED <<handler, managerVars, castVars, requests>>

\* Read fails and the handler returns through its deferred CleanupConn.
\* (Mutant: nothing is deferred.)
LeaveUndeferred(c) ==
    /\ handler[c] = "reading" /\ c \in broken
    /\ handler' = [handler EXCEPT ![c] = "gone"]
    /\ UNCHANGED <<broken, managerVars, castVars, requests>>
Leave(c) ==
    /\ handler[c] = "reading" /\ c \in broken
    /\ CleanupConn(c)
    /\ handler' = [handler EXCEPT ![c] = "gone"]
    /\ UNCHANGED <<broken, castVars, requests>>

-----------------------------------------------------------------------------
(* The block loop in BroadcastNewHead *)

\* A block, and the snapshot of its subscribers.
BeginBroadcast ==
    /\ cast.pc = "idle" /\ height < MaxBlocks
    /\ height' = height + 1
    /\ cast' = [pc |-> "next", cur |-> 0,
                todo |-> {i \in subs : info[i].type = NewHeads}]
    /\ UNCHANGED <<handler, broken, managerVars, last, requests>>

\* The select on done: a closed one is passed over.
\* (Mutant: a closed one ends the loop.)
CheckDoneReturns(i) ==
    /\ cast.pc = "next" /\ i \in cast.todo
    /\ cast' = IF closes[i] > 0
                 THEN [cast EXCEPT !.todo = {}]
                 ELSE [pc |-> "write", todo |-> cast.todo \ {i}, cur |-> i]
    /\ UNCHANGED <<handler, broken, managerVars, last, height, requests>>
CheckDone(i) ==
    /\ cast.pc = "next" /\ i \in cast.todo
    /\ cast' = IF closes[i] > 0
                 THEN [cast EXCEPT !.todo = @ \ {i}]
                 ELSE [pc |-> "write", todo |-> cast.todo \ {i}, cur |-> i]
    /\ UNCHANGED <<handler, broken, managerVars, last, height, requests>>

\* sendNotification: the write returns because the client took it ...
WriteOk ==
    /\ cast.pc = "write"
    /\ info[cast.cur].conn \notin broken
    /\ last' = [last EXCEPT ![cast.cur] = height]
    /\ cast' = [cast EXCEPT !.pc = "next"]
    /\ UNCHANGED <<handler, broken, managerVars, height, requests>>

\* ... or because the connection is lost; the lock is taken only after that.
\* (Mutant: the write is tried again.)
WriteFailsRetry ==
    /\ cast.pc = "write"
    /\ info[cast.cur].conn \in broken
    /\ UNCHANGED vars
WriteFails ==
    /\ cast.pc = "write"
    /\ info[cast.cur].conn \in broken
    /\ cast' = [cast EXCEPT !.pc = "cleanup"]
    /\ UNCHANGED <<handler, broken, managerVars, last, height, requests>>

CleanupAfterWrite ==
    /\ cast.pc = "cleanup"
    /\ CleanupConn(info[cast.cur].conn)
    /\ cast' = [cast EXCEPT !.pc = "next"]
    /\ UNCHANGED <<handler, broken, last, height, requests>>

EndBroadcast ==
    /\ cast.pc = "next" /\ cast.todo = {}
    /\ cast' = [pc |-> "idle", todo |-> {}, cur |-> 0]
    /\ UNCHANGED <<handler, broken, managerVars, last, height, requests>>

-----------------------------------------------------------------------------

Serving(c) == Reply(c) \/ Leave(c)

Handler(c) ==
    \/ Accept(c)
    \/ \E type \in Types : Subscribe(c, type)
    \/ \E i \in Ids : HandleUnsubscribe(c, i)
    \/ Serving(c)
    \/ Disconnect(c)

Broadcasting ==
    \/ \E i \in cast.todo : CheckDone(i)
    \/ WriteOk \/ WriteFails \/ CleanupAfterWrite \/ EndBroadcast

Next == (\E c \in Conns : Handler(c)) \/ BeginBroadcast \/ Broadcasting

\* A write that nothing but the client, which is connected, can end.
Unread(c) == c \in Stuck \ broken
BroadcastWaits == cast.pc = "write" /\ Unread(info[cast.cur].conn)
ReplyWaits(c) == handler[c] = "replying" /\ Unread(c)

\* Goroutines keep running, and a write to a client that reads or that is gone
\* returns; nothing is assumed of a write to a client that does not read.
Fairness ==
    /\ WF_vars(Broadcasting /\ ~BroadcastWaits)
    /\ \A c \in Conns : WF_vars(Serving(c) /\ ~ReplyWaits(c))

Spec == Init /\ [][Next]_vars
FairSpec == Spec /\ Fairness

-----------------------------------------------------------------------------
(* Properties *)

\* Every variable keeps its type.
TypeOK ==
    /\ handler \in [Conns -> {"absent", "reading", "replying", "gone"}]
    /\ broken \subseteq Conns
    /\ info \in Seq([conn : Conns, type : Types, since : 0 .. MaxBlocks])
    /\ closes \in Seq(Nat) /\ Len(closes) = Len(info)
    /\ last \in Seq(0 .. MaxBlocks) /\ Len(last) = Len(info)
    /\ subs \subseteq DOMAIN info
    /\ connSubs \in [Conns -> SUBSET DOMAIN info]
    /\ height \in 0 .. MaxBlocks
    /\ cast \in [pc : {"idle", "next", "write", "cleanup"},
                 todo : SUBSET DOMAIN info, cur : {0} \cup DOMAIN info]
    /\ cast.pc \in {"write", "cleanup"} => cast.cur # 0
    /\ requests \in 0 .. MaxRequests

\* A listed subscription is open and one that is not listed was closed exactly
\* once, although Unsubscribe, the leaving handler and the failing broadcast all
\* close: closing done twice panics, and the panic ends the node.
ClosedOnce == \A i \in DOMAIN info : closes[i] = IF i \in subs THEN 0 ELSE 1

\* The two maps of the manager list the same subscriptions.
MapsAgree ==
    \A c \in Conns : connSubs[c] = {i \in subs : info[i].conn = c}

\* When a handler has returned nothing is listed for its connection, also when
\* the broadcast cleaned up first and the handler subscribed again.
NoLeak == \A i \in subs : handler[info[i].conn] # "gone"

\* Between two blocks every open newHeads subscription that was there before the
\* last block has been notified of it, whoever unsubscribed or was lost while
\* the broadcast ran.
NoHeadMissed ==
    cast.pc = "idle" =>
        \A i \in subs :
            info[i].type = NewHeads /\ info[i].conn \notin broken /\ info[i].since < height
                => last[i] = height

\* The block loop comes back from every broadcast, whoever unsubscribes, subscribes
\* or breaks meanwhile, unless it ends up in the write to one client that stays
\* connected and does not read: nothing else can hold it.
BroadcastEnds == []<>(cast.pc = "idle") \/ <>[]BroadcastWaits

\* Nothing stays listed for a broken connection.
LostConnsForgotten == \A c \in Conns : c \in broken ~> connSubs[c] = {}
=============================================================================
