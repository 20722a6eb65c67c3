-------------------------------- MODULE Peers --------------------------------
(***************************************************************************)
(* The connections of a P2P node (src/p2p.go, src/p2p_daemon.go): one      *)
(* goroutine per connection reads, dialling and accepting goroutines put   *)
(* peers into the map, a heartbeat sweeps it, broadcasts copy it, and Stop *)
(* empties it.  peerLock makes each access to the map one step; between    *)
(* two accesses of a goroutine the others run.                             *)
(*                                                                         *)
(* A connection's key in the map is "peer@" and the address dialled or     *)
(* "inbound@" and the remote address and port.  Connections may share a    *)
(* key: the seed list may name an address twice, and a remote port may be  *)
(* used again.                                                             *)
(***************************************************************************)
EXTENDS Integers, FiniteSets

CONSTANTS
    Seeds,          \* outbound connections, one for each seed address
    Inbounds,       \* connections that remote nodes may open
    Key,            \* a connection's key in the map
    InboxSize,      \* capacity of Incoming
    HasConsumer,    \* whether anything reads Incoming (node.go does, the daemon not)
    MaxReceived,    \* bound: messages received ...
    MaxBroadcasts   \* ... and messages broadcast

Conns == Seeds \cup Inbounds

ASSUME PeersAssumption ==
    /\ IsFiniteSet(Conns) /\ Seeds \cap Inbounds = {}
    /\ \A c \in Seeds, d \in Inbounds : Key[c] # Key[d]
    /\ InboxSize \in Nat /\ HasConsumer \in BOOLEAN
    /\ MaxReceived \in Nat /\ MaxBroadcasts \in Nat

VARIABLES
    peers,          \* Peers: the connections in the map, one for each key
    loop,           \* where the goroutine of a connection is
    shut,           \* connections closed on this side
    gone,           \* connections whose remote end is lost
    inbox,          \* how many messages Incoming holds
    sending,        \* the goroutines of Broadcast: who is being written to
    received, sent, \* how much of the bounds is used up
    stopped         \* whether Stop was called

peerVars == <<peers, loop, shut, gone, inbox, sending, received, sent, stopped>>

PeersInit ==
    /\ peers = {}
    /\ loop = [c \in Conns |-> IF c \in Seeds THEN "dialing" ELSE "none"]
    /\ shut = {} /\ gone = {}
    /\ inbox = 0
    /\ sending = {}
    /\ received = 0 /\ sent = 0
    /\ stopped = FALSE

Goto(c, pc) == loop' = [loop EXCEPT ![c] = pc]

\* The entries of the map under other keys than that of c.
Others(c) == {d \in peers : Key[d] # Key[c]}

-----------------------------------------------------------------------------
(* A connection's life *)

\* Connect, from the goroutine RunP2PNode starts for a seed: the dial fails and
\* is not repeated, or gives a socket that is not in the map yet.
Dial(c) ==
    /\ loop[c] = "dialing"
    /\ Goto(c, "connected") \/ Goto(c, "failed")
    /\ UNCHANGED <<peers, shut, gone, inbox, sending, received, sent, stopped>>

\* acceptLoop, until Stop closes the listener.  A remote port comes back only when
\* the connection that had it is down, noticed or not.
Accept(c) ==
    /\ c \in Inbounds /\ loop[c] = "none"
    /\ ~stopped
    /\ \A d \in Inbounds \ {c} : Key[d] = Key[c] => loop[d] = "none" \/ d \in shut \cup gone
    /\ Goto(c, "connected")
    /\ UNCHANGED <<peers, shut, gone, inbox, sending, received, sent, stopped>>

\* Both put the peer into the map, over an entry with its key, and start its read
\* loop; neither looks at done.
Register(c) ==
    /\ loop[c] = "connected"
    /\ peers' = Others(c) \cup {c}
    /\ Goto(c, "reading")
    /\ UNCHANGED <<shut, gone, inbox, sending, received, sent, stopped>>

\* Decode returns a message; a MsgPeerList only sets a height.
Receive(c) ==
    /\ loop[c] = "reading"
    /\ c \notin shut \cup gone
    /\ received < MaxReceived
    /\ received' = received + 1
    /\ Goto(c, "reading") \/ Goto(c, "handing")
    /\ UNCHANGED <<peers, shut, gone, inbox, sending, sent, stopped>>

\* The message goes to Incoming or, when that is full, nowhere.
\* (Mutant: the loop waits for room.)
HandWaiting(c) ==
    /\ loop[c] = "handing"
    /\ inbox < InboxSize
    /\ inbox' = inbox + 1
    /\ Goto(c, "reading")
    /\ UNCHANGED <<peers, shut, gone, sending, received, sent, stopped>>
Hand(c) ==
    /\ loop[c] = "handing"
    /\ inbox' = IF inbox < InboxSize THEN inbox + 1 ELSE inbox
    /\ Goto(c, "reading")
    /\ UNCHANGED <<peers, shut, gone, sending, received, sent, stopped>>

\* Decode fails on a connection either side has closed; the loop closes it ...
ReadFails(c) ==
    /\ loop[c] = "reading"
    /\ c \in shut \cup gone
    /\ shut' = shut \cup {c}
    /\ Goto(c, "leaving")
    /\ UNCHANGED <<peers, gone, inbox, sending, received, sent, stopped>>

\* ... and deletes its key from the map, whichever connection is there.
Leave(c) ==
    /\ loop[c] = "leaving"
    /\ peers' = Others(c)
    /\ Goto(c, "ended")
    /\ UNCHANGED <<shut, gone, inbox, sending, received, sent, stopped>>

\* The remote end closes, is lost, or sends what does not decode.
Lose(c) ==
    /\ loop[c] \in {"connected", "reading", "handing"}
    /\ gone' = gone \cup {c}
    /\ UNCHANGED <<peers, loop, shut, inbox, sending, received, sent, stopped>>

-----------------------------------------------------------------------------
(* The rest of the node *)

\* heartbeatLoop: an empty write fails on a connection closed here.  It may fail on
\* one the remote end has reset, and on one where a message is being written: the
\* empty write waits for that one, and a peer that does not read lets both time out.
MayFail(c) == c \in gone \/ \E s \in sending : s[1] = c

\* (Mutant: the peer is taken from the map and its connection left open.)
HeartbeatOnlyForgets ==
    /\ ~stopped
    /\ \E failed \in SUBSET {c \in peers : MayFail(c)} : peers' = peers \ (failed \cup shut)
    /\ UNCHANGED <<loop, shut, gone, inbox, sending, received, sent, stopped>>
Heartbeat ==
    /\ ~stopped
    /\ \E failed \in SUBSET {c \in peers : MayFail(c)} :
          /\ peers' = peers \ (failed \cup shut)
          /\ shut' = shut \cup failed
    /\ UNCHANGED <<loop, gone, inbox, sending, received, sent, stopped>>

\* BroadcastBlock and BroadcastTransaction: a goroutine for every peer in the map,
\* which writes when it is scheduled.
Broadcast ==
    /\ sent < MaxBroadcasts
    /\ sent' = sent + 1
    /\ sending' = sending \cup {<<c, sent>> : c \in peers}
    /\ UNCHANGED <<peers, loop, shut, gone, inbox, received, stopped>>

Send(s) ==
    /\ s \in sending
    /\ sending' = sending \ {s}
    /\ UNCHANGED <<peers, loop, shut, gone, inbox, received, sent, stopped>>

\* The reader of Incoming that node.go starts.
Consume ==
    /\ HasConsumer /\ inbox > 0
    /\ inbox' = inbox - 1
    /\ UNCHANGED <<peers, loop, shut, gone, sending, received, sent, stopped>>

\* Stop closes what is in the map at that moment and forgets it.
Stop ==
    /\ ~stopped
    /\ stopped' = TRUE
    /\ shut' = shut \cup peers
    /\ peers' = {}
    /\ UNCHANGED <<loop, gone, inbox, sending, received, sent>>

ReadLoop(c) == Hand(c) \/ ReadFails(c) \/ Leave(c)

PeersNext ==
    \/ \E c \in Conns :
          \/ Dial(c) \/ Accept(c) \/ Register(c)
          \/ Receive(c) \/ ReadLoop(c) \/ Lose(c)
    \/ \E s \in sending : Send(s)
    \/ Heartbeat \/ Broadcast \/ Consume \/ Stop

-----------------------------------------------------------------------------
(* Properties *)

\* The one way for a connection to be open, read, and in no map where broadcasts,
\* the heartbeat and Stop would find it: another connection used its key, and took
\* its entry when it registered or deleted it when it left.  And the map holds one
\* connection for a key, none whose read loop is over.
OpenIsTracked ==
    /\ \A c \in Conns : loop[c] \in {"reading", "handing"} /\ c \notin shut \cup peers =>
          \E d \in Conns \ {c} :
             Key[d] = Key[c] /\ loop[d] \in {"reading", "handing", "leaving", "ended"}
    /\ \A c \in peers : loop[c] \in {"reading", "handing", "leaving"}
    /\ \A c, d \in peers : Key[c] = Key[d] => c = d

\* A peer whose connection is lost leaves the map, also when Incoming is full and
\* nobody reads it, and whether or not a heartbeat ever comes.
LostIsForgotten == \A c \in Conns : (c \in gone /\ c \in peers) ~> c \notin peers
=============================================================================
