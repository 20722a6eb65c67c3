---------------------------- MODULE NetworkProofs ----------------------------
(***************************************************************************)
(* The peer map and the connections behind it, for any number of seeds and *)
(* of inbound connections; and the rate limiter, for any number of clients *)
(* and any rate.                                                           *)
(***************************************************************************)
EXTENDS Network, Sums, TLAPS

PeersInv ==
    /\ peers \subseteq Conns
    /\ loop \in [Conns -> {"none", "dialing", "failed", "connected", "reading", "handing",
                           "leaving", "ended"}]
    /\ OpenIsTracked

\* The steps of a connection's own goroutine.
LEMMA GoroutineKeeps ==
  ASSUME PeersInv, NEW c \in Conns,
         \/ Dial(c) \/ Accept(c) \/ Register(c)
         \/ Receive(c) \/ ReadLoop(c) \/ Lose(c)
  PROVE  PeersInv'
<1>1. CASE Dial(c)
  BY <1>1 DEF Dial, Goto, PeersInv, OpenIsTracked
<1>2. CASE Accept(c)
  BY <1>2 DEF Accept, Goto, PeersInv, OpenIsTracked
<1>3. CASE Register(c)
  BY <1>3 DEF Register, Others, Goto, PeersInv, OpenIsTracked
<1>4. CASE Receive(c)
  BY <1>4 DEF Receive, Goto, PeersInv, OpenIsTracked
<1>5. CASE Hand(c)
  BY <1>5 DEF Hand, Goto, PeersInv, OpenIsTracked
<1>6. CASE ReadFails(c)
  BY <1>6 DEF ReadFails, Goto, PeersInv, OpenIsTracked
<1>7. CASE Leave(c)
  BY <1>7 DEF Leave, Others, Goto, PeersInv, OpenIsTracked
<1>8. CASE Lose(c)
  BY <1>8 DEF Lose, PeersInv, OpenIsTracked
<1> QED
  BY <1>1, <1>2, <1>3, <1>4, <1>5, <1>6, <1>7, <1>8 DEF ReadLoop

\* The steps of the rest of the node.
LEMMA NodeKeeps ==
  ASSUME PeersInv,
         \/ \E s \in sending : Send(s)
         \/ Heartbeat \/ Broadcast \/ Consume \/ Stop
  PROVE  PeersInv'
<1>1. CASE Heartbeat
  BY <1>1 DEF Heartbeat, PeersInv, OpenIsTracked
<1>2. CASE Stop
  BY <1>2 DEF Stop, PeersInv, OpenIsTracked
<1>3. CASE (\E s \in sending : Send(s)) \/ Broadcast \/ Consume
  BY <1>3 DEF Send, Broadcast, Consume, PeersInv, OpenIsTracked
<1> QED
  BY <1>1, <1>2, <1>3

\* However the goroutines of acceptLoop, Connect, readLoop, heartbeatLoop and Stop
\* interleave, and whichever connections share a key: an open connection is missing
\* from the map only after another one used its key.
THEOREM OpenConnectionsTracked == Spec => []OpenIsTracked
<1>1. Init => PeersInv
  BY DEF Init, PeersInit, PeersInv, OpenIsTracked, Conns
<1>2. PeersInv /\ [Next]_vars => PeersInv'
  <2> SUFFICES ASSUME PeersInv, [Next]_vars PROVE PeersInv'
    OBVIOUS
  <2>1. CASE PeersNext
    BY <2>1, GoroutineKeeps, NodeKeeps DEF PeersNext
  <2>2. CASE UNCHANGED peerVars
    BY <2>2 DEF peerVars, PeersInv, OpenIsTracked
  <2> QED
    BY <2>1, <2>2 DEF Next, vars
<1>3. PeersInv => OpenIsTracked
  BY DEF PeersInv
<1> QED
  BY <1>1, <1>2, <1>3, PTL DEF Spec

\* Where no two connections have the same key, as with a seed list that names an
\* address once and remote ports that do not come back, every connection that is
\* open and read is in the map.
THEOREM AllOpenTracked ==
  ASSUME \A c, d \in Conns : Key[c] = Key[d] => c = d
  PROVE  Spec => [](\A c \in Conns : loop[c] \in {"reading", "handing"} /\ c \notin shut => c \in peers)
<1>1. OpenIsTracked => \A c \in Conns : loop[c] \in {"reading", "handing"} /\ c \notin shut => c \in peers
  BY DEF OpenIsTracked
<1> QED
  BY <1>1, OpenConnectionsTracked, PTL

-----------------------------------------------------------------------------
(* The rate limiter *)

\* What division rounds away from two parts it gives back at most to the whole.
LEMMA DivFacts ==
  ASSUME NEW m \in Nat \ {0}, NEW a \in Nat, NEW b \in Nat
  PROVE  /\ a \div m \in Nat /\ b \div m \in Nat /\ (a + b) \div m \in Nat
         /\ a \div m + b \div m <= (a + b) \div m
<1> DEFINE p == a \div m
           q == b \div m
           r == (a + b) \div m
<1>1. /\ p \in Nat /\ q \in Nat /\ r \in Nat
      /\ p * m <= a /\ q * m <= b /\ a + b < r * m + m
  BY Z3
<1> HIDE DEF p, q, r
<1>2. \A x, y \in Nat : x >= y + 1 => x * m >= y * m + m
  OBVIOUS
<1>3. (p + q) * m = p * m + q * m /\ p * m \in Nat /\ q * m \in Nat /\ r * m \in Nat
  BY <1>1
<1>4. ~(p + q >= r + 1)
  <2>1. p + q \in Nat
    BY <1>1
  <2>2. p + q >= r + 1 => (p + q) * m >= r * m + m
    BY <1>1, <1>2, <2>1
  <2> QED BY <1>1, <1>3, <2>2
<1> QED BY <1>1, <1>4 DEF p, q, r

LEMMA DivAtLeast ==
  ASSUME NEW m \in Nat \ {0}, NEW n \in Nat, NEW a \in Nat, a >= n * m
  PROVE  a \div m >= n
<1> DEFINE p == a \div m
<1>1. p \in Nat /\ a < p * m + m
  BY Z3
<1> HIDE DEF p
<1>2. \A x, y \in Nat : x >= y + 1 => x * m >= y * m + m
  OBVIOUS
<1>3. p * m \in Nat /\ n * m \in Nat
  BY <1>1
<1>4. ~(n >= p + 1)
  BY <1>1, <1>2, <1>3
<1> QED BY <1>1, <1>4 DEF p

\* The requests of c that were allowed from s on.
Used(c, s) == SumFunctionOnSet(allowed[c], s .. MaxTime)

\* What a bucket has given out and still holds, counted when it was last looked
\* at; and, for a client whose bucket was dropped, what it had before.
Budget(c, s) ==
    IF c \in DOMAIN tokens
      THEN IF s <= lastCheck[c]
             THEN Used(c, s) + tokens[c] <= Rate + (lastCheck[c] - s) \div Interval
             ELSE Used(c, s) = 0
      ELSE IF s <= now THEN Used(c, s) <= (now - s) \div Interval ELSE Used(c, s) = 0

LimitTypes ==
    /\ now \in 0 .. MaxTime
    /\ allowed \in [Clients -> [0 .. MaxTime -> Nat]]
    /\ \A c \in DOMAIN tokens : tokens[c] \in 0 .. Rate /\ lastCheck[c] \in 0 .. now

LimitInv ==
    /\ LimitTypes
    /\ \A c \in Clients, t \in 0 .. MaxTime : t > now => allowed[c][t] = 0
    /\ \A c \in Clients, s \in 0 .. MaxTime : Budget(c, s)

\* Sums of requests are numbers.
LEMMA UsedNat == ASSUME LimitTypes, NEW c \in Clients, NEW s \in 0 .. MaxTime PROVE Used(c, s) \in Nat
<1>1. IsFiniteSet(s .. MaxTime)
  BY FS_Interval, RateLimitAssumption
<1>2. \A t \in s .. MaxTime : t \in 0 .. MaxTime
  BY RateLimitAssumption
<1>3. \A t \in s .. MaxTime : allowed[c][t] \in Nat
  BY <1>2 DEF LimitTypes
<1> QED BY <1>1, <1>3, SumNat DEF Used

\* One request more at time now: it counts for every stretch that began by then.
LEMMA UsedOneMore ==
  ASSUME LimitTypes, NEW c \in Clients, allowed' = [allowed EXCEPT ![c][now] = @ + 1],
         NEW s \in 0 .. MaxTime
  PROVE  Used(c, s)' = IF s <= now THEN Used(c, s) + 1 ELSE Used(c, s)
<1> DEFINE f == allowed[c]
           g == allowed'[c]
           S == s .. MaxTime
<1>0. MaxTime \in Nat /\ now \in 0 .. MaxTime /\ S \subseteq 0 .. MaxTime
  BY RateLimitAssumption DEF LimitTypes
<1>1. IsFiniteSet(S)
  BY <1>0, FS_Interval
<1>2. f \in [0 .. MaxTime -> Nat] /\ g = [f EXCEPT ![now] = @ + 1]
  BY DEF LimitTypes
<1>3. Used(c, s) = SumFunctionOnSet(f, S) /\ Used(c, s)' = SumFunctionOnSet(g, S)
  BY DEF Used
<1>4. now \in S <=> s <= now
  BY <1>0
<1> HIDE DEF f, g, S
<1>5. /\ \A t \in S : f[t] \in Int /\ g[t] \in Int
      /\ \A t \in S \ {now} : g[t] = f[t]
      /\ g[now] = f[now] + 1 /\ f[now] \in Int
  BY <1>0, <1>2
<1>6. SumFunctionOnSet(f, S) \in Int
  BY <1>1, <1>5, SumIsInt
<1>7. CASE now \in S
  <2>1. SumFunctionOnSet(g, S) = SumFunctionOnSet(f, S) - f[now] + g[now]
    BY <1>1, <1>5, <1>7, SumReplace
  <2> QED BY <1>3, <1>4, <1>5, <1>6, <1>7, <2>1
<1>8. CASE now \notin S
  <2>1. \A t \in S : f[t] \in Int /\ g[t] = f[t]
    BY <1>5, <1>8
  <2>2. SumFunctionOnSet(g, S) = SumFunctionOnSet(f, S)
    BY <1>1, <2>1, SumSame
  <2> QED BY <1>3, <1>4, <1>8, <2>2
<1> QED BY <1>7, <1>8

\* The refilled bucket still fits the budget, now counted at this moment.
LEMMA RefilledFits ==
  ASSUME LimitInv, NEW c \in Clients, NEW s \in 0 .. MaxTime
  PROVE  /\ Refilled(c) \in 0 .. Rate
         /\ s <= now => Used(c, s) + Refilled(c) <= Rate + (now - s) \div Interval
         /\ s > now => Used(c, s) = 0
<1>1. /\ Rate \in Nat /\ Interval \in Nat \ {0} /\ now \in Nat /\ Used(c, s) \in Nat
      /\ s \in Nat /\ Budget(c, s)
  BY RateLimitAssumption, UsedNat DEF LimitInv, LimitTypes
<1>2. CASE c \notin DOMAIN tokens
  <2>1. Refilled(c) = Rate
    BY <1>2 DEF Refilled
  <2>2. s <= now => (now - s) \div Interval \in Nat
    BY <1>1, DivFacts
  <2> QED BY <1>1, <1>2, <2>1, <2>2 DEF Budget
<1>3. CASE c \in DOMAIN tokens
  <2> DEFINE k == lastCheck[c]
             b == (now - k) \div Interval
  <2>1. tokens[c] \in 0 .. Rate /\ k \in 0 .. now
    BY <1>3 DEF LimitInv, LimitTypes
  <2>2. b \in Nat
    BY <1>1, <2>1, DivFacts
  <2>3. Refilled(c) = IF tokens[c] + b > Rate THEN Rate ELSE tokens[c] + b
    BY <1>3 DEF Refilled
  <2> HIDE DEF b
  <2>4. Refilled(c) \in 0 .. Rate /\ Refilled(c) <= tokens[c] + b
    BY <1>1, <2>1, <2>2, <2>3
  <2> HIDE DEF k
  <2>5. CASE s <= k
    <3> DEFINE a == (k - s) \div Interval
               d == (now - s) \div Interval
    <3>1. k - s \in Nat /\ now - k \in Nat /\ (k - s) + (now - k) = now - s
      BY <1>1, <2>1, <2>5
    <3>2. a \in Nat /\ d \in Nat /\ a + b <= d
      BY <1>1, <3>1, DivFacts DEF b
    <3>3. Used(c, s) + tokens[c] <= Rate + a
      BY <1>1, <1>3, <2>5 DEF Budget, k
    <3> HIDE DEF a, d
    <3>4. Used(c, s) + Refilled(c) <= Rate + d
      BY <1>1, <2>1, <2>2, <2>4, <3>2, <3>3
    <3> QED BY <1>1, <2>1, <2>4, <2>5, <3>4 DEF d
  <2>6. CASE ~(s <= k)
    <3>1. Used(c, s) = 0
      BY <1>1, <1>3, <2>6 DEF Budget, k
    <3>2. s <= now => (now - s) \div Interval \in Nat
      BY <1>1, DivFacts
    <3> QED BY <1>1, <2>4, <3>1, <3>2
  <2> QED BY <2>5, <2>6
<1> QED BY <1>2, <1>3

\* A request is taken from the refilled bucket, or there is none left to take.
LEMMA AllowKeeps == ASSUME LimitInv, NEW c \in Clients, Allow(c) PROVE LimitInv'
<1>1. /\ Rate \in Nat /\ MaxTime \in Nat /\ now \in 0 .. MaxTime /\ now' = now
      /\ Refilled(c) \in 0 .. Rate
  BY RateLimitAssumption, RefilledFits DEF LimitInv, LimitTypes, Allow
<1>2. /\ DOMAIN tokens' = DOMAIN tokens \cup {c}
      /\ tokens'[c] = IF Refilled(c) > 0 THEN Refilled(c) - 1 ELSE 0
      /\ lastCheck'[c] = now
      /\ \A d \in DOMAIN tokens \ {c} : tokens'[d] = tokens[d] /\ lastCheck'[d] = lastCheck[d]
  BY DEF Allow
<1>3. allowed' = IF Refilled(c) > 0 THEN [allowed EXCEPT ![c][now] = @ + 1] ELSE allowed
  BY DEF Allow
<1>4. /\ allowed' \in [Clients -> [0 .. MaxTime -> Nat]]
      /\ \A d \in Clients \ {c} : allowed'[d] = allowed[d]
      /\ \A t \in 0 .. MaxTime : t # now => allowed'[c][t] = allowed[c][t]
  BY <1>1, <1>3 DEF LimitInv, LimitTypes
<1>5. LimitTypes'
  BY <1>1, <1>2, <1>4 DEF LimitInv, LimitTypes
<1>6. ASSUME NEW d \in Clients, NEW t \in 0 .. MaxTime, t > now PROVE allowed'[d][t] = 0
  <2>1. allowed[d][t] = 0 /\ t # now
    BY <1>1, <1>6 DEF LimitInv
  <2> QED BY <1>4, <2>1
<1>7. ASSUME NEW d \in Clients, NEW s \in 0 .. MaxTime PROVE Budget(d, s)'
  <2>1. CASE d # c
    <3>1. Budget(d, s) /\ Used(d, s)' = Used(d, s)
      BY <1>4, <2>1 DEF LimitInv, Used
    <3>2. /\ d \in DOMAIN tokens' <=> d \in DOMAIN tokens
          /\ d \in DOMAIN tokens => tokens'[d] = tokens[d] /\ lastCheck'[d] = lastCheck[d]
      BY <1>2, <2>1
    <3> QED BY <1>1, <3>1, <3>2 DEF Budget
  <2>2. CASE d = c
    <3> DEFINE x == (now - s) \div Interval
    <3>1. /\ Used(c, s) \in Nat /\ s \in Nat
          /\ s <= now => Used(c, s) + Refilled(c) <= Rate + x
          /\ s > now => Used(c, s) = 0
      BY UsedNat, RefilledFits DEF LimitInv
    <3>2. Used(c, s)' = IF Refilled(c) > 0 /\ s <= now THEN Used(c, s) + 1 ELSE Used(c, s)
      <4>1. CASE Refilled(c) > 0
        <5>1. allowed' = [allowed EXCEPT ![c][now] = @ + 1]
          BY <1>3, <4>1
        <5> QED BY <4>1, <5>1, UsedOneMore DEF LimitInv
      <4>2. CASE ~(Refilled(c) > 0)
        <5>1. allowed' = allowed
          BY <1>3, <4>2
        <5> QED BY <4>2, <5>1 DEF Used
      <4> QED BY <4>1, <4>2
    <3>3. ASSUME IF s <= now THEN Used(c, s)' + tokens'[c] <= Rate + x ELSE Used(c, s)' = 0
          PROVE  Budget(c, s)'
      BY <1>2, <3>3 DEF Budget
    <3>4. s <= now => x \in Nat
      BY <1>1, <3>1, RateLimitAssumption, DivFacts
    <3> HIDE DEF x
    <3>5. IF s <= now THEN Used(c, s)' + tokens'[c] <= Rate + x ELSE Used(c, s)' = 0
      BY <1>1, <1>2, <3>1, <3>2, <3>4
    <3> QED BY <2>2, <3>3, <3>5
  <2> QED BY <2>1, <2>2
<1> QED BY <1>1, <1>5, <1>6, <1>7 DEF LimitInv

\* A bucket that is dropped would have been full by now.
LEMMA CleanupKeeps == ASSUME LimitInv, Cleanup PROVE LimitInv'
<1> DEFINE kept == {c \in DOMAIN tokens : now - lastCheck[c] <= IdleLimit}
<1>1. /\ DOMAIN tokens' = kept
      /\ \A c \in kept : tokens'[c] = tokens[c] /\ lastCheck'[c] = lastCheck[c]
      /\ UNCHANGED <<now, allowed>>
  BY DEF Cleanup
<1>2. LimitTypes'
  BY <1>1 DEF LimitInv, LimitTypes
<1>3. ASSUME NEW c \in Clients, NEW s \in 0 .. MaxTime PROVE Budget(c, s)'
  <2>1. Budget(c, s) /\ Used(c, s)' = Used(c, s)
    BY <1>1 DEF LimitInv, Used
  <2>2. CASE c \in kept \/ c \notin DOMAIN tokens
    BY <1>1, <2>1, <2>2 DEF Budget
  <2>3. CASE c \in DOMAIN tokens /\ c \notin kept
    <3> DEFINE k == lastCheck[c]
               x == (now - s) \div Interval
               a == (k - s) \div Interval
               b == (now - k) \div Interval
    <3>1. /\ Rate \in Nat /\ Interval \in Nat \ {0} /\ IdleLimit \in Nat
          /\ IdleLimit >= Rate * Interval /\ s \in Nat /\ Used(c, s) \in Nat
      BY RateLimitAssumption, UsedNat DEF LimitInv
    <3>2. tokens[c] \in Nat /\ k \in 0 .. now /\ now \in Nat /\ now - k > IdleLimit
      BY <2>3, <3>1, RateLimitAssumption DEF LimitInv, LimitTypes
    <3>3. b \in Nat /\ b >= Rate
      <4>1. now - k \in Nat /\ Rate * Interval \in Nat
        BY <3>1, <3>2
      <4>2. now - k >= Rate * Interval
        BY <3>1, <3>2, <4>1
      <4> QED BY <3>1, <4>1, <4>2, DivFacts, DivAtLeast
    <3>4. ASSUME IF s <= now THEN Used(c, s) <= x ELSE Used(c, s) = 0 PROVE Budget(c, s)'
      BY <1>1, <2>1, <2>3, <3>4 DEF Budget
    <3>5. s <= now => x \in Nat
      BY <3>1, <3>2, DivFacts
    <3>6. CASE s <= k
      <4>1. Used(c, s) + tokens[c] <= Rate + a
        BY <2>1, <2>3, <3>6 DEF Budget
      <4>2. k - s \in Nat /\ now - k \in Nat /\ (k - s) + (now - k) = now - s /\ s <= now
        BY <3>1, <3>2, <3>6
      <4>3. a \in Nat /\ a + b <= x
        BY <3>1, <4>2, DivFacts
      <4> HIDE DEF a, b, x
      <4>4. Used(c, s) <= x
        BY <3>1, <3>2, <3>3, <3>5, <4>1, <4>2, <4>3
      <4> QED BY <3>4, <4>2, <4>4
    <3>7. CASE ~(s <= k)
      <4>1. Used(c, s) = 0
        BY <2>1, <2>3, <3>7 DEF Budget
      <4> HIDE DEF x
      <4>2. IF s <= now THEN Used(c, s) <= x ELSE Used(c, s) = 0
        BY <3>5, <4>1
      <4> QED BY <3>4, <4>2
    <3> QED BY <3>6, <3>7
  <2> QED BY <2>2, <2>3
<1> QED BY <1>1, <1>2, <1>3 DEF LimitInv

\* Time only adds to what a client without a bucket may have had.
LEMMA TickKeeps == ASSUME LimitInv, Tick PROVE LimitInv'
<1>1. /\ now \in Nat /\ now < MaxTime /\ now' = now + 1 /\ MaxTime \in Nat
      /\ UNCHANGED <<tokens, lastCheck, allowed>>
  BY RateLimitAssumption DEF Tick, LimitInv, LimitTypes
<1>2. LimitTypes'
  BY <1>1 DEF LimitInv, LimitTypes
<1>3. ASSUME NEW c \in Clients, NEW s \in 0 .. MaxTime PROVE Budget(c, s)'
  <2>1. Budget(c, s) /\ Used(c, s)' = Used(c, s) /\ Used(c, s) \in Nat /\ s \in Nat
    BY <1>1, UsedNat DEF LimitInv, Used
  <2>2. CASE c \in DOMAIN tokens
    BY <1>1, <2>1, <2>2 DEF Budget
  <2>3. CASE c \notin DOMAIN tokens
    <3> DEFINE x == (now - s) \div Interval
               y == (now + 1 - s) \div Interval
    <3>1. s <= now + 1 => y \in Nat
      BY <1>1, <2>1, RateLimitAssumption, DivFacts
    <3>2. s <= now => x \in Nat /\ x <= y
      <4> SUFFICES ASSUME s <= now PROVE x \in Nat /\ x <= y
        OBVIOUS
      <4>1. now - s \in Nat /\ (now - s) + 1 = now + 1 - s /\ 1 \in Nat
        BY <1>1, <2>1
      <4>2. x \in Nat /\ 1 \div Interval \in Nat /\ x + (1 \div Interval) <= y /\ y \in Nat
        BY <4>1, RateLimitAssumption, DivFacts
      <4> DEFINE z == 1 \div Interval
      <4> HIDE DEF x, y, z
      <4>3. z \in Nat /\ x + z <= y
        BY <4>2 DEF z
      <4> QED BY <4>2, <4>3
    <3>3. IF s <= now THEN Used(c, s) <= x ELSE Used(c, s) = 0
      BY <2>1, <2>3 DEF Budget
    <3>4. ASSUME IF s <= now + 1 THEN Used(c, s) <= y ELSE Used(c, s) = 0 PROVE Budget(c, s)'
      BY <1>1, <2>1, <2>3, <3>4 DEF Budget
    <3> HIDE DEF x, y
    <3>5. IF s <= now + 1 THEN Used(c, s) <= y ELSE Used(c, s) = 0
      BY <1>1, <2>1, <3>1, <3>2, <3>3
    <3> QED BY <3>4, <3>5
  <2> QED BY <2>2, <2>3
<1> QED BY <1>1, <1>2, <1>3 DEF LimitInv

\* The budget is what RateKept promises: nothing is allowed in the future.
LEMMA BudgetIsRate == LimitInv => RateKept
<1> SUFFICES ASSUME LimitInv, NEW c \in Clients, NEW s \in 0 .. now
             PROVE  SumFunctionOnSet(allowed[c], s .. now) <= Rate + (now - s) \div Interval
  BY DEF RateKept
<1> DEFINE S == s .. MaxTime
           P == s .. now
<1>1. now \in Nat /\ now <= MaxTime /\ MaxTime \in Nat /\ s \in 0 .. MaxTime /\ s <= now /\ Rate \in Nat
  BY RateLimitAssumption DEF LimitInv, LimitTypes
<1>2. /\ P \in SUBSET S /\ \A t \in S : t \in 0 .. MaxTime
      /\ \A t \in S \ P : t > now
  BY <1>1
<1>3. IsFiniteSet(S)
  BY <1>1, FS_Interval
<1>4. /\ allowed[c] \in [0 .. MaxTime -> Nat]
      /\ \A t \in 0 .. MaxTime : t > now => allowed[c][t] = 0
  BY DEF LimitInv, LimitTypes
<1>5. Used(c, s) = SumFunctionOnSet(allowed[c], S)
  BY DEF Used
<1> HIDE DEF S, P
<1>6. SumFunctionOnSet(allowed[c], S) = SumFunctionOnSet(allowed[c], P)
  <2>1. ASSUME NEW t \in S PROVE allowed[c][t] \in Int
    <3>1. t \in 0 .. MaxTime
      BY <1>2
    <3> QED BY <1>1, <1>4, <3>1
  <2>2. \A t \in S \ P : allowed[c][t] = 0
    BY <1>2, <1>4
  <2> QED BY <1>2, <1>3, <2>1, <2>2, SumOfPart
<1> DEFINE x == (now - s) \div Interval
<1>7. Used(c, s) + Refilled(c) <= Rate + x /\ Refilled(c) \in Nat /\ Used(c, s) \in Nat
  BY <1>1, RefilledFits, UsedNat DEF LimitInv
<1>8. x \in Nat
  BY <1>1, RateLimitAssumption, DivFacts
<1> HIDE DEF x
<1>9. Used(c, s) <= Rate + x
  BY <1>1, <1>7, <1>8
<1> QED BY <1>5, <1>6, <1>9 DEF P, x

\* The limiter keeps its rate over every stretch of time, for every rate, window
\* and idle limit of at least the time a bucket takes to fill, however requests,
\* ticks and clean-ups interleave.
THEOREM RateIsKept == Spec => []RateKept
<1>1. Init => LimitInv
  <2> SUFFICES ASSUME LimitInit PROVE LimitInv
    BY DEF Init
  <2>1. LimitTypes /\ now = 0 /\ DOMAIN tokens = {}
        /\ \A c \in Clients, t \in 0 .. MaxTime : allowed[c][t] = 0
    BY RateLimitAssumption DEF LimitInit, LimitTypes
  <2>2. ASSUME NEW c \in Clients, NEW s \in 0 .. MaxTime PROVE Budget(c, s)
    <3>1. IsFiniteSet(s .. MaxTime) /\ \A t \in s .. MaxTime : t \in 0 .. MaxTime
      BY FS_Interval, RateLimitAssumption
    <3>2. \A t \in s .. MaxTime : allowed[c][t] = 0
      BY <2>1, <3>1
    <3>3. Used(c, s) = 0
      BY <3>1, <3>2, SumZero DEF Used
    <3>4. s <= now => (now - s) \div Interval \in Nat
      BY <2>1, RateLimitAssumption, DivFacts
    <3> QED BY <2>1, <3>3, <3>4 DEF Budget
  <2> QED BY <2>1, <2>2 DEF LimitInv
<1>2. LimitInv /\ [Next]_vars => LimitInv'
  <2> SUFFICES ASSUME LimitInv, [Next]_vars PROVE LimitInv'
    OBVIOUS
  <2>1. CASE LimitNext
    BY <2>1, TickKeeps, CleanupKeeps, AllowKeeps DEF LimitNext
  <2>2. CASE UNCHANGED limitVars
    BY <2>2 DEF limitVars, LimitInv, LimitTypes, Budget, Used
  <2> QED BY <2>1, <2>2 DEF Next, vars
<1> QED BY <1>1, <1>2, BudgetIsRate, PTL DEF Spec
=============================================================================
