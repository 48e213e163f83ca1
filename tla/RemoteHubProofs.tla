------------------------- MODULE RemoteHubProofs -------------------------
(***************************************************************************)
(* The hub, for any number of sockets, conversations and commands and any  *)
(* capacities: the newest client and no other is served, the host knows of *)
(* it, a command runs once, steps reach the client in order, and what the  *)
(* client has not got is on its way or owed to it.  HubInv, the types and  *)
(* the seat, is invariant by itself; LineInv, the order along the line     *)
(* from the host's queue to the socket, needs it, and Covered needs both.  *)
(***************************************************************************)
EXTENDS RemoteHub, FiniteSetTheorems, TLAPS

seats == <<regs, active, conn, signal>>

SeatTypes ==
  /\ regs \in Seq(Conns)
  /\ active \in Conns \cup {NoConn}
  /\ conn \in [Conns -> {"new", "open", "closing", "gone"}]
  /\ signal \in [Conns -> BOOLEAN]

(* A socket is registered once, after its handshake, before it is served, and is
   asked to close only by losing the seat. *)
NewIsApart ==
  \A c \in Conns : conn[c] = "new" => ~Waiting(c) /\ c # active /\ ~signal[c]

WaitingIsApart ==
  \A c \in Conns : Waiting(c) => c # active /\ ~signal[c]

RegisteredOnce ==
  \A i, j \in DOMAIN regs : regs[i] = regs[j] => i = j

(* Closed is the last word of a task. *)
Messages == [type : {"command"}, conn : Conns, cmd : Cmds] \cup [type : {"bad", "closed"}, conn : Conns]

ClosedIsGone ==
  /\ inbound \in Seq(Messages)
  /\ \A i \in DOMAIN inbound : inbound[i].type = "closed" => conn[inbound[i].conn] = "gone"

SeatInv == SeatTypes /\ NewIsApart /\ WaitingIsApart /\ RegisteredOnce /\ OneServed

(* The three ways a step can move the seat. *)
Unseated ==
  /\ active' = NoConn
  /\ signal' = [c \in Conns |-> signal[c] \/ c = active]
  /\ UNCHANGED <<regs, conn>>

(* emit leaves the active socket alone or closes it. *)
LEMMA EmitSeats ==
  ASSUME SeatTypes, NEW frames, Emit(frames), UNCHANGED <<regs, conn>>
  PROVE  UNCHANGED seats \/ Unseated
<1>1. CASE active = NoConn
  BY <1>1 DEF Emit, seats
<1>2. CASE active # NoConn
  <2> DEFINE room == IF conn[active] = "gone" THEN 0 ELSE OutCap - Len(outbound[active])
             fits == Len(frames) <= room
  <2>1. /\ active' = IF fits THEN active ELSE NoConn
        /\ signal' = [signal EXCEPT ![active] = @ \/ ~fits]
    BY <1>2 DEF Emit
  <2> HIDE DEF fits
  <2>2. CASE fits
    BY <2>1, <2>2, <1>2 DEF SeatTypes, seats
  <2>3. CASE ~fits
    BY <2>1, <2>3, <1>2 DEF SeatTypes, Unseated
  <2> QED BY <2>2, <2>3
<1> QED BY <1>1, <1>2

LEMMA UnseatedKeeps == ASSUME SeatInv, Unseated PROVE SeatInv'
  BY ConnAssumption
  DEF SeatInv, SeatTypes, NewIsApart, WaitingIsApart, RegisteredOnce, OneServed, Serving,
      Waiting, Unseated

LEMMA SameKeeps == ASSUME SeatInv, UNCHANGED seats PROVE SeatInv'
  BY DEF SeatInv, SeatTypes, NewIsApart, WaitingIsApart, RegisteredOnce, OneServed, Serving,
         Waiting, seats

(* The oldest registration takes the seat, or, its socket gone, empties it. *)
LEMMA RegistrationKeeps == ASSUME SeatInv, OnRegistration PROVE SeatInv'
<1> DEFINE c == Head(regs)
           dead == conn[c] = "gone"
<1>1. /\ regs # <<>> /\ regs \in Seq(Conns)
      /\ regs' = Tail(regs)
      /\ active' = IF dead THEN NoConn ELSE c
      /\ signal' = [s \in Conns |-> signal[s] \/ s = active \/ (s = c /\ dead)]
      /\ conn' = conn
  BY DEF OnRegistration, SeatInv, SeatTypes
<1>2. /\ c \in Conns /\ c = regs[1] /\ 1 \in DOMAIN regs
      /\ regs' \in Seq(Conns)
      /\ DOMAIN regs' = 1..(Len(regs) - 1)
      /\ \A i \in DOMAIN regs' : regs'[i] = regs[i + 1] /\ i + 1 \in DOMAIN regs
  BY <1>1
<1> HIDE DEF c
<1>3. \A i \in DOMAIN regs' : regs'[i] # c
  BY <1>2 DEF SeatInv, RegisteredOnce
<1>4. \A s \in Conns : Waiting(s) => s = c \/ Waiting(s)'
  <2> SUFFICES ASSUME NEW i \in DOMAIN regs, regs[i] # c
               PROVE  \E j \in DOMAIN regs' : regs'[j] = regs[i]
    BY DEF Waiting
  <2>1. i # 1 /\ i - 1 \in DOMAIN regs' /\ (i - 1) + 1 = i
    BY <1>1, <1>2
  <2>2. regs'[i - 1] = regs[i]
    BY <2>1, <1>2
  <2> QED BY <2>1, <2>2
<1>5. \A s \in Conns : Waiting(s)' => Waiting(s) /\ s # c
  BY <1>2, <1>3 DEF Waiting
<1>6. Waiting(c)
  BY <1>2 DEF Waiting
<1>7. SeatTypes'
  BY <1>1, <1>2 DEF SeatInv, SeatTypes
<1>8. NewIsApart' /\ WaitingIsApart'
  BY <1>1, <1>2, <1>5, <1>6, ConnAssumption
  DEF SeatInv, SeatTypes, NewIsApart, WaitingIsApart
<1>9. RegisteredOnce'
  <2> SUFFICES ASSUME NEW i \in DOMAIN regs', NEW j \in DOMAIN regs', regs'[i] = regs'[j]
               PROVE  i = j
    BY DEF RegisteredOnce
  <2>1. regs[i + 1] = regs[j + 1] /\ i + 1 \in DOMAIN regs /\ j + 1 \in DOMAIN regs
    BY <1>2
  <2>2. i + 1 = j + 1
    BY <2>1 DEF SeatInv, RegisteredOnce
  <2> QED BY <2>2, <1>2
<1>10. OneServed'
  BY <1>1, <1>2, <1>4, <1>6, ConnAssumption
  DEF SeatInv, SeatTypes, OneServed, Serving, WaitingIsApart
<1> QED BY <1>7, <1>8, <1>9, <1>10 DEF SeatInv

LEMMA ConnectKeeps == ASSUME SeatInv, NEW c \in Conns, Connect(c) PROVE SeatInv'
<1>1. /\ conn[c] = "new" /\ regs \in Seq(Conns)
      /\ conn' = [conn EXCEPT ![c] = "open"]
      /\ regs' = Append(regs, c)
      /\ active' = active /\ signal' = signal
  BY DEF Connect, hubVars, SeatInv, SeatTypes
<1>2. /\ regs' \in Seq(Conns) /\ DOMAIN regs = 1..Len(regs)
      /\ DOMAIN regs' = 1..(Len(regs) + 1) /\ Len(regs) \in Nat
      /\ regs'[Len(regs) + 1] = c
      /\ \A i \in DOMAIN regs : regs'[i] = regs[i]
  BY <1>1
<1>3. \A s \in Conns : Waiting(s)' <=> Waiting(s) \/ s = c
  BY <1>2 DEF Waiting
<1>4. ~Waiting(c) /\ c # active /\ ~signal[c]
  BY <1>1 DEF SeatInv, NewIsApart
<1>5. SeatTypes' /\ NewIsApart' /\ WaitingIsApart' /\ OneServed'
  BY <1>1, <1>2, <1>3, <1>4
  DEF SeatInv, SeatTypes, NewIsApart, WaitingIsApart, OneServed, Serving
<1>6. RegisteredOnce'
  BY <1>2, <1>4 DEF SeatInv, RegisteredOnce, Waiting
<1> QED BY <1>5, <1>6 DEF SeatInv

(* A task that leaves its loop or ends is served no more. *)
LEMMA TaskKeeps ==
  ASSUME SeatInv, NEW c \in Conns, Obey(c) \/ Leave(c) \/ End(c)
  PROVE  SeatInv'
<1>1. /\ conn[c] # "new"
      /\ \/ conn' = [conn EXCEPT ![c] = "closing"]
         \/ conn' = [conn EXCEPT ![c] = "gone"]
      /\ UNCHANGED <<regs, active, signal>>
  BY DEF Obey, Leave, End, Stop, Serving, hubVars
<1> QED
  BY <1>1 DEF SeatInv, SeatTypes, NewIsApart, WaitingIsApart, RegisteredOnce, OneServed,
              Serving, Waiting

(* The handlers that move the seat only by emitting or closing. *)
LEMMA HubKeeps == ASSUME SeatInv, ClosedIsGone, HubLoop \/ PollToken PROVE SeatInv'
<1> USE DEF hubVars, hostVars
<1>1. CASE HubTell \/ OnSnapshot
  BY <1>1, SameKeeps DEF HubTell, OnSnapshot, seats
<1>2. CASE OnRegistration
  BY <1>2, RegistrationKeeps
<1>3. CASE OnClosed
  <2>1. /\ UNCHANGED <<regs, conn, signal>>
        /\ active' = active \/ (active' = NoConn /\ conn[active] = "gone")
    BY <1>3 DEF OnClosed, ClosedIsGone
  <2> QED
    BY <2>1, ConnAssumption
    DEF SeatInv, SeatTypes, NewIsApart, WaitingIsApart, RegisteredOnce, OneServed, Serving, Waiting
<1>4. CASE OnCommand
  BY <1>4, EmitSeats, SameKeeps, UnseatedKeeps DEF OnCommand, seats, SeatInv
<1>5. CASE OnBadFrame
  BY <1>5, EmitSeats, SameKeeps, UnseatedKeeps DEF OnBadFrame, seats, SeatInv
<1>6. CASE OnDelta
  BY <1>6, EmitSeats, SameKeeps, UnseatedKeeps DEF OnDelta, seats, SeatInv
<1>7. CASE OnResult
  BY <1>7, EmitSeats, SameKeeps, UnseatedKeeps DEF OnResult, seats, SeatInv
<1>8. CASE FlushAll
  BY <1>8, EmitSeats, SameKeeps, UnseatedKeeps DEF FlushAll, seats, SeatInv
<1>9. CASE OnRotated \/ PollToken
  BY <1>9, UnseatedKeeps DEF OnRotated, PollToken, CloseActive, Unseated
<1> QED BY <1>1, <1>2, <1>3, <1>4, <1>5, <1>6, <1>7, <1>8, <1>9 DEF HubLoop

LEMMA ClosedKeeps == ASSUME SeatTypes, ClosedIsGone, [Next]_vars PROVE ClosedIsGone'
<1> USE DEF hubVars, hostVars, clientVars, budgets
<1>1. CASE UNCHANGED <<inbound, conn>>
  BY <1>1 DEF ClosedIsGone
<1>2. ASSUME inbound # <<>>, inbound' = Tail(inbound), conn' = conn PROVE ClosedIsGone'
  <2>1. /\ inbound' \in Seq(Messages)
        /\ \A i \in DOMAIN inbound' : inbound'[i] = inbound[i + 1] /\ i + 1 \in DOMAIN inbound
    BY <1>2 DEF ClosedIsGone
  <2> QED BY <2>1, <1>2 DEF ClosedIsGone
<1>3. ASSUME NEW m \in Messages, inbound' = Append(inbound, m),
             m.type = "closed" => conn'[m.conn] = "gone",
             \A c \in Conns : conn[c] = "gone" => conn'[c] = "gone"
      PROVE  ClosedIsGone'
  <2>1. /\ inbound' \in Seq(Messages)
        /\ \A i \in DOMAIN inbound' : (i \in DOMAIN inbound /\ inbound'[i] = inbound[i]) \/ inbound'[i] = m
    BY <1>3 DEF ClosedIsGone
  <2>2. \A i \in DOMAIN inbound : inbound[i] \in Messages
    BY DEF ClosedIsGone
  <2>3. \A x \in Messages : x.conn \in Conns
    BY DEF Messages
  <2> QED BY <2>1, <2>2, <2>3, <1>3 DEF ClosedIsGone
<1>4. CASE \E c \in Conns : End(c)
  <2> PICK c \in Conns : End(c)
    BY <1>4
  <2>1. /\ inbound' = Append(inbound, [type |-> "closed", conn |-> c])
        /\ conn' = [conn EXCEPT ![c] = "gone"]
        /\ [type |-> "closed", conn |-> c] \in Messages
    BY DEF End, Messages
  <2> QED BY <2>1, <1>3 DEF SeatTypes
<1>5. CASE \E c \in Conns : Obey(c) \/ Leave(c) \/ Connect(c)
  <2> PICK c \in Conns : Obey(c) \/ Leave(c) \/ Connect(c)
    BY <1>5
  <2>1. /\ inbound' = inbound /\ conn[c] # "gone"
        /\ \A d \in Conns : conn[d] = "gone" => conn'[d] = "gone"
    BY DEF Obey, Leave, Connect, Stop, Serving, SeatTypes
  <2>2. \A i \in DOMAIN inbound : inbound[i].conn \in Conns
    BY DEF ClosedIsGone, Messages
  <2> QED BY <2>1, <2>2 DEF ClosedIsGone
<1>6. CASE \E c \in Conns : \/ \E cmd \in Cmds : Ask(c, [type |-> "command", conn |-> c, cmd |-> cmd])
                          \/ Ask(c, [type |-> "bad", conn |-> c])
  <2>a. \A c \in Conns, cmd \in Cmds : [type |-> "command", conn |-> c, cmd |-> cmd] \in Messages
    BY DEF Messages
  <2>b. \A c \in Conns : [type |-> "bad", conn |-> c] \in Messages
    BY DEF Messages
  <2> HIDE DEF Messages
  <2> PICK c \in Conns, m \in Messages : Ask(c, m) /\ m.type # "closed"
    BY <1>6, <2>a, <2>b
  <2>1. inbound' = Append(inbound, m) /\ conn' = conn
    BY DEF Ask
  <2> QED BY <2>1, <1>3
<1>7. CASE OnClosed \/ OnCommand \/ OnBadFrame
  BY <1>7, <1>2 DEF OnClosed, OnCommand, OnBadFrame
<1>8. CASE UNCHANGED vars \/ HostLoop \/ HostRotate \/ PollToken
  BY <1>8, <1>1 DEF vars, HostLoop, HostTick, HostReceive, PumpFrame, PumpSnapshot, HostRotate, PollToken
<1>9. CASE \E v \in Convs, kinds \in {<<"chunk">>, <<"event">>, <<"event", "event">>} : HostStep(v, kinds)
  BY <1>9, <1>1 DEF HostStep
<1>10. CASE HubTell \/ OnRegistration \/ OnDelta \/ OnResult \/ OnSnapshot \/ OnRotated \/ FlushAll
  BY <1>10, <1>1 DEF HubTell, OnRegistration, OnDelta, OnResult, OnSnapshot, OnRotated, FlushAll
<1>11. CASE \E c \in Conns : Deliver(c)
  BY <1>11, <1>1 DEF Deliver
<1> HIDE DEF hubVars, hostVars, clientVars, budgets
<1> QED
  BY <1>4, <1>5, <1>6, <1>7, <1>8, <1>9, <1>10, <1>11 DEF Next, HubLoop, ConnLoop

LEMMA SeatKeeps == ASSUME SeatInv, ClosedIsGone, [Next]_vars PROVE SeatInv'
<1> USE DEF hubVars, hostVars
<1>1. CASE HubLoop \/ PollToken
  BY <1>1, HubKeeps
<1>2. CASE \E c \in Conns : Connect(c)
  BY <1>2, ConnectKeeps
<1>3. CASE \E c \in Conns : Obey(c) \/ Leave(c) \/ End(c)
  BY <1>3, TaskKeeps
<1>4. CASE UNCHANGED seats
  BY <1>4, SameKeeps
<1> QED
  BY <1>1, <1>2, <1>3, <1>4
  DEF Next, vars, seats, HostLoop, ConnLoop, HostStep, HostTick, HostReceive, PumpFrame,
      PumpSnapshot, HostRotate, Deliver, Ask

(* Newest wins: whatever sockets come and go, the one that is open and was not
   asked to close is the active one or waits to be. *)
THEOREM NewestServed == Spec => []OneServed
<1>1. Init => SeatInv /\ ClosedIsGone
  BY ConnAssumption
  DEF Init, SeatInv, SeatTypes, NewIsApart, WaitingIsApart, RegisteredOnce, OneServed,
      Serving, Waiting, ClosedIsGone
<1>2. SeatInv /\ ClosedIsGone /\ [Next]_vars => (SeatInv /\ ClosedIsGone)'
  BY SeatKeeps, ClosedKeeps DEF SeatInv
<1>3. SeatInv /\ ClosedIsGone => OneServed
  BY DEF SeatInv
<1> QED BY <1>1, <1>2, <1>3, PTL DEF Spec

-----------------------------------------------------------------------------
(* What every queue may hold. *)
Run == [type : {"delta"}, conv : Convs, ns : Seq(1..MaxSteps)]
OneStep == {f \in Run : Len(f.ns) = 1}
Snap == [type : {"snapshot"}, at : [Convs -> 0..MaxSteps]]
Answer == [type : {"result", "refusal"}, cmd : Cmds]
Word == [type : {"hello", "error", "rotated", "connected", "disconnected", "snapshotNeeded"}]
Order == [type : {"command"}, cmd : Cmds]

HostTypes ==
  /\ made \in [Convs -> Seq(Kinds)] /\ \A v \in Convs : Len(made[v]) <= MaxSteps
  /\ todo \in Seq(OneStep \cup Answer)
  /\ pumping \in BOOLEAN /\ dirty \in BOOLEAN /\ hostClient \in BOOLEAN
  /\ ran \in [Cmds -> Nat]

QueueTypes ==
  /\ input \in Seq(OneStep \cup Answer \cup Snap \cup Word) /\ Len(input) <= InCap
  /\ output \in Seq(Order \cup Word) /\ Len(output) <= HostCap
  /\ telling \in Seq(Order \cup Word)

HubTypes ==
  /\ bufs \in Seq(Run) /\ pendingSnap \in Snap \cup {NoSnap}
  /\ recentCmds \in Seq(Cmds) /\ Len(recentCmds) <= RecentCap

ClientTypes ==
  /\ outbound \in [Conns -> Seq(Run \cup Snap \cup Answer \cup Word)]
  /\ \A c \in Conns : Len(outbound[c]) <= OutCap
  /\ got \in [Conns -> [Convs -> SUBSET (1..MaxSteps)]]
  /\ answers \in [Cmds -> Nat]

BoundTypes ==
  /\ Len(inbound) <= InboundCap /\ Len(regs) <= RegCap
  /\ asks \in 0..MaxAsks /\ rotations \in 0..MaxRotations

HubInv == SeatInv /\ ClosedIsGone /\ HostTypes /\ QueueTypes /\ HubTypes /\ ClientTypes /\ BoundTypes

(* Queues, once for all of them. *)
LEMMA PopFront ==
  ASSUME NEW S, NEW q \in Seq(S), q # <<>>
  PROVE  /\ Head(q) \in S /\ Tail(q) \in Seq(S)
         /\ Len(q) \in Nat \ {0} /\ Len(Tail(q)) = Len(q) - 1
         /\ \A i \in DOMAIN Tail(q) : Tail(q)[i] = q[i + 1] /\ i + 1 \in DOMAIN q
         /\ \A i \in DOMAIN q : i = 1 \/ (i - 1 \in DOMAIN Tail(q) /\ q[i] = Tail(q)[i - 1])
         /\ Head(q) = q[1] /\ 1 \in DOMAIN q
OBVIOUS

LEMMA PushBack ==
  ASSUME NEW S, NEW q \in Seq(S), NEW x \in S
  PROVE  /\ Append(q, x) \in Seq(S) /\ Len(Append(q, x)) = Len(q) + 1
         /\ DOMAIN Append(q, x) = DOMAIN q \cup {Len(q) + 1}
         /\ Append(q, x)[Len(q) + 1] = x
         /\ \A i \in DOMAIN q : Append(q, x)[i] = q[i]
OBVIOUS

LEMMA Joined ==
  ASSUME NEW S, NEW p \in Seq(S), NEW q \in Seq(S)
  PROVE  /\ p \o q \in Seq(S) /\ Len(p \o q) = Len(p) + Len(q)
         /\ \A i \in DOMAIN p : i \in DOMAIN (p \o q) /\ (p \o q)[i] = p[i]
         /\ \A i \in DOMAIN q : Len(p) + i \in DOMAIN (p \o q) /\ (p \o q)[Len(p) + i] = q[i]
         /\ \A i \in DOMAIN (p \o q) : \/ i \in DOMAIN p /\ (p \o q)[i] = p[i]
                                       \/ i - Len(p) \in DOMAIN q /\ (p \o q)[i] = q[i - Len(p)]
OBVIOUS

LEMMA Ranged ==
  ASSUME NEW S, NEW q \in Seq(S)
  PROVE  {q[i] : i \in DOMAIN q} \subseteq S
OBVIOUS

LEMMA FirstOf ==
  ASSUME NEW S, NEW q \in Seq(S), NEW n \in 0..Len(q)
  PROVE  /\ SubSeq(q, 1, n) \in Seq(S) /\ Len(SubSeq(q, 1, n)) = n
         /\ \A i \in 1..n : SubSeq(q, 1, n)[i] = q[i]
OBVIOUS

(* The room a conversation has left in the bound on steps. *)
LEMMA PairsOf ==
  ASSUME NEW u, NEW n \in Nat
  PROVE  IsFiniteSet({<<u, k>> : k \in 1..n}) /\ Cardinality({<<u, k>> : k \in 1..n}) = n
<1> DEFINE T == {<<u, k>> : k \in 1..n}
           f == [k \in 1..n |-> <<u, k>>]
<1>1. /\ \A k \in 1..n : f[k] \in T /\ f[k] = <<u, k>>
      /\ \A t \in T : \E k \in 1..n : f[k] = t
      /\ f \in [1..n -> T]
  OBVIOUS
<1>2. f \in Injection(1..n, T) /\ f \in Surjection(1..n, T)
  BY <1>1 DEF Injection, IsInjective, Surjection
<1>3. IsFiniteSet(1..n) /\ Cardinality(1..n) = n
  <2>1. /\ 1 \in Int /\ n \in Int /\ IsFiniteSet(1..n)
        /\ Cardinality(1..n) = IF 1 > n THEN 0 ELSE n - 1 + 1
    BY FS_Interval
  <2> QED BY <2>1
<1> HIDE DEF f, T
<1>4. IsFiniteSet(T) /\ Cardinality(T) = n
  BY <1>2, <1>3, FS_Surjection
<1> QED BY <1>4 DEF T

LEMMA ImageOf ==
  ASSUME NEW S, IsFiniteSet(S), NEW g
  PROVE  IsFiniteSet({g[x] : x \in S})
<1> DEFINE T == {g[x] : x \in S}
           f == [x \in S |-> g[x]]
<1>1. f \in Surjection(S, T)
  BY DEF Surjection
<1> HIDE DEF f
<1> QED BY <1>1, FS_Surjection

LEMMA StepRoom ==
  ASSUME HostTypes, NEW v \in Convs, NEW n \in Nat,
         Cardinality(UNION {{<<u, k>> : k \in Steps(u)} : u \in Convs}) + n <= MaxSteps
  PROVE  Len(made[v]) + n <= MaxSteps
<1> DEFINE g == [u \in Convs |-> {<<u, k>> : k \in 1..Len(made[u])}]
           All == UNION {g[u] : u \in Convs}
<1>1. \A u \in Convs : IsFiniteSet(g[u]) /\ Cardinality(g[u]) = Len(made[u])
  <2> SUFFICES ASSUME NEW u \in Convs
               PROVE  IsFiniteSet(g[u]) /\ Cardinality(g[u]) = Len(made[u])
    OBVIOUS
  <2>1. g[u] = {<<u, k>> : k \in 1..Len(made[u])} /\ Len(made[u]) \in Nat
    BY DEF HostTypes
  <2> QED BY <2>1, PairsOf
<1>2. All = UNION {{<<u, k>> : k \in Steps(u)} : u \in Convs}
  BY DEF Steps
<1> HIDE DEF g
<1>3. IsFiniteSet(All)
  BY <1>1, ImageOf, FS_UNION, HubAssumption
<1>4. g[v] \in SUBSET All
  OBVIOUS
<1>5. Cardinality(g[v]) <= Cardinality(All) /\ Cardinality(All) \in Nat
  BY <1>3, <1>4, FS_Subset, FS_CardinalityType
<1>6. Cardinality(All) + n <= MaxSteps
  BY <1>2
<1>7. MaxSteps \in Nat /\ Len(made[v]) \in Nat
  BY HubAssumption DEF HostTypes
<1> HIDE DEF All
<1> QED BY <1>1, <1>5, <1>6, <1>7

LEMMA HostTypesKept ==
  ASSUME HostTypes, QueueTypes, [Next]_vars
  PROVE  HostTypes'
<1>1. CASE UNCHANGED hostVars
  BY <1>1 DEF HostTypes, hostVars
<1>2. ASSUME NEW v \in Convs, NEW kinds \in {<<"chunk">>, <<"event">>, <<"event", "event">>},
             HostStep(v, kinds)
      PROVE  HostTypes'
  <2>1. kinds \in Seq(Kinds) /\ Len(kinds) \in {1, 2}
    <3>1. {"chunk", "event"} = Kinds
      BY DEF Kinds
    <3>2. CASE kinds = <<"chunk">>
      BY <3>1, <3>2
    <3>3. CASE kinds = <<"event">>
      BY <3>1, <3>3
    <3>4. CASE kinds = <<"event", "event">>
      BY <3>1, <3>4
    <3> QED BY <1>2, <3>2, <3>3, <3>4
  <2>2. Len(made[v]) + Len(kinds) <= MaxSteps
    BY <1>2, <2>1, StepRoom DEF HostStep
  <2>3. /\ made[v] \in Seq(Kinds) /\ made' = [made EXCEPT ![v] = @ \o kinds]
        /\ todo' = [i \in 1..Len(kinds) |-> Delta(v, <<Len(made[v]) + i>>)]
        /\ pumping' = TRUE /\ UNCHANGED <<dirty, hostClient, ran>>
    BY <1>2 DEF HostStep, HostTypes
  <2>4. /\ made[v] \o kinds \in Seq(Kinds)
        /\ Len(made[v] \o kinds) = Len(made[v]) + Len(kinds)
    BY <2>1, <2>3, Joined
  <2>5. made' \in [Convs -> Seq(Kinds)] /\ \A u \in Convs : Len(made'[u]) <= MaxSteps
    BY <2>2, <2>3, <2>4 DEF HostTypes
  <2>6. ASSUME NEW i \in 1..Len(kinds) PROVE Delta(v, <<Len(made[v]) + i>>) \in OneStep
    <3>1. Len(made[v]) + i \in 1..MaxSteps
      BY <2>1, <2>2, <2>3, HubAssumption, SMTT(30)
    <3>2. <<Len(made[v]) + i>> \in Seq(1..MaxSteps) /\ Len(<<Len(made[v]) + i>>) = 1
      BY <3>1
    <3> QED BY <3>2 DEF Delta, OneStep, Run
  <2>7. todo' \in Seq(OneStep \cup Answer)
    <3>1. Len(kinds) \in Nat
      BY <2>1
    <3> QED BY <2>3, <2>6, <3>1
  <2> QED BY <2>3, <2>5, <2>7 DEF HostTypes
<1>3. CASE HostTick
  BY <1>3 DEF HostTick, HostTypes
<1>4. CASE HostReceive
  <2>1. Head(output) \in Order \cup Word
    BY <1>4, PopFront DEF HostReceive, QueueTypes
  <2>2. CASE Head(output).type = "command"
    <3>1. Head(output).cmd \in Cmds
      BY <2>1, <2>2 DEF Order, Word
    <3>2. Result(Head(output).cmd) \in Answer
      BY <3>1 DEF Result, Answer
    <3>3. /\ ran' = [ran EXCEPT ![Head(output).cmd] = @ + 1]
          /\ todo' = <<Result(Head(output).cmd)>> /\ dirty' \in BOOLEAN
          /\ pumping' = TRUE /\ UNCHANGED <<made, hostClient>>
      BY <1>4, <2>2 DEF HostReceive, HostTypes
    <3>4. todo' \in Seq(OneStep \cup Answer)
      BY <3>2, <3>3
    <3>5. ran' \in [Cmds -> Nat]
      BY <3>1, <3>3 DEF HostTypes
    <3> QED BY <3>3, <3>4, <3>5 DEF HostTypes
  <2>3. CASE Head(output).type # "command"
    BY <1>4, <2>3 DEF HostReceive, HostTypes
  <2> QED BY <2>2, <2>3
<1>5. CASE PumpFrame
  <2>1. todo # <<>> /\ todo' \in {Tail(todo), <<>>} /\ dirty' \in {dirty, TRUE}
        /\ UNCHANGED <<made, pumping, hostClient, ran>>
    BY <1>5 DEF PumpFrame
  <2>2. todo' \in Seq(OneStep \cup Answer)
    <3>1. todo \in Seq(OneStep \cup Answer)
      BY DEF HostTypes
    <3>2. Tail(todo) \in Seq(OneStep \cup Answer)
      BY <2>1, <3>1, PopFront
    <3>3. <<>> \in Seq(OneStep \cup Answer)
      OBVIOUS
    <3>4. CASE todo' = <<>>
      BY <3>3, <3>4
    <3>5. CASE todo' = Tail(todo)
      BY <3>2, <3>5
    <3> QED BY <2>1, <3>4, <3>5
  <2> QED BY <2>1, <2>2 DEF HostTypes
<1>6. CASE PumpSnapshot
  BY <1>6 DEF PumpSnapshot, HostTypes
<1>7. CASE HubLoop \/ HostRotate \/ PollToken
  BY <1>7, <1>1
  DEF HubLoop, HubTell, OnRegistration, OnClosed, OnCommand, OnBadFrame, OnDelta, OnResult,
      OnSnapshot, OnRotated, FlushAll, HostRotate, PollToken
<1>8. ASSUME NEW c \in Conns,
             \/ Connect(c) \/ Leave(c) \/ ConnLoop(c)
             \/ \E cmd \in Cmds : Ask(c, [type |-> "command", conn |-> c, cmd |-> cmd])
             \/ Ask(c, [type |-> "bad", conn |-> c])
      PROVE  HostTypes'
  BY <1>8, <1>1 DEF Connect, Leave, ConnLoop, Deliver, Obey, End, Stop, Ask
<1>9. CASE UNCHANGED vars
  BY <1>9, <1>1 DEF vars
<1> QED BY <1>2, <1>3, <1>4, <1>5, <1>6, <1>7, <1>8, <1>9 DEF Next, HostLoop

(* emit puts on a socket's queue what fits, and tells the host when not all did. *)
LEMMA EmitTypes ==
  ASSUME SeatTypes, QueueTypes, ClientTypes,
         NEW frames \in Seq(Run \cup Snap \cup Answer \cup Word), Emit(frames)
  PROVE  /\ outbound' \in [Conns -> Seq(Run \cup Snap \cup Answer \cup Word)]
         /\ \A c \in Conns : Len(outbound'[c]) <= OutCap
         /\ output' \in Seq(Order \cup Word) /\ Len(output') <= HostCap
<1>1. CASE active = NoConn
  BY <1>1 DEF Emit, QueueTypes, ClientTypes
<1>2. CASE active # NoConn
  <2> DEFINE room == IF conn[active] = "gone" THEN 0 ELSE OutCap - Len(outbound[active])
             n == IF Len(frames) <= room THEN Len(frames) ELSE room
             F == Run \cup Snap \cup Answer \cup Word
             sent == SubSeq(frames, 1, n)
  <2>1. /\ active \in Conns /\ outbound[active] \in Seq(F) /\ Len(outbound[active]) <= OutCap
        /\ OutCap \in Nat
    BY <1>2, HubAssumption DEF SeatTypes, ClientTypes
  <2>2. /\ outbound' = [outbound EXCEPT ![active] = @ \o sent]
        /\ output' = output \/ (Len(output) < HostCap /\ output' = Append(output, Control("disconnected")))
    <3>1. /\ n = (IF Len(frames) <= room THEN Len(frames) ELSE room)
          /\ Len(output) \in Nat /\ HostCap \in Nat
      BY HubAssumption DEF QueueTypes
    <3>2. outbound' = [outbound EXCEPT ![active] = @ \o sent]
      BY <1>2, <3>1 DEF Emit
    <3>3. output' = output \/ (Len(output) < HostCap /\ output' = Append(output, Control("disconnected")))
      BY <1>2, <3>1 DEF Emit
    <3> QED BY <3>2, <3>3
  <2> HIDE DEF F
  <2>3. /\ room \in Nat /\ Len(outbound[active]) + room <= OutCap
        /\ n \in 0..Len(frames) /\ n <= room
    <3>1. Len(frames) \in Nat /\ Len(outbound[active]) \in Nat
      BY <2>1
    <3>2. room \in Nat /\ Len(outbound[active]) + room <= OutCap
      <4>1. CASE conn[active] = "gone"
        BY <4>1, <2>1, <3>1
      <4>2. CASE conn[active] # "gone"
        BY <4>2, <2>1, <3>1
      <4> QED BY <4>1, <4>2
    <3> QED BY <3>1, <3>2
  <2>4. sent \in Seq(F) /\ Len(sent) = n
    BY <2>3, FirstOf DEF F
  <2> HIDE DEF room, n, sent
  <2>5. outbound[active] \o sent \in Seq(F) /\ Len(outbound[active] \o sent) <= OutCap
    BY <2>1, <2>3, <2>4, Joined
  <2>6. outbound \in [Conns -> Seq(F)] /\ \A c \in Conns : Len(outbound[c]) <= OutCap
    BY DEF ClientTypes, F
  <2>7. outbound' \in [Conns -> Seq(F)] /\ \A c \in Conns : Len(outbound'[c]) <= OutCap
    BY <2>1, <2>2, <2>5, <2>6
  <2>8. Control("disconnected") \in Order \cup Word
    BY DEF Control, Word
  <2>9. output' \in Seq(Order \cup Word) /\ Len(output') <= HostCap
    <3>1. output \in Seq(Order \cup Word) /\ Len(output) \in Nat /\ Len(output) <= HostCap /\ HostCap \in Nat
      BY HubAssumption DEF QueueTypes
    <3>2. /\ Append(output, Control("disconnected")) \in Seq(Order \cup Word)
          /\ Len(Append(output, Control("disconnected"))) = Len(output) + 1
      BY <2>8, <3>1, PushBack
    <3> QED BY <2>2, <3>1, <3>2, SMTT(30)
  <2> QED BY <2>7, <2>9 DEF F
<1> QED BY <1>1, <1>2

LEMMA PartTypes ==
  ASSUME NEW v, NEW runs \in Seq(Run)
  PROVE  RunsOf(v, runs) \in Seq(Run) /\ RunsBut(v, runs) \in Seq(Run)
<1>1. CASE ~HasRun(v, runs)
  BY <1>1 DEF RunsOf, RunsBut
<1>2. CASE HasRun(v, runs)
  <2> DEFINE i == RunOf(v, runs)
  <2>1. i \in 1..Len(runs) /\ Len(runs) \in Nat
    BY <1>2 DEF HasRun, RunOf
  <2> HIDE DEF i
  <2>2. runs[i] \in Run
    BY <2>1
  <2>3. SubSeq(runs, 1, i - 1) \in Seq(Run) /\ SubSeq(runs, i + 1, Len(runs)) \in Seq(Run)
    BY <2>1
  <2>4. RunsOf(v, runs) = <<runs[i]>>
    BY <1>2 DEF RunsOf, i
  <2>5. RunsBut(v, runs) = SubSeq(runs, 1, i - 1) \o SubSeq(runs, i + 1, Len(runs))
    BY <1>2 DEF RunsBut, i
  <2> QED BY <2>2, <2>3, <2>4, <2>5, Joined, SMTT(30)
<1> QED BY <1>1, <1>2

LEMMA BufferedTypes ==
  ASSUME HubTypes, NEW v \in Convs, NEW k \in 1..MaxSteps
  PROVE  Buffered(v, k) \in Seq(Run)
<1>1. bufs \in Seq(Run)
  BY DEF HubTypes
<1>2. CASE ~HasRun(v, bufs)
  <2>1. Delta(v, <<k>>) \in Run
    BY DEF Delta, Run
  <2> QED BY <1>1, <1>2, <2>1, PushBack DEF Buffered
<1>3. CASE HasRun(v, bufs)
  <2>1. ASSUME NEW i \in DOMAIN bufs PROVE Delta(v, Append(bufs[i].ns, k)) \in Run /\ bufs[i] \in Run
    <3>1. bufs[i] \in Run
      BY <1>1
    <3>2. Append(bufs[i].ns, k) \in Seq(1..MaxSteps)
      BY <3>1 DEF Run
    <3> QED BY <3>1, <3>2 DEF Delta, Run
  <2>2. Buffered(v, k) = [i \in 1..Len(bufs) |-> IF bufs[i].conv = v THEN Delta(v, Append(bufs[i].ns, k)) ELSE bufs[i]]
    BY <1>1, <1>3 DEF Buffered
  <2> QED BY <1>1, <2>1, <2>2
<1> QED BY <1>2, <1>3

(* The steps of the hub that emit frames, and what they do besides. *)
Emitting == OnCommand \/ OnBadFrame \/ OnDelta \/ OnResult \/ FlushAll

LEMMA Emitted ==
  ASSUME HubInv, Emitting
  PROVE  /\ \/ UNCHANGED <<active, outbound, signal, output>>
            \/ \E frames \in Seq(Run \cup Snap \cup Answer \cup Word) : Emit(frames)
            \/ /\ \E m \in Order : output' = Append(output, m)
               /\ Len(output) < HostCap /\ UNCHANGED <<active, outbound, signal>>
         /\ bufs' \in Seq(Run)
<1> DEFINE F == Run \cup Snap \cup Answer \cup Word
<1>a. /\ bufs \in Seq(Run) /\ pendingSnap \in Snap \cup {NoSnap}
      /\ input \in Seq(OneStep \cup Answer \cup Snap \cup Word)
      /\ inbound \in Seq(Messages)
      /\ \A q : q \in Seq(Run) => q \in Seq(F)
  BY DEF HubInv, HubTypes, QueueTypes, ClosedIsGone
<1>1. CASE OnCommand
  <2>1. Head(inbound) \in Messages
    BY <1>1, <1>a, PopFront DEF OnCommand
  <2> DEFINE cmd == Head(inbound).cmd
  <2>2. cmd \in Cmds
    BY <1>1, <2>1 DEF OnCommand, Messages
  <2>3. <<Refusal(cmd)>> \in Seq(F) /\ [type |-> "command", cmd |-> cmd] \in Order
    <3>1. Refusal(cmd) \in F
      BY <2>2 DEF Refusal, Answer
    <3> HIDE DEF F, cmd
    <3> QED BY <2>2, <3>1 DEF Order
  <2> QED BY <1>1, <1>a, <2>3 DEF OnCommand
<1>2. CASE OnBadFrame
  <2>1. Control("error") \in F
    BY DEF Control, Word
  <2>2. <<Control("error")>> \in Seq(F)
    <3> HIDE DEF F
    <3> QED BY <2>1
  <2> QED BY <1>2, <1>a, <2>2 DEF OnBadFrame
<1>3. CASE OnDelta
  <2> DEFINE v == Head(input).conv
             k == Head(input).ns[1]
  <2>1. Head(input) \in OneStep \cup Answer \cup Snap \cup Word /\ Head(input).type = "delta"
    BY <1>3, <1>a, PopFront DEF OnDelta
  <2>2. Head(input) \in Run /\ Len(Head(input).ns) = 1
    BY <2>1 DEF OneStep, Answer, Snap, Word
  <2>3. v \in Convs /\ k \in 1..MaxSteps
    <3>1. v \in Convs /\ Head(input).ns \in Seq(1..MaxSteps)
      BY <2>2 DEF Run
    <3>2. Head(input).ns # <<>>
      BY <2>2
    <3> QED BY <3>1, <3>2, PopFront
  <2>4. Head(input) \in F
    BY <2>2
  <2> HIDE DEF v, k
  <2>5. Buffered(v, k) \in Seq(Run)
    BY <2>3, BufferedTypes DEF HubInv
  <2>6. RunsOf(v, Buffered(v, k)) \in Seq(F) /\ RunsOf(v, bufs) \in Seq(F) /\ RunsBut(v, bufs) \in Seq(Run)
    BY <2>5, <1>a, PartTypes
  <2>7. Append(RunsOf(v, bufs), Head(input)) \in Seq(F)
    <3> HIDE DEF F
    <3> QED BY <2>4, <2>6, PushBack
  <2> QED BY <1>3, <2>5, <2>6, <2>7 DEF OnDelta, v, k
<1>4. CASE OnResult
  <2>1. Head(input) \in OneStep \cup Answer \cup Snap \cup Word
    BY <1>4, <1>a, PopFront DEF OnResult
  <2>2. Head(input) \in F
    BY <2>1 DEF OneStep
  <2>3. Append(bufs, Head(input)) \in Seq(F)
    <3>1. bufs \in Seq(F)
      BY <1>a
    <3> HIDE DEF F
    <3> QED BY <3>1, <2>2, PushBack
  <2>4. <<>> \in Seq(Run) /\ bufs' = <<>> /\ Emit(Append(bufs, Head(input)))
    BY <1>4 DEF OnResult
  <2> HIDE DEF F
  <2>5. \E frames \in Seq(F) : Emit(frames)
    BY <2>3, <2>4
  <2> QED BY <2>4, <2>5 DEF F
<1>5. CASE FlushAll
  <2> DEFINE last == IF pendingSnap = NoSnap THEN <<>> ELSE <<pendingSnap>>
  <2>1. last \in Seq(F)
    <3>1. pendingSnap \in F \cup {NoSnap}
      BY <1>a
    <3> HIDE DEF F
    <3> QED BY <3>1
  <2>2. bufs \o last \in Seq(F)
    <3>1. bufs \in Seq(F)
      BY <1>a
    <3> HIDE DEF F, last
    <3> QED BY <3>1, <2>1, Joined
  <2>3. <<>> \in Seq(Run) /\ bufs' = <<>> /\ Emit(bufs \o last)
    BY <1>5 DEF FlushAll
  <2> HIDE DEF F, last
  <2>4. \E frames \in Seq(F) : Emit(frames)
    BY <2>2, <2>3
  <2> QED BY <2>3, <2>4 DEF F
<1> QED BY <1>1, <1>2, <1>3, <1>4, <1>5 DEF Emitting

(* The steps that leave the hub's channels and memory alone. *)
LEMMA QueueTypesKept ==
  ASSUME HubInv, [Next]_vars
  PROVE  QueueTypes'
<1> USE DEF hostVars, hubVars
<1>a. /\ output \in Seq(Order \cup Word) /\ telling \in Seq(Order \cup Word)
      /\ input \in Seq(OneStep \cup Answer \cup Snap \cup Word)
      /\ Len(input) <= InCap /\ Len(output) <= HostCap /\ InCap \in Nat /\ HostCap \in Nat
  BY HubAssumption DEF HubInv, QueueTypes
<1>b. /\ Control("rotated") \in Word /\ Control("disconnected") \in Word
      /\ Control("connected") \in Word /\ Control("snapshotNeeded") \in Word
  BY DEF Control, Word
<1>c. ASSUME UNCHANGED input, output' \in Seq(Order \cup Word), Len(output') <= HostCap,
             telling' \in Seq(Order \cup Word)
      PROVE  QueueTypes'
  BY <1>a, <1>c DEF QueueTypes
<1>d. ASSUME UNCHANGED <<output, telling>>, input' \in Seq(OneStep \cup Answer \cup Snap \cup Word),
             Len(input') <= InCap
      PROVE  QueueTypes'
  BY <1>a, <1>d DEF QueueTypes
<1>e. ASSUME UNCHANGED <<output, telling>>, Len(input) < InCap,
             NEW f \in OneStep \cup Answer \cup Snap \cup Word, input' = Append(input, f)
      PROVE  QueueTypes'
  BY <1>a, <1>d, <1>e, PushBack
<1>f. ASSUME input # <<>>
      PROVE  Tail(input) \in Seq(OneStep \cup Answer \cup Snap \cup Word) /\ Len(Tail(input)) <= InCap
  BY <1>a, <1>f, PopFront
<1>1. CASE UNCHANGED <<input, output, telling>>
  BY <1>1, <1>a, <1>d
<1>2. CASE HostReceive
  <2>1. /\ Tail(output) \in Seq(Order \cup Word) /\ Len(Tail(output)) <= HostCap
    BY <1>2, <1>a, PopFront DEF HostReceive
  <2> QED BY <1>2, <2>1, <1>a, <1>c DEF HostReceive
<1>3. CASE PumpFrame
  <2>1. todo # <<>> /\ todo \in Seq(OneStep \cup Answer)
    BY <1>3 DEF PumpFrame, HubInv, HostTypes
  <2>2. Head(todo) \in OneStep \cup Answer \cup Snap \cup Word
    BY <2>1, PopFront
  <2> QED BY <1>3, <2>2, <1>1, <1>e DEF PumpFrame
<1>4. CASE PumpSnapshot
  <2>1. Snapshot([v \in Convs |-> Len(made[v])]) \in Snap
    <3>1. \A v \in Convs : Len(made[v]) \in 0..MaxSteps
      BY HubAssumption DEF HubInv, HostTypes
    <3> QED BY <3>1 DEF Snap, Snapshot
  <2> QED BY <1>4, <2>1, <1>1, <1>e DEF PumpSnapshot
<1>5. CASE HostRotate
  BY <1>5, <1>b, <1>e DEF HostRotate
<1>6. CASE HubTell
  <2>1. /\ Head(telling) \in Order \cup Word /\ Tail(telling) \in Seq(Order \cup Word)
        /\ output' = Append(output, Head(telling)) /\ telling' = Tail(telling)
        /\ Len(output) < HostCap /\ UNCHANGED input
    BY <1>6, <1>a, PopFront DEF HubTell
  <2>2. Append(output, Head(telling)) \in Seq(Order \cup Word) /\ Len(Append(output, Head(telling))) <= HostCap
    BY <1>a, <2>1, PushBack
  <2> QED BY <2>1, <2>2, <1>c
<1>7. CASE OnRegistration
  <2> DEFINE one(b) == IF b THEN <<Control("disconnected")>> ELSE <<>>
             rest == <<Control("connected"), Control("snapshotNeeded")>>
  <2>1. \E b \in BOOLEAN, d \in BOOLEAN : telling' = one(b) \o one(d) \o rest
    BY <1>7 DEF OnRegistration
  <2>2. PICK b \in BOOLEAN, d \in BOOLEAN : telling' = one(b) \o one(d) \o rest
    BY <2>1
  <2>3. \A e \in BOOLEAN : one(e) \in Seq(Order \cup Word)
    <3>1. <<Control("disconnected")>> \in Seq(Order \cup Word) /\ <<>> \in Seq(Order \cup Word)
      BY <1>b
    <3> QED BY <3>1, Zenon
  <2>4. rest \in Seq(Order \cup Word)
    BY <1>b
  <2> HIDE DEF one, rest
  <2>5. telling' \in Seq(Order \cup Word)
    BY <2>2, <2>3, <2>4, Joined
  <2> QED BY <1>7, <2>5, <1>a, <1>c DEF OnRegistration
<1>8. CASE OnClosed
  <2>1. telling' \in {telling, <<Control("disconnected")>>} /\ UNCHANGED <<input, output>>
    BY <1>8 DEF OnClosed
  <2>2. <<Control("disconnected")>> \in Seq(Order \cup Word)
    BY <1>b
  <2> QED BY <1>a, <2>1, <2>2, <1>c
<1>9. CASE OnRotated \/ PollToken
  <2>1. /\ telling' \in {<<>>, <<Control("disconnected")>>} /\ UNCHANGED output
        /\ input' = input \/ (input # <<>> /\ input' = Tail(input))
    BY <1>9 DEF OnRotated, PollToken, CloseActive
  <2>2. <<Control("disconnected")>> \in Seq(Order \cup Word) /\ <<>> \in Seq(Order \cup Word)
    BY <1>b
  <2> QED BY <1>a, <2>1, <2>2, <1>f DEF QueueTypes
<1>10. CASE Emitting
  <2>1. /\ UNCHANGED telling
        /\ input' = input \/ (input # <<>> /\ input' = Tail(input))
    BY <1>10 DEF Emitting, OnCommand, OnBadFrame, OnDelta, OnResult, FlushAll
  <2>2. output' \in Seq(Order \cup Word) /\ Len(output') <= HostCap
    <3>1. ASSUME NEW m \in Order, output' = Append(output, m), Len(output) < HostCap
          PROVE  output' \in Seq(Order \cup Word) /\ Len(output') <= HostCap
      <4>1. m \in Order \cup Word
        OBVIOUS
      <4> QED BY <1>a, <3>1, <4>1, PushBack
    <3>2. ASSUME NEW frames \in Seq(Run \cup Snap \cup Answer \cup Word), Emit(frames)
          PROVE  output' \in Seq(Order \cup Word) /\ Len(output') <= HostCap
      BY <3>2, EmitTypes DEF HubInv, SeatInv
    <3> QED BY <1>10, Emitted, <3>1, <3>2, <1>a
  <2> QED BY <2>1, <2>2, <1>a, <1>f DEF QueueTypes
<1>11. CASE OnSnapshot
  BY <1>11, <1>f, <1>d DEF OnSnapshot
<1>12. ASSUME NEW v \in Convs, NEW kinds, HostStep(v, kinds) PROVE QueueTypes'
  BY <1>12, <1>1 DEF HostStep
<1>13. CASE HostTick \/ UNCHANGED vars
  BY <1>13, <1>1 DEF HostTick, vars
<1>14. ASSUME NEW c \in Conns,
              \/ Connect(c) \/ Leave(c) \/ ConnLoop(c)
              \/ \E cmd \in Cmds : Ask(c, [type |-> "command", conn |-> c, cmd |-> cmd])
              \/ Ask(c, [type |-> "bad", conn |-> c])
      PROVE  QueueTypes'
  BY <1>14, <1>1 DEF Connect, Leave, ConnLoop, Deliver, Obey, End, Stop, Ask
<1> HIDE DEF hostVars, hubVars
<1> QED
  BY <1>2, <1>3, <1>4, <1>5, <1>6, <1>7, <1>8, <1>9, <1>10, <1>11, <1>12, <1>13, <1>14
  DEF Next, HostLoop, HubLoop, Emitting

LEMMA HubTypesKept ==
  ASSUME HubInv, [Next]_vars
  PROVE  HubTypes'
<1> USE DEF hostVars, hubVars
<1>1. CASE UNCHANGED <<bufs, pendingSnap, recentCmds>>
  BY <1>1 DEF HubInv, HubTypes
<1>2. CASE OnSnapshot
  <2>1. Head(input) \in OneStep \cup Answer \cup Snap \cup Word /\ Head(input).type = "snapshot"
    BY <1>2, PopFront DEF OnSnapshot, HubInv, QueueTypes
  <2>2. Head(input) \in Snap
    BY <2>1 DEF OneStep, Run, Answer, Word
  <2> QED BY <1>2, <2>2 DEF OnSnapshot, HubInv, HubTypes
<1>3. CASE OnRegistration
  BY <1>3 DEF OnRegistration, HubInv, HubTypes
<1>4. CASE OnCommand
  <2> DEFINE cmd == Head(inbound).cmd
  <2>1. cmd \in Cmds
    BY <1>4, PopFront DEF OnCommand, HubInv, ClosedIsGone, Messages
  <2>2. recentCmds' = recentCmds \/ recentCmds' = Remember(cmd)
    BY <1>4 DEF OnCommand
  <2>3. recentCmds \in Seq(Cmds) /\ Len(recentCmds) \in Nat /\ Len(recentCmds) <= RecentCap /\ RecentCap \in Nat
    BY HubAssumption DEF HubInv, HubTypes
  <2> HIDE DEF cmd
  <2>4. Appended(cmd) \in Seq(Cmds) /\ Len(Appended(cmd)) = Len(recentCmds) + 1
    BY <2>1, <2>3, PushBack DEF Appended
  <2>5. Tail(Appended(cmd)) \in Seq(Cmds) /\ Len(Tail(Appended(cmd))) = Len(recentCmds)
    BY <2>3, <2>4, PopFront
  <2>6. Remember(cmd) \in Seq(Cmds) /\ Len(Remember(cmd)) <= RecentCap
    BY <2>3, <2>4, <2>5 DEF Remember
  <2> QED BY <1>4, <2>2, <2>3, <2>6 DEF OnCommand, HubInv, HubTypes
<1>5. CASE Emitting /\ ~OnCommand
  <2>1. bufs' \in Seq(Run)
    BY <1>5, Emitted
  <2>2. pendingSnap' \in {pendingSnap, NoSnap} /\ UNCHANGED recentCmds
    BY <1>5 DEF Emitting, OnBadFrame, OnDelta, OnResult, FlushAll
  <2> QED BY <2>1, <2>2 DEF HubInv, HubTypes
<1>6. CASE HubTell \/ OnClosed \/ OnRotated \/ PollToken
  BY <1>6, <1>1 DEF HubTell, OnClosed, OnRotated, PollToken
<1>7. ASSUME NEW v \in Convs, NEW kinds, HostStep(v, kinds) PROVE HubTypes'
  BY <1>7, <1>1 DEF HostStep
<1>8. CASE HostLoop \/ HostRotate \/ UNCHANGED vars
  BY <1>8, <1>1 DEF HostLoop, HostTick, HostReceive, PumpFrame, PumpSnapshot, HostRotate, vars
<1>9. ASSUME NEW c \in Conns,
             \/ Connect(c) \/ Leave(c) \/ ConnLoop(c)
             \/ \E cmd \in Cmds : Ask(c, [type |-> "command", conn |-> c, cmd |-> cmd])
             \/ Ask(c, [type |-> "bad", conn |-> c])
      PROVE  HubTypes'
  BY <1>9, <1>1 DEF Connect, Leave, ConnLoop, Deliver, Obey, End, Stop, Ask
<1> HIDE DEF hostVars, hubVars
<1> QED
  BY <1>2, <1>3, <1>4, <1>5, <1>6, <1>7, <1>8, <1>9 DEF Next, HubLoop, Emitting

LEMMA BoundTypesKept ==
  ASSUME HubInv, [Next]_vars
  PROVE  BoundTypes'
<1> USE DEF budgets
<1>a. /\ regs \in Seq(Conns) /\ Len(regs) <= RegCap /\ inbound \in Seq(Messages) /\ Len(inbound) <= InboundCap
      /\ asks \in 0..MaxAsks /\ rotations \in 0..MaxRotations
      /\ {MaxAsks, MaxRotations, RegCap, InboundCap} \subseteq Nat
  BY HubAssumption DEF HubInv, SeatInv, SeatTypes, ClosedIsGone, BoundTypes
<1>1. CASE UNCHANGED <<inbound, regs, asks, rotations>>
  BY <1>1, <1>a DEF BoundTypes
<1>2. CASE OnRegistration
  <2>1. Len(Tail(regs)) = Len(regs) - 1 /\ Len(regs) \in Nat
    BY <1>2, <1>a, PopFront DEF OnRegistration
  <2> QED BY <1>2, <2>1, <1>a DEF OnRegistration, BoundTypes
<1>3. CASE OnClosed \/ OnCommand \/ OnBadFrame
  <2>1. Len(Tail(inbound)) = Len(inbound) - 1 /\ Len(inbound) \in Nat
    BY <1>3, <1>a, PopFront DEF OnClosed, OnCommand, OnBadFrame
  <2> QED BY <1>3, <2>1, <1>a DEF OnClosed, OnCommand, OnBadFrame, BoundTypes
<1>4. CASE HostRotate \/ PollToken
  BY <1>4, <1>a DEF HostRotate, PollToken, BoundTypes
<1>5. ASSUME NEW c \in Conns, Connect(c) PROVE BoundTypes'
  <2>1. Len(Append(regs, c)) = Len(regs) + 1 /\ Len(regs) \in Nat
    BY <1>a, PushBack
  <2> QED BY <1>5, <2>1, <1>a DEF Connect, BoundTypes
<1>6. ASSUME NEW c \in Conns, End(c) PROVE BoundTypes'
  <2>1. [type |-> "closed", conn |-> c] \in Messages
    BY DEF Messages
  <2>2. Len(Append(inbound, [type |-> "closed", conn |-> c])) = Len(inbound) + 1 /\ Len(inbound) \in Nat
    BY <2>1, <1>a, PushBack
  <2> QED BY <1>6, <2>2, <1>a DEF End, BoundTypes
<1>7. ASSUME NEW c \in Conns, NEW m \in Messages, Ask(c, m) PROVE BoundTypes'
  <2>1. Len(Append(inbound, m)) = Len(inbound) + 1 /\ Len(inbound) \in Nat
    BY <1>a, PushBack
  <2> QED BY <1>7, <2>1, <1>a DEF Ask, BoundTypes
<1>8. ASSUME NEW v \in Convs, NEW kinds, HostStep(v, kinds) PROVE BoundTypes'
  BY <1>8, <1>1 DEF HostStep
<1>9. CASE HostLoop \/ UNCHANGED vars
  BY <1>9, <1>1 DEF HostLoop, HostTick, HostReceive, PumpFrame, PumpSnapshot, vars
<1>10. CASE HubTell \/ OnDelta \/ OnResult \/ OnSnapshot \/ OnRotated \/ FlushAll
  BY <1>10, <1>1 DEF HubTell, OnDelta, OnResult, OnSnapshot, OnRotated, FlushAll
<1>11. ASSUME NEW c \in Conns, Deliver(c) \/ Obey(c) \/ Leave(c) PROVE BoundTypes'
  BY <1>11, <1>1 DEF Deliver, Obey, Leave, Stop
<1>12. ASSUME NEW c \in Conns,
              \/ \E cmd \in Cmds : Ask(c, [type |-> "command", conn |-> c, cmd |-> cmd])
              \/ Ask(c, [type |-> "bad", conn |-> c])
       PROVE  BoundTypes'
  <2>1. \A cmd \in Cmds : [type |-> "command", conn |-> c, cmd |-> cmd] \in Messages
    BY DEF Messages
  <2>2. [type |-> "bad", conn |-> c] \in Messages
    BY DEF Messages
  <2> QED BY <1>12, <2>1, <2>2, <1>7
<1> HIDE DEF budgets
<1> QED
  BY <1>2, <1>3, <1>4, <1>5, <1>6, <1>8, <1>9, <1>10, <1>11, <1>12 DEF Next, HubLoop, ConnLoop

LEMMA ClientTypesKept ==
  ASSUME HubInv, [Next]_vars
  PROVE  ClientTypes'
<1> USE DEF clientVars
<1> DEFINE F == Run \cup Snap \cup Answer \cup Word
<1>a. /\ outbound \in [Conns -> Seq(F)] /\ \A c \in Conns : Len(outbound[c]) <= OutCap
      /\ got \in [Conns -> [Convs -> SUBSET (1..MaxSteps)]] /\ answers \in [Cmds -> Nat]
      /\ OutCap \in Nat \ {0}
  BY HubAssumption DEF HubInv, ClientTypes
<1>1. CASE UNCHANGED <<outbound, got, answers>>
  BY <1>1, <1>a DEF ClientTypes
<1>2. CASE OnRegistration
  <2>1. <<Control("hello")>> \in Seq(F) /\ Len(<<Control("hello")>>) = 1
    <3>1. Control("hello") \in F
      BY DEF Control, Word
    <3> HIDE DEF F
    <3> QED BY <3>1
  <2>2. PICK c \in Conns : outbound' = outbound \/ outbound' = [outbound EXCEPT ![c] = <<Control("hello")>>]
    <3>1. Head(regs) \in Conns
      BY <1>2, PopFront DEF OnRegistration, HubInv, SeatInv, SeatTypes
    <3> QED BY <1>2, <3>1, <1>a DEF OnRegistration
  <2> HIDE DEF F
  <2>3. outbound' \in [Conns -> Seq(F)] /\ \A d \in Conns : Len(outbound'[d]) <= OutCap
    <3> DEFINE hi == <<Control("hello")>>
    <3>1. hi \in Seq(F) /\ Len(hi) <= OutCap
      BY <1>a, <2>1
    <3> HIDE DEF hi
    <3>2. CASE outbound' = outbound
      BY <1>a, <3>2
    <3>3. CASE outbound' = [outbound EXCEPT ![c] = hi]
      BY <1>a, <3>1, <3>3
    <3> QED BY <2>2, <3>2, <3>3 DEF hi
  <2>4. UNCHANGED <<got, answers>>
    BY <1>2 DEF OnRegistration
  <2> QED BY <2>3, <2>4, <1>a DEF ClientTypes, F
<1>3. CASE Emitting
  <2>1. UNCHANGED <<got, answers>>
    BY <1>3 DEF Emitting, OnCommand, OnBadFrame, OnDelta, OnResult, FlushAll
  <2>2. /\ outbound' \in [Conns -> Seq(F)]
        /\ \A c \in Conns : Len(outbound'[c]) <= OutCap
    BY <1>3, Emitted, EmitTypes, <1>a DEF HubInv, SeatInv
  <2> QED BY <2>1, <2>2, <1>a DEF ClientTypes
<1>4. ASSUME NEW c \in Conns, Deliver(c) PROVE ClientTypes'
  <2> DEFINE f == Head(outbound[c])
  <2>1. /\ f \in F /\ Tail(outbound[c]) \in Seq(F)
        /\ Len(Tail(outbound[c])) <= OutCap
    <3>1. outbound[c] # <<>> /\ outbound[c] \in Seq(F) /\ Len(outbound[c]) <= OutCap
      BY <1>4, <1>a DEF Deliver
    <3> HIDE DEF F
    <3> QED BY <3>1, <1>a, PopFront
  <2>2. outbound' \in [Conns -> Seq(F)] /\ \A d \in Conns : Len(outbound'[d]) <= OutCap
    <3>1. outbound' = [outbound EXCEPT ![c] = Tail(@)]
      BY <1>4 DEF Deliver
    <3> HIDE DEF F
    <3> QED BY <3>1, <2>1, <1>a
  <2>3. CASE f.type = "delta"
    <3>1. f \in Run
      BY <2>1, <2>3 DEF Snap, Answer, Word
    <3>2. f.conv \in Convs /\ {f.ns[i] : i \in DOMAIN f.ns} \subseteq 1..MaxSteps
      <4>1. f.conv \in Convs /\ f.ns \in Seq(1..MaxSteps)
        BY <3>1 DEF Run
      <4> HIDE DEF f
      <4> QED BY <4>1, Ranged
    <3>3. got' = [got EXCEPT ![c][f.conv] = @ \cup {f.ns[i] : i \in DOMAIN f.ns}] /\ UNCHANGED answers
      BY <1>4, <2>3 DEF Deliver
    <3> HIDE DEF f, F
    <3>4. got' \in [Conns -> [Convs -> SUBSET (1..MaxSteps)]]
      <4>1. got[c] \in [Convs -> SUBSET (1..MaxSteps)] /\ got[c][f.conv] \in SUBSET (1..MaxSteps)
        BY <1>a, <3>2
      <4>2. got[c][f.conv] \cup {f.ns[i] : i \in DOMAIN f.ns} \in SUBSET (1..MaxSteps)
        BY <4>1, <3>2
      <4> HIDE DEF f
      <4>3. [got[c] EXCEPT ![f.conv] = @ \cup {f.ns[i] : i \in DOMAIN f.ns}] \in [Convs -> SUBSET (1..MaxSteps)]
        BY <4>1, <4>2
      <4>4. got' = [got EXCEPT ![c] = [got[c] EXCEPT ![f.conv] = @ \cup {f.ns[i] : i \in DOMAIN f.ns}]]
        BY <3>3
      <4> QED BY <1>a, <4>3, <4>4
    <3> QED BY <2>2, <3>3, <3>4, <1>a DEF ClientTypes, F
  <2>4. CASE f.type = "snapshot"
    <3>1. f \in Snap
      BY <2>1, <2>4 DEF Run, Answer, Word
    <3>2. \A v \in Convs : Tells(f, v) \subseteq 1..MaxSteps
      <4>1. \A v \in Convs : f.at[v] \in 0..MaxSteps
        BY <3>1 DEF Snap
      <4> QED BY <4>1, HubAssumption DEF Tells
    <3>3. got' = [got EXCEPT ![c] = [v \in Convs |-> @[v] \cup Tells(f, v)]] /\ UNCHANGED answers
      BY <1>4, <2>4 DEF Deliver
    <3> HIDE DEF f, F
    <3>4. got' \in [Conns -> [Convs -> SUBSET (1..MaxSteps)]]
      <4>1. [v \in Convs |-> got[c][v] \cup Tells(f, v)] \in [Convs -> SUBSET (1..MaxSteps)]
        BY <1>a, <3>2
      <4>2. got' = [got EXCEPT ![c] = [v \in Convs |-> got[c][v] \cup Tells(f, v)]]
        BY <3>3
      <4> QED BY <1>a, <4>1, <4>2
    <3> QED BY <2>2, <3>3, <3>4, <1>a DEF ClientTypes, F
  <2>5. CASE f.type \in {"result", "refusal"}
    <3>1. f.cmd \in Cmds
      BY <2>1, <2>5 DEF Run, Snap, Answer, Word
    <3>2. answers' = [answers EXCEPT ![f.cmd] = @ + 1] /\ UNCHANGED got
      BY <1>4, <2>5 DEF Deliver
    <3> HIDE DEF f, F
    <3>3. answers' \in [Cmds -> Nat]
      BY <3>1, <3>2, <1>a
    <3> QED BY <2>2, <3>2, <3>3, <1>a DEF ClientTypes, F
  <2>6. CASE f.type \in {"hello", "error"}
    <3>1. UNCHANGED <<got, answers>>
      BY <1>4, <2>6 DEF Deliver
    <3> HIDE DEF f
    <3> QED BY <3>1, <2>2, <1>a DEF ClientTypes
  <2>7. f.type \in {"delta", "snapshot", "result", "refusal", "hello", "error"}
    BY <1>4 DEF Deliver
  <2> HIDE DEF f
  <2> QED BY <2>3, <2>4, <2>5, <2>6, <2>7
<1>5. ASSUME NEW c \in Conns, End(c) PROVE ClientTypes'
  <2>1. /\ outbound' = [outbound EXCEPT ![c] = <<>>]
        /\ got' = [got EXCEPT ![c] = [v \in Convs |-> {}]] /\ UNCHANGED answers
    BY <1>5 DEF End
  <2>2. <<>> \in Seq(F) /\ Len(<<>>) = 0 /\ [v \in Convs |-> {}] \in [Convs -> SUBSET (1..MaxSteps)]
    OBVIOUS
  <2> HIDE DEF F
  <2>3. outbound' \in [Conns -> Seq(F)] /\ \A d \in Conns : Len(outbound'[d]) <= OutCap
    BY <1>a, <2>1, <2>2
  <2>4. got' \in [Conns -> [Convs -> SUBSET (1..MaxSteps)]]
    BY <1>a, <2>1, <2>2
  <2> QED BY <2>1, <2>3, <2>4, <1>a DEF ClientTypes, F
<1>6. CASE HubTell \/ OnClosed \/ OnSnapshot \/ OnRotated \/ PollToken
  BY <1>6, <1>1 DEF HubTell, OnClosed, OnSnapshot, OnRotated, PollToken
<1>7. ASSUME NEW v \in Convs, NEW kinds, HostStep(v, kinds) PROVE ClientTypes'
  BY <1>7, <1>1 DEF HostStep
<1>8. CASE HostLoop \/ HostRotate \/ UNCHANGED vars
  BY <1>8, <1>1 DEF HostLoop, HostTick, HostReceive, PumpFrame, PumpSnapshot, HostRotate, vars
<1>9. ASSUME NEW c \in Conns,
             \/ Connect(c) \/ Leave(c) \/ Obey(c)
             \/ \E cmd \in Cmds : Ask(c, [type |-> "command", conn |-> c, cmd |-> cmd])
             \/ Ask(c, [type |-> "bad", conn |-> c])
      PROVE  ClientTypes'
  BY <1>9, <1>1 DEF Connect, Leave, Obey, Stop, Ask
<1> HIDE DEF clientVars
<1> QED
  BY <1>2, <1>3, <1>4, <1>5, <1>6, <1>7, <1>8, <1>9 DEF Next, HubLoop, ConnLoop, Emitting

(* The inductive invariant: the seat, and what each queue and memory holds. *)
LEMMA HubInvHolds == Spec => []HubInv
<1>1. Init => HubInv
  <2> SUFFICES ASSUME Init PROVE HubInv
    OBVIOUS
  <2> USE HubAssumption, ConnAssumption DEF Init
  <2>1. SeatInv
    BY DEF SeatInv, SeatTypes, NewIsApart, WaitingIsApart, RegisteredOnce, OneServed, Serving, Waiting
  <2>2. ClosedIsGone
    BY DEF ClosedIsGone
  <2>3. HostTypes
    <3>1. <<>> \in Seq(Kinds) /\ <<>> \in Seq(OneStep \cup Answer) /\ Len(<<>>) <= MaxSteps
      BY HubAssumption
    <3> QED BY <3>1 DEF HostTypes
  <2>4. QueueTypes
    BY DEF QueueTypes
  <2>5. HubTypes
    BY DEF HubTypes
  <2>6. ClientTypes
    BY DEF ClientTypes
  <2>7. BoundTypes
    BY DEF BoundTypes
  <2> QED BY <2>1, <2>2, <2>3, <2>4, <2>5, <2>6, <2>7 DEF HubInv
<1>2. HubInv /\ [Next]_vars => HubInv'
  BY SeatKeeps, ClosedKeeps, HostTypesKept, QueueTypesKept, HubTypesKept, ClientTypesKept, BoundTypesKept
  DEF HubInv, SeatInv
<1> QED BY <1>1, <1>2, PTL DEF Spec

(* Every queue keeps its bound and holds only what it is for. *)
THEOREM HubTyped == Spec => []TypeOK
<1>1. HubInv => TypeOK
  <2> SUFFICES ASSUME HubInv PROVE TypeOK
    OBVIOUS
  <2>1. Run \cup Snap \cup Answer \cup Word = Frame
    BY DEF Run, Snap, Answer, Word, Frame
  <2>2. OneStep \cup Answer \subseteq Frame /\ OneStep \cup Answer \cup Snap \cup Word \subseteq Frame
    BY <2>1 DEF OneStep
  <2>3. Order \cup Word \subseteq Frame \cup [type : {"command"}, cmd : Cmds]
    BY <2>1 DEF Order
  <2>4. Run \subseteq Frame /\ Snap \subseteq Frame
    BY <2>1
  <2>5. ASSUME NEW S, NEW T, S \subseteq T PROVE Seq(S) \subseteq Seq(T)
    BY <2>5
  <2>6. /\ made \in [Convs -> Seq(Kinds)] /\ todo \in Seq(Frame) /\ {pumping, dirty, hostClient} \subseteq BOOLEAN
        /\ input \in Seq(Frame) /\ Len(input) <= InCap
    BY <2>2, <2>5 DEF HubInv, HostTypes, QueueTypes
  <2>7. /\ inbound \in Seq(Messages) /\ Len(inbound) <= InboundCap /\ regs \in Seq(Conns) /\ Len(regs) <= RegCap
        /\ active \in Conns \cup {NoConn}
        /\ conn \in [Conns -> {"new", "open", "closing", "gone"}] /\ signal \in [Conns -> BOOLEAN]
        /\ asks \in 0..MaxAsks /\ rotations \in 0..MaxRotations
    BY DEF HubInv, SeatInv, SeatTypes, ClosedIsGone, BoundTypes
  <2>8. /\ {output, telling} \subseteq Seq(Frame \cup [type : {"command"}, cmd : Cmds]) /\ Len(output) <= HostCap
    BY <2>3, <2>5 DEF HubInv, QueueTypes
  <2>9. /\ bufs \in Seq(Frame) /\ pendingSnap \in Frame \cup {NoSnap}
        /\ recentCmds \in Seq(Cmds) /\ Len(recentCmds) <= RecentCap
    BY <2>4, <2>5 DEF HubInv, HubTypes
  <2>10. /\ outbound \in [Conns -> Seq(Frame)] /\ \A c \in Conns : Len(outbound[c]) <= OutCap
         /\ got \in [Conns -> [Convs -> SUBSET (1..MaxSteps)]]
         /\ {ran, answers} \subseteq [Cmds -> Nat]
    BY <2>1 DEF HubInv, ClientTypes, HostTypes
  <2> QED BY <2>6, <2>7, <2>8, <2>9, <2>10 DEF TypeOK, Messages
<1> QED BY <1>1, HubInvHolds, PTL

-----------------------------------------------------------------------------
(* What the host is told.  A queue of outputs q, handled by a host that thinks h,
   leaves it thinking that a phone is connected. *)
Leaves(q, h) ==
  \/ h = TRUE /\ \A i \in DOMAIN q : q[i].type \notin {"connected", "disconnected"}
  \/ \E i \in DOMAIN q : /\ q[i].type = "connected"
                         /\ \A j \in DOMAIN q : q[j].type = "disconnected" => j < i

LEMMA SeesMeans ==
  ASSUME hostClient \in BOOLEAN
  PROVE  HostSeesClient <=> (active # NoConn => Leaves(output \o telling, hostClient))
<1> DEFINE told == output \o telling
           Said(word) == {i \in DOMAIN told : told[i].type = word}
           Sees == IF Said("connected") \cup Said("disconnected") = {} THEN hostClient
                   ELSE \E i \in Said("connected") : \A j \in Said("disconnected") : j < i
<1>1. HostSeesClient <=> (active # NoConn => Sees)
  BY DEF HostSeesClient
<1>2. Sees <=> Leaves(told, hostClient)
  <2> HIDE DEF told
  <2>1. CASE Said("connected") \cup Said("disconnected") = {}
    BY <2>1 DEF Leaves
  <2>2. CASE Said("connected") \cup Said("disconnected") # {}
    BY <2>2 DEF Leaves
  <2> QED BY <2>1, <2>2
<1> QED BY <1>1, <1>2

LEMMA LeavesTail ==
  ASSUME NEW S, NEW q \in Seq(S), q # <<>>, NEW g, NEW h, Leaves(q, g),
         q[1].type = "connected" => h = TRUE,
         q[1].type \notin {"connected", "disconnected"} => h = g
  PROVE  Leaves(Tail(q), h)
<1>1. CASE \E i \in DOMAIN Tail(q) : Tail(q)[i].type = "connected"
  <2>1. PICK k \in DOMAIN Tail(q) : Tail(q)[k].type = "connected"
    BY <1>1
  <2>2. q[k + 1].type = "connected" /\ k + 1 \in DOMAIN q
    BY <2>1, PopFront
  <2>3. PICK i \in DOMAIN q : /\ q[i].type = "connected"
                              /\ \A j \in DOMAIN q : q[j].type = "disconnected" => j < i
    BY <2>2 DEF Leaves
  <2>4. DOMAIN q = 1..Len(q) /\ Len(q) \in Nat /\ DOMAIN Tail(q) = 1..(Len(q) - 1)
    OBVIOUS
  <2>5. CASE i = 1
    <3>1. \A j \in DOMAIN Tail(q) : Tail(q)[j].type # "disconnected"
      <4>1. \A j \in DOMAIN Tail(q) : Tail(q)[j] = q[j + 1] /\ j + 1 \in DOMAIN q /\ ~(j + 1 < 1)
        BY <2>4, PopFront
      <4> QED BY <4>1, <2>3, <2>5
    <3> QED BY <2>1, <3>1 DEF Leaves
  <2>6. CASE i # 1
    <3>1. i - 1 \in DOMAIN Tail(q) /\ Tail(q)[i - 1] = q[i]
      BY <2>6, PopFront
    <3>2. ASSUME NEW j \in DOMAIN Tail(q), Tail(q)[j].type = "disconnected" PROVE j < i - 1
      <4>1. Tail(q)[j] = q[j + 1] /\ j + 1 \in DOMAIN q
        BY PopFront
      <4> QED BY <4>1, <2>3, <2>4, <3>2
    <3> QED BY <3>1, <3>2, <2>3 DEF Leaves
  <2> QED BY <2>5, <2>6
<1>2. CASE \A i \in DOMAIN Tail(q) : Tail(q)[i].type # "connected"
  <2>1. \A i \in DOMAIN q : i = 1 \/ q[i].type # "connected"
    BY <1>2, PopFront
  <2>2. \A j \in DOMAIN Tail(q) : Tail(q)[j] = q[j + 1] /\ j + 1 \in DOMAIN q /\ ~(j + 1 < 1)
    BY PopFront
  <2>3. \A j \in DOMAIN Tail(q) : Tail(q)[j].type # "disconnected"
    BY <2>1, <2>2 DEF Leaves
  <2>4. h = TRUE
    BY <2>1, PopFront DEF Leaves
  <2> QED BY <1>2, <2>3, <2>4 DEF Leaves
<1> QED BY <1>1, <1>2

LEMMA LeavesPush ==
  ASSUME NEW S, NEW q \in Seq(S), NEW m \in S, NEW h, Leaves(q, h),
         m.type \notin {"connected", "disconnected"}
  PROVE  Leaves(Append(q, m), h)
<1>1. /\ DOMAIN Append(q, m) = DOMAIN q \cup {Len(q) + 1}
      /\ Append(q, m)[Len(q) + 1] = m
      /\ \A i \in DOMAIN q : Append(q, m)[i] = q[i]
  BY PushBack
<1> DEFINE r == Append(q, m)
<1> HIDE DEF r
<1>2. /\ DOMAIN r = DOMAIN q \cup {Len(q) + 1} /\ r[Len(q) + 1] = m
      /\ \A i \in DOMAIN q : r[i] = q[i]
  BY <1>1 DEF r
<1>3. Leaves(r, h)
  BY <1>2 DEF Leaves
<1> QED BY <1>3 DEF r

LEMMA LeavesNew ==
  ASSUME NEW S, NEW q \in Seq(S), NEW h, NEW m \in S, NEW n \in S,
         m.type = "connected", n.type # "disconnected"
  PROVE  Leaves(q \o <<m, n>>, h)
<1> DEFINE r == q \o <<m, n>>
<1>1. /\ DOMAIN r = 1..(Len(q) + 2) /\ Len(q) \in Nat
      /\ r[Len(q) + 1] = m /\ r[Len(q) + 2] = n
  OBVIOUS
<1> HIDE DEF r
<1>2. \A j \in DOMAIN r : r[j].type = "disconnected" => j < Len(q) + 1
  BY <1>1
<1>3. Len(q) + 1 \in DOMAIN r
  BY <1>1
<1>4. Leaves(r, h)
  BY <1>1, <1>2, <1>3 DEF Leaves
<1> QED BY <1>4 DEF r

LEMMA MoveOver ==
  ASSUME NEW S, NEW p \in Seq(S), NEW q \in Seq(S), q # <<>>
  PROVE  Append(p, Head(q)) \o Tail(q) = p \o q
OBVIOUS

LEMMA TailOver ==
  ASSUME NEW S, NEW p \in Seq(S), NEW q \in Seq(S), p # <<>>
  PROVE  /\ Tail(p) \o q = Tail(p \o q) /\ p \o q # <<>> /\ (p \o q)[1] = Head(p)
OBVIOUS

LEMMA Nothing ==
  ASSUME NEW S, NEW p \in Seq(S)
  PROVE  p \o <<>> = p
OBVIOUS

Sees == active # NoConn => Leaves(output \o telling, hostClient)

LEMMA SeesKept ==
  ASSUME HubInv, HubInv', Sees, [Next]_vars
  PROVE  Sees'
<1> USE DEF hostVars, hubVars
<1> DEFINE M == Order \cup Word
<1>a. output \in Seq(M) /\ telling \in Seq(M) /\ output' \in Seq(M) /\ telling' \in Seq(M)
  BY DEF HubInv, QueueTypes
<1> HIDE DEF M
<1>1. ASSUME active' \in {active, NoConn}, UNCHANGED <<output, telling, hostClient>> PROVE Sees'
  BY <1>1 DEF Sees
<1>2. CASE active' = NoConn
  BY <1>2 DEF Sees
<1>3. CASE HubTell
  <2>1. output' \o telling' = output \o telling
    BY <1>3, <1>a, MoveOver DEF HubTell
  <2> QED BY <1>3, <2>1 DEF Sees, HubTell
<1>4. CASE HostReceive
  <2> DEFINE q == output \o telling
  <2>1. q \in Seq(M) /\ output' \o telling' = Tail(q) /\ q # <<>> /\ q[1] = Head(output) /\ active' = active
    BY <1>4, <1>a, TailOver, Joined DEF HostReceive
  <2> HIDE DEF q
  <2>2. /\ q[1].type = "connected" => hostClient' = TRUE
        /\ q[1].type \notin {"connected", "disconnected"} => hostClient' = hostClient
    BY <1>4, <2>1 DEF HostReceive
  <2>3. active # NoConn => Leaves(q, hostClient)
    BY DEF Sees, q
  <2>4. active # NoConn => Leaves(Tail(q), hostClient')
    BY <2>1, <2>2, <2>3, LeavesTail
  <2> QED BY <2>1, <2>4 DEF Sees
<1>5. CASE OnRegistration
  <2> DEFINE one(b) == IF b THEN <<Control("disconnected")>> ELSE <<>>
             rest == <<Control("connected"), Control("snapshotNeeded")>>
  <2>1. \E b \in BOOLEAN, d \in BOOLEAN : telling' = one(b) \o one(d) \o rest
    BY <1>5 DEF OnRegistration
  <2>2. PICK b \in BOOLEAN, d \in BOOLEAN : telling' = one(b) \o one(d) \o rest
    BY <2>1
  <2>3. /\ Control("connected") \in M /\ Control("snapshotNeeded") \in M /\ Control("disconnected") \in M
        /\ Control("connected").type = "connected" /\ Control("snapshotNeeded").type # "disconnected"
    BY DEF Control, Word, M
  <2>4. \A e \in BOOLEAN : one(e) \in Seq(M)
    <3>1. <<Control("disconnected")>> \in Seq(M) /\ <<>> \in Seq(M)
      BY <2>3
    <3> QED BY <3>1, Zenon
  <2> HIDE DEF one
  <2>5. one(b) \o one(d) \in Seq(M) /\ output \o (one(b) \o one(d)) \in Seq(M)
    BY <2>4, <1>a, Joined
  <2>6. output \o telling' = (output \o (one(b) \o one(d))) \o rest
    <3>1. \A p \in Seq(M), q \in Seq(M), r \in Seq(M) : p \o (q \o r) = (p \o q) \o r
      OBVIOUS
    <3>2. rest \in Seq(M)
      BY <2>3
    <3> DEFINE mid == one(b) \o one(d)
    <3>3. mid \in Seq(M)
      BY <2>5
    <3>4. telling' = mid \o rest
      BY <2>2
    <3> HIDE DEF rest, mid
    <3>5. output \o (mid \o rest) = (output \o mid) \o rest
      BY <3>1, <3>2, <3>3, <1>a, SMTT(30)
    <3> QED BY <3>4, <3>5 DEF mid
  <2>7. Leaves(output \o telling', hostClient')
    BY <2>3, <2>5, <2>6, LeavesNew
  <2> QED BY <1>5, <2>7 DEF OnRegistration, Sees
<1>6. CASE OnClosed
  BY <1>6, <1>1, <1>2 DEF OnClosed
<1>7. CASE OnRotated \/ PollToken
  BY <1>7, <1>2 DEF OnRotated, PollToken, CloseActive
<1>8. CASE Emitting
  <2>1. telling = <<>> /\ telling' = <<>> /\ UNCHANGED hostClient
    BY <1>8 DEF Emitting, OnCommand, OnBadFrame, OnDelta, OnResult, FlushAll, HubFree
  <2>2. ASSUME NEW m \in Order, output' = Append(output, m), active' = active PROVE Sees'
    <3>1. m \in M /\ m.type \notin {"connected", "disconnected"}
      BY DEF M, Order
    <3>2. output \o telling = output /\ output' \o telling' = output'
      BY <2>1, <1>a, Nothing
    <3> QED BY <2>1, <2>2, <3>1, <3>2, <1>a, LeavesPush DEF Sees
  <2>3. ASSUME NEW frames, Emit(frames) PROVE Sees'
    <3>1. active' = NoConn \/ (active' = active /\ output' = output)
      BY <2>3 DEF Emit
    <3> QED BY <3>1, <2>1, <1>1, <1>2
  <2> QED BY <1>8, Emitted, <2>1, <2>2, <2>3, <1>1
<1>9. CASE OnSnapshot
  BY <1>9, <1>1 DEF OnSnapshot
<1>10. ASSUME NEW v \in Convs, NEW kinds, HostStep(v, kinds) PROVE Sees'
  BY <1>10, <1>1 DEF HostStep
<1>11. CASE HostTick \/ PumpFrame \/ PumpSnapshot \/ HostRotate \/ UNCHANGED vars
  BY <1>11, <1>1 DEF HostTick, PumpFrame, PumpSnapshot, HostRotate, vars
<1>12. ASSUME NEW c \in Conns,
              \/ Connect(c) \/ Leave(c) \/ ConnLoop(c)
              \/ \E cmd \in Cmds : Ask(c, [type |-> "command", conn |-> c, cmd |-> cmd])
              \/ Ask(c, [type |-> "bad", conn |-> c])
       PROVE  Sees'
  BY <1>12, <1>1 DEF Connect, Leave, ConnLoop, Deliver, Obey, End, Stop, Ask
<1> HIDE DEF hostVars, hubVars
<1> QED
  BY <1>3, <1>4, <1>5, <1>6, <1>7, <1>8, <1>9, <1>10, <1>11, <1>12
  DEF Next, HostLoop, HubLoop, Emitting

(* While a phone is served, whatever the host still has to hear ends in its being
   connected: a replaced socket's end never makes the desktop show it absent. *)
THEOREM HostKnows == Spec => []HostSeesClient
<1>1. Init => Sees
  BY DEF Init, Sees
<1>2. HubInv /\ HubInv' /\ Sees /\ [Next]_vars => Sees'
  BY SeesKept
<1>3. HubInv /\ Sees => HostSeesClient
  BY SeesMeans DEF HubInv, HostTypes, Sees
<1> QED BY <1>1, <1>2, <1>3, HubInvHolds, PTL DEF Spec

-----------------------------------------------------------------------------
(* One command's traces: its order to the host, the answer on its way. *)
About(m, x) == m.type \in {"command", "result", "refusal"} /\ m.cmd = x
For(q, x) == {i \in DOMAIN q : About(q[i], x)}
Single(S) == \A a, b \in S : a = b

Fewer(q, r, x) ==
  /\ For(r, x) # {} => For(q, x) # {}
  /\ Single(For(q, x)) => Single(For(r, x))

LEMMA FewerTail ==
  ASSUME NEW S, NEW q \in Seq(S), q # <<>>, NEW x
  PROVE  /\ Fewer(q, Tail(q), x)
         /\ About(Head(q), x) /\ Single(For(q, x)) => For(Tail(q), x) = {}
<1> DEFINE r == Tail(q)
<1>1. /\ \A i \in DOMAIN r : r[i] = q[i + 1] /\ i + 1 \in DOMAIN q
      /\ Head(q) = q[1] /\ 1 \in DOMAIN q
      /\ \A i \in DOMAIN r : i \in Nat \ {0}
  BY PopFront
<1> HIDE DEF r
<1>2. \A i \in For(r, x) : i + 1 \in For(q, x) /\ i \in Nat \ {0}
  BY <1>1 DEF For
<1>3. Single(For(q, x)) => Single(For(r, x))
  <2> SUFFICES ASSUME Single(For(q, x)), NEW a \in For(r, x), NEW b \in For(r, x) PROVE a = b
    BY DEF Single
  <2>1. a + 1 = b + 1 /\ a \in Nat /\ b \in Nat
    BY <1>2 DEF Single
  <2> QED BY <2>1
<1>4. ASSUME About(Head(q), x), Single(For(q, x)), NEW i \in For(r, x) PROVE FALSE
  <2>1. 1 \in For(q, x)
    BY <1>1, <1>4 DEF For
  <2>2. i + 1 = 1 /\ i \in Nat \ {0}
    BY <1>2, <1>4, <2>1 DEF Single
  <2> QED BY <2>2
<1>5. For(r, x) # {} => For(q, x) # {}
  BY <1>2
<1> QED BY <1>3, <1>4, <1>5 DEF Fewer, r

LEMMA ForPush ==
  ASSUME NEW S, NEW q \in Seq(S), NEW m \in S, NEW x
  PROVE  /\ ~About(m, x) => For(Append(q, m), x) = For(q, x)
         /\ For(q, x) = {} => Single(For(Append(q, m), x))
<1> DEFINE r == Append(q, m)
<1>1. /\ DOMAIN r = DOMAIN q \cup {Len(q) + 1} /\ r[Len(q) + 1] = m
      /\ \A i \in DOMAIN q : r[i] = q[i]
  BY PushBack
<1> HIDE DEF r
<1>2. ~About(m, x) => For(r, x) = For(q, x)
  BY <1>1 DEF For
<1>3. For(q, x) = {} => Single(For(r, x))
  BY <1>1 DEF For, Single
<1> QED BY <1>2, <1>3 DEF r

LEMMA ForJoin ==
  ASSUME NEW S, NEW p \in Seq(S), NEW q \in Seq(S), NEW x
  PROVE  /\ For(q, x) = {} => For(p \o q, x) = For(p, x)
         /\ For(p, x) = {} /\ Single(For(q, x)) => Single(For(p \o q, x))
         /\ For(p, x) \subseteq For(p \o q, x)
<1> DEFINE r == p \o q
<1>1. /\ \A i \in DOMAIN p : i \in DOMAIN r /\ r[i] = p[i]
      /\ \A i \in DOMAIN r : \/ i \in DOMAIN p /\ r[i] = p[i]
                             \/ i - Len(p) \in DOMAIN q /\ r[i] = q[i - Len(p)]
      /\ \A i \in DOMAIN r : i \in Nat
      /\ Len(p) \in Nat
  BY Joined
<1> HIDE DEF r
<1>2. For(q, x) = {} => For(r, x) = For(p, x)
  BY <1>1 DEF For
<1>3. ASSUME For(p, x) = {}, Single(For(q, x)), NEW a \in For(r, x), NEW b \in For(r, x) PROVE a = b
  <2>1. /\ a - Len(p) \in For(q, x) /\ b - Len(p) \in For(q, x) /\ a \in Nat /\ b \in Nat
    BY <1>1, <1>3 DEF For
  <2>2. a - Len(p) = b - Len(p)
    BY <2>1, <1>3 DEF Single
  <2> QED BY <2>1, <2>2, <1>1
<1>4. For(p, x) \subseteq For(r, x)
  BY <1>1 DEF For
<1> QED BY <1>2, <1>3, <1>4 DEF Single, r

LEMMA ForFirst ==
  ASSUME NEW S, NEW q \in Seq(S), NEW n \in 0..Len(q), NEW x
  PROVE  For(SubSeq(q, 1, n), x) \subseteq For(q, x)
<1>1. /\ SubSeq(q, 1, n) \in Seq(S) /\ DOMAIN SubSeq(q, 1, n) = 1..n
      /\ \A i \in 1..n : SubSeq(q, 1, n)[i] = q[i] /\ i \in DOMAIN q
  BY FirstOf
<1> DEFINE r == SubSeq(q, 1, n)
<1> HIDE DEF r
<1>2. \A i \in DOMAIN r : r[i] = q[i] /\ i \in DOMAIN q
  BY <1>1 DEF r
<1>3. For(r, x) \subseteq For(q, x)
  BY <1>2 DEF For
<1> QED BY <1>3 DEF r

LEMMA ForNone ==
  ASSUME NEW x, NEW q, \A i \in DOMAIN q : ~About(q[i], x)
  PROVE  For(q, x) = {}
BY DEF For

Told == output \o telling
Feed == input \o todo

(* What one command id may have left behind. *)
OnceFor(x) ==
  /\ Single(For(Told, x)) /\ Single(For(Feed, x)) /\ \A c \in Conns : Single(For(outbound[c], x))
  /\ For(Told, x) # {} => /\ For(Feed, x) = {} /\ \A c \in Conns : For(outbound[c], x) = {}
                          /\ ran[x] = 0 /\ answers[x] = 0
  /\ For(Feed, x) # {} => /\ \A c \in Conns : For(outbound[c], x) = {}
                          /\ answers[x] = 0
  /\ \A c \in Conns : For(outbound[c], x) # {} =>
       /\ answers[x] = 0
       /\ \A d \in Conns : For(outbound[d], x) # {} => c = d
  /\ ran[x] <= 1 /\ answers[x] <= 1
  /\ ~InRecent(x) => /\ For(Told, x) = {} /\ For(Feed, x) = {} /\ \A c \in Conns : For(outbound[c], x) = {}
                     /\ ran[x] = 0 /\ answers[x] = 0

(* The hub remembers every id once; between pumps no frame waits in the host. *)
Remembered == \A i, j \in DOMAIN recentCmds : recentCmds[i] = recentCmds[j] => i = j
PumpedOut == pumping = FALSE => todo = <<>>

(* Most steps only lose traces. *)
LEMMA FewerKeeps ==
  ASSUME NEW x \in Cmds, OnceFor(x),
         Fewer(Told, Told', x), Fewer(Feed, Feed', x),
         \A c \in Conns : Fewer(outbound[c], outbound'[c], x),
         ran'[x] = ran[x], answers'[x] = answers[x], InRecent(x) => InRecent(x)'
  PROVE  OnceFor(x)'
BY DEF OnceFor, Fewer

LEMMA FewerSame ==
  ASSUME NEW q, NEW r, NEW x, For(q, x) = For(r, x)
  PROVE  Fewer(q, r, x)
BY DEF Fewer

LEMMA FewerNone ==
  ASSUME NEW q, NEW r, NEW x, For(r, x) = {}
  PROVE  Fewer(q, r, x)
BY DEF Fewer, Single

LEMMA EmitSent ==
  ASSUME HubInv, NEW frames \in Seq(Run \cup Snap \cup Answer \cup Word), Emit(frames)
  PROVE  /\ \A c \in Conns :
              \/ outbound'[c] = outbound[c]
              \/ /\ c = active
                 /\ \E n \in 0..Len(frames) : outbound'[c] = outbound[c] \o SubSeq(frames, 1, n)
         /\ output' = output \/ output' = Append(output, Control("disconnected"))
         /\ active = NoConn => active' = NoConn
         /\ active' # NoConn => active' = active /\ outbound'[active] = outbound[active] \o frames
<1>a. /\ outbound \in [Conns -> Seq(Run \cup Snap \cup Answer \cup Word)]
      /\ \A c \in Conns : Len(outbound[c]) <= OutCap /\ Len(outbound[c]) \in Nat
      /\ OutCap \in Nat /\ active \in Conns \cup {NoConn} /\ Len(frames) \in Nat
  BY HubAssumption, SMTT(30) DEF HubInv, ClientTypes, SeatInv, SeatTypes
<1>1. CASE active = NoConn
  BY <1>1 DEF Emit
<1>2. CASE active # NoConn
  <2> DEFINE room == IF conn[active] = "gone" THEN 0 ELSE OutCap - Len(outbound[active])
             n == IF Len(frames) <= room THEN Len(frames) ELSE room
  <2>1. active \in Conns /\ outbound[active] \in Seq(Run \cup Snap \cup Answer \cup Word)
    BY <1>2, <1>a
  <2>2. /\ outbound' = [outbound EXCEPT ![active] = @ \o SubSeq(frames, 1, n)]
        /\ active' = IF Len(frames) <= room THEN active ELSE NoConn
    BY <1>2 DEF Emit
  <2>3. output' = output \/ output' = Append(output, Control("disconnected"))
    BY <1>2 DEF Emit
  <2>4. room \in Nat
    BY <1>a, <2>1
  <2> HIDE DEF room
  <2>5. n \in 0..Len(frames)
    BY <2>4, <1>a
  <2>6. Len(frames) <= room => n = Len(frames)
    OBVIOUS
  <2> HIDE DEF n
  <2>7. SubSeq(frames, 1, Len(frames)) = frames
    OBVIOUS
  <2>8. \A c \in Conns : c # active => outbound'[c] = outbound[c]
    BY <2>2, <1>a
  <2>9. outbound'[active] = outbound[active] \o SubSeq(frames, 1, n)
    BY <2>2, <2>1, <1>a
  <2>10. active' # NoConn => Len(frames) <= room /\ active' = active
    BY <2>2
  <2> QED BY <2>3, <2>5, <2>6, <2>7, <2>8, <2>9, <2>10, <1>2
<1> QED BY <1>1, <1>2

LEMMA EmitTold ==
  ASSUME HubInv, telling = <<>>, telling' = <<>>, NEW x,
         NEW frames \in Seq(Run \cup Snap \cup Answer \cup Word), Emit(frames)
  PROVE  For(Told', x) = For(Told, x)
<1>a. output \in Seq(Order \cup Word)
  BY DEF HubInv, QueueTypes
<1>1. Control("disconnected") \in Order \cup Word /\ ~About(Control("disconnected"), x)
  BY DEF Control, Word, About
<1>2. output' = output \/ output' = Append(output, Control("disconnected"))
  BY EmitSent
<1>3. For(output', x) = For(output, x) /\ output' \in Seq(Order \cup Word)
  <2>1. /\ For(Append(output, Control("disconnected")), x) = For(output, x)
        /\ Append(output, Control("disconnected")) \in Seq(Order \cup Word)
    BY <1>1, <1>a, ForPush, PushBack
  <2> QED BY <2>1, <1>2, <1>a
<1>4. Told = output /\ Told' = output'
  BY <1>3, <1>a, Nothing DEF Told
<1> QED BY <1>3, <1>4

LEMMA EmitAppends ==
  ASSUME HubInv, NEW x,
         NEW frames \in Seq(Run \cup Snap \cup Answer \cup Word), Emit(frames)
  PROVE  \A c \in Conns :
           \/ outbound'[c] = outbound[c]
           \/ /\ c = active
              /\ For(frames, x) = {} => For(outbound'[c], x) = For(outbound[c], x)
              /\ Single(For(frames, x)) /\ For(outbound[c], x) = {} => Single(For(outbound'[c], x))
<1> DEFINE F == Run \cup Snap \cup Answer \cup Word
<1>1. ASSUME NEW c \in Conns
      PROVE  \/ outbound'[c] = outbound[c]
             \/ /\ c = active
                /\ For(frames, x) = {} => For(outbound'[c], x) = For(outbound[c], x)
                /\ Single(For(frames, x)) /\ For(outbound[c], x) = {} => Single(For(outbound'[c], x))
  <2>1. ASSUME NEW n \in 0..Len(frames), outbound'[c] = outbound[c] \o SubSeq(frames, 1, n)
        PROVE  /\ For(frames, x) = {} => For(outbound'[c], x) = For(outbound[c], x)
               /\ Single(For(frames, x)) /\ For(outbound[c], x) = {} => Single(For(outbound'[c], x))
    <3>1. SubSeq(frames, 1, n) \in Seq(F) /\ For(SubSeq(frames, 1, n), x) \subseteq For(frames, x)
      BY ForFirst, FirstOf
    <3>2. outbound[c] \in Seq(F)
      BY DEF HubInv, ClientTypes
    <3> DEFINE s == SubSeq(frames, 1, n)
    <3> HIDE DEF F, s
    <3>3. s \in Seq(F) /\ For(s, x) \subseteq For(frames, x) /\ outbound'[c] = outbound[c] \o s
      BY <2>1, <3>1 DEF s
    <3>4. /\ For(s, x) = {} => For(outbound[c] \o s, x) = For(outbound[c], x)
          /\ For(outbound[c], x) = {} /\ Single(For(s, x)) => Single(For(outbound[c] \o s, x))
      BY <3>2, <3>3, ForJoin
    <3>5. /\ For(frames, x) = {} => For(s, x) = {}
          /\ Single(For(frames, x)) => Single(For(s, x))
      BY <3>3 DEF Single
    <3> QED BY <3>3, <3>4, <3>5
  <2> QED BY <2>1, EmitSent
<1> QED BY <1>1

LEMMA EmitFor ==
  ASSUME HubInv, NEW x,
         NEW frames \in Seq(Run \cup Snap \cup Answer \cup Word), Emit(frames),
         For(frames, x) = {}
  PROVE  \A c \in Conns : For(outbound'[c], x) = For(outbound[c], x)
BY EmitAppends

(* While the cache can hold every id there is, it forgets none. *)
LEMMA Remembers ==
  ASSUME HubInv, Remembered, IsFiniteSet(Cmds), Cardinality(Cmds) <= RecentCap,
         NEW cmd \in Cmds, ~InRecent(cmd)
  PROVE  /\ Remember(cmd) = Append(recentCmds, cmd)
         /\ recentCmds' = Remember(cmd) => /\ Remembered'
                                           /\ InRecent(cmd)'
                                           /\ \A x : InRecent(x) => InRecent(x)'
<1> DEFINE r == Append(recentCmds, cmd)
<1>1. /\ recentCmds \in Seq(Cmds) /\ Len(recentCmds) \in Nat /\ r \in Seq(Cmds) /\ Len(r) = Len(recentCmds) + 1
      /\ DOMAIN r = 1..Len(r)
      /\ DOMAIN r = DOMAIN recentCmds \cup {Len(recentCmds) + 1} /\ r[Len(recentCmds) + 1] = cmd
      /\ \A i \in DOMAIN recentCmds : r[i] = recentCmds[i]
  BY PushBack DEF HubInv, HubTypes
<1>2. \A i, j \in DOMAIN r : r[i] = r[j] => i = j
  <2> HIDE DEF r
  <2> QED BY <1>1 DEF Remembered, InRecent
<1>3. Len(r) <= Cardinality(Cmds) /\ Cardinality(Cmds) \in Nat /\ Len(r) \in Nat
  <2>1. /\ 1 \in Int /\ Len(r) \in Int
        /\ IsFiniteSet(1..Len(r)) /\ Cardinality(1..Len(r)) = IF 1 > Len(r) THEN 0 ELSE Len(r) - 1 + 1
    BY <1>1, FS_Interval
  <2>2. r \in Injection(1..Len(r), Cmds)
    <3> HIDE DEF r
    <3>1. r \in [1..Len(r) -> Cmds]
      BY <1>1
    <3> QED BY <3>1, <1>1, <1>2 DEF Injection, IsInjective
  <2> HIDE DEF r
  <2>3. Cardinality(1..Len(r)) <= Cardinality(Cmds) /\ Cardinality(Cmds) \in Nat
    BY <2>2, FS_Injection, FS_CardinalityType
  <2> QED BY <2>1, <2>3, <1>1
<1>4. Remember(cmd) = r
  BY <1>3, HubAssumption DEF Remember, Appended
<1> HIDE DEF r
<1>5. ASSUME recentCmds' = r PROVE Remembered' /\ InRecent(cmd)' /\ \A x : InRecent(x) => InRecent(x)'
  BY <1>1, <1>2, <1>5 DEF Remembered, InRecent
<1> QED BY <1>4, <1>5 DEF r

LEMMA QueuesTyped ==
  ASSUME HubInv
  PROVE  /\ input \in Seq(OneStep \cup Answer \cup Snap \cup Word) /\ todo \in Seq(OneStep \cup Answer \cup Snap \cup Word)
         /\ output \in Seq(Order \cup Word) /\ telling \in Seq(Order \cup Word)
         /\ outbound \in [Conns -> Seq(Run \cup Snap \cup Answer \cup Word)]
         /\ bufs \in Seq(Run) /\ ran \in [Cmds -> Nat] /\ answers \in [Cmds -> Nat]
BY DEF HubInv, HostTypes, QueueTypes, HubTypes, ClientTypes

LEMMA NotAbout ==
  ASSUME NEW m, m \in Run \cup Snap \cup Word \cup OneStep, NEW x
  PROVE  ~About(m, x)
BY DEF Run, Snap, Word, OneStep, About

(* The host's side: an order taken is run, and its answer queued behind. *)
LEMMA OnceHost ==
  ASSUME HubInv, HubInv', PumpedOut, NEW x \in Cmds, OnceFor(x),
         \/ \E v \in Convs, kinds \in {<<"chunk">>, <<"event">>, <<"event", "event">>} : HostStep(v, kinds)
         \/ HostRotate \/ HostLoop
  PROVE  OnceFor(x)'
<1> USE DEF hubVars, clientVars
<1> DEFINE I == OneStep \cup Answer \cup Snap \cup Word
           O == Order \cup Word
<1>a. /\ input \in Seq(I) /\ todo \in Seq(I) /\ input' \in Seq(I) /\ todo' \in Seq(I)
      /\ output \in Seq(O) /\ telling \in Seq(O) /\ ran \in [Cmds -> Nat]
  <2>1. /\ input \in Seq(I) /\ todo \in Seq(I) /\ output \in Seq(O) /\ telling \in Seq(O) /\ ran \in [Cmds -> Nat]
    BY QueuesTyped
  <2>2. input' \in Seq(I) /\ todo' \in Seq(OneStep \cup Answer)
    BY DEF HubInv, QueueTypes, HostTypes
  <2> QED BY <2>1, <2>2
<1> HIDE DEF I, O
<1>b. UNCHANGED <<outbound, answers, recentCmds, telling>> /\ InRecent(x)' = InRecent(x)
  BY DEF HostStep, HostRotate, HostLoop, HostTick, HostReceive, PumpFrame, PumpSnapshot, InRecent
<1>c. ASSUME UNCHANGED output, Fewer(Feed, Feed', x), ran'[x] = ran[x] PROVE OnceFor(x)'
  <2>1. Fewer(Told, Told', x) /\ \A c \in Conns : Fewer(outbound[c], outbound'[c], x)
    BY <1>b, <1>c, FewerSame DEF Told
  <2> QED BY <1>b, <1>c, <2>1, FewerKeeps
<1>d. ASSUME todo = <<>>, For(todo', x) = {}, input' = input PROVE Fewer(Feed, Feed', x)
  <2>1. For(input \o todo', x) = For(input, x) /\ input \o todo = input
    BY <1>a, <1>d, ForJoin, Nothing
  <2> QED BY <2>1, <1>d, FewerSame DEF Feed
<1>e. ASSUME todo = <<>>, todo' = <<>>, NEW m \in I, ~About(m, x), input' = Append(input, m)
      PROVE  Fewer(Feed, Feed', x)
  <2>1. For(input', x) = For(input, x) /\ input' \o todo' = input' /\ input \o todo = input
    BY <1>a, <1>e, ForPush, Nothing
  <2> QED BY <2>1, FewerSame DEF Feed
<1>1. ASSUME NEW v \in Convs, NEW kinds, HostStep(v, kinds) PROVE OnceFor(x)'
  <2>1. \A i \in DOMAIN todo' : ~About(todo'[i], x)
    BY <1>1 DEF HostStep, Delta, About
  <2>2. For(todo', x) = {}
    BY <2>1, ForNone
  <2>3. todo = <<>> /\ UNCHANGED <<input, output, ran>>
    BY <1>1 DEF HostStep, PumpedOut, Idle
  <2> QED BY <2>2, <2>3, <1>c, <1>d
<1>2. CASE HostRotate
  <2>1. Control("rotated") \in I /\ ~About(Control("rotated"), x)
    BY NotAbout DEF Control, Word, I
  <2> QED BY <1>2, <2>1, <1>c, <1>e DEF HostRotate, PumpedOut, Idle, hostVars
<1>3. CASE HostTick
  BY <1>3, <1>c, FewerSame DEF HostTick, Feed
<1>4. CASE PumpFrame
  <2>1. CASE input' = Append(input, Head(todo)) /\ todo' = Tail(todo)
    <3>1. Feed' = Feed
      BY <1>4, <2>1, <1>a, MoveOver DEF PumpFrame, Feed
    <3> QED BY <1>4, <3>1, <1>c, FewerSame DEF PumpFrame
  <2>2. CASE input' = input /\ todo' = <<>>
    <3>1. Feed' = input /\ For(input, x) \subseteq For(Feed, x)
      BY <2>2, <1>a, Nothing, ForJoin DEF Feed
    <3> QED BY <1>4, <3>1, <1>c DEF PumpFrame, Fewer, Single
  <2> QED BY <1>4, <2>1, <2>2 DEF PumpFrame
<1>5. CASE PumpSnapshot
  <2>1. CASE input' = input
    BY <1>5, <2>1, <1>c, FewerSame DEF PumpSnapshot, Feed
  <2>2. CASE input' = Append(input, Snapshot([v \in Convs |-> Len(made[v])]))
    <3> DEFINE m == Snapshot([v \in Convs |-> Len(made[v])])
    <3>1. m \in I /\ ~About(m, x)
      <4>1. \A v \in Convs : Len(made[v]) \in 0..MaxSteps
        BY HubAssumption DEF HubInv, HostTypes
      <4>2. m \in Snap
        BY <4>1 DEF Snap, Snapshot
      <4> QED BY <4>2, NotAbout DEF I
    <3> HIDE DEF m
    <3>2. input' = Append(input, m)
      BY <2>2 DEF m
    <3> QED BY <1>5, <3>1, <3>2, <1>c, <1>e DEF PumpSnapshot
  <2> QED BY <1>5, <2>1, <2>2 DEF PumpSnapshot
<1>6. CASE HostReceive
  <2>1. /\ Told \in Seq(O) /\ Told' = Tail(Told) /\ Told # <<>> /\ Head(Told) = Head(output)
    BY <1>6, <1>a, <1>b, TailOver, Joined DEF HostReceive, Told
  <2>2. /\ Fewer(Told, Told', x)
        /\ About(Head(output), x) => For(Told', x) = {} /\ For(Told, x) # {}
    <3>1. About(Head(output), x) => For(Told, x) # {}
      <4>1. Told[1] = Head(output) /\ 1 \in DOMAIN Told
        BY <2>1
      <4> QED BY <4>1 DEF For
    <3> QED BY <2>1, <3>1, FewerTail DEF OnceFor
  <2>3. todo = <<>> /\ input' = input /\ Feed = input
    BY <1>6, <1>a, Nothing DEF HostReceive, PumpedOut, Idle, Feed
  <2>4. CASE About(Head(output), x)
    <3>1. Head(output).type = "command" /\ Head(output).cmd = x
      BY <1>6, <2>4 DEF HostReceive, About
    <3>2. ran' = [ran EXCEPT ![x] = @ + 1] /\ todo' = <<Result(x)>>
      BY <1>6, <3>1 DEF HostReceive
    <3>3. /\ For(Feed, x) = {} /\ (\A c \in Conns : For(outbound[c], x) = {})
          /\ ran[x] = 0 /\ answers[x] = 0 /\ InRecent(x)
      BY <2>2, <2>4 DEF OnceFor
    <3>4. Single(For(todo', x))
      BY <3>2 DEF For, Single
    <3>5. Single(For(Feed', x))
      BY <2>3, <3>3, <3>4, <1>a, ForJoin DEF Feed
    <3>6. ran'[x] = 1
      BY <3>2, <3>3, <1>a
    <3> QED BY <1>b, <2>2, <2>4, <3>3, <3>5, <3>6 DEF OnceFor, Fewer, Single
  <2>5. CASE ~About(Head(output), x)
    <3>1. For(todo', x) = {} /\ ran'[x] = ran[x]
      <4>1. CASE Head(output).type = "command"
        <5>1. Head(output).cmd # x
          BY <2>5, <4>1 DEF About
        <5>2. ran' = [ran EXCEPT ![Head(output).cmd] = @ + 1] /\ todo' = <<Result(Head(output).cmd)>>
          BY <1>6, <4>1 DEF HostReceive
        <5>3. \A i \in DOMAIN todo' : ~About(todo'[i], x)
          BY <5>1, <5>2 DEF Result, About
        <5> QED BY <5>1, <5>2, <5>3, ForNone, <1>a
      <4>2. CASE Head(output).type # "command"
        <5>1. todo' = <<>> /\ ran' = ran
          BY <1>6, <4>2, <2>3 DEF HostReceive
        <5>2. \A i \in DOMAIN todo' : ~About(todo'[i], x)
          BY <5>1
        <5> QED BY <5>1, <5>2, ForNone
      <4> QED BY <4>1, <4>2
    <3>2. Fewer(Feed, Feed', x) /\ \A c \in Conns : Fewer(outbound[c], outbound'[c], x)
      BY <1>b, <2>3, <3>1, <1>d, FewerSame
    <3> QED BY <1>b, <2>2, <3>1, <3>2, FewerKeeps
  <2> QED BY <2>4, <2>5
<1> QED BY <1>1, <1>2, <1>3, <1>4, <1>5, <1>6 DEF HostLoop

(* The hub's side: a new id is remembered as it is ordered or refused. *)
LEMMA OnceHub ==
  ASSUME HubInv, HubInv', Remembered, IsFiniteSet(Cmds), Cardinality(Cmds) <= RecentCap,
         NEW x \in Cmds, OnceFor(x), HubLoop \/ PollToken
  PROVE  OnceFor(x)'
<1> USE DEF hostVars, clientVars
<1> DEFINE I == OneStep \cup Answer \cup Snap \cup Word
           O == Order \cup Word
           F == Run \cup Snap \cup Answer \cup Word
<1>a. /\ input \in Seq(I) /\ todo \in Seq(I) /\ output \in Seq(O) /\ telling \in Seq(O)
      /\ outbound \in [Conns -> Seq(F)] /\ bufs \in Seq(Run)
  BY QueuesTyped
<1>b. UNCHANGED <<ran, answers, todo>>
  BY DEF HubLoop, HubTell, OnRegistration, OnClosed, OnCommand, OnBadFrame, OnDelta, OnResult,
         OnSnapshot, OnRotated, PollToken, FlushAll
<1> HIDE DEF I, O
<1>c. ASSUME Fewer(Told, Told', x), Fewer(Feed, Feed', x),
             \A c \in Conns : Fewer(outbound[c], outbound'[c], x), InRecent(x) => InRecent(x)'
      PROVE  OnceFor(x)'
  BY <1>b, <1>c, FewerKeeps
<1>d. /\ UNCHANGED output /\ UNCHANGED telling => Fewer(Told, Told', x)
      /\ UNCHANGED input => Fewer(Feed, Feed', x)
      /\ UNCHANGED outbound => \A c \in Conns : Fewer(outbound[c], outbound'[c], x)
      /\ UNCHANGED recentCmds => (InRecent(x) => InRecent(x)')
  BY <1>b, FewerSame DEF Told, Feed, InRecent
<1>e. ASSUME input # <<>>, input' = Tail(input)
      PROVE  /\ Fewer(Feed, Feed', x)
             /\ About(Head(input), x) => For(Feed, x) # {} /\ For(Feed', x) = {}
  <2>1. Feed \in Seq(I) /\ Feed' = Tail(Feed) /\ Feed # <<>> /\ Head(Feed) = Head(input) /\ Feed[1] = Head(input) /\ 1 \in DOMAIN Feed
    <3>1. input \in Seq(I) /\ todo \in Seq(I) /\ Feed = input \o todo /\ Feed' = Tail(input) \o todo
      BY <1>a, <1>b, <1>e DEF Feed
    <3>2. Feed \in Seq(I) /\ Feed' = Tail(Feed) /\ Feed # <<>> /\ Feed[1] = Head(input)
      BY <3>1, <1>e, TailOver, Joined
    <3> QED BY <3>2, PopFront
  <2>2. About(Head(input), x) => For(Feed, x) # {}
    BY <2>1 DEF For
  <2> QED BY <2>1, <2>2, FewerTail DEF OnceFor
<1>f. ASSUME telling = <<>>, output' = output, telling' \in Seq(Word) PROVE Fewer(Told, Told', x)
  <2>1. \A i \in DOMAIN telling' : telling'[i] \in Word
    BY <1>f
  <2>2. For(telling', x) = {}
    BY <2>1, NotAbout, ForNone
  <2>3. telling' \in Seq(O)
    BY <1>f DEF O
  <2>4. For(output \o telling', x) = For(output, x) /\ output \o telling = output
    BY <2>2, <2>3, <1>a, <1>f, ForJoin, Nothing
  <2> QED BY <2>4, <1>f, FewerSame DEF Told
<1>g. /\ Control("disconnected") \in Word /\ Control("connected") \in Word
      /\ Control("snapshotNeeded") \in Word
  BY DEF Control, Word
<1>h. <<Control("disconnected")>> \in Seq(Word) /\ <<>> \in Seq(Word)
  BY <1>g
<1>1. CASE HubTell
  <2>1. Told' = Told
    BY <1>1, <1>a, MoveOver DEF HubTell, Told
  <2> QED BY <1>1, <2>1, <1>c, <1>d, FewerSame DEF HubTell
<1>2. CASE OnRegistration
  <2> DEFINE one(b) == IF b THEN <<Control("disconnected")>> ELSE <<>>
             rest == <<Control("connected"), Control("snapshotNeeded")>>
  <2>1. \E b \in BOOLEAN, d \in BOOLEAN : telling' = one(b) \o one(d) \o rest
    BY <1>2 DEF OnRegistration
  <2>2. PICK b \in BOOLEAN, d \in BOOLEAN : telling' = one(b) \o one(d) \o rest
    BY <2>1
  <2>3. \A e \in BOOLEAN : one(e) \in Seq(Word)
    <3>1. <<Control("disconnected")>> \in Seq(Word) /\ <<>> \in Seq(Word)
      BY <1>g
    <3> QED BY <3>1, Zenon
  <2>4. rest \in Seq(Word)
    BY <1>g
  <2> HIDE DEF one, rest
  <2>5. telling' \in Seq(Word)
    BY <2>2, <2>3, <2>4, Joined
  <2>6. \A c \in Conns : outbound'[c] = outbound[c] \/ outbound'[c] = <<Control("hello")>>
    BY <1>2, <1>a DEF OnRegistration
  <2>7. For(<<Control("hello")>>, x) = {}
    BY ForNone DEF Control, About
  <2>8. \A c \in Conns : Fewer(outbound[c], outbound'[c], x)
    BY <2>6, <2>7, FewerSame, FewerNone
  <2> QED BY <1>2, <2>5, <2>8, <1>c, <1>d, <1>f DEF OnRegistration, HubFree
<1>3. CASE OnClosed
  <2>1. telling' \in Seq(Word) \/ telling' = telling
    BY <1>3, <1>h DEF OnClosed
  <2>2. Fewer(Told, Told', x)
    BY <1>3, <2>1, <1>d, <1>f DEF OnClosed, HubFree
  <2> QED BY <1>3, <2>2, <1>c, <1>d DEF OnClosed
<1>4. CASE OnRotated \/ PollToken
  <2>1. telling' \in Seq(Word) /\ UNCHANGED <<output, outbound, recentCmds>>
    BY <1>4, <1>h DEF OnRotated, PollToken, CloseActive
  <2>2. Fewer(Told, Told', x) /\ Fewer(Feed, Feed', x)
    BY <1>4, <2>1, <1>d, <1>e, <1>f DEF OnRotated, PollToken, HubFree
  <2> QED BY <2>1, <2>2, <1>c, <1>d
<1>5. CASE OnSnapshot
  BY <1>5, <1>c, <1>d, <1>e DEF OnSnapshot
<1>6. CASE OnBadFrame
  <2>1. CASE Head(inbound).conn = active
    <3>1. <<Control("error")>> \in Seq(F) /\ For(<<Control("error")>>, x) = {}
      <4>1. Control("error") \in F /\ ~About(Control("error"), x)
        BY DEF Control, Word, About
      <4> HIDE DEF F
      <4> QED BY <4>1, ForNone
    <3>2. Emit(<<Control("error")>>) /\ telling = <<>> /\ telling' = <<>>
      BY <1>6, <2>1 DEF OnBadFrame, HubFree
    <3>3. Fewer(Told, Told', x) /\ \A c \in Conns : Fewer(outbound[c], outbound'[c], x)
      BY <3>1, <3>2, EmitTold, EmitFor, FewerSame
    <3> QED BY <1>6, <3>3, <1>c, <1>d DEF OnBadFrame
  <2>2. CASE Head(inbound).conn # active
    BY <1>6, <2>2, <1>c, <1>d DEF OnBadFrame
  <2> QED BY <2>1, <2>2
<1>7. CASE OnDelta
  <2> DEFINE v == Head(input).conv
             k == Head(input).ns[1]
  <2>1. Head(input) \in I /\ Head(input).type = "delta" /\ input' = Tail(input) /\ input # <<>>
    BY <1>7, <1>a, PopFront DEF OnDelta
  <2>2. Head(input) \in Run /\ Len(Head(input).ns) = 1
    BY <2>1 DEF OneStep, Answer, Snap, Word, I
  <2>3. v \in Convs /\ k \in 1..MaxSteps
    <3>1. v \in Convs /\ Head(input).ns \in Seq(1..MaxSteps)
      BY <2>2 DEF Run
    <3>2. Head(input).ns # <<>>
      BY <2>2
    <3> QED BY <3>1, <3>2, PopFront
  <2> HIDE DEF v, k
  <2>4. Buffered(v, k) \in Seq(Run)
    BY <2>3, BufferedTypes DEF HubInv
  <2>5. RunsOf(v, Buffered(v, k)) \in Seq(Run) /\ Append(RunsOf(v, bufs), Head(input)) \in Seq(Run)
    BY <2>2, <2>4, <1>a, PartTypes, PushBack
  <2>6. ASSUME NEW frames \in Seq(Run), Emit(frames)
        PROVE  Fewer(Told, Told', x) /\ \A c \in Conns : Fewer(outbound[c], outbound'[c], x)
    <3>1. For(frames, x) = {}
      BY NotAbout, ForNone
    <3>2. frames \in Seq(F)
      OBVIOUS
    <3>3. telling = <<>> /\ telling' = <<>>
      BY <1>7 DEF OnDelta, HubFree
    <3> QED BY <2>6, <3>1, <3>2, <3>3, EmitTold, EmitFor, FewerSame
  <2>7. Fewer(Told, Told', x) /\ \A c \in Conns : Fewer(outbound[c], outbound'[c], x)
    BY <1>7, <2>5, <2>6, <1>d DEF OnDelta, v, k
  <2> QED BY <1>7, <2>1, <2>7, <1>c, <1>d, <1>e DEF OnDelta
<1>8. CASE FlushAll
  <2> DEFINE last == IF pendingSnap = NoSnap THEN <<>> ELSE <<pendingSnap>>
  <2>1. last \in Seq(Run \cup Snap)
    <3>1. pendingSnap \in Snap \cup {NoSnap}
      BY DEF HubInv, HubTypes
    <3> DEFINE T == Run \cup Snap
    <3>2. pendingSnap \in T \cup {NoSnap}
      BY <3>1
    <3> HIDE DEF T
    <3>3. last \in Seq(T)
      BY <3>2
    <3> QED BY <3>3 DEF T
  <2>2. bufs \o last \in Seq(Run \cup Snap)
    <3> HIDE DEF last
    <3> QED BY <1>a, <2>1, Joined
  <2> HIDE DEF last
  <2> DEFINE frames == bufs \o last
  <2>3. For(frames, x) = {} /\ frames \in Seq(F)
    <3> HIDE DEF frames
    <3>1. \A i \in DOMAIN frames : frames[i] \in Run \cup Snap
      BY <2>2 DEF frames
    <3>2. frames \in Seq(F)
      BY <2>2 DEF frames
    <3> QED BY <3>1, <3>2, NotAbout, ForNone
  <2>4. Emit(frames) /\ telling = <<>> /\ telling' = <<>>
    BY <1>8 DEF FlushAll, HubFree, last
  <2> HIDE DEF frames
  <2>5. Fewer(Told, Told', x) /\ \A c \in Conns : Fewer(outbound[c], outbound'[c], x)
    BY <2>3, <2>4, EmitTold, EmitFor, FewerSame
  <2> QED BY <1>8, <2>5, <1>c, <1>d DEF FlushAll
<1>9. CASE OnResult
  <2>1. Head(input) \in I /\ Head(input).type = "result" /\ input' = Tail(input) /\ input # <<>>
    BY <1>9, <1>a, PopFront DEF OnResult
  <2>2. Head(input) \in F
    BY <2>1 DEF I, OneStep
  <2> DEFINE frames == Append(bufs, Head(input))
  <2>3. Emit(frames) /\ telling = <<>> /\ telling' = <<>> /\ UNCHANGED recentCmds
    BY <1>9 DEF OnResult, HubFree
  <2>4. bufs \in Seq(F) /\ For(bufs, x) = {}
    <3>1. \A i \in DOMAIN bufs : bufs[i] \in Run
      BY <1>a
    <3>2. For(bufs, x) = {}
      BY <3>1, NotAbout, ForNone
    <3>3. Run \subseteq F
      OBVIOUS
    <3> HIDE DEF F
    <3>4. bufs \in Seq(F)
      BY <1>a, <3>3
    <3> QED BY <3>2, <3>4
  <2>5. /\ frames \in Seq(F)
        /\ ~About(Head(input), x) => For(frames, x) = {}
        /\ Single(For(frames, x))
    <3> HIDE DEF F
    <3> QED BY <2>2, <2>4, PushBack, ForPush
  <2> HIDE DEF frames
  <2>6. For(Told', x) = For(Told, x)
    BY <2>3, <2>5, EmitTold
  <2>7. CASE About(Head(input), x)
    <3>1. For(Feed, x) # {} /\ For(Feed', x) = {}
      BY <2>1, <2>7, <1>e
    <3>2. For(Told, x) = {} /\ (\A c \in Conns : For(outbound[c], x) = {}) /\ answers[x] = 0 /\ InRecent(x)
      BY <3>1 DEF OnceFor
    <3>3. \A c \in Conns : Single(For(outbound'[c], x)) /\ (For(outbound'[c], x) # {} => c = active)
      <4>1. Single({})
        BY DEF Single
      <4>2. \A c \in Conns :
              \/ outbound'[c] = outbound[c]
              \/ /\ c = active
                 /\ For(outbound[c], x) = {} => Single(For(outbound'[c], x))
        BY <2>3, <2>5, EmitAppends
      <4> QED BY <4>1, <4>2, <3>2
    <3>4. InRecent(x)' /\ ran'[x] = ran[x] /\ ran[x] <= 1 /\ answers'[x] = answers[x]
      BY <2>3, <3>2, <1>b DEF InRecent, OnceFor
    <3> QED BY <2>6, <3>1, <3>2, <3>3, <3>4 DEF OnceFor, Single
  <2>8. CASE ~About(Head(input), x)
    <3>1. \A c \in Conns : Fewer(outbound[c], outbound'[c], x)
      BY <2>3, <2>5, <2>8, EmitFor, FewerSame
    <3> QED BY <2>1, <2>3, <2>6, <3>1, <1>c, <1>d, <1>e, FewerSame
  <2> QED BY <2>7, <2>8
<1>10. CASE OnCommand
  <2>a. Head(inbound).cmd \in Cmds
    BY <1>10, PopFront DEF OnCommand, HubInv, ClosedIsGone, Messages
  <2> PICK cmd \in Cmds : cmd = Head(inbound).cmd
    BY <2>a
  <2>1. cmd \in Cmds /\ cmd = Head(inbound).cmd
    OBVIOUS
  <2> DEFINE order == [type |-> "command", cmd |-> cmd]
  <2>2. UNCHANGED <<input, telling>> /\ telling = <<>> /\ Fewer(Feed, Feed', x)
    BY <1>10, <1>d DEF OnCommand, HubFree
  <2>3. \/ UNCHANGED <<recentCmds, outbound, output>>
        \/ /\ ~InRecent(cmd) /\ recentCmds' = Remember(cmd)
           /\ \/ output' = Append(output, order) /\ UNCHANGED outbound
              \/ Emit(<<Refusal(cmd)>>)
    BY <1>10, <2>1 DEF OnCommand
  <2>4. ASSUME UNCHANGED <<recentCmds, outbound, output>> PROVE OnceFor(x)'
    BY <2>4, <2>2, <1>c, <1>d
  <2>5. /\ order \in O /\ <<Refusal(cmd)>> \in Seq(F)
        /\ x # cmd => ~About(order, x) /\ For(<<Refusal(cmd)>>, x) = {}
        /\ Single(For(<<Refusal(cmd)>>, x))
    <3>1. order \in O /\ Refusal(cmd) \in F
      BY <2>1 DEF Order, O, Refusal, Answer
    <3>2. x # cmd => ~About(order, x) /\ ~About(Refusal(cmd), x)
      BY DEF About, Refusal
    <3>3. DOMAIN <<Refusal(cmd)>> = {1} /\ <<Refusal(cmd)>>[1] = Refusal(cmd)
      OBVIOUS
    <3>4. Single(For(<<Refusal(cmd)>>, x))
      BY <3>3 DEF Single, For
    <3>5. x # cmd => For(<<Refusal(cmd)>>, x) = {}
      BY <3>2, <3>3 DEF For
    <3>6. <<Refusal(cmd)>> \in Seq(F)
      <4> HIDE DEF F
      <4> QED BY <3>1
    <3> QED BY <3>1, <3>2, <3>4, <3>5, <3>6
  <2> HIDE DEF order
  <2>6. ASSUME ~InRecent(cmd), recentCmds' = Remember(cmd)
        PROVE  InRecent(cmd)' /\ (InRecent(x) => InRecent(x)')
    BY <2>6, <2>1, Remembers
  <2>7. Told = output /\ (output' \in Seq(O) => Told' = output')
    BY <2>2, <1>a, Nothing DEF Told
  <2>8. ASSUME ~InRecent(cmd), recentCmds' = Remember(cmd), output' = Append(output, order), UNCHANGED outbound
        PROVE  OnceFor(x)'
    <3>1. /\ ~About(order, x) => For(Told', x) = For(Told, x)
          /\ For(Told, x) = {} => Single(For(Told', x))
      <4>1. Append(output, order) \in Seq(O)
        BY <2>5, <1>a, PushBack
      <4>2. /\ ~About(order, x) => For(Append(output, order), x) = For(output, x)
            /\ For(output, x) = {} => Single(For(Append(output, order), x))
        BY <2>5, <1>a, ForPush
      <4> QED BY <4>1, <4>2, <2>7, <2>8
    <3>2. CASE x # cmd
      BY <2>2, <2>5, <2>6, <2>8, <3>1, <3>2, <1>c, <1>d, FewerSame
    <3>3. CASE x = cmd
      BY <2>2, <2>6, <2>8, <3>1, <3>3, <1>b DEF OnceFor, Fewer, Single
    <3> QED BY <3>2, <3>3
  <2>9. ASSUME ~InRecent(cmd), recentCmds' = Remember(cmd), Emit(<<Refusal(cmd)>>)
        PROVE  OnceFor(x)'
    <3>1. For(Told', x) = For(Told, x)
      BY <2>2, <2>5, <2>9, EmitTold
    <3>2. CASE x # cmd
      <4>1. \A c \in Conns : Fewer(outbound[c], outbound'[c], x)
        BY <2>5, <2>9, <3>2, EmitFor, FewerSame
      <4> QED BY <2>2, <2>6, <2>9, <3>1, <4>1, <1>c, FewerSame
    <3>3. CASE x = cmd
      <4>1. /\ For(Told, x) = {} /\ For(Feed, x) = {} /\ \A c \in Conns : For(outbound[c], x) = {}
            /\ ran[x] = 0 /\ answers[x] = 0
        BY <2>9, <3>3 DEF OnceFor
      <4>2. \A c \in Conns : Single(For(outbound'[c], x)) /\ (For(outbound'[c], x) # {} => c = active)
        <5>1. Single({})
          BY DEF Single
        <5>2. \A c \in Conns :
                \/ outbound'[c] = outbound[c]
                \/ /\ c = active
                   /\ For(outbound[c], x) = {} => Single(For(outbound'[c], x))
          BY <2>5, <2>9, EmitAppends
        <5> QED BY <5>1, <5>2, <4>1
      <4>3. For(Feed', x) = {} /\ InRecent(x)'
        BY <2>2, <2>6, <2>9, <3>3, <4>1 DEF Fewer
      <4>4. ran'[x] = 0 /\ answers'[x] = 0
        BY <4>1, <1>b
      <4> QED BY <3>1, <4>1, <4>2, <4>3, <4>4 DEF OnceFor, Single
    <3> QED BY <3>2, <3>3
  <2> QED BY <2>3, <2>4, <2>8, <2>9
<1> QED BY <1>1, <1>2, <1>3, <1>4, <1>5, <1>6, <1>7, <1>8, <1>9, <1>10 DEF HubLoop

(* The client's side: an answer delivered is an answer less on its way. *)
LEMMA OnceClient ==
  ASSUME HubInv, NEW x \in Cmds, OnceFor(x), NEW c \in Conns,
         \/ Connect(c) \/ Leave(c) \/ ConnLoop(c)
         \/ \E cmd \in Cmds : Ask(c, [type |-> "command", conn |-> c, cmd |-> cmd])
         \/ Ask(c, [type |-> "bad", conn |-> c])
  PROVE  OnceFor(x)'
<1> USE DEF hostVars, hubVars
<1> DEFINE F == Run \cup Snap \cup Answer \cup Word
<1>a. outbound \in [Conns -> Seq(F)] /\ answers \in [Cmds -> Nat]
  BY QueuesTyped
<1>b. /\ UNCHANGED <<ran, input, output, telling, todo, recentCmds>>
      /\ Fewer(Told, Told', x) /\ Fewer(Feed, Feed', x) /\ (InRecent(x) => InRecent(x)')
  BY FewerSame DEF Connect, Leave, ConnLoop, Deliver, Obey, End, Stop, Ask, Told, Feed, InRecent
<1> HIDE DEF F
<1>1. CASE UNCHANGED <<outbound, answers>>
  BY <1>1, <1>b, FewerSame, FewerKeeps
<1>2. CASE End(c)
  <2>1. \A d \in Conns : outbound'[d] = outbound[d] \/ outbound'[d] = <<>>
    BY <1>2, <1>a DEF End
  <2>2. For(<<>>, x) = {}
    BY DEF For
  <2>3. \A d \in Conns : Fewer(outbound[d], outbound'[d], x)
    BY <2>1, <2>2, FewerSame, FewerNone
  <2> QED BY <1>2, <1>b, <2>3, FewerKeeps DEF End
<1>3. CASE Deliver(c)
  <2>a. Head(outbound[c]) \in F /\ outbound[c] # <<>> /\ outbound[c] \in Seq(F) /\ outbound[c][1] = Head(outbound[c])
        /\ 1 \in DOMAIN outbound[c]
    BY <1>3, <1>a, PopFront DEF Deliver
  <2> PICK f \in F : f = Head(outbound[c])
    BY <2>a
  <2>1. /\ outbound'[c] = Tail(outbound[c]) /\ \A d \in Conns : d # c => outbound'[d] = outbound[d]
    BY <1>3, <1>a DEF Deliver
  <2>2. /\ Fewer(outbound[c], outbound'[c], x)
        /\ About(f, x) => For(outbound[c], x) # {} /\ For(outbound'[c], x) = {}
    <3>1. About(f, x) => 1 \in For(outbound[c], x)
      BY <2>a DEF For
    <3> QED BY <2>a, <2>1, <3>1, FewerTail DEF OnceFor
  <2>3. \A d \in Conns : Fewer(outbound[d], outbound'[d], x)
    BY <2>1, <2>2, FewerSame
  <2>4. CASE About(f, x)
    <3>1. answers' = [answers EXCEPT ![x] = @ + 1]
      BY <1>3, <2>4 DEF Deliver, About
    <3>2. /\ answers[x] = 0 /\ For(Told, x) = {} /\ For(Feed, x) = {} /\ InRecent(x)
          /\ \A d \in Conns : d # c => For(outbound[d], x) = {}
      BY <2>2, <2>4 DEF OnceFor
    <3>3. /\ answers'[x] = 1 /\ For(Told', x) = {} /\ For(Feed', x) = {} /\ InRecent(x)'
          /\ \A d \in Conns : For(outbound'[d], x) = {}
          /\ ran'[x] = ran[x] /\ ran[x] <= 1
      <4>1. answers'[x] = 1
        BY <1>a, <3>1, <3>2
      <4>2. For(Told', x) = {} /\ For(Feed', x) = {} /\ InRecent(x)'
        BY <1>b, <3>2 DEF Fewer
      <4>3. \A d \in Conns : For(outbound'[d], x) = {}
        BY <2>1, <2>2, <2>4, <3>2
      <4>4. ran'[x] = ran[x] /\ ran[x] <= 1
        BY <1>b DEF OnceFor
      <4> QED BY <4>1, <4>2, <4>3, <4>4
    <3> QED BY <3>3 DEF OnceFor, Single
  <2>5. CASE ~About(f, x)
    <3>1. answers'[x] = answers[x]
      <4>1. CASE f.type \in {"result", "refusal"}
        BY <1>3, <2>5, <4>1, <1>a DEF Deliver, About
      <4>2. CASE f.type \notin {"result", "refusal"}
        BY <1>3, <4>2 DEF Deliver, clientVars
      <4> QED BY <4>1, <4>2
    <3> QED BY <1>b, <2>3, <3>1, FewerKeeps
  <2> QED BY <2>4, <2>5
<1>4. CASE Connect(c) \/ Leave(c) \/ Obey(c)
  BY <1>4, <1>1 DEF Connect, Leave, Obey, Stop, clientVars
<1>5. ASSUME NEW m, Ask(c, m) PROVE OnceFor(x)'
  BY <1>5, <1>1, SMTT(30) DEF Ask
<1> QED BY <1>2, <1>3, <1>4, <1>5 DEF ConnLoop

LEMMA PumpedOutKept == ASSUME PumpedOut, [Next]_vars PROVE PumpedOut'
  BY ZenonT(40) DEF PumpedOut, hostVars, Next, HostLoop, HubLoop, ConnLoop, vars, HostStep, HostTick, HostReceive, PumpFrame,
         PumpSnapshot, HostRotate, PollToken, HubTell, OnRegistration, OnClosed, OnCommand, OnBadFrame,
         OnDelta, OnResult, OnSnapshot, OnRotated, FlushAll, Connect, Leave, Deliver, Obey, End, Stop, Ask

LEMMA RememberedKept ==
  ASSUME HubInv, Remembered, IsFiniteSet(Cmds), Cardinality(Cmds) <= RecentCap, [Next]_vars
  PROVE  Remembered'
<1> USE DEF hostVars, hubVars
<1>1. CASE OnCommand
  <2>1. Head(inbound).cmd \in Cmds
    BY <1>1, PopFront DEF OnCommand, HubInv, ClosedIsGone, Messages
  <2> PICK cmd \in Cmds : cmd = Head(inbound).cmd
    BY <2>1
  <2>2. recentCmds' = recentCmds \/ (~InRecent(cmd) /\ recentCmds' = Remember(cmd))
    BY <1>1 DEF OnCommand
  <2>3. CASE recentCmds' = recentCmds
    BY <2>3 DEF Remembered
  <2> QED BY <2>2, <2>3, Remembers
<1>2. CASE UNCHANGED recentCmds
  BY <1>2 DEF Remembered
<1>3. ~OnCommand => UNCHANGED recentCmds
  BY DEF Next, HostLoop, HubLoop, ConnLoop, vars, HostStep, HostTick, HostReceive, PumpFrame,
         PumpSnapshot, HostRotate, PollToken, HubTell, OnRegistration, OnClosed, OnBadFrame,
         OnDelta, OnResult, OnSnapshot, OnRotated, FlushAll, Connect, Leave, Deliver, Obey, End, Stop, Ask
<1> QED BY <1>1, <1>2, <1>3

OnceInv == Remembered /\ PumpedOut /\ \A x \in Cmds : OnceFor(x)

(* However often a command is sent, on whatever socket, it runs at most once and is
   answered at most once, as long as the hub's cache holds as many ids as there are. *)
THEOREM Once ==
  ASSUME IsFiniteSet(Cmds), Cardinality(Cmds) <= RecentCap
  PROVE  Spec => []RunsOnce
<1>1. Init => OnceInv
  <2> SUFFICES ASSUME Init PROVE OnceInv
    OBVIOUS
  <2>1. Remembered /\ PumpedOut
    BY DEF Init, Remembered, PumpedOut
  <2>2. ASSUME NEW x \in Cmds PROVE OnceFor(x)
    <3>1. For(<<>>, x) = {}
      BY DEF For
    <3>2. Told = <<>> /\ Feed = <<>> /\ (\A c \in Conns : outbound[c] = <<>>) /\ ran[x] = 0 /\ answers[x] = 0
      BY DEF Init, Told, Feed
    <3> QED BY <3>1, <3>2 DEF OnceFor, Single
  <2> QED BY <2>1, <2>2 DEF OnceInv
<1>2. HubInv /\ HubInv' /\ OnceInv /\ [Next]_vars => OnceInv'
  <2> SUFFICES ASSUME HubInv, HubInv', OnceInv, [Next]_vars PROVE OnceInv'
    OBVIOUS
  <2>1. Remembered' /\ PumpedOut'
    BY RememberedKept, PumpedOutKept DEF OnceInv
  <2>2. ASSUME NEW x \in Cmds PROVE OnceFor(x)'
    <3>1. OnceFor(x) /\ Remembered /\ PumpedOut
      BY DEF OnceInv
    <3>2. CASE UNCHANGED vars
      BY <3>1, <3>2 DEF vars, hostVars, hubVars, clientVars, OnceFor, Told, Feed, InRecent
    <3>3. CASE Next
      BY <3>1, <3>3, OnceHost, OnceHub, OnceClient DEF Next
    <3> QED BY <3>2, <3>3
  <2> QED BY <2>1, <2>2 DEF OnceInv
<1>3. OnceInv => RunsOnce
  BY DEF OnceInv, OnceFor, RunsOnce
<1> QED BY <1>1, <1>2, <1>3, HubInvHolds, PTL DEF Spec

-----------------------------------------------------------------------------
(* What the active client still misses is on its way.  With m what was made:
   frame f, and a queue q, tell step k of conversation v. *)
TellsOf(m, f, v, k) ==
  \/ f.type = "delta" /\ f.conv = v /\ \E i \in DOMAIN f.ns : f.ns[i] = k
  \/ f.type = "snapshot" /\ k \in 1..f.at[v] /\ (v = Shown \/ m[v][k] = "event")

Holds(m, q, v, k) == \E i \in DOMAIN q : TellsOf(m, q[i], v, k)

LEMMA HoldsJoin ==
  ASSUME NEW S, NEW p \in Seq(S), NEW q \in Seq(S), NEW m, NEW v, NEW k
  PROVE  Holds(m, p \o q, v, k) <=> Holds(m, p, v, k) \/ Holds(m, q, v, k)
<1> DEFINE r == p \o q
<1>1. /\ \A i \in DOMAIN p : i \in DOMAIN r /\ r[i] = p[i]
      /\ \A i \in DOMAIN q : Len(p) + i \in DOMAIN r /\ r[Len(p) + i] = q[i]
      /\ \A i \in DOMAIN r : \/ i \in DOMAIN p /\ r[i] = p[i]
                             \/ i - Len(p) \in DOMAIN q /\ r[i] = q[i - Len(p)]
  BY Joined
<1> HIDE DEF r
<1>2. Holds(m, r, v, k) => Holds(m, p, v, k) \/ Holds(m, q, v, k)
  BY <1>1 DEF Holds
<1>3. Holds(m, p, v, k) => Holds(m, r, v, k)
  BY <1>1 DEF Holds
<1>4. Holds(m, q, v, k) => Holds(m, r, v, k)
  BY <1>1 DEF Holds
<1> QED BY <1>2, <1>3, <1>4 DEF r

LEMMA HoldsOne ==
  ASSUME NEW f, NEW m, NEW v, NEW k
  PROVE  Holds(m, <<f>>, v, k) <=> TellsOf(m, f, v, k)
<1>1. DOMAIN <<f>> = {1} /\ <<f>>[1] = f
  OBVIOUS
<1> QED BY <1>1 DEF Holds

(* The way to the client of step k of conversation v. *)
OnItsWay(v, k) ==
  \/ Holds(made, todo, v, k) \/ Holds(made, input, v, k) \/ Holds(made, bufs, v, k)
  \/ Holds(made, outbound[active], v, k)
  \/ pendingSnap # NoSnap /\ TellsOf(made, pendingSnap, v, k)

Asked == \E i \in DOMAIN Told : Told[i].type = "snapshotNeeded"

Covered ==
  (active # NoConn /\ conn[active] = "open") =>
    \/ dirty = TRUE \/ Asked
    \/ \A v \in Convs : \A k \in Needed(v) \ got[active][v] : OnItsWay(v, k)

LEMMA CoveredMeans ==
  ASSUME HubInv, Covered
  PROVE  MissedIsCovered
<1> SUFFICES ASSUME active # NoConn, conn[active] = "open",
                    \A v \in Convs : \A k \in Needed(v) \ got[active][v] : OnItsWay(v, k),
                    NEW v \in Convs, NEW k \in Needed(v) \ got[active][v]
             PROVE  Within(todo \o input \o bufs \o outbound[active]
                             \o (IF pendingSnap = NoSnap THEN <<>> ELSE <<pendingSnap>>),
                           LAMBDA f : Carries(f, v, k))
  BY DEF Covered, MissedIsCovered, Asked, Told, Within
<1> DEFINE G == Run \cup Snap \cup Answer \cup Word \cup OneStep
           last == IF pendingSnap = NoSnap THEN <<>> ELSE <<pendingSnap>>
<1>1. /\ todo \in Seq(G) /\ input \in Seq(G) /\ bufs \in Seq(G) /\ outbound[active] \in Seq(G)
      /\ pendingSnap \in G \cup {NoSnap}
  <2>1. active \in Conns
    BY DEF HubInv, SeatInv, SeatTypes
  <2>2. pendingSnap \in Snap \cup {NoSnap}
    BY DEF HubInv, HubTypes
  <2> QED BY <2>1, <2>2, QueuesTyped
<1> HIDE DEF G
<1>2. last \in Seq(G)
  BY <1>1
<1>3. pendingSnap # NoSnap /\ TellsOf(made, pendingSnap, v, k) => Holds(made, last, v, k)
  BY HoldsOne
<1> HIDE DEF last
<1>4. todo \o input \in Seq(G) /\ todo \o input \o bufs \in Seq(G) /\ todo \o input \o bufs \o outbound[active] \in Seq(G)
  BY <1>1, Joined
<1> DEFINE all == todo \o input \o bufs \o outbound[active] \o last
<1>5. Holds(made, all, v, k)
  <2>1. \/ Holds(made, todo, v, k) \/ Holds(made, input, v, k) \/ Holds(made, bufs, v, k)
        \/ Holds(made, outbound[active], v, k) \/ Holds(made, last, v, k)
    BY <1>3 DEF OnItsWay
  <2>2. Holds(made, todo, v, k) \/ Holds(made, input, v, k) => Holds(made, todo \o input, v, k)
    BY <1>1, HoldsJoin
  <2>3. Holds(made, todo \o input, v, k) \/ Holds(made, bufs, v, k) => Holds(made, todo \o input \o bufs, v, k)
    BY <1>1, <1>4, HoldsJoin
  <2>4. Holds(made, todo \o input \o bufs, v, k) \/ Holds(made, outbound[active], v, k) =>
          Holds(made, todo \o input \o bufs \o outbound[active], v, k)
    BY <1>1, <1>4, HoldsJoin
  <2>5. Holds(made, todo \o input \o bufs \o outbound[active], v, k) \/ Holds(made, last, v, k) => Holds(made, all, v, k)
    BY <1>2, <1>4, HoldsJoin
  <2> QED BY <2>1, <2>2, <2>3, <2>4, <2>5
<1> HIDE DEF all
<1>6. PICK i \in DOMAIN all : TellsOf(made, all[i], v, k)
  BY <1>5 DEF Holds
<1>7. Carries(all[i], v, k)
  BY <1>6 DEF TellsOf, Carries, Tells
<1>8. Within(all, LAMBDA f : Carries(f, v, k))
  BY <1>7 DEF Within
<1> QED BY <1>8 DEF all, last

(* What a queue holds, whatever the order. *)
Elems(q) == {q[i] : i \in DOMAIN q}

LEMMA ElemsTail ==
  ASSUME NEW S, NEW q \in Seq(S), q # <<>>
  PROVE  Elems(Tail(q)) \subseteq Elems(q) /\ Head(q) \in Elems(q)
<1>1. /\ \A i \in DOMAIN Tail(q) : Tail(q)[i] = q[i + 1] /\ i + 1 \in DOMAIN q
      /\ Head(q) = q[1] /\ 1 \in DOMAIN q
  BY PopFront
<1> QED BY <1>1 DEF Elems

LEMMA ElemsPush ==
  ASSUME NEW S, NEW q \in Seq(S), NEW x \in S
  PROVE  Elems(Append(q, x)) = Elems(q) \cup {x}
<1> DEFINE r == Append(q, x)
<1>1. /\ DOMAIN r = DOMAIN q \cup {Len(q) + 1} /\ r[Len(q) + 1] = x
      /\ \A i \in DOMAIN q : r[i] = q[i]
  BY PushBack
<1> HIDE DEF r
<1>2. Elems(r) = Elems(q) \cup {x}
  BY <1>1 DEF Elems
<1> QED BY <1>2 DEF r

LEMMA ElemsJoin ==
  ASSUME NEW S, NEW p \in Seq(S), NEW q \in Seq(S)
  PROVE  Elems(p \o q) = Elems(p) \cup Elems(q)
<1> DEFINE r == p \o q
<1>1. /\ \A i \in DOMAIN p : i \in DOMAIN r /\ r[i] = p[i]
      /\ \A i \in DOMAIN q : Len(p) + i \in DOMAIN r /\ r[Len(p) + i] = q[i]
      /\ \A i \in DOMAIN r : \/ i \in DOMAIN p /\ r[i] = p[i]
                             \/ i - Len(p) \in DOMAIN q /\ r[i] = q[i - Len(p)]
  BY Joined
<1> HIDE DEF r
<1>2. Elems(r) = Elems(p) \cup Elems(q)
  BY <1>1 DEF Elems
<1> QED BY <1>2 DEF r

LEMMA ElemsFirst ==
  ASSUME NEW S, NEW q \in Seq(S), NEW n \in 0..Len(q)
  PROVE  Elems(SubSeq(q, 1, n)) \subseteq Elems(q)
<1> DEFINE r == SubSeq(q, 1, n)
<1>1. DOMAIN r = 1..n /\ \A i \in 1..n : r[i] = q[i] /\ i \in DOMAIN q
  BY FirstOf
<1> HIDE DEF r
<1>2. Elems(r) \subseteq Elems(q)
  BY <1>1 DEF Elems
<1> QED BY <1>2 DEF r

LEMMA ElemsOne == ASSUME NEW f PROVE Elems(<<f>>) = {f} /\ Elems(<<>>) = {}
<1>1. DOMAIN <<f>> = {1} /\ <<f>>[1] = f /\ DOMAIN <<>> = {}
  OBVIOUS
<1> QED BY <1>1 DEF Elems

LEMMA ElemsIn == ASSUME NEW S, NEW q \in Seq(S) PROVE Elems(q) \subseteq S
BY DEF Elems

LEMMA EmitElems ==
  ASSUME HubInv, NEW frames \in Seq(Run \cup Snap \cup Answer \cup Word), Emit(frames), NEW c \in Conns
  PROVE  Elems(outbound'[c]) \subseteq Elems(outbound[c]) \cup Elems(frames)
<1> DEFINE F == Run \cup Snap \cup Answer \cup Word
<1>1. ASSUME NEW n \in 0..Len(frames), outbound'[c] = outbound[c] \o SubSeq(frames, 1, n)
      PROVE  Elems(outbound'[c]) \subseteq Elems(outbound[c]) \cup Elems(frames)
  <2> DEFINE s == SubSeq(frames, 1, n)
  <2>1. s \in Seq(F) /\ Elems(s) \subseteq Elems(frames) /\ outbound[c] \in Seq(F)
    BY ElemsFirst, FirstOf DEF HubInv, ClientTypes
  <2> HIDE DEF s, F
  <2>2. Elems(outbound[c] \o s) = Elems(outbound[c]) \cup Elems(s)
    BY <2>1, ElemsJoin
  <2> QED BY <1>1, <2>1, <2>2 DEF s
<1> QED BY <1>1, EmitSent

(* The runs of the buffer, one per conversation. *)
OneRun(q) == \A i, j \in DOMAIN q : q[i].conv = q[j].conv => i = j

LEMMA ButOne ==
  ASSUME NEW u, NEW runs \in Seq(Run), HasRun(u, runs)
  PROVE  /\ RunOf(u, runs) \in 1..Len(runs) /\ runs[RunOf(u, runs)].conv = u
         /\ RunsOf(u, runs) = <<runs[RunOf(u, runs)]>>
         /\ DOMAIN RunsBut(u, runs) = 1..(Len(runs) - 1)
         /\ \A j \in 1..(Len(runs) - 1) :
              RunsBut(u, runs)[j] = IF j < RunOf(u, runs) THEN runs[j] ELSE runs[j + 1]
<1> DEFINE i == RunOf(u, runs)
           p == SubSeq(runs, 1, i - 1)
           q == SubSeq(runs, i + 1, Len(runs))
<1>1. i \in 1..Len(runs) /\ Len(runs) \in Nat /\ runs[i].conv = u
  BY DEF HasRun, RunOf
<1> HIDE DEF i
<1>2. /\ p \in Seq(Run) /\ q \in Seq(Run) /\ Len(p) = i - 1 /\ Len(q) = Len(runs) - i
      /\ \A j \in 1..(i - 1) : p[j] = runs[j]
      /\ \A j \in 1..(Len(runs) - i) : q[j] = runs[i + j]
  BY <1>1
<1>3. RunsOf(u, runs) = <<runs[i]>> /\ RunsBut(u, runs) = p \o q
  BY DEF RunsOf, RunsBut, i
<1> DEFINE r == p \o q
<1> HIDE DEF p, q
<1>4. /\ Len(r) = Len(runs) - 1 /\ r \in Seq(Run)
      /\ \A j \in 1..(i - 1) : r[j] = runs[j]
      /\ \A j \in DOMAIN r : j >= i => r[j] = runs[j + 1]
  <2>1. Len(r) = Len(p) + Len(q) /\ r \in Seq(Run)
    BY <1>2, SMTT(30)
  <2>2. \A j \in 1..(i - 1) : r[j] = p[j]
    BY <1>2, <1>1
  <2>3. ASSUME NEW j \in DOMAIN r, j >= i PROVE r[j] = runs[j + 1]
    <3>1. j \in 1..(Len(runs) - 1)
      BY <1>1, <1>2, <2>1
    <3>2. r[j] = q[j - (i - 1)] /\ j - (i - 1) \in 1..(Len(runs) - i)
      BY <1>1, <1>2, <2>3, <3>1
    <3>3. i + (j - (i - 1)) = j + 1
      BY <1>1, <3>1
    <3> QED BY <1>2, <3>2, <3>3
  <2> QED BY <1>1, <1>2, <2>1, <2>2, <2>3
<1> HIDE DEF r
<1>5. DOMAIN r = 1..(Len(runs) - 1)
  BY <1>4
<1>6. \A j \in 1..(Len(runs) - 1) : r[j] = IF j < i THEN runs[j] ELSE runs[j + 1]
  BY <1>1, <1>4, <1>5
<1>7. RunsBut(u, runs) = r
  BY <1>3 DEF r
<1> QED BY <1>1, <1>3, <1>5, <1>6, <1>7 DEF i

LEMMA PartElems ==
  ASSUME NEW u, NEW runs \in Seq(Run)
  PROVE  /\ Elems(RunsOf(u, runs)) \cup Elems(RunsBut(u, runs)) = Elems(runs)
         /\ \A f \in Elems(RunsOf(u, runs)) : f.conv = u
         /\ OneRun(runs) => /\ OneRun(RunsBut(u, runs))
                            /\ \A f \in Elems(RunsBut(u, runs)) : f.conv # u
<1>1. CASE ~HasRun(u, runs)
  <2>1. RunsOf(u, runs) = <<>> /\ RunsBut(u, runs) = runs
    BY <1>1 DEF RunsOf, RunsBut
  <2>2. \A f \in Elems(runs) : f.conv # u
    BY <1>1 DEF HasRun, Elems
  <2> QED BY <2>1, <2>2, ElemsOne
<1>2. CASE HasRun(u, runs)
  <2> DEFINE i == RunOf(u, runs)
             r == RunsBut(u, runs)
  <2>1. /\ i \in 1..Len(runs) /\ runs[i].conv = u /\ Len(runs) \in Nat
        /\ RunsOf(u, runs) = <<runs[i]>>
        /\ DOMAIN r = 1..(Len(runs) - 1) /\ DOMAIN runs = 1..Len(runs)
        /\ \A j \in 1..(Len(runs) - 1) : r[j] = IF j < i THEN runs[j] ELSE runs[j + 1]
    BY <1>2, ButOne
  <2> HIDE DEF i, r
  <2>2. \A j \in DOMAIN r : r[j] \in Elems(runs)
    BY <2>1 DEF Elems
  <2>3. ASSUME NEW j \in DOMAIN runs PROVE j = i \/ \E l \in DOMAIN r : r[l] = runs[j]
    <3>1. CASE j < i
      <4>1. j \in 1..(Len(runs) - 1)
        BY <2>1, <3>1
      <4> QED BY <2>1, <3>1, <4>1
    <3>2. CASE j > i
      <4>1. j - 1 \in 1..(Len(runs) - 1) /\ ~(j - 1 < i) /\ (j - 1) + 1 = j
        BY <2>1, <3>2
      <4> QED BY <2>1, <4>1
    <3> QED BY <3>1, <3>2, <2>1
  <2>4. Elems(RunsOf(u, runs)) = {runs[i]}
    BY <2>1, ElemsOne
  <2>5. runs[i] \in Elems(runs)
    BY <2>1 DEF Elems
  <2>6. Elems(r) \subseteq Elems(runs)
    BY <2>2 DEF Elems
  <2>7. Elems(runs) \subseteq {runs[i]} \cup Elems(r)
    BY <2>3 DEF Elems
  <2>8. ASSUME OneRun(runs) PROVE OneRun(r) /\ \A f \in Elems(r) : f.conv # u
    <3>1. \A j \in DOMAIN r : \E l \in DOMAIN runs : l # i /\ r[j] = runs[l] /\ l = (IF j < i THEN j ELSE j + 1)
      BY <2>1
    <3>2. \A f \in Elems(r) : f.conv # u
      BY <2>1, <2>8, <3>1 DEF OneRun, Elems
    <3>3. ASSUME NEW j \in DOMAIN r, NEW l \in DOMAIN r, r[j].conv = r[l].conv PROVE j = l
      <4>1. PICK a \in DOMAIN runs : r[j] = runs[a] /\ a = (IF j < i THEN j ELSE j + 1)
        BY <3>1
      <4>2. PICK b \in DOMAIN runs : r[l] = runs[b] /\ b = (IF l < i THEN l ELSE l + 1)
        BY <3>1
      <4>3. a = b
        BY <2>8, <3>3, <4>1, <4>2 DEF OneRun
      <4>4. j \in Nat /\ l \in Nat /\ i \in Nat
        BY <2>1
      <4> QED BY <4>1, <4>2, <4>3, <4>4
    <3> QED BY <3>2, <3>3 DEF OneRun
  <2> QED BY <2>1, <2>4, <2>5, <2>6, <2>7, <2>8 DEF r
<1> QED BY <1>1, <1>2

(* The run of a conversation with one more chunk. *)
Grown(v, k) == Delta(v, IF HasRun(v, bufs) THEN Append(bufs[RunOf(v, bufs)].ns, k) ELSE <<k>>)

LEMMA BufferedGrows ==
  ASSUME bufs \in Seq(Run), OneRun(bufs), NEW v \in Convs, NEW k \in 1..MaxSteps
  PROVE  /\ Elems(Buffered(v, k)) = Elems(RunsBut(v, bufs)) \cup {Grown(v, k)}
         /\ RunsOf(v, Buffered(v, k)) = <<Grown(v, k)>>
         /\ OneRun(Buffered(v, k))
<1>1. CASE ~HasRun(v, bufs)
  <2> DEFINE g == Delta(v, <<k>>)
             r == Append(bufs, g)
  <2>1. Buffered(v, k) = r /\ Grown(v, k) = g /\ RunsBut(v, bufs) = bufs
    BY <1>1 DEF Buffered, Grown, RunsBut
  <2>2. g \in Run /\ g.conv = v
    BY DEF Delta, Run
  <2> HIDE DEF g
  <2>3. /\ DOMAIN r = DOMAIN bufs \cup {Len(bufs) + 1} /\ r[Len(bufs) + 1] = g
        /\ \A i \in DOMAIN bufs : r[i] = bufs[i]
        /\ Elems(r) = Elems(bufs) \cup {g}
    BY <2>2, PushBack, ElemsPush
  <2> HIDE DEF r
  <2>4. \A i \in DOMAIN bufs : bufs[i].conv # v
    BY <1>1 DEF HasRun
  <2>5. OneRun(r)
    BY <2>2, <2>3, <2>4 DEF OneRun
  <2>6. HasRun(v, r) /\ RunOf(v, r) = Len(bufs) + 1
    BY <2>2, <2>3, <2>4 DEF HasRun, RunOf
  <2>7. RunsOf(v, r) = <<g>>
    BY <2>3, <2>6 DEF RunsOf
  <2> QED BY <2>1, <2>3, <2>5, <2>7
<1>2. CASE HasRun(v, bufs)
  <2> DEFINE i == RunOf(v, bufs)
             r == Buffered(v, k)
             g == Delta(v, Append(bufs[i].ns, k))
  <2>1. /\ i \in DOMAIN bufs /\ bufs[i].conv = v
    BY <1>2 DEF HasRun, RunOf
  <2>2. \A j \in DOMAIN bufs : bufs[j].conv = v => j = i
    BY <2>1 DEF OneRun
  <2>3. r = [j \in DOMAIN bufs |-> IF bufs[j].conv = v THEN Delta(v, Append(bufs[j].ns, k)) ELSE bufs[j]]
    BY <1>2 DEF Buffered
  <2>4. Grown(v, k) = g /\ g.conv = v
    BY <1>2 DEF Grown, Delta
  <2>a. r[i] = g
    BY <2>1, <2>3
  <2> HIDE DEF i, g
  <2>5. /\ DOMAIN r = DOMAIN bufs /\ r[i] = g
        /\ \A j \in DOMAIN bufs : j # i => r[j] = bufs[j]
        /\ \A j \in DOMAIN bufs : r[j].conv = bufs[j].conv
    BY <2>1, <2>2, <2>3, <2>4, <2>a
  <2> HIDE DEF r
  <2>6. OneRun(r)
    BY <2>5 DEF OneRun
  <2>7. HasRun(v, r) /\ RunOf(v, r) = i
    BY <2>1, <2>2, <2>5 DEF HasRun, RunOf
  <2>8. RunsOf(v, r) = <<g>>
    BY <2>5, <2>7 DEF RunsOf
  <2>9. Elems(r) = Elems(RunsBut(v, bufs)) \cup {g}
    <3>1. Elems(r) = {bufs[j] : j \in DOMAIN bufs \ {i}} \cup {g}
      BY <2>1, <2>5 DEF Elems
    <3>2. Elems(RunsBut(v, bufs)) = {bufs[j] : j \in DOMAIN bufs \ {i}}
      <4>1. RunsOf(v, bufs) = <<bufs[i]>>
        BY <1>2 DEF RunsOf, i
      <4>2. /\ {bufs[i]} \cup Elems(RunsBut(v, bufs)) = Elems(bufs)
            /\ \A f \in Elems(RunsBut(v, bufs)) : f.conv # v
        BY <4>1, PartElems, ElemsOne
      <4>3. \A f \in Elems(bufs) : f.conv # v <=> \E j \in DOMAIN bufs \ {i} : f = bufs[j]
        BY <2>1, <2>2 DEF Elems
      <4>4. \A j \in DOMAIN bufs : bufs[j] \in Elems(bufs)
        BY DEF Elems
      <4> QED BY <4>2, <4>3, <4>4, <2>1
    <3> QED BY <3>1, <3>2
  <2> QED BY <2>4, <2>6, <2>8, <2>9 DEF r
<1> QED BY <1>1, <1>2

(* What a step of a conversation does at the hub. *)
LEMMA DeltaStep ==
  ASSUME HubInv, OneRun(bufs), OnDelta
  PROVE  \E v \in Convs, k \in 1..MaxSteps :
           /\ input # <<>> /\ Head(input) = Delta(v, <<k>>) /\ input' = Tail(input)
           /\ Grown(v, k) \in Run /\ Head(input) \in Run
           /\ \/ /\ bufs' = Buffered(v, k) /\ UNCHANGED <<active, outbound, signal, output>>
              \/ /\ bufs' = RunsBut(v, bufs)
                 /\ \E frames \in Seq(Run \cup Snap \cup Answer \cup Word) :
                      /\ Emit(frames)
                      /\ \/ frames = <<Grown(v, k)>>
                         \/ frames = Append(RunsOf(v, bufs), Head(input))
<1> DEFINE I == OneStep \cup Answer \cup Snap \cup Word
           F == Run \cup Snap \cup Answer \cup Word
<1>1. input \in Seq(I) /\ bufs \in Seq(Run)
  BY QueuesTyped
<1>2. Head(input) \in I /\ Head(input).type = "delta" /\ input' = Tail(input) /\ input # <<>>
  BY <1>1, PopFront DEF OnDelta
<1>3. Head(input) \in Run /\ Len(Head(input).ns) = 1
  BY <1>2 DEF OneStep, Answer, Snap, Word
<1>4. Head(input).conv \in Convs /\ Head(input).ns[1] \in 1..MaxSteps
  <2>1. Head(input).conv \in Convs /\ Head(input).ns \in Seq(1..MaxSteps)
    BY <1>3 DEF Run
  <2>2. Head(input).ns # <<>>
    <3>1. Len(<<>>) = 0 /\ 0 # 1
      OBVIOUS
    <3> QED BY <3>1, <1>3, Zenon
  <2> QED BY <2>1, <2>2, PopFront
<1>5. PICK v \in Convs, k \in 1..MaxSteps : v = Head(input).conv /\ k = Head(input).ns[1]
  BY <1>4
<1>6. Head(input) = Delta(v, <<k>>)
  <2>1. ASSUME NEW S, NEW q \in Seq(S), Len(q) = 1 PROVE q = <<q[1]>>
    BY <2>1
  <2>2. Head(input).ns = <<k>>
    BY <1>3, <1>5, <2>1 DEF Run
  <2> QED BY <1>3, <1>5, <2>2 DEF Run, Delta
<1>7. RunsOf(v, Buffered(v, k)) = <<Grown(v, k)>> /\ Buffered(v, k) \in Seq(Run)
  BY <1>1, BufferedGrows, BufferedTypes DEF HubInv
<1>8. Grown(v, k) \in Run
  <2>1. RunsOf(v, Buffered(v, k)) \in Seq(Run)
    BY <1>7, PartTypes
  <2>2. <<Grown(v, k)>> \in Seq(Run)
    BY <1>7, <2>1
  <2> QED BY <2>2, PopFront
<1>9. <<Grown(v, k)>> \in Seq(F) /\ Append(RunsOf(v, bufs), Head(input)) \in Seq(F)
  <2>1. RunsOf(v, bufs) \in Seq(Run)
    BY <1>1, PartTypes
  <2>2. Append(RunsOf(v, bufs), Head(input)) \in Seq(Run)
    BY <2>1, <1>3, PushBack
  <2> QED BY <1>8, <2>2
<1> HIDE DEF F
<1>10. \/ bufs' = Buffered(v, k) /\ UNCHANGED <<active, outbound, signal, output>>
       \/ bufs' = RunsBut(v, bufs) /\ Emit(<<Grown(v, k)>>)
       \/ bufs' = RunsBut(v, bufs) /\ Emit(Append(RunsOf(v, bufs), Head(input)))
  BY <1>5, <1>7 DEF OnDelta
<1>11. \/ /\ bufs' = Buffered(v, k) /\ UNCHANGED <<active, outbound, signal, output>>
       \/ /\ bufs' = RunsBut(v, bufs)
          /\ \E frames \in Seq(F) : /\ Emit(frames)
                                    /\ frames = <<Grown(v, k)>> \/ frames = Append(RunsOf(v, bufs), Head(input))
  BY <1>9, <1>10
<1> QED BY <1>2, <1>3, <1>6, <1>8, <1>11 DEF F

(* flush_all sends every run, then the snapshot that waited. *)
LEMMA FlushStep ==
  ASSUME HubInv, FlushAll
  PROVE  \E last \in Seq(Snap) :
           /\ last = IF pendingSnap = NoSnap THEN <<>> ELSE <<pendingSnap>>
           /\ bufs \o last \in Seq(Run \cup Snap \cup Answer \cup Word)
           /\ Emit(bufs \o last) /\ bufs' = <<>> /\ pendingSnap' = NoSnap
           /\ UNCHANGED <<made, todo, input, got, conn, dirty, telling>>
<1> DEFINE last == IF pendingSnap = NoSnap THEN <<>> ELSE <<pendingSnap>>
           F == Run \cup Snap \cup Answer \cup Word
<1>1. last \in Seq(Snap) /\ bufs \in Seq(Run)
  BY DEF HubInv, HubTypes
<1>2. last \in Seq(F) /\ bufs \in Seq(F)
  <2> HIDE DEF last
  <2> QED BY <1>1
<1>3. bufs \o last \in Seq(F)
  <2> HIDE DEF last, F
  <2> QED BY <1>2, Joined
<1>4. /\ Emit(bufs \o last) /\ bufs' = <<>> /\ pendingSnap' = NoSnap
      /\ UNCHANGED <<made, todo, input, got, conn, dirty, telling>>
  BY DEF FlushAll, hostVars, clientVars
<1>5. last = IF pendingSnap = NoSnap THEN <<>> ELSE <<pendingSnap>>
  OBVIOUS
<1> HIDE DEF last
<1> QED BY <1>1, <1>3, <1>4, <1>5

LEMMA ResultStep ==
  ASSUME HubInv, OnResult
  PROVE  /\ input # <<>> /\ Head(input) \in Answer /\ input' = Tail(input)
         /\ Append(bufs, Head(input)) \in Seq(Run \cup Snap \cup Answer \cup Word)
         /\ Elems(Append(bufs, Head(input))) = Elems(bufs) \cup {Head(input)}
         /\ Emit(Append(bufs, Head(input))) /\ bufs' = <<>>
<1> DEFINE F == Run \cup Snap \cup Answer \cup Word
<1>1. input \in Seq(OneStep \cup Answer \cup Snap \cup Word) /\ bufs \in Seq(Run)
  BY QueuesTyped
<1>2. /\ Head(input) \in OneStep \cup Answer \cup Snap \cup Word /\ Head(input).type = "result"
      /\ input # <<>> /\ input' = Tail(input) /\ Emit(Append(bufs, Head(input))) /\ bufs' = <<>>
  BY <1>1, PopFront DEF OnResult
<1>3. Head(input) \in Answer /\ Head(input) \in F
  BY <1>2 DEF OneStep, Run, Snap, Word
<1>4. bufs \in Seq(F)
  BY <1>1
<1> HIDE DEF F
<1>5. Append(bufs, Head(input)) \in Seq(F) /\ Elems(Append(bufs, Head(input))) = Elems(bufs) \cup {Head(input)}
  BY <1>3, <1>4, PushBack, ElemsPush
<1> QED BY <1>2, <1>3, <1>5 DEF F

-----------------------------------------------------------------------------
(* No frame tells of a step the host has not made. *)
Past(m, f) ==
  /\ f.type = "delta" => \A i \in DOMAIN f.ns : f.ns[i] <= Len(m[f.conv])
  /\ f.type = "snapshot" => \A v \in Convs : f.at[v] <= Len(m[v])

(* The frames there are. *)
Frames == Elems(Feed) \cup Elems(bufs) \cup (UNION {Elems(outbound[c]) : c \in Conns})
            \cup ({pendingSnap} \ {NoSnap})

Ordinary(f) == f.type \notin {"delta", "snapshot"}

(* A step adds frames without steps, or those of what the host just made, or the
   run a chunk joined. *)
LEMMA FramesKept ==
  ASSUME HubInv, HubInv', OneRun(bufs), PumpedOut, [Next]_vars
  PROVE  \A f \in Frames' :
           \/ f \in Frames \/ Ordinary(f)
           \/ f = Snapshot([v \in Convs |-> Len(made[v])]) /\ made' = made
           \/ \E v \in Convs, kinds \in {<<"chunk">>, <<"event">>, <<"event", "event">>} :
                HostStep(v, kinds) /\ \E i \in 1..Len(kinds) : f = Delta(v, <<Len(made[v]) + i>>)
           \/ /\ OnDelta
              /\ \E v \in Convs, k \in 1..MaxSteps : Head(input) = Delta(v, <<k>>) /\ f = Grown(v, k)
<1> DEFINE Accounted(f) ==
             \/ f \in Frames \/ Ordinary(f)
             \/ f = Snapshot([v \in Convs |-> Len(made[v])]) /\ made' = made
             \/ \E v \in Convs, kinds \in {<<"chunk">>, <<"event">>, <<"event", "event">>} :
                  HostStep(v, kinds) /\ \E i \in 1..Len(kinds) : f = Delta(v, <<Len(made[v]) + i>>)
             \/ /\ OnDelta
                /\ \E v \in Convs, k \in 1..MaxSteps : Head(input) = Delta(v, <<k>>) /\ f = Grown(v, k)
<1> SUFFICES \A f \in Frames' : Accounted(f)
  OBVIOUS
<1> USE DEF hostVars, hubVars, clientVars
<1> DEFINE I == OneStep \cup Answer \cup Snap \cup Word
           F == Run \cup Snap \cup Answer \cup Word
<1>a. /\ input \in Seq(I) /\ todo \in Seq(I) /\ outbound \in [Conns -> Seq(F)] /\ bufs \in Seq(Run)
  BY QueuesTyped
<1>b. input' \in Seq(I) /\ todo' \in Seq(I)
  <2>1. input' \in Seq(I) /\ todo' \in Seq(OneStep \cup Answer)
    BY DEF HubInv, QueueTypes, HostTypes
  <2> QED BY <2>1
<1> HIDE DEF I
<1>c. /\ Elems(Feed) = Elems(input) \cup Elems(todo)
      /\ Elems(Feed') = Elems(input') \cup Elems(todo')
  BY <1>a, <1>b, ElemsJoin DEF Feed
<1>d. Elems(<<>>) = {}
  BY ElemsOne
<1>e. input # <<>> => Elems(Tail(input)) \subseteq Elems(input) /\ Head(input) \in Elems(input)
  BY <1>a, ElemsTail
<1>f. todo # <<>> => Elems(Tail(todo)) \subseteq Elems(todo) /\ Head(todo) \in Elems(todo)
  BY <1>a, ElemsTail
<1>g. \A x \in I : Elems(Append(input, x)) = Elems(input) \cup {x}
  BY <1>a, ElemsPush
<1>1. CASE UNCHANGED <<input, todo, bufs, pendingSnap, outbound>>
  BY <1>1 DEF Frames, Feed
<1>2. ASSUME NEW v \in Convs, NEW kinds \in {<<"chunk">>, <<"event">>, <<"event", "event">>}, HostStep(v, kinds),
             NEW f \in Frames'
      PROVE  f \in Frames \/ \E i \in 1..Len(kinds) : f = Delta(v, <<Len(made[v]) + i>>)
  <2>1. UNCHANGED <<input, bufs, pendingSnap, outbound>> /\ todo' = [i \in 1..Len(kinds) |-> Delta(v, <<Len(made[v]) + i>>)]
    BY <1>2 DEF HostStep
  <2>2. Elems(todo') = {Delta(v, <<Len(made[v]) + i>>) : i \in 1..Len(kinds)}
    BY <2>1 DEF Elems
  <2> QED BY <1>c, <2>1, <2>2 DEF Frames
<1>3. ASSUME HostReceive, NEW f \in Frames' PROVE f \in Frames \/ Ordinary(f)
  <2>1. UNCHANGED <<input, bufs, pendingSnap, outbound>>
    BY <1>3 DEF HostReceive
  <2>2. Elems(todo') \subseteq Elems(todo) \cup {Result(Head(output).cmd)}
    <3>1. todo' = todo \/ todo' = <<Result(Head(output).cmd)>>
      BY <1>3 DEF HostReceive
    <3> QED BY <3>1, ElemsOne
  <2>3. Ordinary(Result(Head(output).cmd))
    BY DEF Ordinary, Result
  <2> QED BY <1>c, <2>1, <2>2, <2>3 DEF Frames
<1>4. CASE PumpFrame
  <2>1. /\ UNCHANGED <<bufs, pendingSnap, outbound>> /\ todo # <<>>
        /\ todo' \in {Tail(todo), <<>>} /\ input' \in {input, Append(input, Head(todo))}
    BY <1>4 DEF PumpFrame
  <2>2. Head(todo) \in I
    BY <2>1, <1>a, PopFront
  <2>3. Elems(input') \subseteq Elems(input) \cup {Head(todo)} /\ Elems(todo') \subseteq Elems(todo)
    BY <2>1, <2>2, <1>d, <1>f, <1>g
  <2> QED BY <1>c, <1>f, <2>1, <2>3 DEF Frames
<1>5. ASSUME PumpSnapshot, NEW f \in Frames'
      PROVE  f \in Frames \/ (f = Snapshot([v \in Convs |-> Len(made[v])]) /\ made' = made)
  <2> DEFINE s == Snapshot([v \in Convs |-> Len(made[v])])
  <2>1. UNCHANGED <<todo, bufs, pendingSnap, outbound, made>> /\ input' \in {input, Append(input, s)}
    BY <1>5 DEF PumpSnapshot
  <2>2. s \in I
    <3>1. \A v \in Convs : Len(made[v]) \in 0..MaxSteps
      BY HubAssumption DEF HubInv, HostTypes
    <3> QED BY <3>1 DEF I, Snap, Snapshot
  <2> HIDE DEF s
  <2>3. Elems(input') \subseteq Elems(input) \cup {s}
    BY <2>1, <2>2, <1>g
  <2>4. f \in Frames \/ f = s
    BY <1>c, <2>1, <2>3 DEF Frames
  <2> QED BY <2>1, <2>4 DEF s
<1>6. ASSUME HostRotate, NEW f \in Frames' PROVE f \in Frames \/ Ordinary(f)
  <2>1. Control("rotated") \in I /\ Ordinary(Control("rotated"))
    BY DEF Control, Word, I, Ordinary
  <2>2. UNCHANGED <<todo, bufs, pendingSnap, outbound>> /\ input' = Append(input, Control("rotated"))
    BY <1>6 DEF HostRotate
  <2> QED BY <1>c, <1>g, <2>1, <2>2 DEF Frames
<1>7. ASSUME OnRegistration, NEW f \in Frames' PROVE f \in Frames \/ Ordinary(f)
  <2>1. UNCHANGED <<input, todo, pendingSnap>> /\ bufs' = <<>>
        /\ \A c \in Conns : outbound'[c] = outbound[c] \/ outbound'[c] = <<Control("hello")>>
    BY <1>7, <1>a DEF OnRegistration
  <2>2. Ordinary(Control("hello"))
    BY DEF Ordinary, Control
  <2>3. \A c \in Conns : Elems(outbound'[c]) \subseteq Elems(outbound[c]) \cup {Control("hello")}
    BY <2>1, ElemsOne
  <2>4. Frames' \subseteq Frames \cup {Control("hello")}
    BY <1>d, <2>1, <2>3 DEF Frames, Feed
  <2> QED BY <2>2, <2>4
<1>8. ASSUME NEW frames \in Seq(F), Emit(frames), UNCHANGED todo, pendingSnap' \in {pendingSnap, NoSnap},
             Elems(input') \subseteq Elems(input), Elems(bufs') \subseteq Elems(bufs)
      PROVE  Frames' \subseteq Frames \cup Elems(frames)
  <2>1. \A c \in Conns : Elems(outbound'[c]) \subseteq Elems(outbound[c]) \cup Elems(frames)
    BY <1>8, EmitElems
  <2> QED BY <1>8, <1>c, <2>1 DEF Frames
<1>9. ASSUME OnCommand \/ OnBadFrame, NEW f \in Frames' PROVE f \in Frames \/ Ordinary(f)
  <2>1. UNCHANGED <<input, todo, bufs, pendingSnap>>
    BY <1>9 DEF OnCommand, OnBadFrame
  <2>2. UNCHANGED outbound \/ Emit(<<Refusal(Head(inbound).cmd)>>) \/ Emit(<<Control("error")>>)
    BY <1>9 DEF OnCommand, OnBadFrame
  <2>3. OnCommand => Head(inbound).cmd \in Cmds
    BY PopFront DEF OnCommand, HubInv, ClosedIsGone, Messages
  <2>4. ASSUME NEW g \in F, Ordinary(g), Emit(<<g>>) PROVE f \in Frames \/ Ordinary(f)
    <3> HIDE DEF F
    <3>1. <<g>> \in Seq(F) /\ Elems(<<g>>) = {g}
      BY ElemsOne
    <3> QED BY <2>1, <2>4, <3>1, <1>8, <1>9
  <2>5. Control("error") \in F /\ Ordinary(Control("error"))
    BY DEF Control, Word, Ordinary
  <2>6. OnCommand => Refusal(Head(inbound).cmd) \in F
    BY <2>3 DEF Refusal, Answer
  <2>7. Ordinary(Refusal(Head(inbound).cmd))
    BY DEF Refusal, Ordinary
  <2>8. CASE OnCommand
    <3>1. UNCHANGED outbound \/ Emit(<<Refusal(Head(inbound).cmd)>>)
      BY <2>8 DEF OnCommand
    <3> HIDE DEF F
    <3> QED BY <3>1, <2>1, <2>4, <2>6, <2>7, <2>8, <1>9 DEF Frames, Feed
  <2>9. CASE OnBadFrame
    <3>1. UNCHANGED outbound \/ Emit(<<Control("error")>>)
      BY <2>9 DEF OnBadFrame
    <3> HIDE DEF F
    <3> QED BY <3>1, <2>1, <2>4, <2>5, <1>9 DEF Frames, Feed
  <2> QED BY <1>9, <2>8, <2>9
<1>10. ASSUME OnDelta, NEW f \in Frames'
       PROVE  f \in Frames \/ \E v \in Convs, k \in 1..MaxSteps : Head(input) = Delta(v, <<k>>) /\ f = Grown(v, k)
  <2>1. PICK v \in Convs, k \in 1..MaxSteps :
           /\ input # <<>> /\ Head(input) = Delta(v, <<k>>) /\ input' = Tail(input)
           /\ Grown(v, k) \in Run /\ Head(input) \in Run
           /\ \/ /\ bufs' = Buffered(v, k) /\ UNCHANGED <<active, outbound, signal, output>>
              \/ /\ bufs' = RunsBut(v, bufs)
                 /\ \E frames \in Seq(F) :
                      /\ Emit(frames)
                      /\ \/ frames = <<Grown(v, k)>>
                         \/ frames = Append(RunsOf(v, bufs), Head(input))
    BY <1>10, DeltaStep
  <2>2. UNCHANGED <<todo, pendingSnap>>
    BY <1>10 DEF OnDelta
  <2>3. /\ Elems(RunsOf(v, bufs)) \subseteq Elems(bufs) /\ Elems(RunsBut(v, bufs)) \subseteq Elems(bufs)
        /\ RunsOf(v, bufs) \in Seq(Run)
    BY <1>a, PartElems, PartTypes
  <2>4. Elems(Append(RunsOf(v, bufs), Head(input))) \subseteq Elems(bufs) \cup {Head(input)}
    BY <2>1, <2>3, ElemsPush
  <2>5. Head(input) \in Frames
    BY <2>1, <1>c, <1>e DEF Frames
  <2> DEFINE g == Grown(v, k)
  <2>6. Frames' \subseteq Frames \cup {g}
    <3>1. CASE bufs' = Buffered(v, k) /\ UNCHANGED <<active, outbound, signal, output>>
      <4>1. Elems(bufs') \subseteq Elems(bufs) \cup {g}
        BY <3>1, <1>a, <2>3, BufferedGrows
      <4> HIDE DEF g
      <4> QED BY <4>1, <3>1, <2>1, <2>2, <1>c, <1>e DEF Frames
    <3>2. ASSUME NEW frames \in Seq(F), Emit(frames), Elems(frames) \subseteq Frames \cup {g}, bufs' = RunsBut(v, bufs)
          PROVE  Frames' \subseteq Frames \cup {g}
      BY <3>2, <2>1, <2>2, <2>3, <1>8, <1>e
    <3>3. Elems(<<g>>) = {g} /\ Elems(bufs) \subseteq Frames
      BY ElemsOne DEF Frames
    <3> HIDE DEF g
    <3> QED BY <3>1, <3>2, <3>3, <2>1, <2>4, <2>5 DEF g
  <2> QED BY <2>1, <2>6, <1>10
<1>11. ASSUME OnResult, NEW f \in Frames' PROVE f \in Frames \/ Ordinary(f)
  <2>1. UNCHANGED <<todo, pendingSnap>>
    BY <1>11 DEF OnResult
  <2>2. Frames' \subseteq Frames \cup Elems(Append(bufs, Head(input)))
    BY <1>11, <2>1, <1>8, <1>d, <1>e, ResultStep
  <2>3. Elems(bufs) \subseteq Frames
    BY DEF Frames
  <2>4. Ordinary(Head(input))
    BY <1>11, ResultStep DEF Answer, Ordinary
  <2> QED BY <1>11, <2>2, <2>3, <2>4, ResultStep
<1>12. ASSUME OnSnapshot PROVE Frames' \subseteq Frames
  <2>1. UNCHANGED <<todo, bufs, outbound>> /\ input # <<>> /\ input' = Tail(input) /\ pendingSnap' = Head(input)
    BY <1>12 DEF OnSnapshot
  <2>2. Elems(Feed') \subseteq Elems(Feed) /\ {pendingSnap'} \subseteq Elems(Feed)
    <3> HIDE DEF Feed
    <3> QED BY <2>1, <1>c, <1>e
  <2>3. UNCHANGED <<bufs, outbound>>
    BY <2>1
  <2> QED BY <2>2, <2>3 DEF Frames
<1>13. CASE OnRotated
  BY <1>13, <1>c, <1>e DEF OnRotated, Frames
<1>14. CASE FlushAll
  <2>1. PICK last \in Seq(Snap) :
           /\ last = IF pendingSnap = NoSnap THEN <<>> ELSE <<pendingSnap>>
           /\ bufs \o last \in Seq(F)
           /\ Emit(bufs \o last) /\ bufs' = <<>> /\ pendingSnap' = NoSnap
           /\ UNCHANGED <<made, todo, input, got, conn, dirty, telling>>
    BY <1>14, FlushStep
  <2>2. Elems(last) \subseteq {pendingSnap} \ {NoSnap}
    BY <2>1, ElemsOne
  <2>3. Elems(bufs \o last) = Elems(bufs) \cup Elems(last)
    <3>1. bufs \in Seq(F) /\ last \in Seq(F)
      BY <1>a, <2>1
    <3> HIDE DEF F
    <3> QED BY <3>1, ElemsJoin
  <2>4. Elems(bufs \o last) \subseteq Frames
    <3> DEFINE both == bufs \o last
    <3>1. Elems(both) = Elems(bufs) \cup Elems(last)
      BY <2>3
    <3> HIDE DEF both, F
    <3>2. Elems(both) \subseteq Frames
      BY <2>2, <3>1, Zenon DEF Frames
    <3> QED BY <3>2 DEF both
  <2>5. Frames' \subseteq Frames \cup Elems(bufs \o last)
    BY <2>1, <1>8, <1>d
  <2> QED BY <2>4, <2>5
<1>15. ASSUME NEW c \in Conns, Deliver(c) \/ End(c) PROVE Frames' \subseteq Frames
  <2>1. UNCHANGED <<input, todo, bufs, pendingSnap>>
    BY <1>15 DEF Deliver, End
  <2>2. ASSUME NEW d \in Conns PROVE Elems(outbound'[d]) \subseteq Elems(outbound[d])
    <3>1. \/ outbound'[d] = outbound[d]
          \/ outbound'[d] = <<>>
          \/ outbound[d] # <<>> /\ outbound'[d] = Tail(outbound[d])
      BY <1>15, <1>a DEF Deliver, End
    <3>2. outbound[d] \in Seq(F)
      BY <1>a
    <3> HIDE DEF F
    <3> QED BY <3>1, <3>2, <1>d, ElemsTail
  <2> QED BY <2>1, <2>2 DEF Frames, Feed
<1>16. CASE HubTell \/ OnClosed \/ PollToken \/ HostTick \/ UNCHANGED vars
  BY <1>16, <1>1 DEF HubTell, OnClosed, PollToken, HostTick, vars
<1>17. ASSUME NEW c \in Conns,
              \/ Connect(c) \/ Leave(c) \/ Obey(c)
              \/ \E cmd \in Cmds : Ask(c, [type |-> "command", conn |-> c, cmd |-> cmd])
              \/ Ask(c, [type |-> "bad", conn |-> c])
       PROVE  Frames' \subseteq Frames
  <2>1. UNCHANGED <<input, todo, bufs, pendingSnap, outbound>>
    BY <1>17 DEF Connect, Leave, Obey, Stop, Ask
  <2> QED BY <2>1 DEF Frames, Feed
<1> HIDE DEF hostVars, hubVars, clientVars
<1>18. \A f : f \in Frames \/ Ordinary(f) => Accounted(f)
  OBVIOUS
<1>19. ASSUME NEW v \in Convs, NEW kinds \in {<<"chunk">>, <<"event">>, <<"event", "event">>}, HostStep(v, kinds)
       PROVE  \A f \in Frames' : Accounted(f)
  <2>1. SUFFICES ASSUME NEW f \in Frames' PROVE Accounted(f)
    OBVIOUS
  <2>2. CASE f \in Frames
    BY <2>2
  <2>3. CASE \E i \in 1..Len(kinds) : f = Delta(v, <<Len(made[v]) + i>>)
    BY <1>19, <2>3
  <2> QED BY <1>2, <1>19, <2>2, <2>3, ZenonT(40)
<1>20. PumpSnapshot => \A f \in Frames' : Accounted(f)
  BY <1>5
<1>21. OnDelta => \A f \in Frames' : Accounted(f)
  BY <1>10
<1> HIDE DEF Accounted
<1>22. CASE HostLoop
  BY <1>22, <1>3, <1>4, <1>16, <1>18, <1>20, Zenon DEF HostLoop
<1>23. CASE HubLoop
  BY <1>23, <1>7, <1>9, <1>11, <1>12, <1>13, <1>14, <1>16, <1>18, <1>21, Zenon DEF HubLoop
<1>24. CASE HostRotate \/ PollToken \/ UNCHANGED vars
  BY <1>24, <1>6, <1>16, <1>18, Zenon
<1>25. ASSUME NEW c \in Conns,
              \/ Connect(c) \/ Leave(c) \/ ConnLoop(c)
              \/ \E cmd \in Cmds : Ask(c, [type |-> "command", conn |-> c, cmd |-> cmd])
              \/ Ask(c, [type |-> "bad", conn |-> c])
       PROVE  \A f \in Frames' : Accounted(f)
  BY <1>25, <1>15, <1>17, <1>18, Zenon DEF ConnLoop
<1>26. \A f \in Frames' : Accounted(f)
  BY <1>19, <1>22, <1>23, <1>24, <1>25, Zenon DEF Next
<1> QED BY <1>26

-----------------------------------------------------------------------------
(* The order of what reaches a client: along the line from the host's queue   *)
(* through the hub to the socket no frame tells of a step that one behind it  *)
(* tells of too.                                                              *)

Rising(f) == f.type = "delta" => \A i, j \in DOMAIN f.ns : i < j => f.ns[i] < f.ns[j]
(* Every frame tells of steps the host has made, a run in their order. *)
Sound == \A f \in Frames : Past(made, f) /\ Rising(f)
GotPast == \A c \in Conns : \A v \in Convs : got[c][v] \subseteq 1..Len(made[v])

(* What f tells of a conversation precedes what g tells of it. *)
Before(f, g) ==
  /\ f.type = "delta" /\ g.type = "delta" /\ f.conv = g.conv =>
       \A i \in DOMAIN f.ns, j \in DOMAIN g.ns : f.ns[i] < g.ns[j]
  /\ f.type = "snapshot" /\ g.type = "delta" => \A j \in DOMAIN g.ns : f.at[g.conv] < g.ns[j]
  /\ f.type = "snapshot" /\ g.type = "snapshot" => \A v \in Convs : f.at[v] <= g.at[v]

Follows(S, T) == \A f \in S, g \in T : Before(f, g)
Rise(q) == \A i, j \in DOMAIN q : i < j => Before(q[i], q[j])
Behind(seen, S) ==
  \A f \in S : f.type = "delta" => \A i \in DOMAIN f.ns, k \in seen[f.conv] : k < f.ns[i]

(* What the hub holds back. *)
Kept == Elems(bufs) \cup ({pendingSnap} \ {NoSnap})
(* A socket that waits to be registered has seen nothing and is sent nothing. *)
Fresh ==
  \A c \in Conns : conn[c] = "new" \/ Waiting(c) =>
    outbound[c] = <<>> /\ \A v \in Convs : got[c][v] = {}

FeedLine == Rise(Feed) /\ Follows(Kept, Elems(Feed))
OutLine == \A c \in Conns : Rise(outbound[c]) /\ Behind(got[c], Elems(outbound[c]))
ActiveLine ==
  active # NoConn => /\ Follows(Elems(outbound[active]), Kept \cup Elems(Feed))
                     /\ Behind(got[active], Kept \cup Elems(Feed))

LineInv ==
  OneRun(bufs) /\ PumpedOut /\ Sound /\ GotPast /\ Fresh /\ FeedLine /\ OutLine /\ ActiveLine

(* The rest of a line rises, and follows its head. *)
LEMMA RiseTail ==
  ASSUME NEW S, NEW q \in Seq(S), q # <<>>, Rise(q)
  PROVE  Rise(Tail(q)) /\ Follows({Head(q)}, Elems(Tail(q)))
<1>1. /\ Len(q) \in Nat \ {0} /\ Len(Tail(q)) = Len(q) - 1 /\ Tail(q) \in Seq(S) /\ q \in Seq(S)
      /\ \A i \in DOMAIN Tail(q) : Tail(q)[i] = q[i + 1] /\ i + 1 \in DOMAIN q
      /\ Head(q) = q[1] /\ 1 \in DOMAIN q
  BY PopFront
<1> DEFINE r == Tail(q)
<1>2. DOMAIN q = 1..Len(q) /\ DOMAIN r = 1..(Len(q) - 1)
  BY <1>1
<1> HIDE DEF r
<1>3. \A i \in DOMAIN r : i \in Nat \ {0} /\ r[i] = q[i + 1] /\ i + 1 \in DOMAIN q
  BY <1>1, <1>2 DEF r
<1>4. Rise(r)
  <2>1. SUFFICES ASSUME NEW i \in DOMAIN r, NEW j \in DOMAIN r, i < j PROVE Before(r[i], r[j])
    BY DEF Rise
  <2>2. i + 1 \in DOMAIN q /\ j + 1 \in DOMAIN q /\ i + 1 < j + 1 /\ r[i] = q[i + 1] /\ r[j] = q[j + 1]
    BY <1>3, <2>1
  <2> QED BY <2>2 DEF Rise
<1>5. \A i \in DOMAIN r : Before(Head(q), r[i])
  <2>1. TAKE i \in DOMAIN r
  <2>2. i + 1 \in DOMAIN q /\ 1 < i + 1 /\ r[i] = q[i + 1]
    BY <1>3
  <2> QED BY <2>2, <1>1 DEF Rise
<1> QED BY <1>4, <1>5 DEF r, Elems, Follows

LEMMA RisePush ==
  ASSUME NEW S, NEW q \in Seq(S), NEW x \in S, Rise(q), Follows(Elems(q), {x})
  PROVE  Rise(Append(q, x))
<1> DEFINE r == Append(q, x)
<1>1. /\ DOMAIN r = DOMAIN q \cup {Len(q) + 1} /\ r[Len(q) + 1] = x
      /\ \A i \in DOMAIN q : r[i] = q[i]
      /\ DOMAIN q = 1..Len(q) /\ Len(q) \in Nat
  BY PushBack
<1> HIDE DEF r
<1>2. SUFFICES ASSUME NEW i \in DOMAIN r, NEW j \in DOMAIN r, i < j PROVE Before(r[i], r[j])
  BY DEF Rise, r
<1>3. i \in DOMAIN q
  BY <1>1, <1>2
<1>4. CASE j \in DOMAIN q
  BY <1>1, <1>2, <1>3, <1>4 DEF Rise
<1>5. CASE j = Len(q) + 1
  BY <1>1, <1>3, <1>5 DEF Follows, Elems
<1> QED BY <1>1, <1>4, <1>5

LEMMA RiseJoin ==
  ASSUME NEW S, NEW p \in Seq(S), NEW q \in Seq(S), Rise(p), Rise(q), Follows(Elems(p), Elems(q))
  PROVE  Rise(p \o q)
<1> DEFINE r == p \o q
<1>1. /\ \A i \in DOMAIN r : \/ i \in DOMAIN p /\ r[i] = p[i]
                             \/ i - Len(p) \in DOMAIN q /\ r[i] = q[i - Len(p)]
      /\ DOMAIN p = 1..Len(p) /\ Len(p) \in Nat /\ DOMAIN q = 1..Len(q) /\ Len(q) \in Nat
      /\ DOMAIN r = 1..(Len(p) + Len(q))
  BY Joined
<1> HIDE DEF r
<1>2. SUFFICES ASSUME NEW i \in DOMAIN r, NEW j \in DOMAIN r, i < j PROVE Before(r[i], r[j])
  BY DEF Rise, r
<1>3. CASE i \in DOMAIN p /\ r[i] = p[i] /\ j \in DOMAIN p /\ r[j] = p[j]
  BY <1>2, <1>3 DEF Rise
<1>4. CASE i \in DOMAIN p /\ r[i] = p[i] /\ j - Len(p) \in DOMAIN q /\ r[j] = q[j - Len(p)]
  BY <1>4 DEF Follows, Elems
<1>5. CASE i - Len(p) \in DOMAIN q /\ r[i] = q[i - Len(p)] /\ j - Len(p) \in DOMAIN q /\ r[j] = q[j - Len(p)]
  <2>1. i - Len(p) < j - Len(p)
    BY <1>1, <1>2
  <2> QED BY <1>5, <2>1 DEF Rise
<1>6. CASE i - Len(p) \in DOMAIN q /\ j \in DOMAIN p
  BY <1>1, <1>2, <1>6
<1> QED BY <1>1, <1>3, <1>4, <1>5, <1>6

LEMMA RiseFirst ==
  ASSUME NEW S, NEW q \in Seq(S), NEW n \in 0..Len(q), Rise(q)
  PROVE  Rise(SubSeq(q, 1, n))
<1> DEFINE r == SubSeq(q, 1, n)
<1>1. DOMAIN r = 1..n /\ \A i \in 1..n : r[i] = q[i] /\ i \in DOMAIN q
  BY FirstOf
<1> HIDE DEF r
<1>2. Rise(r)
  BY <1>1 DEF Rise
<1> QED BY <1>2 DEF r

LEMMA RiseOne == ASSUME NEW f PROVE Rise(<<f>>) /\ Rise(<<>>)
<1>1. Rise(<<f>>)
  <2>1. DOMAIN <<f>> = {1} /\ \A i, j \in {1} : ~(i < j)
    OBVIOUS
  <2> QED BY <2>1 DEF Rise
<1>2. Rise(<<>>)
  BY DEF Rise
<1> QED BY <1>1, <1>2

(* Runs of different conversations have no order among them. *)
LEMMA RiseRuns ==
  ASSUME NEW q \in Seq(Run), OneRun(q)
  PROVE  Rise(q)
<1>1. SUFFICES ASSUME NEW i \in DOMAIN q, NEW j \in DOMAIN q, i < j PROVE Before(q[i], q[j])
  BY DEF Rise
<1>2. q[i] \in Run /\ q[j] \in Run /\ i # j
  BY <1>1
<1>3. q[i].type = "delta" /\ q[j].type = "delta" /\ q[i].conv # q[j].conv
  BY <1>2 DEF Run, OneRun
<1> QED BY <1>3 DEF Before

(* A run that grew has the steps of the old one, and the new step behind them. *)
LEMMA GrownSteps ==
  ASSUME bufs \in Seq(Run), NEW v \in Convs, NEW k \in 1..MaxSteps
  PROVE  /\ Grown(v, k).type = "delta" /\ Grown(v, k).conv = v
         /\ \A r \in Elems(RunsOf(v, bufs)) : r.type = "delta" /\ r.conv = v
         /\ \A i \in DOMAIN Grown(v, k).ns :
              \/ Grown(v, k).ns[i] = k
              \/ \E r \in Elems(RunsOf(v, bufs)) : \E j \in DOMAIN r.ns : r.ns[j] = Grown(v, k).ns[i]
         /\ (\A r \in Elems(RunsOf(v, bufs)) : Rising(r) /\ Before(r, Delta(v, <<k>>))) => Rising(Grown(v, k))
<1>1. CASE HasRun(v, bufs)
  <2> DEFINE r == bufs[RunOf(v, bufs)]
             ns == Append(r.ns, k)
  <2>1. RunOf(v, bufs) \in DOMAIN bufs /\ r.conv = v /\ r \in Run /\ RunsOf(v, bufs) = <<r>>
    BY <1>1, ButOne
  <2>2. r.ns \in Seq(1..MaxSteps) /\ r.type = "delta"
    BY <2>1 DEF Run
  <2>3. Grown(v, k).ns = ns /\ Grown(v, k).type = "delta" /\ Grown(v, k).conv = v
    BY <1>1 DEF Grown, Delta
  <2>4. Elems(RunsOf(v, bufs)) = {r}
    BY <2>1, ElemsOne
  <2>5. /\ DOMAIN ns = DOMAIN r.ns \cup {Len(r.ns) + 1} /\ ns[Len(r.ns) + 1] = k
        /\ \A i \in DOMAIN r.ns : ns[i] = r.ns[i]
        /\ DOMAIN r.ns = 1..Len(r.ns) /\ Len(r.ns) \in Nat
    BY <2>2, PushBack
  <2> HIDE DEF ns
  <2>6. \A i \in DOMAIN ns : ns[i] = k \/ \E j \in DOMAIN r.ns : r.ns[j] = ns[i]
    BY <2>5
  <2>7. ASSUME Rising(r), Before(r, Delta(v, <<k>>)) PROVE Rising(Grown(v, k))
    <3>1. SUFFICES ASSUME NEW i \in DOMAIN ns, NEW j \in DOMAIN ns, i < j PROVE ns[i] < ns[j]
      BY <2>3 DEF Rising
    <3>2. i \in DOMAIN r.ns
      BY <2>5, <3>1
    <3>3. CASE j \in DOMAIN r.ns
      BY <2>2, <2>5, <2>7, <3>1, <3>2, <3>3 DEF Rising
    <3>4. CASE j = Len(r.ns) + 1
      <4>1. \A a \in DOMAIN r.ns : r.ns[a] < k
        BY <2>1, <2>2, <2>7 DEF Before, Delta
      <4> QED BY <4>1, <2>5, <3>2, <3>4
    <3> QED BY <2>5, <3>3, <3>4
  <2> HIDE DEF r
  <2> QED BY <2>1, <2>2, <2>3, <2>4, <2>6, <2>7
<1>2. CASE ~HasRun(v, bufs)
  <2>1. RunsOf(v, bufs) = <<>> /\ Grown(v, k) = Delta(v, <<k>>)
    BY <1>2 DEF RunsOf, Grown
  <2>2. Elems(RunsOf(v, bufs)) = {}
    BY <2>1, ElemsOne
  <2>3. Grown(v, k).type = "delta" /\ Grown(v, k).conv = v /\ Grown(v, k).ns = <<k>>
    BY <2>1 DEF Delta
  <2>4. DOMAIN <<k>> = {1} /\ <<k>>[1] = k /\ ~(1 < 1)
    OBVIOUS
  <2> QED BY <2>2, <2>3, <2>4 DEF Rising
<1> QED BY <1>1, <1>2

LEMMA GrownPlace ==
  ASSUME bufs \in Seq(Run), NEW v \in Convs, NEW k \in 1..MaxSteps,
         NEW S, NEW T, S = Elems(RunsOf(v, bufs)) \cup {Delta(v, <<k>>)}
  PROVE  /\ Follows(S, T) => Follows({Grown(v, k)}, T)
         /\ Follows(T, S) => Follows(T, {Grown(v, k)})
         /\ \A seen : Behind(seen, S) => Behind(seen, {Grown(v, k)})
<1> DEFINE g == Grown(v, k)
<1>1. g.type = "delta" /\ g.conv = v /\ \A r \in S : r.type = "delta" /\ r.conv = v
  <2>1. g.type = "delta" /\ g.conv = v /\ \A r \in Elems(RunsOf(v, bufs)) : r.type = "delta" /\ r.conv = v
    BY GrownSteps
  <2>2. Delta(v, <<k>>).type = "delta" /\ Delta(v, <<k>>).conv = v
    BY DEF Delta
  <2> HIDE DEF g
  <2> QED BY <2>1, <2>2
<1>2. \A i \in DOMAIN g.ns : \E r \in S : \E j \in DOMAIN r.ns : r.ns[j] = g.ns[i]
  <2>1. TAKE i \in DOMAIN g.ns
  <2>2. CASE g.ns[i] = k
    <3> DEFINE d == Delta(v, <<k>>)
    <3>1. d \in S /\ 1 \in DOMAIN d.ns /\ d.ns[1] = k
      BY DEF Delta
    <3> QED BY <2>2, <3>1
  <2>3. CASE \E r \in Elems(RunsOf(v, bufs)) : \E j \in DOMAIN r.ns : r.ns[j] = g.ns[i]
    BY <2>3
  <2> QED BY <2>2, <2>3, GrownSteps
<1> HIDE DEF g
<1>3. ASSUME Follows(S, T), NEW f \in T PROVE Before(g, f)
  BY <1>1, <1>2, <1>3 DEF Follows, Before
<1>4. ASSUME Follows(T, S), NEW f \in T PROVE Before(f, g)
  BY <1>1, <1>2, <1>4 DEF Follows, Before
<1>5. ASSUME NEW seen, Behind(seen, S) PROVE Behind(seen, {g})
  BY <1>1, <1>2, <1>5 DEF Behind
<1> QED BY <1>3, <1>4, <1>5 DEF Follows, g

(* A client that is not dropped is queued every frame. *)
LEMMA EmitAll ==
  ASSUME HubInv, NEW frames \in Seq(Run \cup Snap \cup Answer \cup Word), Emit(frames), active' # NoConn
  PROVE  /\ active' = active /\ active # NoConn
         /\ Elems(outbound'[active']) = Elems(outbound[active]) \cup Elems(frames)
<1> DEFINE F == Run \cup Snap \cup Answer \cup Word
           q == outbound[active]
<1>1. active' = active /\ outbound'[active] = q \o frames /\ active # NoConn
  BY EmitSent
<1>2. q \in Seq(F) /\ frames \in Seq(F)
  BY <1>1, QueuesTyped DEF HubInv, SeatInv, SeatTypes
<1> HIDE DEF q, F
<1>3. Elems(q \o frames) = Elems(q) \cup Elems(frames)
  BY <1>2, ElemsJoin
<1> QED BY <1>1, <1>3 DEF q

(* What is queued on the active socket keeps the order of the line. *)
LEMMA LineEmit ==
  ASSUME HubInv, OutLine, NEW frames \in Seq(Run \cup Snap \cup Answer \cup Word), Emit(frames),
         Rise(frames), got' = got,
         active # NoConn => /\ Follows(Elems(outbound[active]), Elems(frames))
                            /\ Behind(got[active], Elems(frames))
  PROVE  /\ OutLine'
         /\ active' # NoConn => /\ active' = active /\ active # NoConn
                                /\ Elems(outbound'[active']) = Elems(outbound[active]) \cup Elems(frames)
<1> DEFINE F == Run \cup Snap \cup Answer \cup Word
<1>a. outbound \in [Conns -> Seq(F)] /\ active \in Conns \cup {NoConn} /\ frames \in Seq(F)
  BY QueuesTyped DEF HubInv, SeatInv, SeatTypes
<1> HIDE DEF F
<1>1. ASSUME NEW c \in Conns
      PROVE  Rise(outbound'[c]) /\ Behind(got'[c], Elems(outbound'[c]))
  <2>1. CASE outbound'[c] = outbound[c]
    BY <2>1 DEF OutLine
  <2>2. ASSUME c = active, NEW n \in 0..Len(frames), outbound'[c] = outbound[c] \o SubSeq(frames, 1, n)
        PROVE  Rise(outbound'[c]) /\ Behind(got'[c], Elems(outbound'[c]))
    <3> DEFINE p == SubSeq(frames, 1, n)
               q == outbound[c]
    <3>1. p \in Seq(F) /\ Elems(p) \subseteq Elems(frames) /\ Rise(p) /\ q \in Seq(F)
      BY <1>a, FirstOf, ElemsFirst, RiseFirst
    <3>2. active # NoConn
      BY <2>2, ConnAssumption
    <3>3. Follows(Elems(q), Elems(p)) /\ Behind(got[c], Elems(p)) /\ Behind(got[c], Elems(q)) /\ Rise(q)
      <4>1. Follows(Elems(q), Elems(frames)) /\ Behind(got[c], Elems(frames))
        BY <2>2, <3>2
      <4> HIDE DEF p
      <4>2. Behind(got[c], Elems(q)) /\ Rise(q)
        BY DEF OutLine
      <4> HIDE DEF q
      <4> QED BY <3>1, <4>1, <4>2 DEF Follows, Behind
    <3>4. outbound'[c] = q \o p
      BY <2>2
    <3> HIDE DEF p, q
    <3>5. Rise(q \o p) /\ Elems(q \o p) = Elems(q) \cup Elems(p)
      BY <3>1, <3>3, RiseJoin, ElemsJoin
    <3>6. Behind(got[c], Elems(q) \cup Elems(p))
      BY <3>3 DEF Behind
    <3> QED BY <3>4, <3>5, <3>6
  <2> QED BY <2>1, <2>2, EmitSent
<1> QED BY <1>1, EmitAll DEF OutLine

(* The host only adds to what it has made. *)
LEMMA MadeGrows ==
  ASSUME HubInv, [Next]_vars, NEW v \in Convs
  PROVE  /\ Len(made'[v]) >= Len(made[v])
         /\ \A k \in 1..Len(made[v]) : made'[v][k] = made[v][k]
<1>a. made[v] \in Seq(Kinds) /\ made \in [Convs -> Seq(Kinds)]
  BY DEF HubInv, HostTypes
<1>1. CASE made' = made
  BY <1>1, <1>a
<1>2. ASSUME NEW u \in Convs, NEW kinds \in {<<"chunk">>, <<"event">>, <<"event", "event">>}, HostStep(u, kinds)
      PROVE  /\ Len(made'[v]) >= Len(made[v])
             /\ \A k \in 1..Len(made[v]) : made'[v][k] = made[v][k]
  <2>1. made'[v] = made[v] \/ made'[v] = made[v] \o kinds
    BY <1>2, <1>a DEF HostStep
  <2>2. kinds \in Seq(Kinds)
    <3>1. {"chunk", "event"} = Kinds
      BY DEF Kinds
    <3>2. <<"chunk">> \in Seq(Kinds) /\ <<"event">> \in Seq(Kinds) /\ <<"event", "event">> \in Seq(Kinds)
      BY <3>1
    <3> QED BY <3>2
  <2>3. Len(made[v] \o kinds) >= Len(made[v]) /\ \A k \in 1..Len(made[v]) : (made[v] \o kinds)[k] = made[v][k]
    BY <1>a, <2>2, SMTT(30)
  <2> QED BY <2>1, <2>3, <1>a
<1>3. (\E u \in Convs, kinds \in {<<"chunk">>, <<"event">>, <<"event", "event">>} : HostStep(u, kinds)) \/ made' = made
  BY DEF hostVars, Next, HostLoop, HubLoop, ConnLoop, vars, HostTick, HostReceive, PumpFrame,
         PumpSnapshot, HostRotate, PollToken, HubTell, OnRegistration, OnClosed, OnCommand, OnBadFrame,
         OnDelta, OnResult, OnSnapshot, OnRotated, FlushAll, Connect, Leave, Deliver, Obey, End, Stop, Ask
<1> QED BY <1>1, <1>2, <1>3

LEMMA OneRunKept ==
  ASSUME HubInv, OneRun(bufs), [Next]_vars
  PROVE  OneRun(bufs')
<1> USE DEF hubVars
<1>1. CASE bufs' = bufs
  BY <1>1
<1>2. CASE bufs' = <<>>
  BY <1>2 DEF OneRun
<1>3. CASE OnDelta
  <2>1. PICK v \in Convs, k \in 1..MaxSteps : bufs' = Buffered(v, k) \/ bufs' = RunsBut(v, bufs)
    BY <1>3, DeltaStep
  <2>2. bufs \in Seq(Run)
    BY QueuesTyped, SMTT(30)
  <2> QED BY <2>1, <2>2, BufferedGrows, PartElems
<1>4. OnDelta \/ bufs' = bufs \/ bufs' = <<>>
  BY DEF hostVars, Next, HostLoop, HubLoop, ConnLoop, vars, HostStep, HostTick, HostReceive, PumpFrame,
         PumpSnapshot, HostRotate, PollToken, HubTell, OnRegistration, OnClosed, OnCommand, OnBadFrame,
         OnResult, OnSnapshot, OnRotated, FlushAll, Connect, Leave, Deliver, Obey, End, Stop, Ask
<1> QED BY <1>1, <1>2, <1>3, <1>4

(* A client has got what it had, and what the frame it is given tells of. *)
LEMMA DeliverGot ==
  ASSUME HubInv, NEW c \in Conns, Deliver(c)
  PROVE  /\ outbound[c] # <<>> /\ Head(outbound[c]) \in Run \cup Snap \cup Answer \cup Word
         /\ outbound' = [outbound EXCEPT ![c] = Tail(@)]
         /\ \A d \in Conns : d # c => got'[d] = got[d]
         /\ \A v \in Convs : \A k : k \in got'[c][v] <=> k \in got[c][v] \/ TellsOf(made, Head(outbound[c]), v, k)
<1> DEFINE F == Run \cup Snap \cup Answer \cup Word
           f == Head(outbound[c])
<1>a. /\ outbound \in [Conns -> Seq(F)] /\ got \in [Conns -> [Convs -> SUBSET (1..MaxSteps)]]
      /\ outbound[c] # <<>> /\ outbound' = [outbound EXCEPT ![c] = Tail(@)]
  BY DEF HubInv, ClientTypes, Deliver
<1>b. f \in F
  <2> HIDE DEF F
  <2> QED BY <1>a, PopFront
<1>1. CASE f.type = "delta"
  <2>1. got' = [got EXCEPT ![c][f.conv] = @ \cup {f.ns[i] : i \in DOMAIN f.ns}] /\ f.conv \in Convs
    <3>1. f \in Run
      BY <1>b, <1>1 DEF Snap, Answer, Word
    <3>2. f.conv \in Convs
      BY <3>1 DEF Run
    <3> QED BY <3>2, <1>1 DEF Deliver
  <2> HIDE DEF f, F
  <2>2. got'[c] = [got[c] EXCEPT ![f.conv] = @ \cup {f.ns[i] : i \in DOMAIN f.ns}]
        /\ \A d \in Conns : d # c => got'[d] = got[d]
    BY <2>1, <1>a
  <2>3. ASSUME NEW v \in Convs, NEW k PROVE k \in got'[c][v] <=> k \in got[c][v] \/ TellsOf(made, f, v, k)
    <3>1. got[c] \in [Convs -> SUBSET (1..MaxSteps)]
      BY <1>a
    <3>2. got'[c][v] = IF v = f.conv THEN got[c][v] \cup {f.ns[i] : i \in DOMAIN f.ns} ELSE got[c][v]
      BY <2>1, <2>2, <3>1
    <3> QED BY <1>1, <3>2 DEF TellsOf
  <2> QED BY <1>a, <1>b, <2>2, <2>3 DEF f, F
<1>2. CASE f.type = "snapshot"
  <2>1. got' = [got EXCEPT ![c] = [v \in Convs |-> @[v] \cup Tells(f, v)]]
    BY <1>2 DEF Deliver
  <2> HIDE DEF f, F
  <2>2. got'[c] = [v \in Convs |-> got[c][v] \cup Tells(f, v)] /\ \A d \in Conns : d # c => got'[d] = got[d]
    BY <2>1, <1>a
  <2>3. ASSUME NEW v \in Convs, NEW k PROVE k \in got'[c][v] <=> k \in got[c][v] \/ TellsOf(made, f, v, k)
    BY <1>2, <2>2 DEF TellsOf, Tells
  <2> QED BY <1>a, <1>b, <2>2, <2>3 DEF f, F
<1>3. CASE f.type \notin {"delta", "snapshot"}
  <2>1. UNCHANGED got
    BY <1>3 DEF Deliver, clientVars
  <2>2. \A v, k : ~TellsOf(made, f, v, k)
    BY <1>3 DEF TellsOf
  <2> HIDE DEF f, F
  <2> QED BY <1>a, <1>b, <2>1, <2>2 DEF f, F
<1> QED BY <1>1, <1>2, <1>3

(* What is told earlier is less than what is told later. *)
LEMMA TellsBefore ==
  ASSUME NEW f \in Run \cup Snap \cup Answer \cup Word, NEW g \in Run \cup Snap \cup Answer \cup Word,
         Before(f, g), g.type = "delta", NEW m, NEW k, TellsOf(m, f, g.conv, k), NEW j \in DOMAIN g.ns
  PROVE  k < g.ns[j]
<1>1. g \in Run
  BY DEF Snap, Answer, Word
<1>2. g.conv \in Convs /\ g.ns[j] \in Nat
  <2>1. g.conv \in Convs /\ g.ns \in Seq(1..MaxSteps)
    BY <1>1 DEF Run
  <2>2. \A q \in Seq(1..MaxSteps) : \A i \in DOMAIN q : q[i] \in Nat
    BY HubAssumption
  <2> QED BY <2>1, <2>2
<1>3. CASE f.type = "delta"
  BY <1>3 DEF Before, TellsOf
<1>4. CASE f.type = "snapshot"
  <2>1. f \in Snap
    BY <1>4 DEF Run, Answer, Word
  <2>2. f.at[g.conv] \in Nat
    BY <1>2, <2>1 DEF Snap
  <2> QED BY <1>2, <1>4, <2>2 DEF Before, TellsOf
<1> QED BY <1>3, <1>4 DEF TellsOf

LEMMA FramesTyped ==
  ASSUME HubInv
  PROVE  /\ Frames \subseteq Run \cup Snap \cup Answer \cup Word
         /\ \A f \in Frames : f.type = "delta" =>
              /\ f \in Run /\ f.conv \in Convs /\ \A i \in DOMAIN f.ns : f.ns[i] \in Nat
<1> DEFINE F == Run \cup Snap \cup Answer \cup Word
           I == OneStep \cup Answer \cup Snap \cup Word
<1>a. I \subseteq F
  BY DEF OneStep
<1>b. /\ input \in Seq(I) /\ todo \in Seq(I) /\ outbound \in [Conns -> Seq(F)] /\ bufs \in Seq(Run)
      /\ pendingSnap \in Snap \cup {NoSnap}
  BY QueuesTyped DEF HubInv, HubTypes
<1>1. Elems(bufs) \subseteq Run /\ Run \subseteq F /\ {pendingSnap} \ {NoSnap} \subseteq F
  <2>1. Elems(bufs) \subseteq Run
    BY <1>b, ElemsIn
  <2> QED BY <2>1, <1>b
<1> HIDE DEF I
<1>2. Elems(Feed) \subseteq I
  BY <1>b, ElemsJoin, ElemsIn DEF Feed
<1> HIDE DEF F
<1>3. \A c \in Conns : Elems(outbound[c]) \subseteq F
  BY <1>b, ElemsIn
<1>4. Frames \subseteq F
  BY <1>a, <1>1, <1>2, <1>3 DEF Frames
<1>5. ASSUME NEW f \in Frames, f.type = "delta"
      PROVE  f \in Run /\ f.conv \in Convs /\ \A i \in DOMAIN f.ns : f.ns[i] \in Nat
  <2>1. f \in Run
    BY <1>4, <1>5 DEF F, Snap, Answer, Word
  <2>2. f.conv \in Convs /\ f.ns \in Seq(1..MaxSteps)
    BY <2>1 DEF Run
  <2>3. \A q \in Seq(1..MaxSteps) : \A i \in DOMAIN q : q[i] \in Nat
    BY HubAssumption
  <2> QED BY <2>1, <2>2, <2>3
<1> QED BY <1>4, <1>5 DEF F

LEMMA SoundKept ==
  ASSUME HubInv, HubInv', OneRun(bufs), PumpedOut, Sound, FeedLine, [Next]_vars
  PROVE  Sound'
<1>1. SUFFICES ASSUME NEW f \in Frames' PROVE Past(made', f) /\ Rising(f)
  BY DEF Sound
<1>a. made \in [Convs -> Seq(Kinds)] /\ made' \in [Convs -> Seq(Kinds)] /\ bufs \in Seq(Run)
  BY QueuesTyped DEF HubInv, HostTypes
<1>2. CASE f \in Frames
  <2>1. Past(made, f) /\ Rising(f)
    BY <1>2 DEF Sound
  <2>2. CASE f.type = "delta"
    <3>1. f.conv \in Convs /\ \A i \in DOMAIN f.ns : f.ns[i] \in Nat
      BY <1>2, <2>2, FramesTyped
    <3>2. Len(made'[f.conv]) >= Len(made[f.conv]) /\ Len(made'[f.conv]) \in Nat /\ Len(made[f.conv]) \in Nat
      BY <3>1, <1>a, MadeGrows
    <3> QED BY <2>1, <2>2, <3>1, <3>2 DEF Past
  <2>3. CASE f.type = "snapshot"
    <3>1. f \in Snap
      BY <1>2, <2>3, FramesTyped DEF Run, Answer, Word
    <3>2. \A v \in Convs : f.at[v] \in Nat /\ Len(made'[v]) >= Len(made[v]) /\ Len(made'[v]) \in Nat /\ Len(made[v]) \in Nat
      BY <3>1, <1>a, MadeGrows DEF Snap
    <3> QED BY <2>1, <2>3, <3>2 DEF Past, Rising
  <2> QED BY <2>2, <2>3 DEF Past, Rising
<1>3. CASE Ordinary(f)
  BY <1>3 DEF Ordinary, Past, Rising
<1>4. CASE f = Snapshot([v \in Convs |-> Len(made[v])]) /\ made' = made
  <2>1. f.type = "snapshot" /\ \A v \in Convs : f.at[v] = Len(made[v]) /\ Len(made[v]) \in Nat
    BY <1>4, <1>a DEF Snapshot
  <2> QED BY <1>4, <2>1 DEF Past, Rising
<1>5. ASSUME NEW v \in Convs, NEW kinds \in {<<"chunk">>, <<"event">>, <<"event", "event">>}, HostStep(v, kinds),
             NEW i \in 1..Len(kinds), f = Delta(v, <<Len(made[v]) + i>>)
      PROVE  Past(made', f) /\ Rising(f)
  <2>1. f.type = "delta" /\ f.conv = v /\ f.ns = <<Len(made[v]) + i>>
    BY <1>5 DEF Delta
  <2>2. made'[v] = made[v] \o kinds
    BY <1>5, <1>a DEF HostStep
  <2>3. kinds \in Seq(Kinds)
    <3>1. {"chunk", "event"} = Kinds
      BY DEF Kinds
    <3>2. <<"chunk">> \in Seq(Kinds) /\ <<"event">> \in Seq(Kinds) /\ <<"event", "event">> \in Seq(Kinds)
      BY <3>1
    <3> QED BY <3>2
  <2>4. Len(made'[v]) = Len(made[v]) + Len(kinds) /\ Len(made[v]) \in Nat /\ Len(kinds) \in Nat
    BY <1>a, <2>2, <2>3
  <2>5. Len(made[v]) + i <= Len(made'[v])
    BY <2>4
  <2>6. \A j \in DOMAIN f.ns : j = 1 /\ f.ns[j] = Len(made[v]) + i
    BY <2>1
  <2>7. ~(1 < 1)
    OBVIOUS
  <2> QED BY <2>1, <2>5, <2>6, <2>7 DEF Past, Rising
<1>6. ASSUME OnDelta, NEW v \in Convs, NEW k \in 1..MaxSteps, Head(input) = Delta(v, <<k>>), f = Grown(v, k)
      PROVE  Past(made', f) /\ Rising(f)
  <2>1. made' = made /\ input # <<>>
    BY <1>6 DEF OnDelta, hostVars
  <2>2. Head(input) \in Elems(Feed)
    BY <2>1, QueuesTyped, ElemsTail, ElemsJoin DEF Feed
  <2>3. Elems(RunsOf(v, bufs)) \subseteq Elems(bufs)
    BY <1>a, PartElems
  <2>4. \A r \in Elems(RunsOf(v, bufs)) : Rising(r) /\ Past(made, r) /\ Before(r, Head(input))
    BY <2>2, <2>3 DEF Sound, Frames, FeedLine, Kept, Follows
  <2>5. k <= Len(made[v])
    <3> DEFINE d == Delta(v, <<k>>)
    <3>1. d.type = "delta" /\ d.conv = v /\ 1 \in DOMAIN d.ns /\ d.ns[1] = k
      BY DEF Delta
    <3>2. Past(made, d)
      BY <1>6, <2>2 DEF Sound, Frames
    <3> HIDE DEF d
    <3> QED BY <3>1, <3>2 DEF Past
  <2> DEFINE R == Elems(RunsOf(v, bufs))
             d == Delta(v, <<k>>)
  <2>8. /\ Grown(v, k).type = "delta" /\ Grown(v, k).conv = v
        /\ \A r \in R : r.type = "delta" /\ r.conv = v
        /\ \A i \in DOMAIN Grown(v, k).ns :
             \/ Grown(v, k).ns[i] = k
             \/ \E r \in R : \E j \in DOMAIN r.ns : r.ns[j] = Grown(v, k).ns[i]
        /\ (\A r \in R : Rising(r) /\ Before(r, d)) => Rising(Grown(v, k))
    BY <1>a, GrownSteps
  <2>9. \A r \in R : Rising(r) /\ Before(r, d)
    BY <1>6, <2>4
  <2> HIDE DEF R, d
  <2>6. Rising(f) /\ f.type = "delta" /\ f.conv = v
    BY <1>6, <2>8, <2>9
  <2>7. \A i \in DOMAIN f.ns : f.ns[i] <= Len(made[v])
    <3>1. TAKE i \in DOMAIN f.ns
    <3>2. \/ f.ns[i] = k
          \/ \E r \in R : r.type = "delta" /\ r.conv = v /\ \E j \in DOMAIN r.ns : r.ns[j] = f.ns[i]
      BY <1>6, <2>8
    <3> QED BY <3>2, <2>4, <2>5 DEF Past, R
  <2> QED BY <2>1, <2>6, <2>7 DEF Past
<1> QED BY <1>2, <1>3, <1>4, <1>5, <1>6, FramesKept

LEMMA GotPastKept ==
  ASSUME HubInv, HubInv', Sound, GotPast, [Next]_vars
  PROVE  GotPast'
<1>1. SUFFICES ASSUME NEW c \in Conns, NEW v \in Convs, NEW k \in got'[c][v] PROVE k \in 1..Len(made'[v])
  BY DEF GotPast
<1>a. /\ Len(made'[v]) >= Len(made[v]) /\ Len(made'[v]) \in Nat /\ Len(made[v]) \in Nat
      /\ got \in [Conns -> [Convs -> SUBSET (1..MaxSteps)]] /\ got' \in [Conns -> [Convs -> SUBSET (1..MaxSteps)]]
  BY MadeGrows DEF HubInv, HostTypes, ClientTypes
<1>2. k \in 1..MaxSteps
  BY <1>a
<1>3. CASE k \in got[c][v]
  BY <1>3, <1>a DEF GotPast
<1>4. ASSUME Deliver(c), TellsOf(made, Head(outbound[c]), v, k) PROVE k \in 1..Len(made'[v])
  <2> DEFINE f == Head(outbound[c])
  <2>1. f \in Frames
    <3>1. outbound[c] # <<>> /\ outbound[c] \in Seq(Run \cup Snap \cup Answer \cup Word)
      BY <1>4, DeliverGot, QueuesTyped
    <3> QED BY <3>1, ElemsTail DEF Frames
  <2>2. Past(made, f)
    BY <2>1 DEF Sound
  <2> HIDE DEF f
  <2>3. TellsOf(made, f, v, k)
    BY <1>4 DEF f
  <2>4. k <= Len(made[v])
    <3>1. CASE f.type = "delta"
      BY <2>2, <2>3, <3>1 DEF TellsOf, Past
    <3>2. CASE f.type = "snapshot"
      <4>1. f \in Snap
        BY <2>1, <3>2, FramesTyped DEF Run, Answer, Word
      <4>2. f.at[v] \in Nat /\ f.at[v] <= Len(made[v])
        BY <2>2, <3>2, <4>1 DEF Past, Snap
      <4>3. k \in 1..f.at[v]
        BY <2>3, <3>2 DEF TellsOf
      <4> QED BY <4>2, <4>3, <1>a
    <3> QED BY <2>3, <3>1, <3>2 DEF TellsOf
  <2> QED BY <1>2, <1>a, <2>4
<1>5. ASSUME NEW d \in Conns, Deliver(d) PROVE k \in got[c][v] \/ (d = c /\ TellsOf(made, Head(outbound[c]), v, k))
  BY <1>5, DeliverGot
<1>6. ASSUME NEW d \in Conns, End(d) PROVE k \in got[c][v]
  BY <1>6, <1>a DEF End
<1>7. (\E d \in Conns : Deliver(d) \/ End(d)) \/ got' = got
  BY DEF hostVars, hubVars, clientVars, Next, HostLoop, HubLoop, ConnLoop, vars, HostStep, HostTick, HostReceive, PumpFrame,
         PumpSnapshot, HostRotate, PollToken, HubTell, OnRegistration, OnClosed, OnCommand, OnBadFrame,
         OnDelta, OnResult, OnSnapshot, OnRotated, FlushAll, Connect, Leave, Obey, Stop, Ask
<1> QED BY <1>3, <1>4, <1>5, <1>6, <1>7

LEMMA FreshKept ==
  ASSUME HubInv, Fresh, [Next]_vars
  PROVE  Fresh'
<1> USE DEF hubVars, hostVars, clientVars
<1> DEFINE F == Run \cup Snap \cup Answer \cup Word
<1>a. /\ regs \in Seq(Conns) /\ outbound \in [Conns -> Seq(F)] /\ got \in [Conns -> [Convs -> SUBSET (1..MaxSteps)]]
      /\ conn \in [Conns -> {"new", "open", "closing", "gone"}]
  BY DEF HubInv, SeatInv, SeatTypes, ClientTypes
<1> HIDE DEF F
<1>1. SUFFICES ASSUME NEW c \in Conns, conn'[c] = "new" \/ Waiting(c)'
               PROVE  outbound'[c] = <<>> /\ \A v \in Convs : got'[c][v] = {}
  BY DEF Fresh
<1>2. ASSUME conn[c] = "new" \/ Waiting(c)
      PROVE  outbound[c] = <<>> /\ (\A v \in Convs : got[c][v] = {}) /\ c # active
  BY <1>2 DEF Fresh, HubInv, SeatInv, NewIsApart, WaitingIsApart
<1>3. CASE UNCHANGED <<regs, conn, outbound, got>>
  BY <1>1, <1>2, <1>3 DEF Waiting
<1>4. CASE OnRegistration
  <2>1. /\ regs # <<>> /\ regs' = Tail(regs) /\ UNCHANGED <<conn, got>>
        /\ \A d \in Conns : d # Head(regs) => outbound'[d] = outbound[d]
    BY <1>4, <1>a DEF OnRegistration
  <2>2. Waiting(Head(regs)) /\ conn[Head(regs)] # "new"
    <3>1. Head(regs) \in Conns /\ Head(regs) = regs[1] /\ 1 \in DOMAIN regs
      BY <1>a, <2>1, PopFront
    <3> QED BY <3>1 DEF Waiting, HubInv, SeatInv, NewIsApart
  <2>3. ASSUME NEW i \in DOMAIN regs', regs'[i] = c PROVE Waiting(c) /\ c # Head(regs)
    <3>1. i + 1 \in DOMAIN regs /\ regs[i + 1] = c /\ Head(regs) = regs[1] /\ 1 \in DOMAIN regs /\ i + 1 # 1
      <4>1. /\ \A j \in DOMAIN Tail(regs) : Tail(regs)[j] = regs[j + 1] /\ j + 1 \in DOMAIN regs
            /\ Head(regs) = regs[1] /\ 1 \in DOMAIN regs /\ Len(Tail(regs)) = Len(regs) - 1 /\ Tail(regs) \in Seq(Conns)
        BY <1>a, <2>1, PopFront
      <4>2. i \in Nat \ {0}
        BY <4>1, <2>1
      <4> QED BY <4>1, <4>2, <2>1, <2>3
    <3> QED BY <3>1 DEF Waiting, HubInv, SeatInv, RegisteredOnce
  <2>4. (conn[c] = "new" \/ Waiting(c)) /\ c # Head(regs)
    <3>1. CASE conn'[c] = "new"
      BY <2>1, <2>2, <3>1
    <3>2. CASE Waiting(c)'
      BY <2>3, <3>2 DEF Waiting
    <3> QED BY <1>1, <3>1, <3>2
  <2> QED BY <1>2, <2>1, <2>4
<1>5. CASE Emitting
  <2>1. UNCHANGED <<regs, conn, got>>
    BY <1>5 DEF Emitting, OnCommand, OnBadFrame, OnDelta, OnResult, FlushAll
  <2>2. conn[c] = "new" \/ Waiting(c)
    BY <1>1, <2>1 DEF Waiting
  <2>3. outbound'[c] = outbound[c]
    <3>1. CASE UNCHANGED outbound
      BY <3>1
    <3>2. ASSUME NEW frames \in Seq(Run \cup Snap \cup Answer \cup Word), Emit(frames) PROVE outbound'[c] = outbound[c]
      BY <3>2, <1>2, <2>2, EmitSent
    <3> QED BY <3>1, <3>2, <1>5, Emitted
  <2> QED BY <1>2, <2>1, <2>2, <2>3
<1>6. ASSUME NEW d \in Conns, Deliver(d) PROVE outbound'[c] = <<>> /\ \A v \in Convs : got'[c][v] = {}
  <2>1. conn[c] = "new" \/ Waiting(c)
    BY <1>1, <1>6 DEF Deliver, Waiting
  <2>2. d # c
    BY <1>2, <1>6, <2>1 DEF Deliver
  <2> QED BY <1>2, <1>6, <1>a, <2>1, <2>2, DeliverGot
<1>7. ASSUME NEW d \in Conns, End(d) PROVE outbound'[c] = <<>> /\ \A v \in Convs : got'[c][v] = {}
  <2>1. /\ outbound' = [outbound EXCEPT ![d] = <<>>] /\ got' = [got EXCEPT ![d] = [v \in Convs |-> {}]]
        /\ conn' = [conn EXCEPT ![d] = "gone"] /\ regs' = regs
    BY <1>7 DEF End
  <2>2. c # d => conn[c] = "new" \/ Waiting(c)
    BY <1>1, <2>1, <1>a DEF Waiting
  <2>3. CASE c = d
    BY <2>1, <2>3, <1>a
  <2>4. CASE c # d
    BY <2>1, <2>2, <2>4, <1>2, <1>a
  <2> QED BY <2>3, <2>4
<1>8. ASSUME NEW d \in Conns, Connect(d) PROVE outbound'[c] = <<>> /\ \A v \in Convs : got'[c][v] = {}
  <2>1. /\ conn[d] = "new" /\ conn' = [conn EXCEPT ![d] = "open"] /\ regs' = Append(regs, d)
        /\ UNCHANGED <<outbound, got>>
    BY <1>8 DEF Connect
  <2>2. conn[c] = "new" \/ Waiting(c)
    <3>1. /\ DOMAIN Append(regs, d) = DOMAIN regs \cup {Len(regs) + 1} /\ Append(regs, d)[Len(regs) + 1] = d
          /\ \A i \in DOMAIN regs : Append(regs, d)[i] = regs[i]
      BY <1>a, PushBack
    <3>2. CASE conn'[c] = "new"
      BY <2>1, <3>2, <1>a
    <3>3. CASE Waiting(c)'
      BY <2>1, <3>1, <3>3 DEF Waiting
    <3> QED BY <1>1, <3>2, <3>3
  <2> QED BY <1>2, <2>1, <2>2
<1>9. ASSUME NEW d \in Conns, Leave(d) \/ Obey(d) PROVE outbound'[c] = <<>> /\ \A v \in Convs : got'[c][v] = {}
  <2>1. conn' = [conn EXCEPT ![d] = "closing"] /\ UNCHANGED <<regs, outbound, got>>
    BY <1>9 DEF Leave, Obey, Stop
  <2>2. conn[c] = "new" \/ Waiting(c)
    BY <1>1, <2>1, <1>a DEF Waiting
  <2> QED BY <1>2, <2>1, <2>2
<1>10. CASE HubTell \/ OnClosed \/ OnSnapshot \/ OnRotated \/ PollToken \/ UNCHANGED vars
  BY <1>10, <1>3 DEF HubTell, OnClosed, OnSnapshot, OnRotated, PollToken, vars
<1>11. CASE (\E v \in Convs, kinds \in {<<"chunk">>, <<"event">>, <<"event", "event">>} : HostStep(v, kinds))
            \/ HostLoop \/ HostRotate
  BY <1>11, <1>3 DEF HostStep, HostLoop, HostTick, HostReceive, PumpFrame, PumpSnapshot, HostRotate
<1>12. ASSUME NEW d \in Conns,
              \/ \E cmd \in Cmds : Ask(d, [type |-> "command", conn |-> d, cmd |-> cmd])
              \/ Ask(d, [type |-> "bad", conn |-> d])
       PROVE  outbound'[c] = <<>> /\ \A v \in Convs : got'[c][v] = {}
  BY <1>12, <1>3 DEF Ask
<1> HIDE DEF hubVars, hostVars, clientVars
<1> QED
  BY <1>4, <1>5, <1>6, <1>7, <1>8, <1>9, <1>10, <1>11, <1>12 DEF Next, HubLoop, ConnLoop, Emitting

LEMMA IdleFeed ==
  ASSUME HubInv, PumpedOut, pumping = FALSE
  PROVE  todo = <<>> /\ Feed = input
<1>1. todo = <<>>
  BY DEF PumpedOut
<1> QED BY <1>1, QueuesTyped, Nothing DEF Feed

(* What no client can have been told of comes after everything. *)
LEMMA NewStepsLast ==
  ASSUME HubInv, Sound, GotPast, NEW v \in Convs, NEW k \in Nat, k > Len(made[v])
  PROVE  /\ Follows(Frames, {Delta(v, <<k>>)})
         /\ \A c \in Conns : Behind(got[c], {Delta(v, <<k>>)})
<1> DEFINE d == Delta(v, <<k>>)
<1>1. d.type = "delta" /\ d.conv = v /\ \A j \in DOMAIN d.ns : d.ns[j] = k
  BY DEF Delta
<1>2. Len(made[v]) \in Nat
  BY DEF HubInv, HostTypes
<1> HIDE DEF d
<1>3. ASSUME NEW f \in Frames PROVE Before(f, d)
  <2>1. Past(made, f)
    BY DEF Sound
  <2>2. CASE f.type = "delta"
    <3>1. \A i \in DOMAIN f.ns : f.ns[i] \in Nat
      BY <2>2, FramesTyped
    <3>2. f.conv = v => \A i \in DOMAIN f.ns : f.ns[i] < k
      BY <1>2, <2>1, <2>2, <3>1 DEF Past
    <3> QED BY <1>1, <2>2, <3>2 DEF Before
  <2>3. CASE f.type = "snapshot"
    <3>1. f \in Snap
      BY <2>3, FramesTyped DEF Run, Answer, Word
    <3>2. f.at[v] \in Nat /\ f.at[v] < k
      BY <1>2, <2>1, <2>3, <3>1 DEF Past, Snap
    <3> QED BY <1>1, <2>3, <3>2 DEF Before
  <2> QED BY <2>2, <2>3 DEF Before
<1>4. ASSUME NEW c \in Conns PROVE Behind(got[c], {d})
  <2>1. \A n \in got[c][v] : n \in 1..Len(made[v])
    BY DEF GotPast
  <2>2. \A n \in got[c][v] : n < k
    BY <1>2, <2>1
  <2> QED BY <1>1, <2>2 DEF Behind
<1> QED BY <1>3, <1>4 DEF d, Follows

(* The host only puts behind the line what is newer than all of it. *)
LEMMA FeedGrows ==
  ASSUME HubInv, HubInv', LineInv,
         \/ \E v \in Convs, kinds \in {<<"chunk">>, <<"event">>, <<"event", "event">>} : HostStep(v, kinds)
         \/ HostRotate \/ HostLoop
  PROVE  /\ UNCHANGED <<bufs, pendingSnap, outbound, active, got>>
         /\ Rise(Feed')
         /\ \A g \in Elems(Feed') : \/ g \in Elems(Feed)
                                    \/ Follows(Frames, {g}) /\ \A c \in Conns : Behind(got[c], {g})
<1> USE DEF hostVars, hubVars, clientVars
<1> DEFINE I == OneStep \cup Answer \cup Snap \cup Word
<1>a. input \in Seq(I) /\ todo \in Seq(I) /\ pumping \in BOOLEAN
  BY QueuesTyped DEF HubInv, HostTypes
<1>b. input' \in Seq(I) /\ todo' \in Seq(I)
  <2>1. input' \in Seq(I) /\ todo' \in Seq(OneStep \cup Answer)
    BY DEF HubInv, QueueTypes, HostTypes
  <2> QED BY <2>1
<1> HIDE DEF I
<1>c. /\ Elems(Feed) = Elems(input) \cup Elems(todo)
      /\ Elems(Feed') = Elems(input') \cup Elems(todo')
  BY <1>a, <1>b, ElemsJoin DEF Feed
<1>d. Elems(<<>>) = {}
  BY ElemsOne
<1>e. /\ UNCHANGED <<bufs, pendingSnap, outbound, active, got>>
      /\ Rise(Feed) /\ PumpedOut /\ Sound /\ GotPast /\ Elems(Feed) \subseteq Frames
  BY DEF LineInv, FeedLine, Frames, HostStep, HostLoop, HostTick, HostReceive, PumpFrame, PumpSnapshot, HostRotate
<1>f. \A g : Ordinary(g) => Follows(Frames, {g}) /\ \A c \in Conns : Behind(got[c], {g})
  BY DEF Ordinary, Follows, Before, Behind
<1>g. ASSUME NEW x \in I, Follows(Elems(input), {x}), todo = <<>>, todo' = <<>>, input' = Append(input, x)
      PROVE  Rise(Feed') /\ Elems(Feed') = Elems(Feed) \cup {x}
  <2>1. Feed = input /\ Feed' = input'
    BY <1>a, <1>b, <1>g, Nothing DEF Feed
  <2> QED BY <2>1, <1>a, <1>e, <1>g, RisePush, ElemsPush
<1>1. ASSUME NEW v \in Convs, NEW kinds \in {<<"chunk">>, <<"event">>, <<"event", "event">>}, HostStep(v, kinds)
      PROVE  /\ Rise(Feed')
             /\ \A g \in Elems(Feed') : g \in Elems(Feed) \/ (Follows(Frames, {g}) /\ \A c \in Conns : Behind(got[c], {g}))
  <2>1. input' = input /\ todo' = [i \in 1..Len(kinds) |-> Delta(v, <<Len(made[v]) + i>>)] /\ pumping = FALSE
    BY <1>1, <1>a DEF HostStep, Idle
  <2>2. Feed = input
    BY <1>e, <2>1, IdleFeed
  <2>3. Len(made[v]) \in Nat /\ Len(kinds) \in {1, 2}
    BY DEF HubInv, HostTypes
  <2>4. \A i \in 1..Len(kinds) : LET g == Delta(v, <<Len(made[v]) + i>>) IN
          Follows(Frames, {g}) /\ \A c \in Conns : Behind(got[c], {g})
    <3>1. TAKE i \in 1..Len(kinds)
    <3>2. Len(made[v]) + i \in Nat /\ Len(made[v]) + i > Len(made[v])
      BY <2>3
    <3> QED BY <3>2, <1>e, NewStepsLast
  <2>5. \A g \in Elems(todo') : Follows(Frames, {g}) /\ \A c \in Conns : Behind(got[c], {g})
    BY <2>1, <2>4 DEF Elems
  <2>6. Rise(todo')
    <3>1. DOMAIN todo' = 1..Len(kinds)
      BY <2>1
    <3>2. SUFFICES ASSUME NEW i \in 1..Len(kinds), NEW j \in 1..Len(kinds), i < j PROVE Before(todo'[i], todo'[j])
      BY <3>1 DEF Rise
    <3>3. todo'[i] = Delta(v, <<Len(made[v]) + i>>) /\ todo'[j] = Delta(v, <<Len(made[v]) + j>>)
      BY <2>1
    <3>4. Len(made[v]) + i < Len(made[v]) + j
      BY <2>3, <3>2
    <3> QED BY <3>3, <3>4 DEF Before, Delta
  <2>7. Follows(Elems(input), Elems(todo'))
    BY <1>e, <2>2, <2>5 DEF Follows
  <2>8. Rise(input \o todo')
    BY <1>a, <1>b, <1>e, <2>2, <2>6, <2>7, RiseJoin
  <2> QED BY <1>c, <2>1, <2>5, <2>8 DEF Feed
<1>2. ASSUME HostReceive
      PROVE  /\ Rise(Feed')
             /\ \A g \in Elems(Feed') : g \in Elems(Feed) \/ (Follows(Frames, {g}) /\ \A c \in Conns : Behind(got[c], {g}))
  <2>1. input' = input /\ pumping = FALSE
    BY <1>2, <1>a DEF HostReceive, Idle
  <2>2. todo = <<>> /\ Feed = input
    BY <1>e, <2>1, IdleFeed
  <2> DEFINE r == Result(Head(output).cmd)
  <2>3. todo' = <<>> \/ todo' = <<r>>
    BY <1>2, <2>2 DEF HostReceive
  <2>4. Ordinary(r)
    BY DEF Ordinary, Result
  <2> HIDE DEF r
  <2>5. Rise(todo') /\ Elems(todo') \subseteq {r}
    BY <2>3, RiseOne, ElemsOne
  <2>6. Follows(Elems(input), Elems(todo'))
    BY <2>4, <2>5, <1>e, <2>2, <1>f DEF Follows
  <2>7. Rise(input \o todo')
    BY <1>a, <1>b, <1>e, <2>2, <2>5, <2>6, RiseJoin
  <2> QED BY <1>c, <1>f, <2>1, <2>4, <2>5, <2>7 DEF Feed
<1>3. ASSUME PumpFrame
      PROVE  Rise(Feed') /\ Elems(Feed') \subseteq Elems(Feed)
  <2>1. todo # <<>>
    BY <1>3 DEF PumpFrame
  <2>2. CASE input' = Append(input, Head(todo)) /\ todo' = Tail(todo)
    BY <1>a, <1>e, <2>1, <2>2, MoveOver DEF Feed
  <2>3. CASE input' = input /\ todo' = <<>>
    <3>1. Feed' = input
      BY <1>a, <2>3, Nothing DEF Feed
    <3>2. Rise(input)
      <4>1. /\ \A i \in DOMAIN input : i \in DOMAIN (input \o todo) /\ (input \o todo)[i] = input[i]
        BY <1>a, Joined
      <4> QED BY <4>1, <1>e DEF Feed, Rise
    <3> QED BY <1>c, <3>1, <3>2
  <2> QED BY <1>3, <2>2, <2>3 DEF PumpFrame
<1>4. ASSUME PumpSnapshot
      PROVE  /\ Rise(Feed')
             /\ \A g \in Elems(Feed') : g \in Elems(Feed) \/ (Follows(Frames, {g}) /\ \A c \in Conns : Behind(got[c], {g}))
  <2> DEFINE s == Snapshot([v \in Convs |-> Len(made[v])])
  <2>1. todo = <<>> /\ todo' = <<>> /\ input' \in {input, Append(input, s)}
    BY <1>4 DEF PumpSnapshot
  <2>2. s \in I
    <3>1. \A v \in Convs : Len(made[v]) \in 0..MaxSteps
      BY HubAssumption DEF HubInv, HostTypes
    <3> QED BY <3>1 DEF I, Snap, Snapshot
  <2>3. Follows(Frames, {s}) /\ \A c \in Conns : Behind(got[c], {s})
    <3>1. s.type = "snapshot" /\ \A v \in Convs : s.at[v] = Len(made[v])
      BY DEF Snapshot
    <3> HIDE DEF s
    <3>2. \A f \in Frames : Before(f, s)
      BY <1>e, <3>1 DEF Sound, Past, Before
    <3> QED BY <3>1, <3>2 DEF Follows, Behind
  <2> HIDE DEF s
  <2>4. CASE input' = Append(input, s)
    <3>1. Follows(Elems(input), {s})
      BY <1>c, <1>e, <2>3 DEF Follows
    <3> QED BY <1>g, <2>1, <2>2, <2>3, <2>4, <3>1
  <2>5. CASE input' = input
    BY <1>e, <2>1, <2>5 DEF Feed
  <2> QED BY <2>1, <2>4, <2>5
<1>5. ASSUME HostRotate
      PROVE  /\ Rise(Feed')
             /\ \A g \in Elems(Feed') : g \in Elems(Feed) \/ (Follows(Frames, {g}) /\ \A c \in Conns : Behind(got[c], {g}))
  <2> DEFINE w == Control("rotated")
  <2>1. input' = Append(input, w) /\ todo' = todo /\ pumping = FALSE
    BY <1>5, <1>a DEF HostRotate, Idle
  <2>2. todo = <<>>
    BY <1>e, <2>1, IdleFeed
  <2>3. w \in I /\ Ordinary(w)
    BY DEF Control, Word, I, Ordinary
  <2> HIDE DEF w
  <2>4. Follows(Elems(input), {w})
    BY <1>c, <1>e, <1>f, <2>3 DEF Follows
  <2> QED BY <1>f, <1>g, <2>1, <2>2, <2>3, <2>4
<1>6. ASSUME HostTick PROVE Feed' = Feed
  BY <1>6 DEF HostTick, Feed
<1> HIDE DEF hostVars, hubVars, clientVars
<1> QED BY <1>1, <1>2, <1>3, <1>4, <1>5, <1>6, <1>e DEF HostLoop

LEMMA InputFirst ==
  ASSUME HubInv, Rise(Feed), input # <<>>, input' = Tail(input), todo' = todo
  PROVE  /\ Rise(Feed') /\ Elems(Feed') \subseteq Elems(Feed)
         /\ Head(input) \in Elems(Feed) /\ Follows({Head(input)}, Elems(Feed'))
<1> DEFINE I == OneStep \cup Answer \cup Snap \cup Word
<1>1. input \in Seq(I) /\ todo \in Seq(I)
  BY QueuesTyped
<1> HIDE DEF I
<1>2. Feed \in Seq(I) /\ Feed # <<>> /\ Feed' = Tail(Feed) /\ Feed[1] = Head(input)
  BY <1>1, Joined, TailOver DEF Feed
<1>3. Head(Feed) = Head(input)
  BY <1>2, PopFront
<1> HIDE DEF Feed
<1> QED BY <1>2, <1>3, RiseTail, ElemsTail

LEMMA LineAfter ==
  ASSUME HubInv, OutLine, NEW frames \in Seq(Run \cup Snap \cup Answer \cup Word), Emit(frames),
         Rise(frames), got' = got, NEW T, T = Elems(frames) \cup Kept' \cup Elems(Feed'),
         active # NoConn => Follows(Elems(outbound[active]), T) /\ Behind(got[active], T),
         Follows(Elems(frames), Kept' \cup Elems(Feed'))
  PROVE  OutLine' /\ ActiveLine'
<1>1. active # NoConn => Follows(Elems(outbound[active]), Elems(frames)) /\ Behind(got[active], Elems(frames))
  BY DEF Follows, Behind
<1>2. /\ OutLine'
      /\ active' # NoConn => /\ active' = active /\ active # NoConn
                             /\ Elems(outbound'[active']) = Elems(outbound[active]) \cup Elems(frames)
  BY <1>1, LineEmit
<1>3. ASSUME active' # NoConn
      PROVE  /\ Follows(Elems(outbound'[active']), Kept' \cup Elems(Feed'))
             /\ Behind(got'[active'], Kept' \cup Elems(Feed'))
  <2>1. active' = active /\ Elems(outbound'[active']) = Elems(outbound[active]) \cup Elems(frames) /\ active # NoConn
    BY <1>2, <1>3
  <2>2. Follows(Elems(outbound[active]), T) /\ Behind(got[active], T)
    BY <2>1
  <2> HIDE DEF Kept, Feed
  <2> QED BY <2>1, <2>2 DEF Follows, Behind
<1> QED BY <1>2, <1>3 DEF ActiveLine

LEMMA LineHub ==
  ASSUME HubInv, HubInv', LineInv, HubLoop \/ PollToken
  PROVE  FeedLine' /\ OutLine' /\ ActiveLine'
<1> USE DEF hostVars, hubVars, clientVars
<1> DEFINE F == Run \cup Snap \cup Answer \cup Word
           Held == {pendingSnap} \ {NoSnap}
<1>a. /\ bufs \in Seq(Run) /\ outbound \in [Conns -> Seq(F)] /\ active \in Conns \cup {NoConn}
      /\ pendingSnap \in Snap \cup {NoSnap} /\ Elems(bufs) \subseteq Run
  <2>1. bufs \in Seq(Run)
    BY QueuesTyped
  <2>2. Elems(bufs) \subseteq Run
    BY <2>1, ElemsIn
  <2> QED BY <2>1, <2>2, QueuesTyped DEF HubInv, SeatInv, SeatTypes, HubTypes
<1>b. /\ OneRun(bufs) /\ Rise(Feed) /\ Follows(Kept, Elems(Feed)) /\ OutLine
      /\ active # NoConn => /\ Follows(Elems(outbound[active]), Kept \cup Elems(Feed))
                            /\ Behind(got[active], Kept \cup Elems(Feed))
  BY DEF LineInv, FeedLine, ActiveLine
<1>c. Kept = Elems(bufs) \cup Held
  BY DEF Kept
<1>d. \A f, g : Ordinary(f) => Before(f, g) /\ Before(g, f)
  BY DEF Ordinary, Before
<1>e. \A f, g : f \in Run /\ g.type = "snapshot" => Before(f, g)
  BY DEF Run, Before
<1>f. \A f \in Held : f.type = "snapshot"
  BY <1>a DEF Snap
<1>1. CASE OnDelta
  <2>1. PICK v \in Convs, k \in 1..MaxSteps :
           /\ input # <<>> /\ Head(input) = Delta(v, <<k>>) /\ input' = Tail(input)
           /\ Grown(v, k) \in Run /\ Head(input) \in Run
           /\ \/ /\ bufs' = Buffered(v, k) /\ UNCHANGED <<active, outbound, signal, output>>
              \/ /\ bufs' = RunsBut(v, bufs)
                 /\ \E frames \in Seq(F) :
                      /\ Emit(frames)
                      /\ \/ frames = <<Grown(v, k)>>
                         \/ frames = Append(RunsOf(v, bufs), Head(input))
    BY <1>1, <1>b, DeltaStep
  <2>2. todo' = todo /\ pendingSnap' = pendingSnap /\ got' = got
    BY <1>1 DEF OnDelta
  <2> DEFINE h == Head(input)
             g == Grown(v, k)
             R == Elems(RunsOf(v, bufs))
             B == Elems(RunsBut(v, bufs))
             L == Elems(Feed')
  <2>3. Rise(Feed') /\ L \subseteq Elems(Feed) /\ h \in Elems(Feed) /\ Follows({h}, L)
    BY <1>b, <2>1, <2>2, InputFirst
  <2>4. R \cup B = Elems(bufs) /\ (\A f \in R : f.conv = v) /\ \A f \in B : f.conv # v
    BY <1>a, <1>b, PartElems
  <2>5. /\ \A T : Follows(R \cup {h}, T) => Follows({g}, T)
        /\ \A T : Follows(T, R \cup {h}) => Follows(T, {g})
        /\ \A seen : Behind(seen, R \cup {h}) => Behind(seen, {g})
    BY <1>a, <2>1, GrownPlace
  <2>6. g \in Run /\ g.conv = v /\ h \in Run /\ h.conv = v
    <3>1. g.conv = v
      BY <1>a, GrownSteps
    <3>2. Delta(v, <<k>>).conv = v
      BY DEF Delta
    <3> HIDE DEF g
    <3> QED BY <2>1, <3>1, <3>2 DEF g
  <2>7. Kept' = Elems(bufs') \cup Held
    BY <2>2 DEF Kept
  <2>8. /\ Elems(Buffered(v, k)) = B \cup {g}
        /\ Elems(<<g>>) = {g} /\ Rise(<<g>>) /\ <<g>> \in Seq(F)
    <3>1. g \in F /\ Elems(Buffered(v, k)) = B \cup {g}
      BY <1>a, <1>b, <2>6, BufferedGrows
    <3> HIDE DEF g, F
    <3> QED BY <3>1, ElemsOne, RiseOne
  <2> HIDE DEF h, g, R, B, L, Held
  <2>9. Follows(R \cup {h}, L) /\ Follows(B \cup Held, L)
    BY <1>b, <1>c, <2>3, <2>4 DEF Follows
  <2>10. Follows({g}, L)
    BY <2>5, <2>9
  <2>11. active # NoConn => /\ Follows(Elems(outbound[active]), R \cup {h} \cup {g} \cup B \cup Held \cup L)
                            /\ Behind(got[active], R \cup {h} \cup {g} \cup B \cup Held \cup L)
    <3>1. SUFFICES ASSUME active # NoConn
                   PROVE  /\ Follows(Elems(outbound[active]), R \cup {h} \cup {g} \cup B \cup Held \cup L)
                          /\ Behind(got[active], R \cup {h} \cup {g} \cup B \cup Held \cup L)
      OBVIOUS
    <3>2. /\ Follows(Elems(outbound[active]), R \cup {h} \cup B \cup Held \cup L)
          /\ Behind(got[active], R \cup {h} \cup B \cup Held \cup L)
      BY <3>1, <1>b, <1>c, <2>3, <2>4 DEF Follows, Behind
    <3>3. Follows(Elems(outbound[active]), R \cup {h}) /\ Behind(got[active], R \cup {h})
      BY <3>2 DEF Follows, Behind
    <3>4. Follows(Elems(outbound[active]), {g}) /\ Behind(got[active], {g})
      BY <2>5, <3>3
    <3> QED BY <3>2, <3>4 DEF Follows, Behind
  <2>12. \A f \in R \cup {h} \cup {g}, e \in B \cup Held : Before(f, e)
    <3>1. TAKE f \in R \cup {h} \cup {g}, e \in B \cup Held
    <3>2. f \in Run /\ f.conv = v
      BY <2>4, <2>6, <1>a
    <3>3. CASE e \in B
      BY <2>4, <3>2, <3>3, <1>a DEF Before, Run
    <3>4. CASE e \in Held
      BY <3>2, <3>4, <1>e, <1>f
    <3> QED BY <3>3, <3>4
  <2>13. CASE bufs' = Buffered(v, k) /\ UNCHANGED <<active, outbound, signal, output>>
    <3>1. Kept' = B \cup {g} \cup Held
      BY <2>7, <2>8, <2>13
    <3>2. FeedLine'
      BY <2>3, <2>9, <2>10, <3>1 DEF FeedLine, Follows, L
    <3>3. OutLine'
      BY <1>b, <2>2, <2>13 DEF OutLine
    <3>4. ActiveLine'
      BY <2>2, <2>11, <2>13, <3>1 DEF ActiveLine, Follows, Behind, L
    <3> QED BY <3>2, <3>3, <3>4
  <2>14. ASSUME bufs' = RunsBut(v, bufs), NEW frames \in Seq(F), Emit(frames), Rise(frames),
                Elems(frames) \subseteq R \cup {h} \cup {g}
         PROVE  FeedLine' /\ OutLine' /\ ActiveLine'
    <3>1. Kept' = B \cup Held
      BY <2>7, <2>14 DEF B
    <3>2. FeedLine'
      BY <2>3, <2>9, <3>1 DEF FeedLine, L
    <3>3. Follows(Elems(frames), Kept' \cup L)
      BY <2>9, <2>10, <2>12, <2>14, <3>1 DEF Follows
    <3> DEFINE T == Elems(frames) \cup Kept' \cup L
    <3>4. active # NoConn => Follows(Elems(outbound[active]), T) /\ Behind(got[active], T)
      BY <2>11, <2>14, <3>1 DEF Follows, Behind
    <3>5. T = Elems(frames) \cup Kept' \cup Elems(Feed')
      BY DEF L
    <3> HIDE DEF T, F
    <3> QED BY <1>b, <2>2, <2>14, <3>2, <3>3, <3>4, <3>5, LineAfter DEF F, L
  <2>15. RunsOf(v, bufs) \in Seq(Run) /\ h \in Run
    BY <1>a, <2>6, PartTypes
  <2>16. Rise(RunsOf(v, bufs)) /\ Follows(R, {h})
    <3>1. OneRun(RunsOf(v, bufs))
      <4>1. \A x : \A i, j \in DOMAIN <<x>> : i = j
        OBVIOUS
      <4> QED BY <4>1 DEF RunsOf, OneRun
    <3>2. Follows(R, {h})
      BY <1>b, <1>c, <2>3, <2>4 DEF Follows
    <3> QED BY <2>15, <3>1, <3>2, RiseRuns
  <2>17. /\ Rise(Append(RunsOf(v, bufs), h)) /\ Elems(Append(RunsOf(v, bufs), h)) = R \cup {h}
    BY <2>15, <2>16, RisePush, ElemsPush DEF R
  <2> QED
    <3>1. CASE bufs' = Buffered(v, k) /\ UNCHANGED <<active, outbound, signal, output>>
      BY <2>13, <3>1
    <3>2. ASSUME bufs' = RunsBut(v, bufs), NEW frames \in Seq(F), Emit(frames),
                 frames = <<g>> \/ frames = Append(RunsOf(v, bufs), h)
          PROVE  FeedLine' /\ OutLine' /\ ActiveLine'
      <4>1. Rise(frames) /\ Elems(frames) \subseteq R \cup {h} \cup {g}
        BY <2>8, <2>17, <3>2
      <4> QED BY <2>14, <3>2, <4>1
    <3> QED BY <2>1, <3>1, <3>2 DEF g, h
<1>2. CASE OnResult
  <2> DEFINE h == Head(input)
             L == Elems(Feed')
             frames == Append(bufs, h)
  <2>1. /\ input # <<>> /\ h \in Answer /\ input' = Tail(input) /\ frames \in Seq(F)
        /\ Elems(frames) = Elems(bufs) \cup {h} /\ Emit(frames) /\ bufs' = <<>>
        /\ todo' = todo /\ pendingSnap' = pendingSnap /\ got' = got
    BY <1>2, ResultStep DEF OnResult
  <2>2. Rise(Feed') /\ L \subseteq Elems(Feed) /\ h \in Elems(Feed) /\ Follows({h}, L)
    BY <1>b, <2>1, InputFirst
  <2>3. Ordinary(h)
    BY <2>1 DEF Answer, Ordinary
  <2>4. Rise(frames)
    <3>1. Rise(bufs) /\ Follows(Elems(bufs), {h}) /\ h \in F /\ bufs \in Seq(F)
      BY <1>a, <1>b, <1>d, <2>1, <2>3, RiseRuns DEF Follows
    <3> HIDE DEF F, h
    <3> QED BY <3>1, RisePush
  <2>5. Kept' = Held
    BY <2>1, ElemsOne DEF Kept
  <2> HIDE DEF h, L, frames, Held
  <2>6. FeedLine'
    BY <1>b, <1>c, <2>2, <2>5 DEF FeedLine, Follows, L
  <2>7. Follows(Elems(frames), Held \cup L)
    <3>1. ASSUME NEW f \in Elems(frames), NEW e \in Held \cup L PROVE Before(f, e)
      <4>1. CASE f = h
        BY <4>1, <2>3, <1>d
      <4>2. CASE f \in Elems(bufs) /\ e \in Held
        BY <4>2, <1>a, <1>e, <1>f
      <4>3. CASE f \in Elems(bufs) /\ e \in L
        BY <4>3, <1>b, <1>c, <2>2 DEF Follows
      <4> QED BY <2>1, <4>1, <4>2, <4>3
    <3> QED BY <3>1 DEF Follows
  <2> DEFINE T == Elems(frames) \cup Kept' \cup L
  <2>8. active # NoConn => Follows(Elems(outbound[active]), T) /\ Behind(got[active], T)
    <3>1. T \subseteq Kept \cup Elems(Feed)
      BY <1>c, <2>1, <2>2, <2>5
    <3> HIDE DEF T
    <3> QED BY <3>1, <1>b DEF Follows, Behind
  <2>9. T = Elems(frames) \cup Kept' \cup Elems(Feed') /\ Follows(Elems(frames), Kept' \cup Elems(Feed'))
    BY <2>5, <2>7 DEF L
  <2> HIDE DEF T
  <2> QED BY <1>b, <2>1, <2>4, <2>6, <2>8, <2>9, LineAfter
<1>3. CASE OnSnapshot
  <2> DEFINE h == Head(input)
             L == Elems(Feed')
  <2>1. /\ input # <<>> /\ input' = Tail(input) /\ pendingSnap' = h /\ h.type = "snapshot"
        /\ UNCHANGED <<todo, bufs, active, outbound, got>>
    BY <1>3 DEF OnSnapshot
  <2>2. Rise(Feed') /\ L \subseteq Elems(Feed) /\ h \in Elems(Feed) /\ Follows({h}, L)
    BY <1>b, <2>1, InputFirst
  <2>3. Kept' \subseteq Elems(bufs) \cup {h}
    BY <2>1 DEF Kept
  <2> HIDE DEF h, L, Held
  <2>4. FeedLine'
    BY <1>b, <1>c, <2>2, <2>3 DEF FeedLine, Follows, L
  <2>5. OutLine'
    BY <1>b, <2>1 DEF OutLine
  <2>6. Kept' \cup L \subseteq Kept \cup Elems(Feed)
    BY <1>c, <2>2, <2>3
  <2>7. active # NoConn => Follows(Elems(outbound[active]), Kept' \cup L) /\ Behind(got[active], Kept' \cup L)
    BY <1>b, <2>6 DEF Follows, Behind
  <2>8. active' = active /\ outbound' = outbound /\ got' = got
    BY <2>1
  <2>9. ActiveLine'
    BY <2>7, <2>8 DEF ActiveLine, L
  <2> QED BY <2>4, <2>5, <2>9
<1>4. ASSUME Rise(Feed'), Elems(Feed') \subseteq Elems(Feed), UNCHANGED <<bufs, pendingSnap, outbound, got>>,
             active' \in {active, NoConn}
      PROVE  FeedLine' /\ OutLine' /\ ActiveLine'
  <2>1. Kept' = Kept
    BY <1>4 DEF Kept
  <2>2. FeedLine'
    BY <1>b, <1>4, <2>1 DEF FeedLine, Follows
  <2>3. OutLine'
    BY <1>b, <1>4 DEF OutLine
  <2>4. ActiveLine'
    BY <1>b, <1>4, <2>1 DEF ActiveLine, Follows, Behind
  <2> QED BY <2>2, <2>3, <2>4
<1>5. CASE OnRotated
  <2>1. /\ input # <<>> /\ input' = Tail(input) /\ UNCHANGED <<todo, bufs, pendingSnap, outbound, got>> /\ active' = NoConn
    BY <1>5 DEF OnRotated, CloseActive
  <2> QED BY <1>4, <1>b, <2>1, InputFirst
<1>6. CASE HubTell \/ OnClosed \/ PollToken
  <2>1. UNCHANGED <<input, todo, bufs, pendingSnap, outbound, got>> /\ active' \in {active, NoConn}
    BY <1>6 DEF HubTell, OnClosed, PollToken, CloseActive
  <2>2. Feed' = Feed
    BY <2>1 DEF Feed
  <2> QED BY <1>4, <1>b, <2>1, <2>2
<1>7. ASSUME NEW w \in F, Ordinary(w), Emit(<<w>>), UNCHANGED <<input, todo, bufs, pendingSnap, got>>
      PROVE  FeedLine' /\ OutLine' /\ ActiveLine'
  <2>1. Feed' = Feed /\ Kept' = Kept
    BY <1>7 DEF Feed, Kept
  <2> HIDE DEF F
  <2>2. <<w>> \in Seq(F) /\ Rise(<<w>>) /\ Elems(<<w>>) = {w}
    BY RiseOne, ElemsOne
  <2> DEFINE T == Elems(<<w>>) \cup Kept' \cup Elems(Feed')
  <2>3. active # NoConn => Follows(Elems(outbound[active]), T) /\ Behind(got[active], T)
    BY <1>b, <1>d, <1>7, <2>1, <2>2 DEF Follows, Behind, Ordinary
  <2>4. Follows(Elems(<<w>>), Kept' \cup Elems(Feed'))
    BY <1>d, <1>7, <2>2 DEF Follows
  <2>5. T = Elems(<<w>>) \cup Kept' \cup Elems(Feed')
    OBVIOUS
  <2>6. FeedLine'
    BY <1>b, <2>1 DEF FeedLine
  <2> HIDE DEF T
  <2> QED BY <1>b, <1>7, <2>2, <2>3, <2>4, <2>5, <2>6, LineAfter DEF F
<1>8. CASE OnCommand
  <2>1. UNCHANGED <<input, todo, bufs, pendingSnap, got>>
    BY <1>8 DEF OnCommand
  <2>2. UNCHANGED <<active, outbound>> \/ Emit(<<Refusal(Head(inbound).cmd)>>)
    BY <1>8 DEF OnCommand
  <2>3. Head(inbound).cmd \in Cmds
    BY <1>8, PopFront DEF OnCommand, HubInv, ClosedIsGone, Messages
  <2>4. Refusal(Head(inbound).cmd) \in F /\ Ordinary(Refusal(Head(inbound).cmd))
    BY <2>3 DEF Refusal, Answer, Ordinary
  <2>5. Feed' = Feed
    BY <2>1 DEF Feed
  <2> QED BY <1>4, <1>7, <1>b, <2>1, <2>2, <2>4, <2>5
<1>9. CASE OnBadFrame
  <2>1. UNCHANGED <<input, todo, bufs, pendingSnap, got>>
    BY <1>9 DEF OnBadFrame
  <2>2. UNCHANGED <<active, outbound>> \/ Emit(<<Control("error")>>)
    BY <1>9 DEF OnBadFrame
  <2>3. Control("error") \in F /\ Ordinary(Control("error"))
    BY DEF Control, Word, Ordinary
  <2>4. Feed' = Feed
    BY <2>1 DEF Feed
  <2> QED BY <1>4, <1>7, <1>b, <2>1, <2>2, <2>3, <2>4
<1>10. CASE FlushAll
  <2>1. PICK last \in Seq(Snap) :
           /\ last = IF pendingSnap = NoSnap THEN <<>> ELSE <<pendingSnap>>
           /\ bufs \o last \in Seq(F)
           /\ Emit(bufs \o last) /\ bufs' = <<>> /\ pendingSnap' = NoSnap
           /\ UNCHANGED <<made, todo, input, got, conn, dirty, telling>>
    BY <1>10, FlushStep
  <2> DEFINE frames == bufs \o last
  <2>2. Feed' = Feed
    BY <2>1 DEF Feed
  <2>3. Elems(last) = Held /\ Rise(last)
    BY <2>1, ElemsOne, RiseOne
  <2>4. bufs \in Seq(F) /\ last \in Seq(F) /\ Rise(bufs)
    BY <1>a, <1>b, <2>1, RiseRuns
  <2>5. Kept' = {}
    BY <2>1, ElemsOne DEF Kept
  <2> HIDE DEF F, Held
  <2>6. Follows(Elems(bufs), Elems(last))
    BY <1>a, <1>e, <1>f, <2>3 DEF Follows
  <2>7. Rise(frames) /\ Elems(frames) = Kept
    BY <1>c, <2>3, <2>4, <2>6, RiseJoin, ElemsJoin
  <2> HIDE DEF frames
  <2>8. FeedLine'
    BY <1>b, <2>2, <2>5 DEF FeedLine, Follows
  <2> DEFINE T == Elems(frames) \cup Kept' \cup Elems(Feed')
  <2>9. T = Kept \cup Elems(Feed)
    BY <2>2, <2>5, <2>7
  <2>10. Follows(Elems(frames), Kept' \cup Elems(Feed'))
    BY <1>b, <2>2, <2>5, <2>7
  <2>11. T = Elems(frames) \cup Kept' \cup Elems(Feed')
    OBVIOUS
  <2>12. active # NoConn => Follows(Elems(outbound[active]), T) /\ Behind(got[active], T)
    BY <1>b, <2>9
  <2>13. frames \in Seq(F) /\ Emit(frames) /\ got' = got
    BY <2>1 DEF frames
  <2> HIDE DEF T
  <2> QED BY <1>b, <2>7, <2>8, <2>10, <2>11, <2>12, <2>13, LineAfter DEF F
<1>11. CASE OnRegistration
  <2> PICK c \in Conns : c = Head(regs) /\ Waiting(c)
    <3>1. regs # <<>> /\ regs \in Seq(Conns)
      BY <1>11 DEF OnRegistration, HubInv, SeatInv, SeatTypes
    <3>2. Head(regs) \in Conns /\ Head(regs) = regs[1] /\ 1 \in DOMAIN regs
      BY <3>1, PopFront
    <3> QED BY <3>2 DEF Waiting
  <2>1. /\ UNCHANGED <<input, todo, pendingSnap, got>> /\ bufs' = <<>>
        /\ active' \in {c, NoConn}
        /\ \A d \in Conns : outbound'[d] = outbound[d] \/ (d = c /\ outbound'[d] = <<Control("hello")>>)
        /\ active' # NoConn => outbound'[c] = <<Control("hello")>>
    BY <1>11, <1>a DEF OnRegistration
  <2>2. Feed' = Feed /\ Kept' = Held
    BY <2>1, ElemsOne DEF Feed, Kept
  <2>3. \A v \in Convs : got[c][v] = {}
    BY DEF LineInv, Fresh
  <2>4. Rise(<<Control("hello")>>) /\ Elems(<<Control("hello")>>) = {Control("hello")} /\ Ordinary(Control("hello"))
    BY RiseOne, ElemsOne DEF Control, Ordinary
  <2>5. FeedLine'
    BY <1>b, <1>c, <2>2 DEF FeedLine, Follows
  <2>6. OutLine'
    <3>1. SUFFICES ASSUME NEW d \in Conns PROVE Rise(outbound'[d]) /\ Behind(got'[d], Elems(outbound'[d]))
      BY DEF OutLine
    <3>2. CASE outbound'[d] = outbound[d]
      BY <1>b, <2>1, <3>2 DEF OutLine
    <3>3. CASE outbound'[d] = <<Control("hello")>>
      BY <2>4, <3>3 DEF Behind, Ordinary
    <3> QED BY <2>1, <3>2, <3>3
  <2>7. ASSUME active' # NoConn
        PROVE  /\ Follows(Elems(outbound'[active']), Kept' \cup Elems(Feed'))
               /\ Behind(got'[active'], Kept' \cup Elems(Feed'))
    <3>1. active' = c /\ Elems(outbound'[active']) = {Control("hello")} /\ got' = got
      BY <2>1, <2>4, <2>7
    <3>2. \A f \in Kept \cup Elems(Feed) : f.type = "delta" => f.conv \in Convs
      BY FramesTyped DEF Frames, Kept
    <3>3. Kept' \cup Elems(Feed') \subseteq Kept \cup Elems(Feed)
      BY <1>c, <2>2
    <3> QED BY <1>d, <2>3, <2>4, <3>1, <3>2, <3>3 DEF Follows, Behind
  <2> QED BY <2>5, <2>6, <2>7 DEF ActiveLine
<1> HIDE DEF hostVars, hubVars, clientVars
<1> QED BY <1>1, <1>2, <1>3, <1>5, <1>6, <1>8, <1>9, <1>10, <1>11 DEF HubLoop

LEMMA LineClient ==
  ASSUME HubInv, HubInv', LineInv, NEW c \in Conns, Deliver(c) \/ End(c)
  PROVE  FeedLine' /\ OutLine' /\ ActiveLine'
<1> DEFINE F == Run \cup Snap \cup Answer \cup Word
<1>a. /\ outbound \in [Conns -> Seq(F)] /\ active \in Conns \cup {NoConn}
      /\ got \in [Conns -> [Convs -> SUBSET (1..MaxSteps)]]
  BY QueuesTyped DEF HubInv, SeatInv, SeatTypes, ClientTypes
<1>b. /\ Rise(Feed) /\ Follows(Kept, Elems(Feed)) /\ \A d \in Conns : Rise(outbound[d]) /\ Behind(got[d], Elems(outbound[d]))
      /\ active # NoConn => /\ Follows(Elems(outbound[active]), Kept \cup Elems(Feed))
                            /\ Behind(got[active], Kept \cup Elems(Feed))
  BY DEF LineInv, FeedLine, OutLine, ActiveLine
<1>c. Feed' = Feed /\ Kept' = Kept /\ active' = active
  BY DEF Deliver, End, Feed, Kept, hostVars, hubVars
<1>d. Kept \cup Elems(Feed) \subseteq Frames /\ \A d \in Conns : Elems(outbound[d]) \subseteq Frames
  BY DEF Frames, Kept
<1>e. Frames \subseteq F /\ \A g \in Frames : g.type = "delta" => g.conv \in Convs
  BY FramesTyped
<1> HIDE DEF F
<1>1. FeedLine'
  BY <1>b, <1>c DEF FeedLine
<1>2. ASSUME \A d \in Conns : d # c => outbound'[d] = outbound[d] /\ got'[d] = got[d],
             Elems(outbound'[c]) \subseteq Elems(outbound[c]), Rise(outbound'[c]), Behind(got'[c], Elems(outbound'[c])),
             c = active => Behind(got'[c], Kept \cup Elems(Feed))
      PROVE  OutLine' /\ ActiveLine'
  <2>1. OutLine'
    BY <1>b, <1>2 DEF OutLine
  <2>2. ASSUME active # NoConn
        PROVE  /\ Follows(Elems(outbound'[active]), Kept \cup Elems(Feed))
               /\ Behind(got'[active], Kept \cup Elems(Feed))
    <3>1. CASE active = c
      BY <1>b, <1>2, <2>2, <3>1 DEF Follows
    <3>2. CASE active # c
      BY <1>a, <1>b, <1>2, <2>2, <3>2
    <3> QED BY <3>1, <3>2
  <2> QED BY <1>c, <2>1, <2>2 DEF ActiveLine
<1>3. CASE Deliver(c)
  <2> DEFINE f == Head(outbound[c])
             q == outbound[c]
  <2>1. /\ q # <<>> /\ f \in F /\ outbound'[c] = Tail(q) /\ q \in Seq(F)
        /\ \A d \in Conns : d # c => outbound'[d] = outbound[d] /\ got'[d] = got[d]
        /\ \A v \in Convs : \A k : k \in got'[c][v] <=> k \in got[c][v] \/ TellsOf(made, f, v, k)
    BY <1>3, <1>a, DeliverGot DEF F
  <2>2. Rise(Tail(q)) /\ Follows({f}, Elems(Tail(q))) /\ Elems(Tail(q)) \subseteq Elems(q) /\ f \in Elems(q)
    BY <1>b, <2>1, RiseTail, ElemsTail
  <2> HIDE DEF f
  <2>3. ASSUME NEW S, S \subseteq Frames, Behind(got[c], S), Follows({f}, S) PROVE Behind(got'[c], S)
    <3>1. SUFFICES ASSUME NEW g \in S, g.type = "delta", NEW i \in DOMAIN g.ns, NEW k \in got'[c][g.conv]
                   PROVE  k < g.ns[i]
      BY DEF Behind
    <3>2. g.conv \in Convs /\ g \in F
      BY <1>e, <2>3, <3>1
    <3>3. CASE k \in got[c][g.conv]
      BY <2>3, <3>1, <3>3 DEF Behind
    <3>4. CASE TellsOf(made, f, g.conv, k)
      <4>1. Before(f, g)
        BY <2>3 DEF Follows
      <4> QED BY <2>1, <3>1, <3>2, <3>4, <4>1, TellsBefore DEF F
    <3> QED BY <2>1, <3>1, <3>2, <3>3, <3>4
  <2>4. Behind(got'[c], Elems(Tail(q)))
    <3>1. Elems(Tail(q)) \subseteq Frames /\ Behind(got[c], Elems(Tail(q)))
      BY <1>b, <1>d, <2>2 DEF Behind
    <3> QED BY <2>2, <2>3, <3>1
  <2>5. c = active => Behind(got'[c], Kept \cup Elems(Feed))
    <3>1. ASSUME c = active PROVE Behind(got[c], Kept \cup Elems(Feed)) /\ Follows({f}, Kept \cup Elems(Feed))
      <4>1. active # NoConn
        BY <3>1, ConnAssumption
      <4> QED BY <1>b, <2>2, <3>1, <4>1 DEF Follows
    <3> QED BY <1>d, <2>3, <3>1
  <2>6. Elems(outbound'[c]) \subseteq Elems(outbound[c]) /\ Rise(outbound'[c]) /\ Behind(got'[c], Elems(outbound'[c]))
    BY <2>1, <2>2, <2>4
  <2> QED BY <1>1, <1>2, <2>1, <2>5, <2>6
<1>4. CASE End(c)
  <2>1. /\ outbound' = [outbound EXCEPT ![c] = <<>>] /\ got' = [got EXCEPT ![c] = [v \in Convs |-> {}]]
    BY <1>4 DEF End
  <2>2. /\ outbound'[c] = <<>> /\ \A v \in Convs : got'[c][v] = {}
        /\ \A d \in Conns : d # c => outbound'[d] = outbound[d] /\ got'[d] = got[d]
    BY <1>a, <2>1
  <2>3. Elems(outbound'[c]) = {} /\ Rise(outbound'[c])
    BY <2>2, ElemsOne, RiseOne
  <2>4. Behind(got'[c], {}) /\ Behind(got'[c], Kept \cup Elems(Feed))
    <3> DEFINE S == Kept \cup Elems(Feed)
    <3>1. \A g \in S : g.type = "delta" => g.conv \in Convs
      BY <1>d, <1>e
    <3> HIDE DEF S
    <3>2. Behind(got'[c], S)
      BY <2>2, <3>1 DEF Behind
    <3> QED BY <3>2 DEF Behind, S
  <2> QED BY <1>1, <1>2, <2>2, <2>3, <2>4
<1> QED BY <1>3, <1>4

LEMMA LineKept ==
  ASSUME HubInv, HubInv', LineInv, [Next]_vars
  PROVE  LineInv'
<1>1. OneRun(bufs') /\ PumpedOut' /\ Sound' /\ GotPast' /\ Fresh'
  BY OneRunKept, PumpedOutKept, SoundKept, GotPastKept, FreshKept DEF LineInv
<1>a. FeedLine /\ OutLine /\ ActiveLine
  BY DEF LineInv
<1>2. CASE \/ \E v \in Convs, kinds \in {<<"chunk">>, <<"event">>, <<"event", "event">>} : HostStep(v, kinds)
           \/ HostRotate \/ HostLoop
  <2>1. /\ UNCHANGED <<bufs, pendingSnap, outbound, active, got>>
        /\ Rise(Feed')
        /\ \A g \in Elems(Feed') : \/ g \in Elems(Feed)
                                   \/ Follows(Frames, {g}) /\ \A c \in Conns : Behind(got[c], {g})
    BY <1>2, FeedGrows
  <2>2. Kept' = Kept
    BY <2>1 DEF Kept
  <2>3. Kept \subseteq Frames /\ \A c \in Conns : Elems(outbound[c]) \subseteq Frames
    BY DEF Frames, Kept
  <2>4. active \in Conns \cup {NoConn}
    BY DEF HubInv, SeatInv, SeatTypes
  <2>5. FeedLine'
    BY <1>a, <2>1, <2>2, <2>3 DEF FeedLine, Follows
  <2>6. OutLine'
    BY <1>a, <2>1 DEF OutLine
  <2>7. ActiveLine'
    <3>1. SUFFICES ASSUME active # NoConn
                   PROVE  /\ Follows(Elems(outbound[active]), Kept \cup Elems(Feed'))
                          /\ Behind(got[active], Kept \cup Elems(Feed'))
      BY <2>1, <2>2 DEF ActiveLine
    <3>2. active \in Conns /\ Follows(Elems(outbound[active]), Kept \cup Elems(Feed)) /\ Behind(got[active], Kept \cup Elems(Feed))
      BY <1>a, <2>4, <3>1 DEF ActiveLine
    <3> DEFINE L == Elems(Feed')
    <3>3. \A g \in L : g \in Elems(Feed) \/ (Follows(Frames, {g}) /\ Behind(got[active], {g}))
      BY <2>1, <3>2
    <3> HIDE DEF L
    <3>4. Follows(Elems(outbound[active]), Kept \cup L)
      BY <2>3, <3>2, <3>3 DEF Follows
    <3>5. Behind(got[active], Kept \cup L)
      BY <3>2, <3>3 DEF Behind
    <3> QED BY <3>4, <3>5 DEF L
  <2> QED BY <1>1, <2>5, <2>6, <2>7 DEF LineInv
<1>3. CASE HubLoop \/ PollToken
  BY <1>1, <1>3, LineHub DEF LineInv
<1>4. ASSUME NEW c \in Conns, Deliver(c) \/ End(c) PROVE LineInv'
  BY <1>1, <1>4, LineClient DEF LineInv
<1>5. CASE UNCHANGED <<input, todo, bufs, pendingSnap, outbound, active, got>>
  <2>1. Feed' = Feed /\ Kept' = Kept
    BY <1>5 DEF Feed, Kept
  <2> QED BY <1>1, <1>5, <1>a, <2>1 DEF LineInv, FeedLine, OutLine, ActiveLine
<1>6. ASSUME NEW c \in Conns,
             \/ Connect(c) \/ Leave(c) \/ Obey(c)
             \/ \E cmd \in Cmds : Ask(c, [type |-> "command", conn |-> c, cmd |-> cmd])
             \/ Ask(c, [type |-> "bad", conn |-> c])
      PROVE  LineInv'
  BY <1>5, <1>6 DEF Connect, Leave, Obey, Stop, Ask, hostVars, hubVars, clientVars
<1>7. CASE UNCHANGED vars
  BY <1>5, <1>7 DEF vars, hostVars, hubVars, clientVars
<1> QED BY <1>2, <1>3, <1>4, <1>6, <1>7 DEF Next, ConnLoop

LEMMA LineHolds == Spec => [](HubInv /\ LineInv)
<1>1. Init => LineInv
  <2> SUFFICES ASSUME Init PROVE LineInv
    OBVIOUS
  <2>1. /\ input = <<>> /\ todo = <<>> /\ bufs = <<>> /\ pendingSnap = NoSnap /\ active = NoConn
        /\ pumping = FALSE /\ made = [v \in Convs |-> <<>>]
        /\ \A c \in Conns : outbound[c] = <<>> /\ \A v \in Convs : got[c][v] = {}
    BY DEF Init
  <2>2. Feed = <<>> /\ Elems(<<>>) = {} /\ Rise(<<>>)
    <3>1. <<>> \in Seq(Conns) /\ Elems(<<>>) = {} /\ Rise(<<>>)
      <4>1. Elems(<<>>) = {}
        BY ElemsOne
      <4>2. Rise(<<>>)
        BY RiseOne
      <4> QED BY <4>1, <4>2
    <3>2. <<>> \o <<>> = <<>>
      BY <3>1, Nothing
    <3> QED BY <2>1, <3>1, <3>2 DEF Feed
  <2>3. Frames = {}
    BY <2>1, <2>2 DEF Frames
  <2> QED BY <2>1, <2>2, <2>3
       DEF LineInv, OneRun, PumpedOut, Sound, GotPast, Fresh, FeedLine, OutLine, ActiveLine, Kept, Follows, Behind
<1>2. HubInv /\ HubInv' /\ LineInv /\ [Next]_vars => LineInv'
  BY LineKept
<1> QED BY <1>1, <1>2, HubInvHolds, PTL DEF Spec

(* Steps reach a client in the order they were made and none twice, whatever the
   capacities, the number of conversations and the number of clients. *)
THEOREM InOrder == Spec => AppliedInOrder
<1>1. ASSUME HubInv, LineInv
      PROVE  \A c \in Conns : \A f \in {outbound[c][i] : i \in DOMAIN outbound[c] \cap {1}} :
               f.type = "delta" => /\ \A i \in DOMAIN f.ns, k \in got[c][f.conv] : k < f.ns[i]
                                   /\ \A i \in 2..Len(f.ns) : f.ns[i - 1] < f.ns[i]
  <2>1. SUFFICES ASSUME NEW c \in Conns, NEW f \in Elems(outbound[c]), f.type = "delta"
                 PROVE  /\ \A i \in DOMAIN f.ns, k \in got[c][f.conv] : k < f.ns[i]
                        /\ \A i \in 2..Len(f.ns) : f.ns[i - 1] < f.ns[i]
    BY DEF Elems
  <2>2. f \in Frames
    BY DEF Frames
  <2>3. \A i \in DOMAIN f.ns, k \in got[c][f.conv] : k < f.ns[i]
    BY <1>1, <2>1 DEF LineInv, OutLine, Behind
  <2>4. Rising(f) /\ f \in Run
    BY <1>1, <2>1, <2>2, FramesTyped DEF LineInv, Sound
  <2>5. f.ns \in Seq(1..MaxSteps)
    BY <2>4 DEF Run
  <2>6. \A i \in 2..Len(f.ns) : i - 1 \in DOMAIN f.ns /\ i \in DOMAIN f.ns /\ i - 1 < i
    BY <2>5
  <2>7. \A i \in 2..Len(f.ns) : f.ns[i - 1] < f.ns[i]
    BY <2>1, <2>4, <2>6 DEF Rising
  <2> QED BY <2>3, <2>7
<1>2. HubInv /\ LineInv =>
        [\A c \in Conns : \A f \in {outbound[c][i] : i \in DOMAIN outbound[c] \cap {1}} :
           (f.type = "delta" /\ outbound'[c] = Tail(outbound[c]) /\ conn'[c] = "open") =>
             /\ \A i \in DOMAIN f.ns, k \in got[c][f.conv] : k < f.ns[i]
             /\ \A i \in 2..Len(f.ns) : f.ns[i - 1] < f.ns[i]]_vars
  BY <1>1
<1> QED BY <1>2, LineHolds, PTL DEF AppliedInOrder

-----------------------------------------------------------------------------
(* What the active client has not got: every frame on its way to it.          *)

Way == Elems(Feed) \cup Kept \cup Elems(outbound[active])

LEMMA WayMeans ==
  ASSUME HubInv
  PROVE  /\ \A v, k : OnItsWay(v, k) <=> \E f \in Way : TellsOf(made, f, v, k)
         /\ Asked <=> \E m \in Elems(output) \cup Elems(telling) : m.type = "snapshotNeeded"
<1>1. Elems(Feed) = Elems(input) \cup Elems(todo) /\ Elems(Told) = Elems(output) \cup Elems(telling)
  BY QueuesTyped, ElemsJoin DEF Feed, Told
<1>2. \A q, v, k : Holds(made, q, v, k) <=> \E f \in Elems(q) : TellsOf(made, f, v, k)
  BY DEF Holds, Elems
<1>3. Asked <=> \E m \in Elems(Told) : m.type = "snapshotNeeded"
  BY DEF Asked, Elems
<1> QED BY <1>1, <1>2, <1>3 DEF OnItsWay, Way, Kept

LEMMA WayNext ==
  ASSUME HubInv', NEW v, NEW k, \E g \in Way' : TellsOf(made', g, v, k)
  PROVE  OnItsWay(v, k)'
<1>1. (\E g \in Way : TellsOf(made, g, v, k))'
  OBVIOUS
<1>2. (Elems(Feed) = Elems(input) \cup Elems(todo))'
  <2> DEFINE I == OneStep \cup Answer \cup Snap \cup Word
  <2>1. input' \in Seq(I) /\ todo' \in Seq(I)
    <3>1. input' \in Seq(I) /\ todo' \in Seq(OneStep \cup Answer)
      BY DEF HubInv, QueueTypes, HostTypes
    <3> QED BY <3>1
  <2> HIDE DEF I
  <2> QED BY <2>1, ElemsJoin DEF Feed
<1> QED BY <1>1, <1>2 DEF OnItsWay, Way, Kept, Holds, Elems

(* What keeps a client covered: nothing it is owed leaves the way but by reaching it. *)
LEMMA StaysCovered ==
  ASSUME HubInv, HubInv', Covered,
         made' = made, dirty = TRUE => dirty' = TRUE, Asked => Asked',
         active' # NoConn /\ conn'[active'] = "open" =>
           /\ active' = active /\ conn[active] = "open"
           /\ \A v \in Convs : got[active][v] \subseteq got'[active][v]
           /\ \A f \in Way : \A v \in Convs : \A k :
                TellsOf(made, f, v, k) => k \in got'[active][v] \/ \E g \in Way' : TellsOf(made, g, v, k)
  PROVE  Covered'
<1>1. SUFFICES ASSUME active' # NoConn, conn'[active'] = "open", ~(dirty' = TRUE), ~Asked',
                      NEW v \in Convs, NEW k \in Needed(v)', k \notin got'[active'][v]
               PROVE  OnItsWay(v, k)'
  BY DEF Covered
<1>2. Needed(v)' = Needed(v)
  BY DEF Needed, Steps, EventsOf
<1>3. /\ active' = active /\ conn[active] = "open" /\ k \notin got[active][v]
      /\ \A f \in Way : TellsOf(made, f, v, k) => \E g \in Way' : TellsOf(made, g, v, k)
  BY <1>1
<1>4. \E f \in Way : TellsOf(made, f, v, k)
  <2>1. OnItsWay(v, k)
    BY <1>1, <1>2, <1>3 DEF Covered
  <2> QED BY <2>1, WayMeans
<1>5. \E g \in Way' : TellsOf(made', g, v, k)
  BY <1>3, <1>4
<1> QED BY <1>5, WayNext

LEMMA GrownHolds ==
  ASSUME bufs \in Seq(Run), NEW v \in Convs, NEW k \in 1..MaxSteps,
         NEW r \in Elems(RunsOf(v, bufs)) \cup {Delta(v, <<k>>)}, NEW m, NEW u, NEW n, TellsOf(m, r, u, n)
  PROVE  TellsOf(m, Grown(v, k), u, n)
<1>1. CASE HasRun(v, bufs)
  <2> DEFINE b == bufs[RunOf(v, bufs)]
             ns == Append(b.ns, k)
  <2>1. RunOf(v, bufs) \in DOMAIN bufs /\ b.conv = v /\ b \in Run /\ RunsOf(v, bufs) = <<b>>
    BY <1>1, ButOne
  <2>2. b.ns \in Seq(1..MaxSteps) /\ b.type = "delta"
    BY <2>1 DEF Run
  <2>3. Grown(v, k).ns = ns /\ Grown(v, k).type = "delta" /\ Grown(v, k).conv = v
    BY <1>1 DEF Grown, Delta
  <2>4. /\ DOMAIN ns = DOMAIN b.ns \cup {Len(b.ns) + 1} /\ ns[Len(b.ns) + 1] = k
        /\ \A i \in DOMAIN b.ns : ns[i] = b.ns[i]
    BY <2>2, PushBack
  <2>5. Elems(RunsOf(v, bufs)) = {b}
    BY <2>1, ElemsOne
  <2> HIDE DEF b, ns
  <2>6. CASE r = b
    BY <2>1, <2>2, <2>3, <2>4, <2>6 DEF TellsOf
  <2>7. CASE r = Delta(v, <<k>>)
    <3>1. r.type = "delta" /\ r.conv = v /\ \A i \in DOMAIN r.ns : r.ns[i] = k
      BY <2>7 DEF Delta
    <3> QED BY <3>1, <2>3, <2>4 DEF TellsOf
  <2> QED BY <2>5, <2>6, <2>7
<1>2. CASE ~HasRun(v, bufs)
  <2>1. RunsOf(v, bufs) = <<>> /\ Grown(v, k) = Delta(v, <<k>>)
    BY <1>2 DEF RunsOf, Grown
  <2> QED BY <2>1, ElemsOne
<1> QED BY <1>1, <1>2

LEMMA CoveredHost ==
  ASSUME HubInv, HubInv', LineInv, Covered,
         \/ \E v \in Convs, kinds \in {<<"chunk">>, <<"event">>, <<"event", "event">>} : HostStep(v, kinds)
         \/ HostRotate \/ HostLoop
  PROVE  Covered'
<1> USE DEF hostVars, hubVars, clientVars
<1> DEFINE I == OneStep \cup Answer \cup Snap \cup Word
           M == Order \cup Word
<1>a. /\ input \in Seq(I) /\ todo \in Seq(I) /\ pumping \in BOOLEAN /\ dirty \in BOOLEAN
      /\ output \in Seq(M) /\ telling \in Seq(M) /\ made \in [Convs -> Seq(Kinds)]
  BY QueuesTyped DEF HubInv, HostTypes
<1>b. input' \in Seq(I) /\ todo' \in Seq(I)
  <2>1. input' \in Seq(I) /\ todo' \in Seq(OneStep \cup Answer)
    BY DEF HubInv, QueueTypes, HostTypes
  <2> QED BY <2>1
<1> HIDE DEF I, M
<1>c. /\ Elems(Feed) = Elems(input) \cup Elems(todo)
      /\ Elems(Feed') = Elems(input') \cup Elems(todo')
  BY <1>a, <1>b, ElemsJoin DEF Feed
<1>d. /\ UNCHANGED <<bufs, pendingSnap, outbound, active, got, conn, telling>> /\ PumpedOut
  BY DEF LineInv, HostStep, HostLoop, HostTick, HostReceive, PumpFrame, PumpSnapshot, HostRotate
<1>e. /\ Way = Elems(Feed) \cup Kept \cup Elems(outbound[active])
      /\ Way' = Elems(Feed') \cup Kept \cup Elems(outbound[active])
  BY <1>d DEF Way, Kept
<1>f. ASSUME made' = made, dirty = TRUE => dirty' = TRUE, Asked => Asked',
             Elems(Feed) \subseteq Elems(Feed')
      PROVE  Covered'
  <2>1. Way \subseteq Way'
    BY <1>e, <1>f
  <2>2. \A f \in Way : \A v \in Convs : \A k :
          TellsOf(made, f, v, k) => k \in got'[active][v] \/ \E g \in Way' : TellsOf(made, g, v, k)
    BY <2>1
  <2> QED BY <1>d, <1>f, <2>2, StaysCovered
<1>g. ASSUME dirty' = TRUE PROVE Covered'
  BY <1>g DEF Covered
<1>1. ASSUME NEW v \in Convs, NEW kinds \in {<<"chunk">>, <<"event">>, <<"event", "event">>}, HostStep(v, kinds)
      PROVE  Covered'
  <2>1. /\ input' = input /\ todo' = [i \in 1..Len(kinds) |-> Delta(v, <<Len(made[v]) + i>>)] /\ pumping = FALSE
        /\ made' = [made EXCEPT ![v] = @ \o kinds] /\ dirty' = dirty /\ output' = output
    BY <1>1, <1>a DEF HostStep, Idle
  <2>2. todo = <<>>
    BY <1>d, <2>1, IdleFeed
  <2>3. kinds \in Seq(Kinds)
    <3>1. {"chunk", "event"} = Kinds
      BY DEF Kinds
    <3>2. <<"chunk">> \in Seq(Kinds) /\ <<"event">> \in Seq(Kinds) /\ <<"event", "event">> \in Seq(Kinds)
      BY <3>1
    <3> QED BY <3>2
  <2>4. Way \subseteq Way'
    BY <1>c, <1>e, <2>1, <2>2, ElemsOne
  <2>5. Asked' <=> Asked
    BY <1>d, <2>1 DEF Asked, Told
  <2>6. SUFFICES ASSUME active # NoConn, conn[active] = "open", ~(dirty = TRUE), ~Asked,
                        NEW u \in Convs, NEW k \in Needed(u)', k \notin got[active][u]
                 PROVE  OnItsWay(u, k)'
    BY <1>d, <2>1, <2>5 DEF Covered
  <2>7. k \in 1..Len(made'[u]) /\ (u = Shown \/ made'[u][k] = "event") /\ Len(made[u]) \in Nat
    BY <1>a DEF Needed, Steps, EventsOf
  <2>8. CASE k \in 1..Len(made[u])
    <3>1. made'[u][k] = made[u][k]
      BY <1>a, <2>1, <2>3, <2>8
    <3>2. k \in Needed(u)
      BY <2>7, <2>8, <3>1 DEF Needed, Steps, EventsOf
    <3>3. \E f \in Way : TellsOf(made, f, u, k)
      <4>1. OnItsWay(u, k)
        BY <2>6, <3>2 DEF Covered
      <4> QED BY <4>1, WayMeans
    <3>4. \E f \in Way' : TellsOf(made', f, u, k)
      BY <2>4, <3>1, <3>3 DEF TellsOf
    <3> QED BY <3>4, WayNext
  <2>9. CASE k \notin 1..Len(made[u])
    <3>1. u = v /\ made'[v] = made[v] \o kinds
      BY <1>a, <2>1, <2>7, <2>9
    <3>2. Len(made'[v]) = Len(made[v]) + Len(kinds) /\ Len(kinds) \in Nat
      BY <1>a, <2>3, <3>1
    <3> DEFINE i == k - Len(made[v])
               g == Delta(v, <<k>>)
    <3>3. i \in 1..Len(kinds) /\ Len(made[v]) + i = k
      BY <2>7, <2>9, <3>1, <3>2
    <3>4. g \in Elems(todo')
      BY <2>1, <3>3 DEF Elems
    <3>5. TellsOf(made', g, u, k)
      BY <3>1 DEF TellsOf, Delta
    <3> HIDE DEF g
    <3>6. \E f \in Way' : TellsOf(made', f, u, k)
      BY <1>c, <1>e, <3>4, <3>5
    <3> QED BY <3>6, WayNext
  <2> QED BY <2>8, <2>9
<1>2. CASE HostReceive
  <2>1. /\ output # <<>> /\ output' = Tail(output) /\ input' = input /\ made' = made /\ pumping = FALSE
        /\ Head(output).type = "snapshotNeeded" => dirty' = TRUE
        /\ dirty = TRUE => dirty' = TRUE
    BY <1>2, <1>a DEF HostReceive, Idle
  <2>2. todo = <<>>
    BY <1>d, <2>1, IdleFeed
  <2>3. Elems(Feed) \subseteq Elems(Feed')
    BY <1>c, <2>1, <2>2, ElemsOne
  <2>4. Asked => Asked' \/ dirty' = TRUE
    <3>1. Elems(output) = {Head(output)} \cup Elems(Tail(output))
      <4>1. \A i \in DOMAIN output : i = 1 \/ (i - 1 \in DOMAIN Tail(output) /\ output[i] = Tail(output)[i - 1])
        BY <1>a, <2>1, PopFront
      <4>2. Head(output) = output[1]
        BY <1>a, <2>1, PopFront
      <4>3. Elems(output) \subseteq {Head(output)} \cup Elems(Tail(output))
        BY <4>1, <4>2 DEF Elems
      <4> QED BY <1>a, <2>1, <4>3, ElemsTail
    <3>2. Elems(Told') = Elems(Tail(output)) \cup Elems(telling)
      <4>1. Tail(output) \in Seq(M)
        BY <1>a, <2>1, PopFront
      <4> QED BY <1>a, <1>d, <2>1, <4>1, ElemsJoin DEF Told
    <3>3. Asked' <=> \E m \in Elems(Told') : m.type = "snapshotNeeded"
      BY DEF Asked, Elems
    <3> QED BY <2>1, <3>1, <3>2, <3>3, WayMeans
  <2> QED BY <1>f, <1>g, <2>1, <2>3, <2>4
<1>3. CASE PumpFrame
  <2>1. todo # <<>> /\ made' = made /\ output' = output
    BY <1>3 DEF PumpFrame
  <2>2. CASE input' = Append(input, Head(todo)) /\ todo' = Tail(todo) /\ dirty' = dirty
    <3>1. Feed' = Feed
      BY <1>a, <2>1, <2>2, MoveOver DEF Feed
    <3>2. Asked => Asked'
      BY <1>d, <2>1 DEF Asked, Told
    <3> QED BY <1>f, <2>1, <2>2, <3>1, <3>2
  <2> QED BY <1>3, <1>g, <2>2 DEF PumpFrame
<1>4. CASE PumpSnapshot
  <2> DEFINE s == Snapshot([v \in Convs |-> Len(made[v])])
  <2>1. todo = <<>> /\ todo' = <<>> /\ made' = made /\ output' = output
    BY <1>4 DEF PumpSnapshot
  <2>2. CASE input' = Append(input, s)
    <3>1. s \in I
      <4>1. \A v \in Convs : Len(made[v]) \in 0..MaxSteps
        BY HubAssumption DEF HubInv, HostTypes
      <4> QED BY <4>1 DEF I, Snap, Snapshot
    <3>2. \A v \in Convs : \A k \in Needed(v)' : TellsOf(made', s, v, k)
      <4>1. TAKE v \in Convs
      <4>2. TAKE k \in Needed(v)'
      <4>3. s.type = "snapshot" /\ s.at[v] = Len(made'[v])
        BY <2>1 DEF Snapshot
      <4>4. k \in 1..Len(made'[v]) /\ (v = Shown \/ made'[v][k] = "event")
        BY DEF Needed, Steps, EventsOf
      <4> HIDE DEF s
      <4> QED BY <4>3, <4>4 DEF TellsOf
    <3> HIDE DEF s
    <3>3. s \in Way'
      <4>1. Elems(Append(input, s)) = Elems(input) \cup {s}
        BY <1>a, <3>1, ElemsPush
      <4> QED BY <1>c, <1>e, <2>2, <4>1
    <3>4. \A v \in Convs : \A k \in Needed(v)' : OnItsWay(v, k)'
      BY <3>2, <3>3, WayNext
    <3> QED BY <3>4 DEF Covered
  <2>3. CASE input' = input /\ dirty' = dirty
    <3>1. Feed' = Feed
      BY <2>1, <2>3 DEF Feed
    <3>2. Asked => Asked'
      BY <1>d, <2>1 DEF Asked, Told
    <3> QED BY <1>f, <2>1, <2>3, <3>1, <3>2
  <2> QED BY <1>4, <2>2, <2>3 DEF PumpSnapshot
<1>5. CASE HostRotate
  <2>1. /\ input' = Append(input, Control("rotated")) /\ todo' = todo /\ made' = made /\ dirty' = dirty /\ output' = output
        /\ Control("rotated") \in I
    BY <1>5 DEF HostRotate, Control, Word, I
  <2>2. Elems(Feed) \subseteq Elems(Feed')
    BY <1>a, <1>c, <2>1, ElemsPush
  <2>3. Asked => Asked'
    BY <1>d, <2>1 DEF Asked, Told
  <2> QED BY <1>f, <2>1, <2>2, <2>3
<1>6. CASE HostTick
  <2>1. UNCHANGED <<input, todo, made, dirty, output>>
    BY <1>6 DEF HostTick
  <2>2. Feed' = Feed /\ (Asked => Asked')
    BY <1>d, <2>1 DEF Feed, Asked, Told
  <2> QED BY <1>f, <2>1, <2>2
<1> HIDE DEF hostVars, hubVars, clientVars
<1> QED BY <1>1, <1>2, <1>3, <1>4, <1>5, <1>6 DEF HostLoop

(* What the hub queues or buffers it does not lose, or it drops the client. *)
LEMMA CoveredHub ==
  ASSUME HubInv, HubInv', LineInv, Covered, HubLoop \/ PollToken
  PROVE  Covered'
<1> USE DEF hostVars, hubVars, clientVars
<1> DEFINE I == OneStep \cup Answer \cup Snap \cup Word
           F == Run \cup Snap \cup Answer \cup Word
           M == Order \cup Word
           Held == {pendingSnap} \ {NoSnap}
<1>a. /\ input \in Seq(I) /\ todo \in Seq(I) /\ output \in Seq(M) /\ telling \in Seq(M)
      /\ bufs \in Seq(Run) /\ outbound \in [Conns -> Seq(F)] /\ active \in Conns \cup {NoConn}
      /\ pendingSnap \in Snap \cup {NoSnap} /\ OneRun(bufs)
  BY QueuesTyped DEF HubInv, SeatInv, SeatTypes, HubTypes, LineInv
<1>b. made' = made /\ dirty' = dirty /\ got' = got /\ todo' = todo /\ conn' = conn
  BY DEF HubLoop, HubTell, OnRegistration, OnClosed, OnCommand, OnBadFrame, OnDelta, OnResult, OnSnapshot,
         OnRotated, FlushAll, PollToken
<1>c. Kept = Elems(bufs) \cup Held /\ Kept' = Elems(bufs') \cup ({pendingSnap'} \ {NoSnap})
  BY DEF Kept
<1> HIDE DEF I, M, Held
<1>d. Elems(Feed) = Elems(input) \cup Elems(todo)
  BY <1>a, ElemsJoin DEF Feed
<1>e. ASSUME input' = Tail(input), input # <<>>
      PROVE  Elems(Feed) = Elems(Feed') \cup {Head(input)} /\ Head(input) \in Elems(Feed)
  <2>1. Tail(input) \in Seq(I) /\ Head(input) \in Elems(input) /\ Elems(Tail(input)) \subseteq Elems(input)
    BY <1>a, <1>e, PopFront, ElemsTail
  <2>2. Elems(Feed') = Elems(Tail(input)) \cup Elems(todo)
    BY <1>a, <1>b, <1>e, <2>1, ElemsJoin, ZenonT(40) DEF Feed
  <2>3. Elems(input) \subseteq {Head(input)} \cup Elems(Tail(input))
    <3>1. \A i \in DOMAIN input : i = 1 \/ (i - 1 \in DOMAIN Tail(input) /\ input[i] = Tail(input)[i - 1])
      BY <1>a, <1>e, PopFront
    <3>2. Head(input) = input[1]
      BY <1>a, <1>e, PopFront
    <3> QED BY <3>1, <3>2 DEF Elems
  <2> QED BY <1>d, <2>1, <2>2, <2>3
<1>f. ASSUME Elems(output) \subseteq Elems(output'), telling' = telling, output' \in Seq(M)
      PROVE  Asked => Asked'
  <2>1. Elems(Told') = Elems(output') \cup Elems(telling)
    BY <1>a, <1>f, ElemsJoin DEF Told
  <2>2. Asked' <=> \E m \in Elems(Told') : m.type = "snapshotNeeded"
    BY DEF Asked, Elems
  <2> QED BY <1>f, <2>1, <2>2, WayMeans
<1>g. output' \in Seq(M)
  BY DEF HubInv, QueueTypes, M
<1>h. ASSUME Asked => Asked',
             active' # NoConn =>
               /\ active' = active
               /\ \A f \in Way : \A v \in Convs : \A k :
                    TellsOf(made, f, v, k) => \E g \in Way' : TellsOf(made, g, v, k)
      PROVE  Covered'
  <2>1. active' # NoConn /\ conn'[active'] = "open" =>
          /\ active' = active /\ conn[active] = "open"
          /\ \A v \in Convs : got[active][v] \subseteq got'[active][v]
          /\ \A f \in Way : \A v \in Convs : \A k :
               TellsOf(made, f, v, k) => k \in got'[active][v] \/ \E g \in Way' : TellsOf(made, g, v, k)
    BY <1>b, <1>h
  <2> QED BY <1>b, <1>h, <2>1, StaysCovered
<1>i. \A x \in M : Elems(output) \subseteq Elems(Append(output, x))
  BY <1>a, ElemsPush
<1>j. ASSUME NEW frames \in Seq(F), Emit(frames), telling' = telling
      PROVE  /\ Asked => Asked'
             /\ active' # NoConn => /\ active' = active
                                    /\ Way' = Elems(Feed') \cup Kept' \cup Elems(outbound[active]) \cup Elems(frames)
  <2>1. output' = output \/ output' = Append(output, Control("disconnected"))
    BY <1>j, EmitSent
  <2>2. Control("disconnected") \in M
    BY DEF Control, Word, M
  <2>3. Elems(output) \subseteq Elems(output')
    BY <1>i, <2>1, <2>2
  <2>4. active' # NoConn => active' = active /\ Elems(outbound'[active']) = Elems(outbound[active]) \cup Elems(frames)
    BY <1>j, EmitAll
  <2> QED BY <1>f, <1>g, <1>j, <2>3, <2>4 DEF Way
<1>1. CASE OnDelta
  <2>1. PICK v \in Convs, k \in 1..MaxSteps :
           /\ input # <<>> /\ Head(input) = Delta(v, <<k>>) /\ input' = Tail(input)
           /\ Grown(v, k) \in Run /\ Head(input) \in Run
           /\ \/ /\ bufs' = Buffered(v, k) /\ UNCHANGED <<active, outbound, signal, output>>
              \/ /\ bufs' = RunsBut(v, bufs)
                 /\ \E frames \in Seq(F) :
                      /\ Emit(frames)
                      /\ \/ frames = <<Grown(v, k)>>
                         \/ frames = Append(RunsOf(v, bufs), Head(input))
    BY <1>1, <1>a, DeltaStep
  <2>2. telling' = telling /\ pendingSnap' = pendingSnap
    BY <1>1 DEF OnDelta
  <2> DEFINE h == Delta(v, <<k>>)
             g == Grown(v, k)
             R == Elems(RunsOf(v, bufs))
             B == Elems(RunsBut(v, bufs))
  <2>3. R \cup B = Elems(bufs) /\ Elems(Buffered(v, k)) = B \cup {g} /\ RunsOf(v, bufs) \in Seq(Run) /\ h \in Run
    BY <1>a, <2>1, PartElems, BufferedGrows, PartTypes
  <2>4. Elems(Feed) = Elems(Feed') \cup {h}
    BY <1>e, <2>1
  <2>5. \A r \in R \cup {h} : \A u \in Convs : \A n : TellsOf(made, r, u, n) => TellsOf(made, g, u, n)
    BY <1>a, GrownHolds
  <2>6. Elems(<<g>>) = {g} /\ Elems(Append(RunsOf(v, bufs), h)) = R \cup {h}
    BY <2>3, ElemsOne, ElemsPush
  <2>7. Kept' = Elems(bufs') \cup Held
    BY <1>c, <2>2 DEF Held
  <2> HIDE DEF h, g, R, B
  <2>8. ASSUME active' = active, Elems(Feed') \cup B \cup Held \cup Elems(outbound[active]) \subseteq Way',
               g \in Way' \/ R \cup {h} \subseteq Way'
        PROVE  \A f \in Way : \A u \in Convs : \A n : TellsOf(made, f, u, n) => \E e \in Way' : TellsOf(made, e, u, n)
    <3>1. Way \subseteq Elems(Feed') \cup B \cup Held \cup Elems(outbound[active]) \cup R \cup {h}
      BY <1>c, <2>3, <2>4 DEF Way
    <3> QED BY <2>5, <2>8, <3>1
  <2>9. CASE bufs' = Buffered(v, k) /\ UNCHANGED <<active, outbound, signal, output>>
    <3>1. Way' = Elems(Feed') \cup (B \cup {g} \cup Held) \cup Elems(outbound[active])
      BY <2>3, <2>7, <2>9 DEF Way
    <3>2. Asked => Asked'
      BY <1>f, <1>a, <2>2, <2>9
    <3>3. \A f \in Way : \A u \in Convs : \A n : TellsOf(made, f, u, n) => \E e \in Way' : TellsOf(made, e, u, n)
      BY <2>8, <2>9, <3>1
    <3> QED BY <1>h, <2>9, <3>2, <3>3
  <2>10. ASSUME bufs' = RunsBut(v, bufs), NEW frames \in Seq(F), Emit(frames),
                g \in Elems(frames) \/ R \cup {h} \subseteq Elems(frames)
         PROVE  Covered'
    <3>1. /\ Asked => Asked'
          /\ active' # NoConn => /\ active' = active
                                 /\ Way' = Elems(Feed') \cup Kept' \cup Elems(outbound[active]) \cup Elems(frames)
      BY <1>j, <2>2, <2>10
    <3>2. Kept' = B \cup Held
      BY <2>7, <2>10 DEF B
    <3>3. active' # NoConn => \A f \in Way : \A u \in Convs : \A n :
                                TellsOf(made, f, u, n) => \E e \in Way' : TellsOf(made, e, u, n)
      BY <2>8, <2>10, <3>1, <3>2
    <3> QED BY <1>h, <3>1, <3>3
  <2> QED
    <3>1. ASSUME bufs' = RunsBut(v, bufs), NEW frames \in Seq(F), Emit(frames),
                 frames = <<g>> \/ frames = Append(RunsOf(v, bufs), h)
          PROVE  Covered'
      <4>1. g \in Elems(frames) \/ R \cup {h} \subseteq Elems(frames)
        BY <2>6, <3>1
      <4> QED BY <2>10, <3>1, <4>1
    <3> QED BY <2>1, <2>9, <3>1 DEF g, h
<1>2. CASE OnResult
  <2> DEFINE h == Head(input)
             frames == Append(bufs, h)
  <2>1. /\ input # <<>> /\ h \in Answer /\ input' = Tail(input) /\ frames \in Seq(F)
        /\ Elems(frames) = Elems(bufs) \cup {h} /\ Emit(frames) /\ bufs' = <<>>
        /\ telling' = telling /\ pendingSnap' = pendingSnap
    BY <1>2, ResultStep DEF OnResult
  <2> HIDE DEF frames, h
  <2>2. /\ Asked => Asked'
        /\ active' # NoConn => /\ active' = active
                               /\ Way' = Elems(Feed') \cup Kept' \cup Elems(outbound[active]) \cup Elems(frames)
    BY <1>j, <2>1
  <2>3. Elems(Feed) = Elems(Feed') \cup {h}
    BY <1>e, <2>1 DEF h
  <2>4. Kept' = Held
    BY <1>c, <2>1, ElemsOne DEF Held
  <2>5. active' # NoConn => Way \subseteq Way'
    BY <1>c, <2>1, <2>2, <2>3, <2>4 DEF Way
  <2> QED BY <1>h, <2>2, <2>5
<1>3. CASE OnSnapshot
  <2> DEFINE h == Head(input)
  <2>1. /\ input # <<>> /\ input' = Tail(input) /\ pendingSnap' = h /\ h.type = "snapshot"
        /\ UNCHANGED <<bufs, active, outbound, output, telling>>
    BY <1>3 DEF OnSnapshot
  <2>2. Elems(Feed) = Elems(Feed') \cup {h} /\ h \in Elems(Feed)
    BY <1>e, <2>1
  <2>3. h \in Snap /\ h # NoSnap
    <3>1. h \in Frames
      BY <2>2 DEF Frames
    <3>2. h \in Snap
      BY <2>1, <3>1, FramesTyped DEF Run, Answer, Word
    <3> QED BY <3>2, SnapAssumption DEF Snap
  <2>4. Asked => Asked'
    BY <1>a, <1>f, <2>1
  <2>5. Way' = Elems(Feed') \cup (Elems(bufs) \cup {h}) \cup Elems(outbound[active])
    BY <1>c, <2>1, <2>3 DEF Way
  <2> HIDE DEF h
  <2>6. ASSUME NEW f \in Held, NEW v \in Convs, NEW k, TellsOf(made, f, v, k) PROVE TellsOf(made, h, v, k)
    <3>1. f \in Snap /\ f.type = "snapshot"
      BY <1>a, <2>6 DEF Held, Snap
    <3>2. Before(f, h)
      BY <1>c, <2>2, <2>6 DEF LineInv, FeedLine, Follows
    <3>3. f.at[v] <= h.at[v] /\ f.at[v] \in Nat /\ h.at[v] \in Nat
      BY <2>1, <2>3, <3>1, <3>2 DEF Before, Snap
    <3> QED BY <2>1, <2>6, <3>1, <3>3 DEF TellsOf
  <2>7. \A f \in Way : \A v \in Convs : \A k : TellsOf(made, f, v, k) => \E g \in Way' : TellsOf(made, g, v, k)
    <3>1. SUFFICES ASSUME NEW f \in Way, NEW v \in Convs, NEW k, TellsOf(made, f, v, k)
                   PROVE  \E g \in Way' : TellsOf(made, g, v, k)
      OBVIOUS
    <3>2. CASE f \in Held
      BY <2>5, <2>6, <3>1, <3>2
    <3>3. CASE f \notin Held
      BY <1>c, <2>2, <2>5, <3>1, <3>3 DEF Way
    <3> QED BY <3>2, <3>3
  <2> QED BY <1>h, <2>1, <2>4, <2>7
<1>4. CASE FlushAll
  <2>1. PICK last \in Seq(Snap) :
           /\ last = IF pendingSnap = NoSnap THEN <<>> ELSE <<pendingSnap>>
           /\ bufs \o last \in Seq(F)
           /\ Emit(bufs \o last) /\ bufs' = <<>> /\ pendingSnap' = NoSnap
           /\ UNCHANGED <<made, todo, input, got, conn, dirty, telling>>
    BY <1>4, FlushStep
  <2> DEFINE frames == bufs \o last
  <2>2. Elems(last) = Held
    BY <2>1, ElemsOne DEF Held
  <2>3. bufs \in Seq(F) /\ last \in Seq(F)
    BY <1>a, <2>1
  <2> HIDE DEF F
  <2>4. Elems(frames) = Kept
    BY <1>c, <2>2, <2>3, ElemsJoin
  <2>5. frames \in Seq(F) /\ Emit(frames) /\ telling' = telling /\ Feed' = Feed
    BY <2>1 DEF Feed
  <2> HIDE DEF frames
  <2>6. /\ Asked => Asked'
        /\ active' # NoConn => /\ active' = active
                               /\ Way' = Elems(Feed') \cup Kept' \cup Elems(outbound[active]) \cup Elems(frames)
    BY <1>j, <2>5
  <2>7. active' # NoConn => Way \subseteq Way'
    BY <2>4, <2>5, <2>6 DEF Way
  <2> QED BY <1>h, <2>6, <2>7
<1>5. ASSUME NEW w \in F, Emit(<<w>>), UNCHANGED <<input, bufs, pendingSnap, telling>> PROVE Covered'
  <2> HIDE DEF F
  <2>1. <<w>> \in Seq(F)
    OBVIOUS
  <2>2. /\ Asked => Asked'
        /\ active' # NoConn => /\ active' = active
                               /\ Way' = Elems(Feed') \cup Kept' \cup Elems(outbound[active]) \cup Elems(<<w>>)
    BY <1>j, <1>5, <2>1 DEF F
  <2>3. Feed' = Feed /\ Kept' = Kept
    BY <1>b, <1>5 DEF Feed, Kept
  <2>4. active' # NoConn => Way \subseteq Way'
    BY <2>2, <2>3 DEF Way
  <2> QED BY <1>h, <2>2, <2>4
<1>6. ASSUME UNCHANGED <<input, bufs, pendingSnap, telling, active, outbound>>, Elems(output) \subseteq Elems(output')
      PROVE  Covered'
  <2>1. Way' = Way
    BY <1>b, <1>6 DEF Way, Feed, Kept
  <2>2. Asked => Asked'
    BY <1>f, <1>g, <1>6
  <2> QED BY <1>h, <1>6, <2>1, <2>2
<1>7. CASE OnCommand
  <2>1. UNCHANGED <<input, bufs, pendingSnap, telling>> /\ Head(inbound).cmd \in Cmds
    BY <1>7, PopFront DEF OnCommand, HubInv, ClosedIsGone, Messages
  <2>2. \/ UNCHANGED <<active, outbound, output>>
        \/ UNCHANGED <<active, outbound>> /\ output' = Append(output, [type |-> "command", cmd |-> Head(inbound).cmd])
        \/ Emit(<<Refusal(Head(inbound).cmd)>>)
    BY <1>7 DEF OnCommand
  <2>3. Refusal(Head(inbound).cmd) \in F /\ [type |-> "command", cmd |-> Head(inbound).cmd] \in M
    BY <2>1 DEF Refusal, Answer, Order, M
  <2> HIDE DEF F
  <2>4. CASE UNCHANGED <<active, outbound, output>>
    BY <1>6, <2>1, <2>4
  <2>5. CASE UNCHANGED <<active, outbound>> /\ output' = Append(output, [type |-> "command", cmd |-> Head(inbound).cmd])
    BY <1>6, <1>i, <2>1, <2>3, <2>5
  <2>6. CASE Emit(<<Refusal(Head(inbound).cmd)>>)
    BY <1>5, <2>1, <2>3, <2>6
  <2> QED BY <2>2, <2>4, <2>5, <2>6
<1>8. CASE OnBadFrame
  <2>1. UNCHANGED <<input, bufs, pendingSnap, telling>> /\ Control("error") \in F
    BY <1>8 DEF OnBadFrame, Control, Word
  <2>2. UNCHANGED <<active, outbound, output>> \/ Emit(<<Control("error")>>)
    BY <1>8 DEF OnBadFrame
  <2> HIDE DEF F
  <2> QED BY <1>5, <1>6, <2>1, <2>2
<1>9. CASE OnRegistration
  <2>1. \E p \in Seq(M) : telling' = p \o <<Control("connected"), Control("snapshotNeeded")>>
    <3>1. Control("disconnected") \in M
      BY DEF Control, Word, M
    <3>2. <<Control("disconnected")>> \in Seq(M) /\ <<>> \in Seq(M)
      BY <3>1
    <3>3. PICK a \in BOOLEAN, b \in BOOLEAN :
             telling' = (IF a THEN <<Control("disconnected")>> ELSE <<>>)
                        \o (IF b THEN <<Control("disconnected")>> ELSE <<>>)
                        \o <<Control("connected"), Control("snapshotNeeded")>>
      BY <1>9 DEF OnRegistration
    <3>4. (IF a THEN <<Control("disconnected")>> ELSE <<>>) \in Seq(M) /\ (IF b THEN <<Control("disconnected")>> ELSE <<>>) \in Seq(M)
      BY <3>2, Zenon
    <3>5. (IF a THEN <<Control("disconnected")>> ELSE <<>>) \o (IF b THEN <<Control("disconnected")>> ELSE <<>>) \in Seq(M)
      BY <3>4, Joined
    <3> QED BY <3>3, <3>5
  <2> PICK p \in Seq(M) : telling' = p \o <<Control("connected"), Control("snapshotNeeded")>>
    BY <2>1
  <2> DEFINE two == <<Control("connected"), Control("snapshotNeeded")>>
  <2>2. two \in Seq(M) /\ Control("snapshotNeeded") \in Elems(two)
    <3>1. Control("connected") \in M /\ Control("snapshotNeeded") \in M
      BY DEF Control, Word, M
    <3>2. 2 \in DOMAIN two /\ two[2] = Control("snapshotNeeded")
      OBVIOUS
    <3>3. Control("snapshotNeeded") \in Elems(two)
      <4> HIDE DEF two
      <4> QED BY <3>2 DEF Elems
    <3> QED BY <3>1, <3>3
  <2>3. telling' = p \o two /\ output' = output
    BY <1>9 DEF OnRegistration
  <2> HIDE DEF two
  <2>4. Control("snapshotNeeded") \in Elems(telling') /\ telling' \in Seq(M)
    <3>1. p \o two \in Seq(M)
      BY <2>2, Joined
    <3>2. Elems(p \o two) = Elems(p) \cup Elems(two)
      BY <2>2, ElemsJoin
    <3> QED BY <2>2, <2>3, <3>1, <3>2
  <2>5. Elems(Told') = Elems(output) \cup Elems(telling')
    <3>1. Told' = output \o telling'
      BY <2>3 DEF Told
    <3>2. \A t \in Seq(M) : Elems(output \o t) = Elems(output) \cup Elems(t)
      BY <1>a, ElemsJoin
    <3> QED BY <2>4, <3>1, <3>2
  <2>6. Control("snapshotNeeded").type = "snapshotNeeded"
    BY DEF Control
  <2>7. Asked'
    <3>1. \E m \in Elems(Told') : m.type = "snapshotNeeded"
      BY <2>4, <2>5, <2>6
    <3> QED BY <3>1 DEF Asked, Elems
  <2> QED BY <2>7 DEF Covered
<1>10. CASE HubTell
  <2>1. /\ telling # <<>> /\ output' = Append(output, Head(telling)) /\ telling' = Tail(telling)
        /\ UNCHANGED <<input, bufs, pendingSnap, active, outbound>>
    BY <1>10 DEF HubTell
  <2>2. Told' = Told
    BY <1>a, <2>1, MoveOver DEF Told
  <2>3. Way' = Way /\ (Asked => Asked')
    BY <1>b, <2>1, <2>2 DEF Way, Feed, Kept, Asked
  <2> QED BY <1>h, <2>1, <2>3
<1>11. CASE OnRotated \/ PollToken
  BY <1>11 DEF OnRotated, PollToken, CloseActive, Covered
<1>12. CASE OnClosed
  <2>1. active' = NoConn \/ UNCHANGED <<active, telling>>
    BY <1>12 DEF OnClosed
  <2>2. UNCHANGED <<input, bufs, pendingSnap, outbound, output>>
    BY <1>12 DEF OnClosed
  <2>3. active' = NoConn => Covered'
    BY DEF Covered
  <2> QED BY <1>6, <2>1, <2>2, <2>3
<1> HIDE DEF hostVars, hubVars, clientVars
<1> QED BY <1>1, <1>2, <1>3, <1>4, <1>7, <1>8, <1>9, <1>10, <1>11, <1>12 DEF HubLoop

LEMMA CoveredClient ==
  ASSUME HubInv, HubInv', Covered, NEW c \in Conns,
         \/ Connect(c) \/ Leave(c) \/ ConnLoop(c)
         \/ \E cmd \in Cmds : Ask(c, [type |-> "command", conn |-> c, cmd |-> cmd])
         \/ Ask(c, [type |-> "bad", conn |-> c])
  PROVE  Covered'
<1> USE DEF hostVars, hubVars, clientVars
<1> DEFINE F == Run \cup Snap \cup Answer \cup Word
<1>a. /\ outbound \in [Conns -> Seq(F)] /\ active \in Conns \cup {NoConn}
      /\ conn \in [Conns -> {"new", "open", "closing", "gone"}]
      /\ got \in [Conns -> [Convs -> SUBSET (1..MaxSteps)]]
  BY QueuesTyped DEF HubInv, SeatInv, SeatTypes, ClientTypes
<1> HIDE DEF F
<1>b. UNCHANGED <<made, dirty, active, input, todo, bufs, pendingSnap, output, telling>>
  BY DEF ConnLoop, Connect, Leave, Obey, Stop, Deliver, End, Ask
<1>c. /\ Asked => Asked'
      /\ Way = Elems(Feed) \cup Kept \cup Elems(outbound[active])
      /\ Way' = Elems(Feed) \cup Kept \cup Elems(outbound'[active])
  BY <1>b DEF Asked, Told, Way, Feed, Kept
<1>1. ASSUME active # NoConn /\ conn'[active] = "open" =>
               conn[active] = "open" /\ got'[active] = got[active] /\ outbound'[active] = outbound[active]
      PROVE  Covered'
  <2>1. active' # NoConn /\ conn'[active'] = "open" =>
          /\ active' = active /\ conn[active] = "open"
          /\ \A v \in Convs : got[active][v] \subseteq got'[active][v]
          /\ \A f \in Way : \A v \in Convs : \A k :
               TellsOf(made, f, v, k) => k \in got'[active][v] \/ \E g \in Way' : TellsOf(made, g, v, k)
    BY <1>b, <1>c, <1>1
  <2> QED BY <1>b, <1>c, <2>1, StaysCovered
<1>2. CASE Deliver(c)
  <2> DEFINE f == Head(outbound[c])
             q == outbound[c]
  <2>1. /\ q # <<>> /\ outbound'[c] = Tail(q) /\ conn' = conn /\ q \in Seq(F)
        /\ \A d \in Conns : d # c => got'[d] = got[d] /\ outbound'[d] = outbound[d]
        /\ \A v \in Convs : \A k : k \in got'[c][v] <=> k \in got[c][v] \/ TellsOf(made, f, v, k)
    BY <1>2, <1>a, DeliverGot DEF Deliver
  <2>2. CASE c # active
    BY <1>1, <1>a, <2>1, <2>2
  <2>3. CASE c = active
    <3>1. Elems(q) \subseteq {f} \cup Elems(Tail(q))
      <4>1. /\ \A i \in DOMAIN q : i = 1 \/ (i - 1 \in DOMAIN Tail(q) /\ q[i] = Tail(q)[i - 1])
            /\ Head(q) = q[1]
        BY <2>1, PopFront
      <4> QED BY <4>1 DEF Elems
    <3> HIDE DEF f, q
    <3>2. Way \subseteq Way' \cup {f}
      BY <1>c, <2>1, <2>3, <3>1 DEF q
    <3>3. active' # NoConn /\ conn'[active'] = "open" =>
            /\ active' = active /\ conn[active] = "open"
            /\ \A v \in Convs : got[active][v] \subseteq got'[active][v]
            /\ \A e \in Way : \A v \in Convs : \A k :
                 TellsOf(made, e, v, k) => k \in got'[active][v] \/ \E g \in Way' : TellsOf(made, g, v, k)
      BY <1>b, <2>1, <2>3, <3>2
    <3> QED BY <1>b, <1>c, <3>3, StaysCovered
  <2> QED BY <2>2, <2>3
<1>3. CASE End(c)
  <2>1. /\ conn' = [conn EXCEPT ![c] = "gone"] /\ outbound' = [outbound EXCEPT ![c] = <<>>]
        /\ got' = [got EXCEPT ![c] = [v \in Convs |-> {}]]
    BY <1>3 DEF End
  <2> QED BY <1>1, <1>a, <2>1
<1>4. CASE Connect(c)
  <2>1. conn[c] = "new" /\ conn' = [conn EXCEPT ![c] = "open"] /\ UNCHANGED <<got, outbound>>
    BY <1>4 DEF Connect
  <2>2. c # active
    BY <2>1 DEF HubInv, SeatInv, NewIsApart
  <2> QED BY <1>1, <1>a, <2>1, <2>2
<1>5. CASE Leave(c) \/ Obey(c)
  <2>1. conn' = [conn EXCEPT ![c] = "closing"] /\ UNCHANGED <<got, outbound>>
    BY <1>5 DEF Leave, Obey, Stop
  <2> QED BY <1>1, <1>a, <2>1
<1>6. CASE (\E cmd \in Cmds : Ask(c, [type |-> "command", conn |-> c, cmd |-> cmd])) \/ Ask(c, [type |-> "bad", conn |-> c])
  <2>1. UNCHANGED <<conn, got, outbound>>
    BY <1>6 DEF Ask
  <2> QED BY <1>1, <2>1
<1> HIDE DEF hostVars, hubVars, clientVars
<1> QED BY <1>2, <1>3, <1>4, <1>5, <1>6 DEF ConnLoop

(* Whatever queue is full and whatever client is slow: a step the active client has
   not got is on its way, or a snapshot is owed. *)
THEOREM NothingMissed == Spec => []MissedIsCovered
<1>1. Init => Covered
  BY DEF Init, Covered
<1>2. HubInv /\ HubInv' /\ LineInv /\ Covered /\ [Next]_vars => Covered'
  <2>1. SUFFICES ASSUME HubInv, HubInv', LineInv, Covered, [Next]_vars PROVE Covered'
    OBVIOUS
  <2>2. CASE UNCHANGED vars
    BY <2>1, <2>2 DEF vars, hostVars, hubVars, clientVars, Covered, Needed, Steps, EventsOf, OnItsWay, Asked, Told, Holds
  <2> QED BY <2>1, <2>2, CoveredHost, CoveredHub, CoveredClient DEF Next
<1>3. HubInv /\ Covered => MissedIsCovered
  BY CoveredMeans
<1> QED BY <1>1, <1>2, <1>3, LineHolds, PTL DEF Spec

=============================================================================
