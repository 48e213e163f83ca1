---------------------------- MODULE RelayProofs ----------------------------
(***************************************************************************)
(* The newest control connection of a host owns its route, in any order in *)
(* which the ends of old connections are noticed; and a nonce is pending,  *)
(* a slot taken, exactly while the call it belongs to goes on.  For any    *)
(* hosts, phones and bounds.                                               *)
(***************************************************************************)
EXTENDS Relay, FiniteSetTheorems, TLAPS

owners == <<conn, cur, routes, last>>

ConnType ==
  [route : Routes, link : BOOLEAN, host : BOOLEAN, relay : {"open", "closing", "closed"},
   up : Seq({"register", "notify"}), down : Seq({"registered"} \cup Sessions)]

OwnerTypes ==
  /\ conn \in Seq(ConnType)
  /\ cur \in [Routes -> 0..Len(conn)] /\ routes \in [Routes -> 0..Len(conn)]
  /\ last \in [Routes -> 0..Len(conn)]

(* Connection c is altered: it keeps its route, and its task at the relay is x. *)
Alters(c, x) ==
  \E b \in ConnType : /\ conn' = [conn EXCEPT ![c] = b]
                      /\ b.route = conn[c].route /\ b.relay = x

(* A connection owns no route but its host's. *)
OwnsOwn == \A r \in Routes : last[r] # 0 => conn[last[r]].route = r

OwnerInv == OwnerTypes /\ OwnsOwn /\ NewestOwns

(* The steps of phones, data sockets and streams leave the owners alone. *)
LEMMA OtherSteps ==
  ASSUME [Next]_vars
  PROVE  \/ \E r \in Routes : Connect(r) \/ HostReads(r) \/ HostGivesUp(r) \/ Notify(r)
         \/ \E c \in Conns : Break(c) \/ Register(c) \/ Ends(c) \/ DropConn(c) \/ Allot(c) \/ Refuse(c)
         \/ \E s \in Sessions : Dial(s)
         \/ Restart \/ UNCHANGED owners
<1>1. ASSUME NEW s \in Sessions,
             \/ Accept(s) \/ Lookup(s) \/ Timeout(s) \/ TakeBack(s) \/ PhoneHalf(s)
             \/ DataStep(s) \/ PhoneLeaves(s) \/ DataFails(s)
      PROVE  UNCHANGED owners
  BY <1>1 DEF Accept, Lookup, Timeout, TakeBack, PhoneHalf, DataStep, DataWs, HandOver, DataHalf,
              PhoneLeaves, DataFails, hostVars, owners
<1>2. ASSUME NEW c \in Conns, Store(c) \/ Send(c)
      PROVE  UNCHANGED owners
  BY <1>2 DEF Store, Send, hostVars, owners
<1>3. ASSUME Expire \/ Subscribe \/ Replay \/ Shows \/ Unsubscribe
      PROVE  UNCHANGED owners
  BY <1>3 DEF Expire, Subscribe, Replay, Shows, Unsubscribe, hostVars, owners
<1>4. UNCHANGED vars => UNCHANGED owners
  BY DEF vars, hostVars, owners
<1> QED BY <1>1, <1>2, <1>3, <1>4 DEF Next, HostStep, ConnStep, PhoneStep

Ups == Seq({"register", "notify"})
Downs == Seq({"registered"} \cup Sessions)
RelaySides == {"open", "closing", "closed"}

(* Connection b, altered. *)
Kin(e, b, x) == e \in ConnType /\ e.route = b.route /\ e.relay = x

LEMMA AlterUp ==
  ASSUME NEW b \in ConnType, NEW u \in Ups
  PROVE  Kin([b EXCEPT !.up = u], b, b.relay)
BY DEF Kin, ConnType, Ups, Downs, RelaySides

LEMMA AlterDown ==
  ASSUME NEW b \in ConnType, NEW d \in Downs
  PROVE  Kin([b EXCEPT !.down = d], b, b.relay)
BY DEF Kin, ConnType, Ups, Downs, RelaySides

LEMMA AlterLink ==
  ASSUME NEW b \in ConnType, NEW l \in BOOLEAN
  PROVE  Kin([b EXCEPT !.link = l], b, b.relay)
BY DEF Kin, ConnType, Ups, Downs, RelaySides

LEMMA AlterUpDown ==
  ASSUME NEW b \in ConnType, NEW u \in Ups, NEW d \in Downs
  PROVE  Kin([b EXCEPT !.up = u, !.down = d], b, b.relay)
BY DEF Kin, ConnType, Ups, Downs, RelaySides

LEMMA AlterHostDown ==
  ASSUME NEW b \in ConnType, NEW h \in BOOLEAN, NEW d \in Downs
  PROVE  Kin([b EXCEPT !.host = h, !.down = d], b, b.relay)
BY DEF Kin, ConnType, Ups, Downs, RelaySides

LEMMA AlterHostDownLink ==
  ASSUME NEW b \in ConnType, NEW h \in BOOLEAN, NEW d \in Downs, NEW l \in BOOLEAN
  PROVE  Kin([b EXCEPT !.host = h, !.down = d, !.link = l], b, b.relay)
BY DEF Kin, ConnType, Ups, Downs, RelaySides

LEMMA AlterRelayUp ==
  ASSUME NEW b \in ConnType, NEW x \in RelaySides, NEW u \in Ups
  PROVE  Kin([b EXCEPT !.relay = x, !.up = u], b, x)
BY DEF Kin, ConnType, Ups, Downs, RelaySides

LEMMA AlterRelayDown ==
  ASSUME NEW b \in ConnType, NEW x \in RelaySides, NEW d \in Downs
  PROVE  Kin([b EXCEPT !.relay = x, !.down = d], b, x)
BY DEF Kin, ConnType, Ups, Downs, RelaySides

LEMMA AlterAll ==
  ASSUME NEW b \in ConnType, NEW l \in BOOLEAN, NEW x \in RelaySides, NEW u \in Ups, NEW d \in Downs
  PROVE  Kin([b EXCEPT !.link = l, !.relay = x, !.up = u, !.down = d], b, x)
BY DEF Kin, ConnType, Ups, Downs, RelaySides

LEMMA Altering ==
  ASSUME NEW c, NEW x, NEW e, conn' = [conn EXCEPT ![c] = e], Kin(e, conn[c], x)
  PROVE  Alters(c, x)
BY DEF Kin, Alters

LEMMA ConnOf ==
  ASSUME OwnerTypes, NEW c \in Conns
  PROVE  /\ conn[c] \in ConnType /\ c \in 1..Len(conn)
         /\ conn[c].up \in Ups
         /\ conn[c].down \in Downs
         /\ conn[c].route \in Routes /\ conn[c].relay \in RelaySides
<1>1. conn[c] \in ConnType /\ c \in 1..Len(conn)
  BY DEF OwnerTypes, Conns
<1> QED BY <1>1 DEF ConnType, Ups, Downs, RelaySides

LEMMA EmptyQueues == <<>> \in Ups /\ <<>> \in Downs
BY DEF Ups, Downs

LEMMA Altered ==
  ASSUME OwnerTypes, NEW c \in Conns, NEW x, Alters(c, x)
  PROVE  /\ conn' \in Seq(ConnType) /\ Len(conn') = Len(conn)
         /\ \A k \in 1..Len(conn) : /\ conn'[k].route = conn[k].route
                                    /\ conn'[k].relay = IF k = c THEN x ELSE conn[k].relay
<1>1. PICK b \in ConnType : /\ conn' = [conn EXCEPT ![c] = b]
                            /\ b.route = conn[c].route /\ b.relay = x
  BY DEF Alters
<1>2. /\ conn' \in Seq(ConnType) /\ Len(conn') = Len(conn) /\ conn'[c] = b
      /\ \A k \in 1..Len(conn) : k # c => conn'[k] = conn[k]
  BY <1>1 DEF OwnerTypes, Conns
<1> QED BY <1>1, <1>2

(* What a step does to the connections, and to who uses them. *)
LEMMA Steps ==
  ASSUME OwnerTypes
  PROVE  /\ \A r \in Routes : HostReads(r) =>
              cur[r] \in Conns /\ Alters(cur[r], conn[cur[r]].relay) /\ UNCHANGED <<cur, routes, last>>
         /\ \A r \in Routes : HostGivesUp(r) =>
              /\ cur[r] \in Conns /\ Alters(cur[r], conn[cur[r]].relay)
              /\ cur' = [cur EXCEPT ![r] = 0] /\ UNCHANGED <<routes, last>>
         /\ \A r \in Routes : Notify(r) =>
              cur[r] \in Conns /\ Alters(cur[r], conn[cur[r]].relay) /\ UNCHANGED <<cur, routes, last>>
         /\ \A c \in Conns : Break(c) =>
              /\ Alters(c, conn[c].relay) /\ UNCHANGED <<routes, last>>
              /\ cur' = cur \/ cur' = [cur EXCEPT ![conn[c].route] = 0]
         /\ \A c \in Conns : Register(c) =>
              /\ Alters(c, conn[c].relay) /\ conn[c].relay = "open" /\ UNCHANGED cur
              /\ routes' = Owned(c) /\ last' = [last EXCEPT ![conn[c].route] = c]
         /\ \A c \in Conns : Ends(c) =>
              conn[c].relay = "open" /\ Alters(c, "closing") /\ UNCHANGED <<cur, routes, last>>
         /\ \A c \in Conns : DropConn(c) =>
              Alters(c, "closed") /\ routes' = Dropped(c) /\ UNCHANGED <<cur, last>>
         /\ \A c \in Conns : Allot(c) \/ Refuse(c) =>
              Alters(c, conn[c].relay) /\ UNCHANGED <<cur, routes, last>>
         /\ \A s \in Sessions : Dial(s) =>
              \/ UNCHANGED owners
              \/ \E c \in Conns : Alters(c, conn[c].relay) /\ UNCHANGED <<cur, routes, last>>
<1>0. \A r \in Routes : cur[r] # 0 => cur[r] \in Conns
  BY DEF OwnerTypes, Conns
<1>1. ASSUME NEW r \in Routes, HostReads(r)
      PROVE  /\ cur[r] \in Conns /\ Alters(cur[r], conn[cur[r]].relay)
             /\ UNCHANGED <<cur, routes, last>>
  <2>1. cur[r] \in Conns /\ conn[cur[r]].down # <<>>
    BY <1>0, <1>1 DEF HostReads
  <2>2. Tail(conn[cur[r]].down) \in Downs
    BY <2>1, ConnOf DEF Ups, Downs
  <2>3. conn' = [conn EXCEPT ![cur[r]] = [conn[cur[r]] EXCEPT !.down = Tail(conn[cur[r]].down)]]
    BY <1>1 DEF HostReads
  <2> QED BY <1>1, <2>1, <2>2, <2>3, ConnOf, AlterDown DEF HostReads, Alters, Kin
<1>2. ASSUME NEW r \in Routes, HostGivesUp(r)
      PROVE  /\ cur[r] \in Conns /\ Alters(cur[r], conn[cur[r]].relay)
             /\ cur' = [cur EXCEPT ![r] = 0] /\ UNCHANGED <<routes, last>>
  <2>1. conn' = [conn EXCEPT ![cur[r]] = [conn[cur[r]] EXCEPT !.host = FALSE, !.down = <<>>]]
    BY <1>2 DEF HostGivesUp
  <2> QED BY <1>0, <1>2, <2>1, ConnOf, AlterHostDown, EmptyQueues DEF HostGivesUp, Alters, Kin
<1>3. ASSUME NEW r \in Routes, Notify(r)
      PROVE  /\ cur[r] \in Conns /\ Alters(cur[r], conn[cur[r]].relay)
             /\ UNCHANGED <<cur, routes, last>>
  <2> DEFINE u == IF conn[cur[r]].link /\ conn[cur[r]].relay = "open"
                  THEN Append(conn[cur[r]].up, "notify") ELSE conn[cur[r]].up
  <2>1. cur[r] \in Conns
    BY <1>0, <1>3 DEF Notify
  <2>2. u \in Ups
    BY <2>1, ConnOf DEF Ups, Downs
  <2>3. conn' = [conn EXCEPT ![cur[r]] = [conn[cur[r]] EXCEPT !.up = u]]
    BY <1>3 DEF Notify
  <2> HIDE DEF u
  <2> QED BY <1>3, <2>1, <2>2, <2>3, ConnOf, AlterUp DEF Notify, Alters, Kin
<1>4. ASSUME NEW c \in Conns, Break(c)
      PROVE  /\ Alters(c, conn[c].relay) /\ UNCHANGED <<routes, last>>
             /\ cur' = cur \/ cur' = [cur EXCEPT ![conn[c].route] = 0]
  <2>1. \/ conn' = [conn EXCEPT ![c] = [conn[c] EXCEPT !.link = FALSE]]
        \/ conn' = [conn EXCEPT ![c] = [conn[c] EXCEPT !.host = FALSE, !.down = <<>>, !.link = FALSE]]
    BY <1>4 DEF Break
  <2>2. Alters(c, conn[c].relay)
    <3>1. /\ Kin([conn[c] EXCEPT !.link = FALSE], conn[c], conn[c].relay)
          /\ Kin([conn[c] EXCEPT !.host = FALSE, !.down = <<>>, !.link = FALSE], conn[c], conn[c].relay)
      BY ConnOf, AlterLink, AlterHostDownLink, EmptyQueues
    <3> QED BY <2>1, <3>1, Altering
  <2> QED BY <1>4, <2>2 DEF Break
<1>5. ASSUME NEW c \in Conns, Register(c)
      PROVE  /\ Alters(c, conn[c].relay) /\ conn[c].relay = "open" /\ UNCHANGED cur
             /\ routes' = Owned(c) /\ last' = [last EXCEPT ![conn[c].route] = c]
  <2> DEFINE d == IF conn[c].host THEN Append(conn[c].down, "registered") ELSE conn[c].down
  <2>1. d \in Downs
    BY ConnOf DEF Ups, Downs
  <2>2. Tail(conn[c].up) \in Ups
    BY <1>5, ConnOf DEF Register, Reads, Ups
  <2>3. conn' = [conn EXCEPT ![c] = [conn[c] EXCEPT !.up = Tail(conn[c].up), !.down = d]]
    BY <1>5 DEF Register
  <2> HIDE DEF d
  <2>4. Kin([conn[c] EXCEPT !.up = Tail(conn[c].up), !.down = d], conn[c], conn[c].relay)
    BY <2>1, <2>2, ConnOf, AlterUpDown
  <2> QED BY <1>5, <2>3, <2>4, Altering DEF Register, Reads
<1>6. ASSUME NEW c \in Conns, Ends(c)
      PROVE  conn[c].relay = "open" /\ Alters(c, "closing") /\ UNCHANGED <<cur, routes, last>>
  <2>1. conn' = [conn EXCEPT ![c] = [conn[c] EXCEPT !.relay = "closing", !.up = <<>>]]
    BY <1>6 DEF Ends
  <2>2. Kin([conn[c] EXCEPT !.relay = "closing", !.up = <<>>], conn[c], "closing")
    BY ConnOf, AlterRelayUp, EmptyQueues DEF RelaySides
  <2> QED BY <1>6, <2>1, <2>2, Altering DEF Ends
<1>7. ASSUME NEW c \in Conns, DropConn(c)
      PROVE  Alters(c, "closed") /\ routes' = Dropped(c) /\ UNCHANGED <<cur, last>>
  <2>1. conn' = [conn EXCEPT ![c] = [conn[c] EXCEPT !.relay = "closed", !.down = <<>>]]
    BY <1>7 DEF DropConn
  <2>2. Kin([conn[c] EXCEPT !.relay = "closed", !.down = <<>>], conn[c], "closed")
    BY ConnOf, AlterRelayDown, EmptyQueues DEF RelaySides
  <2> QED BY <1>7, <2>1, <2>2, Altering DEF DropConn
<1>8. ASSUME NEW c \in Conns, Allot(c) \/ Refuse(c)
      PROVE  Alters(c, conn[c].relay) /\ UNCHANGED <<cur, routes, last>>
  <2>1. Tail(conn[c].up) \in Ups
    BY <1>8, ConnOf DEF Allot, Refuse, Reads, Ups
  <2>2. conn' = [conn EXCEPT ![c] = [conn[c] EXCEPT !.up = Tail(conn[c].up)]]
    BY <1>8 DEF Allot, Refuse
  <2> QED BY <1>8, <2>1, <2>2, ConnOf, AlterUp DEF Allot, Refuse, Alters, Kin
<1>9. ASSUME NEW s \in Sessions, Dial(s)
      PROVE  \/ UNCHANGED owners
             \/ \E c \in Conns : Alters(c, conn[c].relay) /\ UNCHANGED <<cur, routes, last>>
  <2> DEFINE c == phone[s].conn
  <2>1. CASE UNCHANGED conn
    BY <1>9, <2>1 DEF Dial, owners
  <2>2. CASE c \in Conns /\ conn' = [conn EXCEPT ![c].down = Append(@, s)]
    <3>1. Append(conn[c].down, s) \in Downs
      BY <2>2, ConnOf DEF Ups, Downs
    <3>2. conn' = [conn EXCEPT ![c] = [conn[c] EXCEPT !.down = Append(conn[c].down, s)]]
      BY <2>2
    <3>3. Kin([conn[c] EXCEPT !.down = Append(conn[c].down, s)], conn[c], conn[c].relay)
      BY <2>2, <3>1, ConnOf, AlterDown
    <3>4. Alters(c, conn[c].relay)
      BY <3>2, <3>3, Altering
    <3> QED BY <1>9, <2>2, <3>4 DEF Dial
  <2>3. CASE c \notin Conns /\ conn' = [conn EXCEPT ![c].down = Append(@, s)]
    <3>1. conn' = conn
      BY <2>3 DEF OwnerTypes, Conns
    <3> QED BY <2>1, <3>1
  <2> QED BY <1>9, <2>1, <2>2, <2>3 DEF Dial
<1> QED BY <1>1, <1>2, <1>3, <1>4, <1>5, <1>6, <1>7, <1>8, <1>9

(* A new connection is open and owns nothing yet. *)
LEMMA Connected ==
  ASSUME OwnerInv, NEW r \in Routes, Connect(r)
  PROVE  OwnerInv'
<1> DEFINE b == [route |-> r, link |-> TRUE, host |-> TRUE, relay |-> "open",
                 up |-> <<"register">>, down |-> <<>>]
<1>1. b \in ConnType
  <2>1. <<"register">> \in Ups
    BY DEF Ups
  <2> QED BY <2>1, EmptyQueues DEF ConnType, Ups, Downs
<1>2. conn' = Append(conn, b) /\ cur' = [cur EXCEPT ![r] = Len(conn) + 1] /\ UNCHANGED <<routes, last>>
  BY DEF Connect
<1> HIDE DEF b
<1>3. /\ conn' \in Seq(ConnType) /\ Len(conn') = Len(conn) + 1 /\ Len(conn) \in Nat
      /\ \A k \in 1..Len(conn) : conn'[k] = conn[k]
  BY <1>1, <1>2 DEF OwnerInv, OwnerTypes
<1>4. OwnerTypes'
  BY <1>2, <1>3 DEF OwnerInv, OwnerTypes
<1>5. \A q \in Routes : last[q] # 0 => last[q] \in 1..Len(conn)
  BY <1>3 DEF OwnerInv, OwnerTypes
<1> QED BY <1>2, <1>3, <1>4, <1>5 DEF OwnerInv, OwnsOwn, NewestOwns

(* Steps that alter a connection and nothing but its ends. *)
LEMMA Routed ==
  ASSUME OwnerInv, NEW c \in Conns, NEW x, Alters(c, x), UNCHANGED <<routes, last>>,
         cur' \in [Routes -> 0..Len(conn)], x = conn[c].relay \/ conn[c].relay = "open"
  PROVE  OwnerInv'
<1>1. /\ conn' \in Seq(ConnType) /\ Len(conn') = Len(conn) /\ Len(conn) \in Nat
      /\ \A k \in 1..Len(conn) : /\ conn'[k].route = conn[k].route
                                 /\ conn'[k].relay = IF k = c THEN x ELSE conn[k].relay
  BY Altered DEF OwnerInv, OwnerTypes
<1>2. OwnerTypes'
  BY <1>1 DEF OwnerInv, OwnerTypes
<1>3. \A q \in Routes : last[q] # 0 => last[q] \in 1..Len(conn)
  BY <1>1 DEF OwnerInv, OwnerTypes
<1> QED BY <1>1, <1>2, <1>3 DEF OwnerInv, OwnsOwn, NewestOwns

LEMMA Registered ==
  ASSUME OwnerInv, NEW c \in Conns, Register(c)
  PROVE  OwnerInv'
<1>1. /\ Alters(c, conn[c].relay) /\ conn[c].relay = "open" /\ UNCHANGED cur
      /\ routes' = Owned(c) /\ last' = [last EXCEPT ![conn[c].route] = c]
  BY Steps DEF OwnerInv
<1>2. /\ conn' \in Seq(ConnType) /\ Len(conn') = Len(conn) /\ Len(conn) \in Nat
      /\ \A k \in 1..Len(conn) : conn'[k].route = conn[k].route /\ conn'[k].relay = conn[k].relay
  BY <1>1, Altered DEF OwnerInv, OwnerTypes
<1>3. conn[c].route \in Routes /\ c \in 1..Len(conn)
  BY ConnOf DEF OwnerInv
<1>4. OwnerTypes'
  BY <1>1, <1>2, <1>3 DEF OwnerInv, OwnerTypes, Owned
<1>5. ASSUME NEW r \in Routes
      PROVE  /\ last'[r] # 0 => conn'[last'[r]].route = r
             /\ routes'[r] \in {0, last'[r]}
             /\ last'[r] # 0 /\ routes'[r] = 0 => conn'[last'[r]].relay = "closed"
  <2>1. CASE r = conn[c].route
    <3>1. routes'[r] = c /\ last'[r] = c
      BY <1>1, <2>1 DEF Owned, OwnerInv, OwnerTypes
    <3> QED BY <1>2, <1>3, <2>1, <3>1
  <2>2. CASE r # conn[c].route
    <3>1. routes'[r] = routes[r] /\ last'[r] = last[r]
      BY <1>1, <2>2 DEF Owned, OwnerInv, OwnerTypes
    <3>2. last[r] # 0 => last[r] \in 1..Len(conn)
      BY <1>2 DEF OwnerInv, OwnerTypes
    <3> QED BY <1>2, <3>1, <3>2 DEF OwnerInv, OwnsOwn, NewestOwns
  <2> QED BY <2>1, <2>2
<1> QED BY <1>4, <1>5 DEF OwnerInv, OwnsOwn, NewestOwns

LEMMA ConnDropped ==
  ASSUME OwnerInv, NEW c \in Conns, DropConn(c)
  PROVE  OwnerInv'
<1>1. Alters(c, "closed") /\ routes' = Dropped(c) /\ UNCHANGED <<cur, last>>
  BY Steps DEF OwnerInv
<1>2. /\ conn' \in Seq(ConnType) /\ Len(conn') = Len(conn) /\ Len(conn) \in Nat
      /\ \A k \in 1..Len(conn) : /\ conn'[k].route = conn[k].route
                                 /\ conn'[k].relay = IF k = c THEN "closed" ELSE conn[k].relay
  BY <1>1, Altered DEF OwnerInv, OwnerTypes
<1>3. OwnerTypes'
  BY <1>1, <1>2 DEF OwnerInv, OwnerTypes, Dropped
<1>4. \A q \in Routes : last[q] # 0 => last[q] \in 1..Len(conn)
  BY <1>2 DEF OwnerInv, OwnerTypes
<1>5. \A q \in Routes : routes'[q] = IF routes[q] = c THEN 0 ELSE routes[q]
  BY <1>1 DEF Dropped
<1> QED BY <1>1, <1>2, <1>3, <1>4, <1>5 DEF OwnerInv, OwnsOwn, NewestOwns

LEMMA RestartConns ==
  ASSUME OwnerTypes, Restart
  PROVE  conn' \in Seq(ConnType) /\ Len(conn') = Len(conn)
<1>1. \A c \in Conns : [conn[c] EXCEPT !.link = FALSE, !.relay = "closed", !.up = <<>>, !.down = <<>>]
                         \in ConnType
  BY ConnOf, AlterAll, EmptyQueues DEF Kin, RelaySides
<1>2. Conns = 1..Len(conn) /\ Len(conn) \in Nat
  BY DEF OwnerTypes, Conns
<1>3. /\ DOMAIN conn' = 1..Len(conn)
      /\ \A c \in 1..Len(conn) : conn'[c] \in ConnType
  BY <1>1, <1>2 DEF Restart
<1>4. conn' = [c \in 1..Len(conn) |-> conn'[c]]
  BY <1>2 DEF Restart
<1> QED BY <1>2, <1>3, <1>4

LEMMA Restarted ==
  ASSUME OwnerInv, Restart
  PROVE  OwnerInv'
<1>1. conn' \in Seq(ConnType) /\ Len(conn') = Len(conn)
  BY RestartConns DEF OwnerInv
<1>2. cur' = cur /\ routes' = [r \in Routes |-> 0] /\ last' = [r \in Routes |-> 0]
  BY DEF Restart
<1>3. OwnerTypes'
  BY <1>1, <1>2 DEF OwnerInv, OwnerTypes
<1> QED BY <1>2, <1>3 DEF OwnerInv, OwnsOwn, NewestOwns

LEMMA OwnerStep == OwnerInv /\ [Next]_vars => OwnerInv'
<1> SUFFICES ASSUME OwnerInv, [Next]_vars PROVE OwnerInv'
  OBVIOUS
<1>1. OwnerTypes /\ cur \in [Routes -> 0..Len(conn)] /\ Len(conn) \in Nat
  BY DEF OwnerInv, OwnerTypes
<1>2. ASSUME NEW r \in Routes, HostReads(r) \/ HostGivesUp(r) \/ Notify(r)
      PROVE  OwnerInv'
  <2>1. /\ cur[r] \in Conns /\ Alters(cur[r], conn[cur[r]].relay) /\ UNCHANGED <<routes, last>>
        /\ cur' = cur \/ cur' = [cur EXCEPT ![r] = 0]
    BY <1>1, <1>2, Steps
  <2>2. cur' \in [Routes -> 0..Len(conn)]
    BY <1>1, <2>1
  <2> QED BY <2>1, <2>2, Routed
<1>3. ASSUME NEW c \in Conns, Break(c) \/ Ends(c) \/ Allot(c) \/ Refuse(c)
      PROVE  OwnerInv'
  <2>1. /\ UNCHANGED <<routes, last>>
        /\ cur' = cur \/ cur' = [cur EXCEPT ![conn[c].route] = 0]
        /\ Alters(c, conn[c].relay) \/ (Alters(c, "closing") /\ conn[c].relay = "open")
    BY <1>1, <1>3, Steps
  <2>2. cur' \in [Routes -> 0..Len(conn)]
    BY <1>1, <2>1
  <2> QED BY <2>1, <2>2, Routed
<1>4. ASSUME NEW s \in Sessions, Dial(s)
      PROVE  OwnerInv'
  <2>1. CASE UNCHANGED owners
    BY <2>1 DEF owners, OwnerInv, OwnerTypes, OwnsOwn, NewestOwns
  <2>2. CASE \E c \in Conns : Alters(c, conn[c].relay) /\ UNCHANGED <<cur, routes, last>>
    BY <1>1, <2>2, Routed
  <2> QED BY <1>1, <1>4, <2>1, <2>2, Steps
<1>5. CASE UNCHANGED owners
  BY <1>5 DEF owners, OwnerInv, OwnerTypes, OwnsOwn, NewestOwns
<1> QED BY <1>2, <1>3, <1>4, <1>5, OtherSteps, Connected, Registered, ConnDropped, Restarted

(* A host's route belongs to the connection that registered last, or to none once that
   has ended (state.rs:74, state.rs:106). *)
THEOREM NewestOwnsRoute == Spec => []NewestOwns
<1>1. Init => OwnerInv
  <2>1. <<>> \in Seq(ConnType) /\ Len(<<>>) = 0
    OBVIOUS
  <2> QED BY <2>1 DEF Init, OwnerInv, OwnerTypes, OwnsOwn, NewestOwns
<1>2. OwnerInv => NewestOwns
  BY DEF OwnerInv
<1> QED BY <1>1, <1>2, OwnerStep, PTL DEF Spec

----------------------------------------------------------------------------
(* Phones, their nonces and their slots. *)

PhoneType == [st : PhoneStates, ip : Ips \cup {NoPhone.ip}, conn : Nat]
DataStates == {"none", "asked", "taken", "open", "over"}
Early == {"idle", "held", "found"}

HeldBy(i) == {s \in Live : phone[s].ip = i}
SlotsTrue ==
  /\ slots \in [Ips -> 0..MaxPerIp] /\ \A s \in Live : phone[s].ip \in Ips
  /\ \A i \in Ips : IsFiniteSet(HeldBy(i)) /\ slots[i] = Cardinality(HeldBy(i))
Pends == pending = {s \in Sessions : phone[s].st \in {"waiting", "late"} /\ data[s] \in {"none", "asked"}}

(* A host is asked for a phone once, after its nonce was drawn and before any
   data socket for it. *)
Once ==
  \A c, d \in Conns : \A k \in DOMAIN conn[c].down, l \in DOMAIN conn[d].down :
    conn[c].down[k] \in Sessions /\ conn[c].down[k] = conn[d].down[l] => c = d /\ k = l
Unanswered ==
  \A c \in Conns : \A k \in DOMAIN conn[c].down :
    conn[c].down[k] \in Sessions => data[conn[c].down[k]] = "none" /\ phone[conn[c].down[k]].st \notin Early
Undialled == \A s \in Sessions : phone[s].st \in Early => data[s] = "none"
Short == \A c \in Conns : Len(conn[c].down) <= DialCap

SpliceTypes == phone \in [Sessions -> PhoneType] /\ data \in [Sessions -> DataStates]

(* What a step does to what hosts are asked. *)
Downed(c, d) == DOMAIN conn' = Conns /\ \A k \in Conns : conn'[k].down = IF k = c THEN d ELSE conn[k].down

LEMMA Downing ==
  ASSUME OwnerTypes, NEW c \in Conns, NEW e, conn' = [conn EXCEPT ![c] = e]
  PROVE  Downed(c, e.down)
BY DEF Downed, Conns

LEMMA DownSteps ==
  ASSUME OwnerTypes
  PROVE  /\ \A r \in Routes : HostReads(r) => cur[r] \in Conns /\ Downed(cur[r], Tail(conn[cur[r]].down))
         /\ \A r \in Routes : HostGivesUp(r) => cur[r] \in Conns /\ Downed(cur[r], <<>>)
         /\ \A r \in Routes : Notify(r) => cur[r] \in Conns /\ Downed(cur[r], conn[cur[r]].down)
         /\ \A c \in Conns : Break(c) => Downed(c, conn[c].down) \/ Downed(c, <<>>)
         /\ \A c \in Conns : Register(c) =>
              \/ Downed(c, conn[c].down)
              \/ Len(conn[c].down) < DialCap /\ Downed(c, Append(conn[c].down, "registered"))
         /\ \A c \in Conns : Ends(c) \/ Allot(c) \/ Refuse(c) => Downed(c, conn[c].down)
         /\ \A c \in Conns : DropConn(c) => Downed(c, <<>>)
<1>0. \A r \in Routes : cur[r] # 0 => cur[r] \in Conns
  BY DEF OwnerTypes, Conns
<1>1. ASSUME NEW r \in Routes, HostReads(r)
      PROVE  cur[r] \in Conns /\ Downed(cur[r], Tail(conn[cur[r]].down))
  <2>1. cur[r] \in Conns /\ conn' = [conn EXCEPT ![cur[r]] = [conn[cur[r]] EXCEPT !.down = Tail(conn[cur[r]].down)]]
    BY <1>0, <1>1 DEF HostReads
  <2>2. [conn[cur[r]] EXCEPT !.down = Tail(conn[cur[r]].down)].down = Tail(conn[cur[r]].down)
    BY <2>1, ConnOf DEF ConnType
  <2> QED BY <2>1, <2>2, Downing
<1>2. ASSUME NEW r \in Routes, HostGivesUp(r)
      PROVE  cur[r] \in Conns /\ Downed(cur[r], <<>>)
  <2>1. cur[r] \in Conns /\ conn' = [conn EXCEPT ![cur[r]] = [conn[cur[r]] EXCEPT !.host = FALSE, !.down = <<>>]]
    BY <1>0, <1>2 DEF HostGivesUp
  <2>2. [conn[cur[r]] EXCEPT !.host = FALSE, !.down = <<>>].down = <<>>
    BY <2>1, ConnOf DEF ConnType
  <2> QED BY <2>1, <2>2, Downing
<1>3. ASSUME NEW r \in Routes, Notify(r)
      PROVE  cur[r] \in Conns /\ Downed(cur[r], conn[cur[r]].down)
  <2> DEFINE u == IF conn[cur[r]].link /\ conn[cur[r]].relay = "open"
                  THEN Append(conn[cur[r]].up, "notify") ELSE conn[cur[r]].up
  <2>1. cur[r] \in Conns /\ conn' = [conn EXCEPT ![cur[r]] = [conn[cur[r]] EXCEPT !.up = u]]
    BY <1>0, <1>3 DEF Notify
  <2> HIDE DEF u
  <2>2. [conn[cur[r]] EXCEPT !.up = u].down = conn[cur[r]].down
    BY <2>1, ConnOf DEF ConnType
  <2> QED BY <2>1, <2>2, Downing
<1>4. ASSUME NEW c \in Conns, Break(c)
      PROVE  Downed(c, conn[c].down) \/ Downed(c, <<>>)
  <2>1. \/ conn' = [conn EXCEPT ![c] = [conn[c] EXCEPT !.link = FALSE]]
        \/ conn' = [conn EXCEPT ![c] = [conn[c] EXCEPT !.host = FALSE, !.down = <<>>, !.link = FALSE]]
    BY <1>4 DEF Break
  <2>2. /\ [conn[c] EXCEPT !.link = FALSE].down = conn[c].down
        /\ [conn[c] EXCEPT !.host = FALSE, !.down = <<>>, !.link = FALSE].down = <<>>
    BY ConnOf DEF ConnType
  <2>3. \/ Downed(c, [conn[c] EXCEPT !.link = FALSE].down)
        \/ Downed(c, [conn[c] EXCEPT !.host = FALSE, !.down = <<>>, !.link = FALSE].down)
    BY <2>1, Downing
  <2> QED BY <2>2, <2>3
<1>5. ASSUME NEW c \in Conns, Register(c)
      PROVE  \/ Downed(c, conn[c].down)
             \/ Len(conn[c].down) < DialCap /\ Downed(c, Append(conn[c].down, "registered"))
  <2> DEFINE d == IF conn[c].host THEN Append(conn[c].down, "registered") ELSE conn[c].down
  <2>1. conn' = [conn EXCEPT ![c] = [conn[c] EXCEPT !.up = Tail(conn[c].up), !.down = d]]
    BY <1>5 DEF Register
  <2>2. d = Append(conn[c].down, "registered") \/ d = conn[c].down
    OBVIOUS
  <2> HIDE DEF d
  <2>3. Downed(c, d)
    <3>1. [conn[c] EXCEPT !.up = Tail(conn[c].up), !.down = d].down = d
      BY ConnOf DEF ConnType
    <3> QED BY <2>1, <3>1, Downing
  <2> QED BY <1>5, <2>2, <2>3 DEF Register
<1>6. ASSUME NEW c \in Conns, Ends(c) \/ Allot(c) \/ Refuse(c)
      PROVE  Downed(c, conn[c].down)
  <2>1. \/ conn' = [conn EXCEPT ![c] = [conn[c] EXCEPT !.relay = "closing", !.up = <<>>]]
        \/ conn' = [conn EXCEPT ![c] = [conn[c] EXCEPT !.up = Tail(conn[c].up)]]
    BY <1>6 DEF Ends, Allot, Refuse
  <2>2. /\ [conn[c] EXCEPT !.relay = "closing", !.up = <<>>].down = conn[c].down
        /\ [conn[c] EXCEPT !.up = Tail(conn[c].up)].down = conn[c].down
    BY ConnOf DEF ConnType
  <2> QED BY <2>1, <2>2, Downing
<1>7. ASSUME NEW c \in Conns, DropConn(c)
      PROVE  Downed(c, <<>>)
  <2>1. conn' = [conn EXCEPT ![c] = [conn[c] EXCEPT !.relay = "closed", !.down = <<>>]]
    BY <1>7 DEF DropConn
  <2>2. [conn[c] EXCEPT !.relay = "closed", !.down = <<>>].down = <<>>
    BY ConnOf DEF ConnType
  <2> QED BY <2>1, <2>2, Downing
<1> QED BY <1>1, <1>2, <1>3, <1>4, <1>5, <1>6, <1>7

(* No host is asked for anybody new. *)
Thinner ==
  \A c \in DOMAIN conn' :
    /\ Len(conn'[c].down) <= DialCap
    /\ \E d \in {0, 1} : \A k \in DOMAIN conn'[c].down : conn'[c].down[k] \in Sessions =>
         c \in Conns /\ k + d \in DOMAIN conn[c].down /\ conn'[c].down[k] = conn[c].down[k + d]

LEMMA Thinning ==
  ASSUME OwnerTypes, Short, NEW c \in Conns, NEW d, Downed(c, d),
         \/ d = conn[c].down \/ d = <<>> \/ (conn[c].down # <<>> /\ d = Tail(conn[c].down))
         \/ Len(conn[c].down) < DialCap /\ d = Append(conn[c].down, "registered")
  PROVE  Thinner
<1>1. \A k \in Conns : conn[k].down \in Seq({"registered"} \cup Sessions) /\ Len(conn[k].down) <= DialCap
  BY ConnOf DEF Downs, Short
<1>2. DialCap \in Nat /\ "registered" \notin Sessions
  BY RelayAssumption
<1>3. ASSUME NEW k \in Conns, k # c
      PROVE  /\ Len(conn'[k].down) <= DialCap
             /\ \A l \in DOMAIN conn'[k].down : conn'[k].down[l] = conn[k].down[l + 0] /\ l + 0 \in DOMAIN conn[k].down
  BY <1>1, <1>3 DEF Downed
<1>4. d \in Seq({"registered"} \cup Sessions) /\ Len(d) <= DialCap
  <2> DEFINE S == {"registered"} \cup Sessions
             e == conn[c].down
  <2>1. e \in Seq(S) /\ Len(e) <= DialCap /\ "registered" \in S
    BY <1>1
  <2> HIDE DEF S, e
  <2>2. <<>> \in Seq(S) /\ Len(<<>>) = 0
    OBVIOUS
  <2>3. e # <<>> => Tail(e) \in Seq(S) /\ Len(Tail(e)) <= DialCap
    BY <1>2, <2>1
  <2>4. Append(e, "registered") \in Seq(S) /\ Len(Append(e, "registered")) = Len(e) + 1
    BY <2>1
  <2>5. d = e \/ d = <<>> \/ (e # <<>> /\ d = Tail(e)) \/ (Len(e) < DialCap /\ d = Append(e, "registered"))
    BY DEF e
  <2>6. d \in Seq(S) /\ Len(d) <= DialCap
    <3>1. Len(e) \in Nat /\ Len(e) <= DialCap /\ DialCap \in Nat
      BY <1>2, <2>1
    <3>2. CASE Len(e) < DialCap /\ d = Append(e, "registered")
      BY <2>4, <3>1, <3>2
    <3>3. CASE d = <<>>
      BY <2>2, <3>1, <3>3
    <3> QED BY <2>1, <2>3, <2>5, <3>2, <3>3
  <2> QED BY <2>6 DEF S
<1>5. \E e \in {0, 1} : \A k \in DOMAIN d : d[k] \in Sessions =>
        k + e \in DOMAIN conn[c].down /\ d[k] = conn[c].down[k + e]
  <2>1. CASE d = conn[c].down \/ d = <<>>
    BY <1>1, <2>1
  <2>2. CASE conn[c].down # <<>> /\ d = Tail(conn[c].down)
    <3>1. \A k \in DOMAIN d : k + 1 \in DOMAIN conn[c].down /\ d[k] = conn[c].down[k + 1]
      BY <1>1, <2>2
    <3> QED BY <3>1
  <2>3. CASE d = Append(conn[c].down, "registered")
    <3>1. \A k \in DOMAIN d : d[k] \in Sessions => k + 0 \in DOMAIN conn[c].down /\ d[k] = conn[c].down[k + 0]
      BY <1>1, <1>2, <2>3
    <3> QED BY <3>1
  <2> QED BY <2>1, <2>2, <2>3
<1>6. conn'[c].down = d /\ DOMAIN conn' = Conns
  BY DEF Downed
<1> QED BY <1>3, <1>4, <1>5, <1>6 DEF Thinner

(* A host is asked for a phone by Dial alone. *)
Asks(s) ==
  LET c == phone[s].conn
  IN c \in Conns /\ Len(conn[c].down) < DialCap /\ Downed(c, Append(conn[c].down, s))

LEMMA Dialling ==
  ASSUME OwnerTypes, NEW s \in Sessions, Dial(s)
  PROVE  /\ phone[s].st = "found" /\ UNCHANGED data
         /\ \/ /\ pending' = pending \cup {s} /\ phone' = [phone EXCEPT ![s].st = "waiting"] /\ UNCHANGED slots
               /\ UNCHANGED conn \/ Asks(s)
            \/ Over(s) /\ UNCHANGED <<pending, conn>>
<1> DEFINE c == phone[s].conn
<1>1. ASSUME conn' = [conn EXCEPT ![c].down = Append(@, s)], Len(conn[c].down) < DialCap
      PROVE  UNCHANGED conn \/ Asks(s)
  <2>1. CASE c \in Conns
    <3>1. conn' = [conn EXCEPT ![c] = [conn[c] EXCEPT !.down = Append(conn[c].down, s)]]
      BY <1>1, <2>1
    <3>2. [conn[c] EXCEPT !.down = Append(conn[c].down, s)].down = Append(conn[c].down, s)
      BY <2>1, ConnOf DEF ConnType
    <3>3. Downed(c, [conn[c] EXCEPT !.down = Append(conn[c].down, s)].down)
      BY <2>1, <3>1, Downing
    <3> QED BY <1>1, <2>1, <3>2, <3>3 DEF Asks
  <2>2. CASE c \notin Conns
    BY <1>1, <2>2 DEF OwnerTypes, Conns
  <2> QED BY <2>1, <2>2
<1> QED BY <1>1 DEF Dial

LEMMA StillThin ==
  ASSUME OwnerTypes, Short, UNCHANGED conn
  PROVE  Thinner
<1>1. ASSUME NEW c \in Conns
      PROVE  /\ Len(conn[c].down) <= DialCap
             /\ \A k \in DOMAIN conn[c].down : k + 0 = k
  BY ConnOf DEF Short, Downs
<1> QED BY <1>1 DEF Thinner, Conns

LEMMA ThinSteps ==
  ASSUME OwnerTypes, Short, [Next]_vars
  PROVE  Thinner \/ \E s \in Sessions : Dial(s) /\ Asks(s)
<1>0. \A r \in Routes : cur[r] # 0 => cur[r] \in Conns
  BY DEF OwnerTypes, Conns
<1>1. ASSUME NEW r \in Routes, HostReads(r) \/ HostGivesUp(r) \/ Notify(r)
      PROVE  Thinner
  <2>1. HostReads(r) => conn[cur[r]].down # <<>>
    BY DEF HostReads
  <2> QED BY <1>1, <2>1, DownSteps, Thinning
<1>2. ASSUME NEW c \in Conns, \/ Break(c) \/ Register(c) \/ Ends(c) \/ DropConn(c) \/ Allot(c) \/ Refuse(c)
      PROVE  Thinner
  BY <1>2, DownSteps, Thinning
<1>3. UNCHANGED conn => Thinner
  BY StillThin
<1>4. ASSUME NEW r \in Routes, Connect(r)
      PROVE  Thinner
  <2> DEFINE b == [route |-> r, link |-> TRUE, host |-> TRUE, relay |-> "open", up |-> <<"register">>, down |-> <<>>]
  <2>1. conn' = Append(conn, b) /\ b.down = <<>>
    BY <1>4 DEF Connect
  <2> HIDE DEF b
  <2>2. \A c \in DOMAIN conn' : conn'[c].down = <<>> \/ (c \in Conns /\ conn'[c] = conn[c])
    BY <2>1 DEF OwnerTypes, Conns
  <2>3. ASSUME NEW c \in Conns
        PROVE  Len(conn[c].down) <= DialCap /\ \A k \in DOMAIN conn[c].down : k + 0 = k
    BY ConnOf DEF Short, Downs
  <2>4. Len(<<>>) <= DialCap /\ DOMAIN <<>> = {}
    BY RelayAssumption
  <2> QED BY <2>2, <2>3, <2>4 DEF Thinner
<1>5. ASSUME Restart
      PROVE  Thinner
  <2>1. \A c \in Conns : [conn[c] EXCEPT !.link = FALSE, !.relay = "closed", !.up = <<>>, !.down = <<>>].down = <<>>
    BY ConnOf DEF ConnType
  <2>2. \A c \in DOMAIN conn' : conn'[c].down = <<>>
    BY <1>5, <2>1 DEF Restart
  <2>3. Len(<<>>) <= DialCap /\ DOMAIN <<>> = {}
    BY RelayAssumption
  <2> QED BY <2>2, <2>3 DEF Thinner
<1>6. ASSUME NEW s \in Sessions, Dial(s)
      PROVE  Thinner \/ Asks(s)
  BY <1>3, <1>6, Dialling
<1> QED BY <1>1, <1>2, <1>3, <1>4, <1>5, <1>6, OtherSteps DEF owners

(* Hosts are asked for nobody twice, while there is no answer. *)
LEMMA ThinOnce ==
  ASSUME OwnerTypes, OwnerTypes', Thinner, Once
  PROVE  Once' /\ Short'
<1>1. ASSUME NEW c \in DOMAIN conn', NEW e \in DOMAIN conn',
             NEW k \in DOMAIN conn'[c].down, NEW l \in DOMAIN conn'[e].down,
             conn'[c].down[k] \in Sessions, conn'[c].down[k] = conn'[e].down[l]
      PROVE  c = e /\ k = l
  <2>1. PICK d \in {0, 1} : \A m \in DOMAIN conn'[c].down : conn'[c].down[m] \in Sessions =>
          c \in Conns /\ m + d \in DOMAIN conn[c].down /\ conn'[c].down[m] = conn[c].down[m + d]
    BY DEF Thinner
  <2>2. PICK f \in {0, 1} : \A m \in DOMAIN conn'[e].down : conn'[e].down[m] \in Sessions =>
          e \in Conns /\ m + f \in DOMAIN conn[e].down /\ conn'[e].down[m] = conn[e].down[m + f]
    BY DEF Thinner
  <2>3. c = e
    BY <1>1, <2>1, <2>2 DEF Once
  <2>4. k + d = l + d
    BY <1>1, <2>1, <2>3 DEF Once
  <2>5. k \in Nat /\ l \in Nat
    <3>1. conn'[c] \in ConnType
      BY DEF OwnerTypes
    <3> QED BY <2>3, <3>1 DEF ConnType
  <2> QED BY <2>3, <2>4, <2>5
<1> QED BY <1>1 DEF Once, Short, Thinner, Conns

(* How the slots follow the phones. *)
LEMMA PhoneTo ==
  ASSUME SpliceTypes, NEW s \in Sessions, NEW p \in PhoneType, phone' = [phone EXCEPT ![s] = p]
  PROVE  /\ phone' \in [Sessions -> PhoneType] /\ phone'[s] = p
         /\ \A t \in Sessions : t # s => phone'[t] = phone[t]
BY DEF SpliceTypes

(* Phone s goes to state x, from address i. *)
Goes(s, x, i) ==
  /\ phone' \in [Sessions -> PhoneType] /\ phone'[s].st = x /\ phone'[s].ip = i
  /\ \A t \in Sessions : t # s => phone'[t] = phone[t]

LEMMA Going ==
  ASSUME SpliceTypes, NEW s \in Sessions, NEW x \in PhoneStates
  PROVE  /\ phone' = [phone EXCEPT ![s].st = x] => Goes(s, x, phone[s].ip)
         /\ \A i \in Ips : phone' = [phone EXCEPT ![s].st = x, ![s].ip = i] => Goes(s, x, i)
         /\ \A c \in Nat : phone' = [phone EXCEPT ![s].st = x, ![s].conn = c] => Goes(s, x, phone[s].ip)
<1>0. phone[s] \in PhoneType
  BY DEF SpliceTypes
<1>1. ASSUME NEW e \in PhoneType, e.st = x, phone' = [phone EXCEPT ![s] = e]
      PROVE  Goes(s, x, e.ip)
  BY <1>1, PhoneTo DEF Goes
<1>2. ASSUME phone' = [phone EXCEPT ![s].st = x]
      PROVE  Goes(s, x, phone[s].ip)
  <2>1. phone' = [phone EXCEPT ![s] = [phone[s] EXCEPT !.st = x]]
    BY <1>2
  <2>2. [phone[s] EXCEPT !.st = x] \in PhoneType /\ [phone[s] EXCEPT !.st = x].st = x
        /\ [phone[s] EXCEPT !.st = x].ip = phone[s].ip
    BY <1>0 DEF PhoneType
  <2> QED BY <1>1, <2>1, <2>2
<1>3. ASSUME NEW i \in Ips, phone' = [phone EXCEPT ![s].st = x, ![s].ip = i]
      PROVE  Goes(s, x, i)
  <2>1. phone' = [phone EXCEPT ![s] = [phone[s] EXCEPT !.st = x, !.ip = i]]
    BY <1>3 DEF SpliceTypes
  <2>2. [phone[s] EXCEPT !.st = x, !.ip = i] \in PhoneType /\ [phone[s] EXCEPT !.st = x, !.ip = i].st = x
        /\ [phone[s] EXCEPT !.st = x, !.ip = i].ip = i
    BY <1>0 DEF PhoneType
  <2> QED BY <1>1, <2>1, <2>2
<1>4. ASSUME NEW c \in Nat, phone' = [phone EXCEPT ![s].st = x, ![s].conn = c]
      PROVE  Goes(s, x, phone[s].ip)
  <2>1. phone' = [phone EXCEPT ![s] = [phone[s] EXCEPT !.st = x, !.conn = c]]
    BY <1>4 DEF SpliceTypes
  <2>2. [phone[s] EXCEPT !.st = x, !.conn = c] \in PhoneType /\ [phone[s] EXCEPT !.st = x, !.conn = c].st = x
        /\ [phone[s] EXCEPT !.st = x, !.conn = c].ip = phone[s].ip
    BY <1>0 DEF PhoneType
  <2> QED BY <1>1, <2>1, <2>2
<1> QED BY <1>2, <1>3, <1>4

LEMMA SlotsStay ==
  ASSUME SlotsTrue, UNCHANGED slots, Live' = Live, \A s \in Live : phone'[s].ip = phone[s].ip
  PROVE  SlotsTrue'
<1>1. \A i \in Ips : HeldBy(i)' = HeldBy(i)
  BY DEF HeldBy
<1> QED BY <1>1 DEF SlotsTrue

LEMMA SlotTaken ==
  ASSUME SlotsTrue, NEW s \in Sessions, NEW i \in Ips, NEW x, Goes(s, x, i),
         s \notin Live, x \notin {"idle", "over"},
         slots[i] < MaxPerIp, slots' = [slots EXCEPT ![i] = @ + 1]
  PROVE  SlotsTrue'
<1>1. Live' = Live \cup {s}
  BY DEF Live, Goes
<1>2. \A j \in Ips : HeldBy(j)' = IF j = i THEN HeldBy(j) \cup {s} ELSE HeldBy(j)
  BY <1>1 DEF HeldBy, Goes, Live
<1>3. /\ MaxPerIp \in Nat /\ slots \in [Ips -> 0..MaxPerIp] /\ s \notin HeldBy(i)
      /\ \A j \in Ips : IsFiniteSet(HeldBy(j)) /\ slots[j] = Cardinality(HeldBy(j))
  BY RelayAssumption DEF SlotsTrue, HeldBy
<1>4. IsFiniteSet(HeldBy(i) \cup {s}) /\ Cardinality(HeldBy(i) \cup {s}) = Cardinality(HeldBy(i)) + 1
  BY <1>3, FS_AddElement
<1>5. slots' \in [Ips -> 0..MaxPerIp]
  BY <1>3
<1>6. \A j \in Ips : IsFiniteSet(HeldBy(j)') /\ slots'[j] = Cardinality(HeldBy(j)')
  BY <1>2, <1>3, <1>4
<1>7. \A t \in Live' : phone'[t].ip \in Ips
  BY <1>1 DEF SlotsTrue, Goes, Live
<1> QED BY <1>5, <1>6, <1>7 DEF SlotsTrue

LEMMA SlotReleased ==
  ASSUME SlotsTrue, NEW s \in Live, Goes(s, "over", phone[s].ip), slots' = Released(phone[s].ip)
  PROVE  SlotsTrue'
<1> DEFINE i == phone[s].ip
<1>1. Live' = Live \ {s} /\ s \in Sessions /\ i \in Ips
  BY DEF Live, Goes, SlotsTrue
<1>2. \A j \in Ips : HeldBy(j)' = IF j = i THEN HeldBy(j) \ {s} ELSE HeldBy(j)
  BY <1>1 DEF HeldBy, Goes, Live
<1>3. /\ MaxPerIp \in Nat /\ slots \in [Ips -> 0..MaxPerIp] /\ s \in HeldBy(i)
      /\ \A j \in Ips : IsFiniteSet(HeldBy(j)) /\ slots[j] = Cardinality(HeldBy(j))
  BY <1>1, RelayAssumption DEF SlotsTrue, HeldBy
<1> HIDE DEF i
<1>4. IsFiniteSet(HeldBy(i) \ {s}) /\ Cardinality(HeldBy(i) \ {s}) = Cardinality(HeldBy(i)) - 1
  BY <1>1, <1>3, FS_RemoveElement
<1>5. Cardinality(HeldBy(i) \ {s}) \in Nat
  BY <1>4, FS_CardinalityType
<1>6. slots' = [slots EXCEPT ![i] = slots[i] - 1]
  BY DEF Released, i
<1>7. slots' \in [Ips -> 0..MaxPerIp]
  BY <1>1, <1>3, <1>4, <1>5, <1>6
<1>8. \A j \in Ips : IsFiniteSet(HeldBy(j)') /\ slots'[j] = Cardinality(HeldBy(j)')
  BY <1>2, <1>3, <1>4, <1>6
<1>9. \A t \in Live' : phone'[t].ip \in Ips
  BY <1>1 DEF SlotsTrue, Goes, Live
<1> QED BY <1>7, <1>8, <1>9 DEF SlotsTrue

LEMMA AnswersStay ==
  ASSUME Thinner, Unanswered,
         \A t \in Sessions : data[t] = "none" /\ phone[t].st \notin Early =>
                               data'[t] = "none" /\ phone'[t].st \notin Early
  PROVE  Unanswered'
<1>1. ASSUME NEW c \in DOMAIN conn', NEW k \in DOMAIN conn'[c].down, conn'[c].down[k] \in Sessions
      PROVE  data'[conn'[c].down[k]] = "none" /\ phone'[conn'[c].down[k]].st \notin Early
  BY <1>1 DEF Thinner, Unanswered
<1> QED BY <1>1 DEF Unanswered, Conns

Spliced == SpliceTypes /\ SlotsTrue /\ Pends /\ Unanswered /\ Undialled

(* Which steps leave the phones alone. *)
LEMMA SpliceQuiet ==
  ASSUME [Next]_vars
  PROVE  \/ \E r \in Routes : HostReads(r)
         \/ \E c \in Conns : Break(c)
         \/ \E s \in Sessions : \/ Accept(s) \/ Lookup(s) \/ Dial(s) \/ Timeout(s) \/ TakeBack(s)
                                \/ DataWs(s) \/ HandOver(s) \/ PhoneLeaves(s) \/ DataFails(s)
         \/ Restart \/ UNCHANGED spliceVars
<1>1. ASSUME NEW r \in Routes, Connect(r) \/ HostGivesUp(r) \/ Notify(r)
      PROVE  UNCHANGED spliceVars
  BY <1>1 DEF Connect, HostGivesUp, Notify
<1>2. ASSUME NEW c \in Conns, \/ Register(c) \/ Ends(c) \/ DropConn(c) \/ Store(c) \/ Send(c) \/ Allot(c) \/ Refuse(c)
      PROVE  UNCHANGED spliceVars
  BY <1>2 DEF Register, Ends, DropConn, Store, Send, Allot, Refuse
<1>3. Expire \/ Subscribe \/ Replay \/ Shows \/ Unsubscribe => UNCHANGED spliceVars
  BY DEF Expire, Subscribe, Replay, Shows, Unsubscribe
<1>4. UNCHANGED vars => UNCHANGED spliceVars
  BY DEF vars
<1> QED BY <1>1, <1>2, <1>3, <1>4 DEF Next, HostStep, ConnStep, PhoneStep, DataStep, PhoneHalf, DataHalf

(* A phone moves; the data sockets stay. *)
LEMMA PhoneMoves ==
  ASSUME Spliced, OwnerTypes, Thinner, NEW s \in Sessions,
         Accept(s) \/ Lookup(s) \/ Timeout(s) \/ TakeBack(s) \/ PhoneLeaves(s)
  PROVE  Spliced'
<1>0. SpliceTypes /\ SlotsTrue /\ Pends /\ Unanswered /\ Undialled /\ phone[s].st \in PhoneStates
  BY DEF Spliced, SpliceTypes, PhoneType
<1>1. {"held", "found", "waiting", "late", "spliced", "over"} \subseteq PhoneStates
  BY DEF PhoneStates
<1>2. ASSUME NEW x \in PhoneStates, NEW i, Goes(s, x, i), UNCHANGED data, SlotsTrue',
             x \in Early => phone[s].st \in Early,
             pending' = pending \ {s} \/ (pending' = pending /\ s \notin pending) \/ (pending' = pending /\ x = "late"),
             s \in pending' => x \in {"waiting", "late"},
             x \in {"waiting", "late"} => phone[s].st \in {"waiting", "late"} /\ pending' = pending
      PROVE  Spliced'
  <2>1. SpliceTypes'
    BY <1>0, <1>2 DEF SpliceTypes, Goes
  <2>2. Undialled'
    BY <1>0, <1>2 DEF Undialled, Goes
  <2>3. Unanswered'
    BY <1>0, <1>2, AnswersStay DEF Goes
  <2>4. \A t \in Sessions : t \in pending' <=> phone'[t].st \in {"waiting", "late"} /\ data'[t] \in {"none", "asked"}
    BY <1>0, <1>2 DEF Pends, Goes
  <2>5. pending' \subseteq Sessions
    BY <1>0, <1>2 DEF Pends
  <2>6. Pends'
    BY <2>4, <2>5 DEF Pends
  <2> QED BY <1>2, <2>1, <2>2, <2>3, <2>6 DEF Spliced
<1>3. ASSUME s \in Live, Over(s)
      PROVE  Goes(s, "over", phone[s].ip) /\ SlotsTrue'
  BY <1>0, <1>1, <1>3, Going, SlotReleased DEF Over
<1>4. CASE Accept(s)
  <2>1. phone[s].st = "idle" /\ UNCHANGED <<data, pending>> /\ s \notin Live /\ s \notin pending
    BY <1>0, <1>4 DEF Accept, Live, Pends
  <2>2. PICK i \in Ips :
          IF slots[i] < MaxPerIp
          THEN phone' = [phone EXCEPT ![s].st = "held", ![s].ip = i] /\ slots' = [slots EXCEPT ![i] = @ + 1]
          ELSE phone' = [phone EXCEPT ![s].st = "over"] /\ UNCHANGED slots
    BY <1>4 DEF Accept
  <2>3. CASE slots[i] < MaxPerIp
    <3>1. Goes(s, "held", i)
      BY <1>0, <1>1, <2>2, <2>3, Going
    <3>2. SlotsTrue'
      BY <1>0, <2>1, <2>2, <2>3, <3>1, SlotTaken
    <3> QED BY <1>1, <1>2, <2>1, <3>1, <3>2 DEF Early
  <2>4. CASE ~(slots[i] < MaxPerIp)
    <3>1. Goes(s, "over", phone[s].ip) /\ UNCHANGED slots
      BY <1>0, <1>1, <2>2, <2>4, Going
    <3>2. Live' = Live
      BY <2>1, <3>1 DEF Goes, Live
    <3>3. SlotsTrue'
      BY <1>0, <3>1, <3>2, SlotsStay DEF Goes, Live
    <3> QED BY <1>1, <1>2, <2>1, <3>1, <3>3 DEF Early
  <2> QED BY <2>3, <2>4
<1>5. CASE Lookup(s)
  <2>1. phone[s].st = "held" /\ UNCHANGED <<data, pending>> /\ s \in Live /\ s \notin pending
    BY <1>0, <1>5 DEF Lookup, Live, Pends
  <2>2. CASE Over(s)
    BY <1>1, <1>2, <1>3, <2>1, <2>2 DEF Early
  <2>3. ASSUME NEW r \in Routes, UNCHANGED slots, phone' = [phone EXCEPT ![s].st = "found", ![s].conn = routes[r]]
        PROVE  Spliced'
    <3>1. routes[r] \in Nat
      BY DEF OwnerTypes
    <3>2. Goes(s, "found", phone[s].ip)
      BY <1>0, <1>1, <2>3, <3>1, Going
    <3>3. Live' = Live
      BY <2>1, <3>2 DEF Goes, Live
    <3>4. SlotsTrue'
      BY <1>0, <2>3, <3>2, <3>3, SlotsStay DEF Goes, Live
    <3> QED BY <1>1, <1>2, <2>1, <3>2, <3>4 DEF Early
  <2> QED BY <1>5, <2>2, <2>3 DEF Lookup
<1>6. CASE Timeout(s)
  <2>1. phone[s].st = "waiting" /\ UNCHANGED <<data, pending, slots>> /\ s \in Live
    BY <1>6 DEF Timeout, Live
  <2>2. Goes(s, "late", phone[s].ip)
    BY <1>0, <1>1, <1>6, Going DEF Timeout
  <2>3. Live' = Live
    BY <2>1, <2>2 DEF Goes, Live
  <2>4. SlotsTrue'
    BY <1>0, <2>1, <2>2, <2>3, SlotsStay DEF Goes, Live
  <2> QED BY <1>1, <1>2, <2>1, <2>2, <2>4 DEF Early
<1>7. CASE TakeBack(s)
  <2>1. phone[s].st = "late" /\ UNCHANGED data /\ pending' = pending \ {s} /\ s \in Live /\ Over(s)
    BY <1>7 DEF TakeBack, Unpend, Live
  <2> QED BY <1>1, <1>2, <1>3, <2>1 DEF Early
<1>8. CASE PhoneLeaves(s)
  <2>1. phone[s].st = "spliced" /\ UNCHANGED <<data, pending>> /\ s \in Live /\ s \notin pending /\ Over(s)
    BY <1>0, <1>8 DEF PhoneLeaves, Live, Pends
  <2> QED BY <1>1, <1>2, <1>3, <2>1 DEF Early
<1> QED BY <1>4, <1>5, <1>6, <1>7, <1>8

(* Data sockets move, for phones that need not. *)
LEMMA DataMoves ==
  ASSUME Spliced, OwnerTypes, Thinner, UNCHANGED slots, SlotsTrue', SpliceTypes',
         \A t \in Sessions : phone'[t].st = phone[t].st \/ (phone[t].st = "waiting" /\ data[t] = "taken"),
         \A t \in Sessions : phone'[t].st = phone[t].st \/ phone'[t].st \in {"spliced", "late"},
         \A t \in Sessions : data'[t] = data[t] \/ (data[t] # "none" /\ phone[t].st \notin Early),
         pending' \subseteq Sessions,
         \A t \in Sessions : t \in pending' <=> t \in pending /\ data'[t] \in {"none", "asked"},
         \A t \in Sessions : data'[t] \in {"none", "asked"} => data[t] \in {"none", "asked"}
  PROVE  Spliced'
<1>0. Pends /\ Unanswered /\ Undialled
  BY DEF Spliced
<1>1. Unanswered'
  BY <1>0, AnswersStay DEF Early
<1>2. Undialled'
  BY <1>0 DEF Undialled, Early
<1>3. \A t \in Sessions : t \in pending' <=> phone'[t].st \in {"waiting", "late"} /\ data'[t] \in {"none", "asked"}
  BY <1>0 DEF Pends
<1>4. Pends'
  BY <1>3 DEF Pends
<1> QED BY <1>1, <1>2, <1>4 DEF Spliced

LEMMA PhoneKept ==
  ASSUME Spliced, UNCHANGED <<phone, slots>>
  PROVE  SlotsTrue' /\ phone' \in [Sessions -> PhoneType]
<1>1. SlotsTrue /\ SpliceTypes /\ Live' = Live
  BY DEF Spliced, Live
<1>2. SlotsTrue'
  BY <1>1, SlotsStay
<1> QED BY <1>1, <1>2 DEF SpliceTypes

LEMMA SocketMoves ==
  ASSUME Spliced, OwnerTypes, Thinner, NEW s \in Sessions, DataWs(s) \/ HandOver(s) \/ DataFails(s)
  PROVE  Spliced'
<1>0. /\ SpliceTypes /\ SlotsTrue /\ Pends /\ Undialled /\ phone \in [Sessions -> PhoneType]
      /\ data \in [Sessions -> DataStates] /\ pending \subseteq Sessions
  BY DEF Spliced, SpliceTypes, Pends
<1>1. CASE DataWs(s)
  <2>1. /\ data[s] = "asked" /\ UNCHANGED <<phone, slots>> /\ pending' = pending \ {s}
        /\ \E x \in {"taken", "over"} : data' = [data EXCEPT ![s] = x]
    BY <1>1 DEF DataWs
  <2>2. phone[s].st \notin Early
    BY <1>0, <2>1 DEF Undialled
  <2>3. SpliceTypes' /\ SlotsTrue'
    BY <1>0, <2>1, PhoneKept DEF SpliceTypes, DataStates
  <2>4. \A t \in pending : data[t] \in {"none", "asked"}
    BY <1>0 DEF Pends
  <2> QED BY <1>0, <2>1, <2>2, <2>3, <2>4, DataMoves
<1>2. CASE DataFails(s)
  <2>1. /\ data[s] \in {"asked", "open"} /\ UNCHANGED <<phone, pending, slots>>
        /\ data' = [data EXCEPT ![s] = IF data[s] = "asked" THEN "none" ELSE "over"]
    BY <1>2 DEF DataFails, Failed
  <2>2. phone[s].st \notin Early
    BY <1>0, <2>1 DEF Undialled
  <2>3. SpliceTypes' /\ SlotsTrue'
    BY <1>0, <2>1, PhoneKept DEF SpliceTypes, DataStates
  <2>4. \A t \in pending : data[t] \in {"none", "asked"}
    BY <1>0 DEF Pends
  <2> QED BY <1>0, <2>1, <2>2, <2>3, <2>4, DataMoves
<1>3. CASE HandOver(s)
  <2>1. data[s] = "taken" /\ UNCHANGED <<pending, slots>> /\ s \notin pending
    BY <1>0, <1>3 DEF HandOver, Pends
  <2>2. /\ \E x \in {"open", "over"} : data' = [data EXCEPT ![s] = x]
        /\ \/ phone' = phone
           \/ phone[s].st = "waiting" /\ \E x \in {"spliced", "late"} : phone' = [phone EXCEPT ![s].st = x]
    BY <1>3 DEF HandOver
  <2>3. \/ phone' = phone
        \/ phone[s].st = "waiting" /\ \E x \in {"spliced", "late"} : Goes(s, x, phone[s].ip)
    BY <1>0, <2>2, Going DEF PhoneStates
  <2>4. phone' \in [Sessions -> PhoneType] /\ SlotsTrue'
    <3>1. CASE phone' = phone
      BY <2>1, <3>1, PhoneKept
    <3>2. ASSUME phone[s].st = "waiting", NEW x \in {"spliced", "late"}, Goes(s, x, phone[s].ip)
          PROVE  phone' \in [Sessions -> PhoneType] /\ SlotsTrue'
      <4>1. Live' = Live
        BY <3>2 DEF Goes, Live
      <4> QED BY <1>0, <2>1, <3>2, <4>1, SlotsStay DEF Goes, Live
    <3> QED BY <2>3, <3>1, <3>2
  <2>5. SpliceTypes'
    BY <1>0, <2>2, <2>4 DEF SpliceTypes, DataStates
  <2>6. phone[s].st \notin Early
    BY <1>0, <2>1 DEF Undialled
  <2>7. \A t \in Sessions : /\ phone'[t].st = phone[t].st \/ (phone[t].st = "waiting" /\ data[t] = "taken")
                            /\ phone'[t].st = phone[t].st \/ phone'[t].st \in {"spliced", "late"}
    BY <2>1, <2>3 DEF Goes
  <2>8. \A t \in pending : data[t] \in {"none", "asked"}
    BY <1>0 DEF Pends
  <2> QED BY <1>0, <2>1, <2>2, <2>4, <2>5, <2>6, <2>7, <2>8, DataMoves
<1> QED BY <1>1, <1>2, <1>3

LEMMA BreakMoves ==
  ASSUME Spliced, OwnerTypes, Thinner, NEW c \in Conns, Break(c)
  PROVE  Spliced'
<1>0. /\ SpliceTypes /\ Pends /\ Undialled
      /\ data \in [Sessions -> DataStates] /\ pending \subseteq Sessions
  BY DEF Spliced, SpliceTypes, Pends
<1>1. UNCHANGED <<phone, pending, slots>> /\ (UNCHANGED data \/ data' = [s \in Sessions |->
             IF phone[s].conn # 0 /\ conn[phone[s].conn].route = conn[c].route
             THEN Failed(s) ELSE data[s]])
  BY DEF Break
<1>2. \A s \in Sessions : \/ data'[s] = data[s]
                          \/ data[s] = "asked" /\ data'[s] = "none"
                          \/ data[s] = "open" /\ data'[s] = "over"
  <2>1. \A s \in Sessions : Failed(s) = IF data[s] = "asked" THEN "none" ELSE IF data[s] = "open" THEN "over" ELSE data[s]
    BY DEF Failed
  <2> QED BY <1>1, <2>1
<1>3. data' \in [Sessions -> DataStates]
  <2>1. \A s \in Sessions : data'[s] \in DataStates
    BY <1>0, <1>2 DEF DataStates
  <2> QED BY <1>0, <1>1, <2>1
<1>4. SpliceTypes' /\ SlotsTrue'
  BY <1>1, <1>3, PhoneKept DEF SpliceTypes
<1>5. \A s \in Sessions : data[s] # "none" => phone[s].st \notin Early
  BY <1>0 DEF Undialled
<1>6. \A t \in pending : data[t] \in {"none", "asked"}
  BY <1>0 DEF Pends
<1> QED BY <1>0, <1>1, <1>2, <1>4, <1>5, <1>6, DataMoves

LEMMA TailOf ==
  ASSUME NEW S, NEW q \in Seq(S), q # <<>>
  PROVE  \A k \in DOMAIN Tail(q) : k \in Nat /\ k >= 1 /\ k + 1 \in DOMAIN q /\ Tail(q)[k] = q[k + 1]
OBVIOUS

LEMMA AppendOf ==
  ASSUME NEW S, NEW q \in Seq(S), NEW e \in S
  PROVE  /\ Append(q, e) \in Seq(S) /\ Len(Append(q, e)) = Len(q) + 1 /\ Append(q, e)[Len(q) + 1] = e
         /\ DOMAIN Append(q, e) = DOMAIN q \cup {Len(q) + 1}
         /\ \A k \in DOMAIN q : Append(q, e)[k] = q[k]
OBVIOUS

LEMMA HostMoves ==
  ASSUME Spliced, Once, OwnerTypes, OwnerTypes', Thinner, NEW r \in Routes, HostReads(r)
  PROVE  Spliced'
<1> DEFINE c == cur[r]
           q == conn[c].down
           m == Head(q)
<1>0. /\ SpliceTypes /\ Pends /\ Undialled /\ Unanswered
      /\ data \in [Sessions -> DataStates] /\ pending \subseteq Sessions
  BY DEF Spliced, SpliceTypes, Pends
<1>1. c \in Conns /\ Downed(c, Tail(q)) /\ q # <<>> /\ UNCHANGED <<phone, pending, slots>>
  BY DownSteps DEF HostReads
<1>2. q \in Seq({"registered"} \cup Sessions)
  BY <1>1, ConnOf DEF Downs
<1>3. SlotsTrue' /\ phone' \in [Sessions -> PhoneType]
  BY <1>1, PhoneKept
<1>4. CASE UNCHANGED data
  <2>1. SpliceTypes'
    BY <1>0, <1>3, <1>4 DEF SpliceTypes
  <2>2. \A t \in pending : data[t] \in {"none", "asked"}
    BY <1>0 DEF Pends
  <2> QED BY <1>0, <1>1, <1>3, <1>4, <2>1, <2>2, DataMoves
<1>5. CASE m # "registered" /\ data' = [data EXCEPT ![m] = "asked"]
  <2>1. m \in Sessions /\ m = q[1] /\ 1 \in DOMAIN q
    BY <1>1, <1>2, <1>5
  <2>2. data[m] = "none" /\ phone[m].st \notin Early
    BY <1>0, <1>1, <2>1 DEF Unanswered
  <2>3. SpliceTypes'
    BY <1>0, <1>3, <1>5, <2>1 DEF SpliceTypes, DataStates
  <2>4. Undialled'
    BY <1>0, <1>1, <1>5, <2>1, <2>2 DEF Undialled, SpliceTypes
  <2>5. \A t \in Sessions : t \in pending' <=> phone'[t].st \in {"waiting", "late"} /\ data'[t] \in {"none", "asked"}
    BY <1>0, <1>1, <1>5, <2>1, <2>2 DEF Pends, SpliceTypes
  <2>6. Pends'
    BY <1>0, <1>1, <2>5 DEF Pends
  <2>7. ASSUME NEW e \in Conns, NEW k \in DOMAIN conn'[e].down, conn'[e].down[k] = m
        PROVE  FALSE
    <3>1. e # c => conn[e].down[k] = m /\ k \in DOMAIN conn[e].down
      BY <1>1, <2>7 DEF Downed
    <3>2. e = c => k \in Nat /\ k + 1 \in DOMAIN q /\ q[k + 1] = m /\ k >= 1
      <4>1. \A l \in DOMAIN Tail(q) : l \in Nat /\ l >= 1 /\ l + 1 \in DOMAIN q /\ Tail(q)[l] = q[l + 1]
        BY <1>1, <1>2, TailOf
      <4>2. conn'[c].down = Tail(q)
        BY <1>1 DEF Downed
      <4> HIDE DEF q, m
      <4> QED BY <2>7, <4>1, <4>2
    <3> QED BY <1>1, <2>1, <3>1, <3>2 DEF Once
  <2>8. ASSUME NEW e \in DOMAIN conn', NEW k \in DOMAIN conn'[e].down, conn'[e].down[k] \in Sessions
        PROVE  data'[conn'[e].down[k]] = "none" /\ phone'[conn'[e].down[k]].st \notin Early
    <3> DEFINE t == conn'[e].down[k]
    <3>1. t # m
      BY <1>1, <2>7, <2>8 DEF Downed
    <3>2. data[t] = "none" /\ phone[t].st \notin Early
      BY <1>0, <2>8 DEF Thinner, Unanswered
    <3> QED BY <1>0, <1>1, <1>5, <2>1, <3>1, <3>2
  <2> QED BY <1>3, <2>3, <2>4, <2>6, <2>8 DEF Spliced, Unanswered, Conns
<1> QED BY <1>4, <1>5 DEF HostReads

LEMMA DialMoves ==
  ASSUME Spliced, Once, Short, OwnerTypes, OwnerTypes', NEW s \in Sessions, Dial(s)
  PROVE  Spliced' /\ Once' /\ Short'
<1> DEFINE c == phone[s].conn
<1>0. /\ SpliceTypes /\ SlotsTrue /\ Pends /\ Undialled /\ Unanswered /\ s \in Live
      /\ data \in [Sessions -> DataStates] /\ pending \subseteq Sessions
  BY Dialling DEF Spliced, SpliceTypes, Pends, Live
<1>1. phone[s].st = "found" /\ UNCHANGED data /\ data[s] = "none" /\ s \notin pending
  BY <1>0, Dialling DEF Undialled, Early, Pends
<1>2. \A e \in Conns : \A k \in DOMAIN conn[e].down : conn[e].down[k] # s
  BY <1>1 DEF Spliced, Unanswered, Early
<1>3. ASSUME NEW x, Goes(s, x, phone[s].ip), x \in {"waiting", "over"}, pending' \subseteq Sessions, SlotsTrue',
             \A t \in Sessions : t \in pending' <=> t \in pending \/ (t = s /\ x = "waiting")
      PROVE  SpliceTypes' /\ SlotsTrue' /\ Pends' /\ Undialled' /\ phone'[s].st \notin Early
  <2>1. SpliceTypes'
    BY <1>0, <1>1, <1>3 DEF SpliceTypes, Goes
  <2>2. Undialled' /\ phone'[s].st \notin Early
    BY <1>0, <1>1, <1>3 DEF Undialled, Goes, Early
  <2>3. \A t \in Sessions : t \in pending' <=> phone'[t].st \in {"waiting", "late"} /\ data'[t] \in {"none", "asked"}
    BY <1>0, <1>1, <1>3 DEF Pends, Goes
  <2>4. Pends'
    BY <1>3, <2>3 DEF Pends
  <2> QED BY <1>3, <2>1, <2>2, <2>4
<1>4. ASSUME Goes(s, "waiting", phone[s].ip), UNCHANGED slots
      PROVE  SlotsTrue'
  <2>1. Live' = Live
    BY <1>0, <1>4 DEF Goes, Live
  <2> QED BY <1>0, <1>4, <2>1, SlotsStay DEF Goes, Live
<1>5. Over(s) => Goes(s, "over", phone[s].ip) /\ SlotsTrue'
  BY <1>0, Going, SlotReleased DEF Over, PhoneStates
<1>6. phone' = [phone EXCEPT ![s].st = "waiting"] => Goes(s, "waiting", phone[s].ip)
  BY <1>0, Going DEF PhoneStates
<1>7. SpliceTypes' /\ SlotsTrue' /\ Pends' /\ Undialled' /\ phone'[s].st \notin Early
  <2>1. CASE Over(s) /\ UNCHANGED pending
    BY <1>0, <1>3, <1>5, <2>1
  <2>2. CASE pending' = pending \cup {s} /\ phone' = [phone EXCEPT ![s].st = "waiting"] /\ UNCHANGED slots
    BY <1>0, <1>3, <1>4, <1>6, <2>2
  <2> QED BY <2>1, <2>2, Dialling
<1>8. \A t \in Sessions : t # s => phone'[t] = phone[t]
  BY <1>5, <1>6, Dialling DEF Goes
<1>9. CASE Thinner
  <2>1. \A t \in Sessions : data[t] = "none" /\ phone[t].st \notin Early => data'[t] = "none" /\ phone'[t].st \notin Early
    BY <1>1, <1>7, <1>8
  <2>2. Unanswered'
    BY <1>0, <1>9, <2>1, AnswersStay
  <2> QED BY <1>7, <1>9, <2>2, ThinOnce DEF Spliced
<1>10. CASE Asks(s)
  <2>1. c \in Conns /\ Len(conn[c].down) < DialCap /\ Downed(c, Append(conn[c].down, s))
    BY <1>10 DEF Asks
  <2> DEFINE q == conn[c].down
             n == Len(q) + 1
             T == {"registered"} \cup Sessions
  <2>2. q \in Seq(T) /\ Len(q) \in Nat /\ s \in T
    BY <2>1, ConnOf DEF Downs
  <2>3. /\ DOMAIN conn' = Conns /\ conn'[c].down = Append(q, s)
        /\ \A e \in Conns : e # c => conn'[e].down = conn[e].down
    BY <2>1 DEF Downed
  <2> HIDE DEF q, T
  <2>4. /\ Len(Append(q, s)) = n /\ Append(q, s)[n] = s
        /\ \A k \in DOMAIN Append(q, s) : k = n \/ (k \in DOMAIN q /\ Append(q, s)[k] = q[k])
    BY <2>2, AppendOf
  <2> HIDE DEF n
  <2>5. \A e \in Conns : \A k \in DOMAIN conn'[e].down :
          \/ k \in DOMAIN conn[e].down /\ conn'[e].down[k] = conn[e].down[k] /\ conn'[e].down[k] # s
          \/ e = c /\ k = n /\ conn'[e].down[k] = s
    BY <1>2, <2>1, <2>3, <2>4, SMTT(30) DEF q
  <2>6. Once'
    <3>1. ASSUME NEW d \in DOMAIN conn', NEW e \in DOMAIN conn',
                 NEW k \in DOMAIN conn'[d].down, NEW l \in DOMAIN conn'[e].down,
                 conn'[d].down[k] \in Sessions, conn'[d].down[k] = conn'[e].down[l]
          PROVE  d = e /\ k = l
      BY <2>3, <2>5, <3>1 DEF Once
    <3> QED BY <3>1 DEF Once, Conns
  <2>7. Short'
    BY <2>1, <2>2, <2>3, <2>4, RelayAssumption DEF Short, Conns, q, n
  <2>8. Unanswered'
    <3>1. ASSUME NEW e \in DOMAIN conn', NEW k \in DOMAIN conn'[e].down, conn'[e].down[k] \in Sessions
          PROVE  data'[conn'[e].down[k]] = "none" /\ phone'[conn'[e].down[k]].st \notin Early
      <4>1. CASE conn'[e].down[k] = s
        BY <1>1, <1>7, <4>1
      <4>2. CASE conn'[e].down[k] # s
        BY <1>0, <1>1, <1>8, <2>3, <2>5, <3>1, <4>2 DEF Unanswered
      <4> QED BY <4>1, <4>2
    <3> QED BY <3>1 DEF Unanswered, Conns
  <2> QED BY <1>7, <2>6, <2>7, <2>8 DEF Spliced
<1> QED BY <1>9, <1>10, Dialling, StillThin

LEMMA RestartMoves ==
  ASSUME Spliced, OwnerTypes, Thinner, Restart
  PROVE  Spliced'
<1>0. /\ SpliceTypes /\ SlotsTrue /\ Undialled
      /\ phone \in [Sessions -> PhoneType] /\ data \in [Sessions -> DataStates]
  BY DEF Spliced, SpliceTypes
<1>1. /\ phone' = [s \in Sessions |-> IF s \in Live THEN [phone[s] EXCEPT !.st = "over"] ELSE phone[s]]
      /\ data' = [s \in Sessions |-> IF data[s] = "none" THEN "none" ELSE "over"]
      /\ pending' = {} /\ slots' = [i \in Ips |-> 0]
  BY DEF Restart
<1>2. \A s \in Sessions : /\ phone'[s] \in PhoneType
                          /\ phone'[s].st \in {"idle", "over"} /\ (phone'[s].st = "idle" => phone[s].st = "idle")
  <2>1. ASSUME NEW s \in Sessions
        PROVE  [phone[s] EXCEPT !.st = "over"] \in PhoneType /\ [phone[s] EXCEPT !.st = "over"].st = "over"
    BY <1>0 DEF PhoneType, PhoneStates
  <2> QED BY <1>0, <1>1, <2>1 DEF Live
<1>3. SpliceTypes'
  <2>1. data' \in [Sessions -> DataStates]
    BY <1>0, <1>1 DEF DataStates
  <2>2. phone' \in [Sessions -> PhoneType]
    BY <1>1, <1>2
  <2> QED BY <2>1, <2>2 DEF SpliceTypes
<1>4. Live' = {}
  BY <1>2 DEF Live
<1>5. SlotsTrue'
  <2>1. \A i \in Ips : HeldBy(i)' = {}
    BY <1>4 DEF HeldBy
  <2>2. \A i \in Ips : IsFiniteSet(HeldBy(i)') /\ slots'[i] = Cardinality(HeldBy(i)')
    BY <1>1, <2>1, FS_EmptySet
  <2>3. slots' \in [Ips -> 0..MaxPerIp]
    BY <1>1, RelayAssumption
  <2> QED BY <1>4, <2>2, <2>3 DEF SlotsTrue
<1>6. Pends'
  BY <1>1, <1>2 DEF Pends
<1>7. Undialled'
  BY <1>0, <1>1, <1>2 DEF Undialled, Early
<1>8. \A c \in DOMAIN conn' : DOMAIN conn'[c].down = {}
  <2>1. \A c \in Conns : [conn[c] EXCEPT !.link = FALSE, !.relay = "closed", !.up = <<>>, !.down = <<>>].down = <<>>
    BY ConnOf DEF ConnType
  <2>2. DOMAIN <<>> = {}
    OBVIOUS
  <2> QED BY <2>1, <2>2 DEF Restart
<1>9. Unanswered'
  BY <1>8 DEF Unanswered, Conns
<1> QED BY <1>3, <1>5, <1>6, <1>7, <1>9 DEF Spliced

LEMMA SpliceStill ==
  ASSUME Spliced, Thinner, UNCHANGED spliceVars
  PROVE  Spliced'
<1>1. UNCHANGED <<phone, data, pending, slots>>
  BY DEF spliceVars
<1>2. SlotsTrue'
  BY <1>1, PhoneKept
<1>3. Unanswered'
  BY <1>1, AnswersStay DEF Spliced
<1> QED BY <1>1, <1>2, <1>3 DEF Spliced, SpliceTypes, Pends, Undialled

SpliceFull == OwnerInv /\ Spliced /\ Once /\ Short

LEMMA SpliceStep == SpliceFull /\ [Next]_vars => SpliceFull'
<1> SUFFICES ASSUME SpliceFull, [Next]_vars PROVE SpliceFull'
  OBVIOUS
<1>0. OwnerInv /\ OwnerInv' /\ OwnerTypes /\ OwnerTypes' /\ Spliced /\ Once /\ Short
  BY OwnerStep DEF SpliceFull, OwnerInv
<1>1. ASSUME NEW s \in Sessions, Dial(s)
      PROVE  SpliceFull'
  BY <1>0, <1>1, DialMoves DEF SpliceFull
<1>2. ASSUME Thinner, ~\E s \in Sessions : Dial(s)
      PROVE  SpliceFull'
  <2>1. Once' /\ Short'
    BY <1>0, <1>2, ThinOnce
  <2>2. Spliced'
    BY <1>0, <1>2, SpliceQuiet, PhoneMoves, SocketMoves, BreakMoves, HostMoves, RestartMoves, SpliceStill
  <2> QED BY <1>0, <2>1, <2>2 DEF SpliceFull
<1> QED BY <1>0, <1>1, <1>2, ThinSteps

LEMMA SpliceInit == Init => SpliceFull
<1> SUFFICES ASSUME Init PROVE SpliceFull
  OBVIOUS
<1>1. conn = <<>> /\ Conns = {} /\ conn \in Seq(ConnType) /\ Len(conn) = 0
  BY DEF Init, Conns
<1>2. OwnerInv
  BY <1>1 DEF Init, OwnerInv, OwnerTypes, OwnsOwn, NewestOwns
<1>3. NoPhone \in PhoneType /\ NoPhone.st = "idle"
  BY DEF NoPhone, PhoneType, PhoneStates
<1>4. SpliceTypes /\ Pends /\ Undialled
  <2> HIDE DEF NoPhone
  <2> QED BY <1>3 DEF Init, SpliceTypes, DataStates, Pends, Undialled
<1>5. Live = {}
  <2> HIDE DEF NoPhone
  <2> QED BY <1>3 DEF Init, Live
<1>6. SlotsTrue
  <2>1. \A i \in Ips : HeldBy(i) = {}
    BY <1>5 DEF HeldBy
  <2>2. \A i \in Ips : IsFiniteSet(HeldBy(i)) /\ slots[i] = Cardinality(HeldBy(i))
    BY <2>1, FS_EmptySet DEF Init
  <2>3. slots \in [Ips -> 0..MaxPerIp]
    BY RelayAssumption DEF Init
  <2> QED BY <1>5, <2>2, <2>3 DEF SlotsTrue
<1> QED BY <1>1, <1>2, <1>4, <1>6 DEF SpliceFull, Spliced, Unanswered, Once, Short

LEMMA SpliceInductive == Spec => []SpliceFull
BY SpliceInit, SpliceStep, PTL DEF Spec

(* Whatever becomes of a call, its nonce and its slot are given back exactly
   when it is over, whoever notices first (splice.rs:83, splice.rs:89). *)
THEOREM NothingIsLost == Spec => []NothingLeaks
<1>1. SpliceFull => NothingLeaks
  BY DEF SpliceFull, Spliced, Pends, SlotsTrue, HeldBy, NothingLeaks
<1> QED BY <1>1, SpliceInductive, PTL
=============================================================================
