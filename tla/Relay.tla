------------------------------- MODULE Relay -------------------------------
(***************************************************************************)
(* gaviero-relay and its client.  A host dials out to the relay over a     *)
(* control connection and registers its route (gaviero-remote              *)
(* relay_client.rs); a phone that asks the relay for the route waits while *)
(* the host is told to dial back with a nonce, and the two sockets are     *)
(* spliced (gaviero-relay splice.rs, http.rs); notes a host sends are      *)
(* stored and passed on to the phones' streams (state.rs).                 *)
(*                                                                         *)
(* Every lock is a short section of its own, so what happens between two   *)
(* of them is open: each section is an action.  A nonce is the session it  *)
(* was drawn for.  A host has one route, as relay_client.rs has.  Presence *)
(* events, keepalives, secrets and bytes are left out.                     *)
(***************************************************************************)
EXTENDS Naturals, Sequences, FiniteSets, SequencesExt

CONSTANTS
  Routes,    \* routes, each of one host
  Sessions,  \* phone connections to the splice port
  Ips,       \* where they come from
  MaxPerIp,  \* max_sessions_per_ip
  DialCap,   \* room in a control connection's queue of messages
  NoteCap,   \* note_capacity
  LagCap,    \* room in a stream's queue of events
  Prompt,    \* whether the relay reads a connection dry within a host's backoff
  Loads,     \* what may happen in one behaviour, see LoadType
  MaxConns   \* bound on control connections

LoadType == [sessions : SUBSET Sessions, notes : Nat, breaks : Nat, restarts : Nat, streams : Nat]

ASSUME RelayAssumption ==
  /\ MaxPerIp \in Nat \ {0} /\ DialCap \in Nat \ {0} /\ NoteCap \in Nat \ {0}
  /\ LagCap \in Nat \ {0} /\ MaxConns \in Nat /\ Prompt \in BOOLEAN
  /\ Loads \subseteq LoadType /\ "registered" \notin Sessions

VARIABLES
  conn,      \* control connections ever made, both ends
  cur,       \* the connection a host's client uses, 0 while it has none
  status,    \* RelayStatus
  routes,    \* the relay's routes: the connection that owns it, 0 if none
  last,      \* the connection that registered the route last
  phone,     \* the splice task of a phone connection
  data,      \* the host's data socket for it
  pending,   \* phone sessions waiting for their host
  slots,     \* sessions_per_ip
  push,      \* the note a control connection's reader is at
  nextNote, stored, \* next_note, notes
  order, sent, gone, \* ids as they were stored, broadcast, dropped from the store
  stream,    \* a phone's notification stream
  seen, lagged, \* ids it showed, ids its queue lost
  epoch,     \* the relay process
  load       \* what is left of the load

hostVars == <<conn, cur, status, routes, last>>
spliceVars == <<phone, data, pending, slots>>
noteVars == <<push, nextNote, stored, order, sent, gone, stream, seen, lagged>>
vars == <<hostVars, spliceVars, noteVars, epoch, load>>

Conns == DOMAIN conn
NoPhone == [st |-> "idle", ip |-> CHOOSE i \in Ips : TRUE, conn |-> 0]
NoPush == [id |-> 0, st |-> "idle"]
NoStream == [on |-> FALSE, ready |-> FALSE, q |-> <<>>, floor |-> 0, epoch |-> 0]

Init ==
  /\ conn = <<>> /\ cur = [r \in Routes |-> 0] /\ status = [r \in Routes |-> "Connecting"]
  /\ routes = [r \in Routes |-> 0] /\ last = [r \in Routes |-> 0]
  /\ phone = [s \in Sessions |-> NoPhone] /\ data = [s \in Sessions |-> "none"]
  /\ pending = {} /\ slots = [i \in Ips |-> 0]
  /\ push = <<>> /\ nextNote = 1 /\ stored = <<>> /\ order = <<>> /\ sent = <<>> /\ gone = {}
  /\ stream = NoStream /\ seen = {} /\ lagged = {} /\ epoch = 1
  /\ load \in Loads

----------------------------------------------------------------------------
(* The host's client.  It waits half a second at least before it tries again. *)
Unread(r) == \E c \in Conns : conn[c].route = r /\ conn[c].relay = "open" /\ conn[c].up # <<>>
Connect(r) ==
  /\ cur[r] = 0 /\ Len(conn) < MaxConns /\ (Prompt => ~Unread(r))
  /\ conn' = Append(conn, [route |-> r, link |-> TRUE, host |-> TRUE, relay |-> "open",
                           up |-> <<"register">>, down |-> <<>>])
  /\ push' = Append(push, NoPush)
  /\ cur' = [cur EXCEPT ![r] = Len(conn) + 1] /\ status' = [status EXCEPT ![r] = "Connecting"]
  /\ UNCHANGED <<routes, last, spliceVars, nextNote, stored, order, sent, gone, stream, seen, lagged, epoch, load>>

HostReads(r) ==
  LET c == cur[r]
  IN /\ c # 0 /\ conn[c].link /\ conn[c].down # <<>>
     /\ conn' = [conn EXCEPT ![c].down = Tail(@)]
     /\ LET m == Head(conn[c].down)
        IN \/ m = "registered" /\ status' = [status EXCEPT ![r] = "Registered"] /\ UNCHANGED data
           \/ m # "registered" /\ data' = [data EXCEPT ![m] = "asked"] /\ UNCHANGED status
     /\ UNCHANGED <<cur, routes, last, phone, pending, slots, noteVars, epoch, load>>

(* The connection is broken, closed by the relay or silent for too long. *)
HostGivesUp(r) ==
  LET c == cur[r]
  IN /\ c # 0 /\ (~conn[c].link \/ conn[c].relay # "open")
     /\ conn' = [conn EXCEPT ![c].host = FALSE, ![c].down = <<>>]
     /\ cur' = [cur EXCEPT ![r] = 0] /\ status' = [status EXCEPT ![r] = "Disconnected"]
     /\ UNCHANGED <<routes, last, spliceVars, noteVars, epoch, load>>

(* A note sent into a broken connection is lost. *)
Notify(r) ==
  /\ cur[r] # 0 /\ load.notes > 0
  /\ load' = [load EXCEPT !.notes = @ - 1]
  /\ conn' = [conn EXCEPT ![cur[r]].up =
       IF conn[cur[r]].link /\ conn[cur[r]].relay = "open" THEN Append(@, "notify") ELSE @]
  /\ UNCHANGED <<cur, status, routes, last, spliceVars, noteVars, epoch>>

(* A request that does not arrive is as none. *)
Failed(s) == CASE data[s] = "asked" -> "none" [] data[s] = "open" -> "over" [] OTHER -> data[s]

(* The network, or the host's process with all its sockets. *)
Break(c) ==
  /\ conn[c].link /\ load.breaks > 0 /\ load' = [load EXCEPT !.breaks = @ - 1]
  /\ \/ conn' = [conn EXCEPT ![c].link = FALSE] /\ UNCHANGED <<cur, status, data>>
     \/ /\ cur[conn[c].route] = c
        /\ conn' = [conn EXCEPT ![c].host = FALSE, ![c].down = <<>>, ![c].link = FALSE]
        /\ cur' = [cur EXCEPT ![conn[c].route] = 0]
        /\ status' = [status EXCEPT ![conn[c].route] = "Connecting"]
        /\ data' = [s \in Sessions |->
             IF phone[s].conn # 0 /\ conn[phone[s].conn].route = conn[c].route
             THEN Failed(s) ELSE data[s]]
  /\ UNCHANGED <<routes, last, phone, pending, slots, noteVars, epoch>>

----------------------------------------------------------------------------
(* The relay's task of a control connection: its reader, one message at a
   time, then its end, then drop_conn. *)
Reads(c, m) == conn[c].relay = "open" /\ push[c] = NoPush /\ conn[c].up # <<>> /\ Head(conn[c].up) = m

OwnedFirst(c) == IF routes[conn[c].route] # 0 THEN routes ELSE [routes EXCEPT ![conn[c].route] = c]
Owned(c) == [routes EXCEPT ![conn[c].route] = c]
Register(c) ==
  /\ Reads(c, "register") /\ Len(conn[c].down) < DialCap
  /\ routes' = Owned(c) /\ last' = [last EXCEPT ![conn[c].route] = c]
  /\ conn' = [conn EXCEPT ![c].up = Tail(@), ![c].down = IF conn[c].host THEN Append(@, "registered") ELSE @]
  /\ UNCHANGED <<cur, status, spliceVars, noteVars, epoch, load>>

Ends(c) ==
  /\ conn[c].relay = "open" /\ push[c] = NoPush /\ (~conn[c].link \/ ~conn[c].host)
  /\ conn' = [conn EXCEPT ![c].relay = "closing", ![c].up = <<>>]
  /\ UNCHANGED <<cur, status, routes, last, spliceVars, noteVars, epoch, load>>

DroppedByRoute(c) == [r \in Routes |-> IF conn[c].route = r THEN 0 ELSE routes[r]]
Dropped(c) == [r \in Routes |-> IF routes[r] = c THEN 0 ELSE routes[r]]
DropConn(c) ==
  /\ conn[c].relay = "closing" /\ conn' = [conn EXCEPT ![c].relay = "closed", ![c].down = <<>>]
  /\ routes' = Dropped(c)
  /\ UNCHANGED <<cur, status, last, spliceVars, noteVars, epoch, load>>

----------------------------------------------------------------------------
(* The splice task of a phone connection. *)
Live == {s \in Sessions : phone[s].st \notin {"idle", "over"}}
Released(i) == [slots EXCEPT ![i] = @ - 1]
Over(s) == phone' = [phone EXCEPT ![s].st = "over"] /\ slots' = Released(phone[s].ip)

(* session_guard: refused without a trace where the address has its share. *)
Accept(s) ==
  /\ phone[s].st = "idle" /\ s \in load.sessions
  /\ \E i \in Ips :
       IF slots[i] < MaxPerIp
       THEN phone' = [phone EXCEPT ![s].st = "held", ![s].ip = i] /\ slots' = [slots EXCEPT ![i] = @ + 1]
       ELSE phone' = [phone EXCEPT ![s].st = "over"] /\ UNCHANGED slots
  /\ UNCHANGED <<hostVars, data, pending, noteVars, epoch, load>>

(* The hello names no route, or none that a host owns. *)
Lookup(s) ==
  /\ phone[s].st = "held"
  /\ \/ Over(s)
     \/ \E r \in Routes : /\ routes[r] # 0 /\ UNCHANGED slots
          /\ phone' = [phone EXCEPT ![s].st = "found", ![s].conn = routes[r]]
  /\ UNCHANGED <<hostVars, data, pending, noteVars, epoch, load>>

(* add_pending, then try_send; nobody else knows the nonce in between. *)
Dial(s) ==
  LET c == phone[s].conn
  IN /\ phone[s].st = "found"
     /\ IF conn[c].relay = "open" /\ Len(conn[c].down) < DialCap
        THEN /\ pending' = pending \cup {s} /\ phone' = [phone EXCEPT ![s].st = "waiting"]
             /\ conn' = [conn EXCEPT ![c].down = Append(@, s)] /\ UNCHANGED slots
        ELSE Over(s) /\ UNCHANGED <<pending, conn>>
     /\ UNCHANGED <<cur, status, routes, last, data, noteVars, epoch, load>>

(* The receiver is gone first, then the nonce. *)
Timeout(s) ==
  /\ phone[s].st = "waiting" /\ phone' = [phone EXCEPT ![s].st = "late"]
  /\ UNCHANGED <<hostVars, data, pending, slots, noteVars, epoch, load>>

UnpendNever(s) == pending
Unpend(s) == pending \ {s}
TakeBack(s) ==
  /\ phone[s].st = "late" /\ Over(s) /\ pending' = Unpend(s)
  /\ UNCHANGED <<hostVars, data, noteVars, epoch, load>>

(* data_ws: an unknown nonce is refused. *)
DataWs(s) ==
  /\ data[s] = "asked"
  /\ data' = [data EXCEPT ![s] = IF s \in pending THEN "taken" ELSE "over"] /\ pending' = pending \ {s}
  /\ UNCHANGED <<hostVars, phone, slots, noteVars, epoch, load>>

(* The upgraded socket goes to the splice task, if that still waits; an upgrade
   that fails leaves it without an answer. *)
HandOver(s) ==
  /\ data[s] = "taken"
  /\ \/ /\ data' = [data EXCEPT ![s] = "open"]
        /\ phone' = IF phone[s].st = "waiting" THEN [phone EXCEPT ![s].st = "spliced"] ELSE phone
     \/ /\ data' = [data EXCEPT ![s] = "over"]
        /\ phone' = IF phone[s].st = "waiting" THEN [phone EXCEPT ![s].st = "late"] ELSE phone
  /\ UNCHANGED <<hostVars, pending, slots, noteVars, epoch, load>>

(* Either half ends with the other; the phone, the sidecar or silence end it. *)
PhoneLeaves(s) ==
  /\ phone[s].st = "spliced" /\ Over(s) /\ UNCHANGED <<hostVars, data, pending, noteVars, epoch, load>>
DataFails(s) ==
  /\ data[s] \in {"asked", "open"} /\ data' = [data EXCEPT ![s] = Failed(s)]
  /\ UNCHANGED <<hostVars, phone, pending, slots, noteVars, epoch, load>>
PhoneHalf(s) == data[s] = "over" /\ PhoneLeaves(s)
DataHalf(s) == data[s] = "open" /\ phone[s].st # "spliced" /\ DataFails(s)

----------------------------------------------------------------------------
(* push_note: an id, then the store, then the broadcast. *)
Allot(c) ==
  /\ Reads(c, "notify") /\ conn' = [conn EXCEPT ![c].up = Tail(@)]
  /\ push' = [push EXCEPT ![c] = [id |-> nextNote, st |-> "store"]] /\ nextNote' = nextNote + 1
  /\ UNCHANGED <<cur, status, routes, last, spliceVars, stored, order, sent, gone, stream, seen, lagged, epoch, load>>

(* Past NOTIFY_BURST. *)
Refuse(c) ==
  /\ Reads(c, "notify") /\ conn' = [conn EXCEPT ![c].up = Tail(@)]
  /\ UNCHANGED <<cur, status, routes, last, spliceVars, noteVars, epoch, load>>

KeptAll(notes) == notes
Kept(notes) == IF Len(notes) > NoteCap THEN Tail(notes) ELSE notes
Store(c) ==
  /\ push[c].st = "store"
  /\ LET all == Append(stored, push[c].id)
     IN stored' = Kept(all) /\ gone' = gone \cup (ToSet(all) \ ToSet(Kept(all)))
  /\ order' = Append(order, push[c].id) /\ push' = [push EXCEPT ![c].st = "send"]
  /\ UNCHANGED <<hostVars, spliceVars, nextNote, sent, stream, seen, lagged, epoch, load>>

Send(c) ==
  /\ push[c].st = "send" /\ push' = [push EXCEPT ![c] = NoPush]
  /\ sent' = Append(sent, push[c].id)
  /\ LET q == Append(stream.q, push[c].id)
     IN IF ~stream.on THEN UNCHANGED <<stream, lagged>>
        ELSE IF Len(q) > LagCap THEN stream' = [stream EXCEPT !.q = Tail(q)] /\ lagged' = lagged \cup {Head(q)}
        ELSE stream' = [stream EXCEPT !.q = q] /\ UNCHANGED lagged
  /\ UNCHANGED <<hostVars, spliceVars, nextNote, stored, order, gone, seen, epoch, load>>

(* note_ttl: an old note goes with the next look at the store. *)
Expire ==
  /\ stored # <<>> /\ stored' = Tail(stored) /\ gone' = gone \cup {Head(stored)}
  /\ UNCHANGED <<hostVars, spliceVars, push, nextNote, order, sent, stream, seen, lagged, epoch, load>>

(* phone_stream: subscribe, then the replay.  The phone says what it saw last and
   in which epoch. *)
Newest(S) == IF S = {} THEN 0 ELSE CHOOSE n \in S : \A m \in S : m <= n
Subscribe ==
  /\ ~stream.on /\ load.streams > 0 /\ load' = [load EXCEPT !.streams = @ - 1]
  /\ stream' = [stream EXCEPT !.on = TRUE, !.ready = FALSE, !.q = <<>>]
  /\ UNCHANGED <<hostVars, spliceVars, push, nextNote, stored, order, sent, gone, seen, lagged, epoch>>

SinceAnyEpoch == IF stream.floor > nextNote - 1 THEN 0 ELSE stream.floor
Since == IF stream.epoch # epoch \/ stream.floor > nextNote - 1 THEN 0 ELSE stream.floor
Replayed(new) ==
  [on |-> TRUE, ready |-> TRUE, q |-> stream.q, floor |-> Newest(new \cup {Since}), epoch |-> epoch]
Replay ==
  /\ stream.on /\ ~stream.ready
  /\ LET new == {n \in ToSet(stored) : n > Since}
     IN stream' = Replayed(new) /\ seen' = seen \cup new
  /\ UNCHANGED <<hostVars, spliceVars, push, nextNote, stored, order, sent, gone, lagged, epoch, load>>

(* Live events; one that is not above the last is a repeat. *)
Live1(n) ==
  IF n <= stream.floor THEN stream' = [stream EXCEPT !.q = Tail(@)] /\ UNCHANGED seen
  ELSE stream' = [stream EXCEPT !.q = Tail(@), !.floor = n] /\ seen' = seen \cup {n}
Shows ==
  /\ stream.ready /\ stream.q # <<>> /\ Live1(Head(stream.q))
  /\ UNCHANGED <<hostVars, spliceVars, push, nextNote, stored, order, sent, gone, lagged, epoch, load>>

Unsubscribe ==
  /\ stream.on /\ stream' = [stream EXCEPT !.on = FALSE, !.ready = FALSE, !.q = <<>>]
  /\ UNCHANGED <<hostVars, spliceVars, push, nextNote, stored, order, sent, gone, seen, lagged, epoch, load>>

(* The relay's process starts anew. *)
Restart ==
  /\ load.restarts > 0 /\ load' = [load EXCEPT !.restarts = @ - 1] /\ epoch' = epoch + 1
  /\ conn' = [c \in Conns |-> [conn[c] EXCEPT !.link = FALSE, !.relay = "closed", !.up = <<>>, !.down = <<>>]]
  /\ routes' = [r \in Routes |-> 0] /\ last' = [r \in Routes |-> 0]
  /\ phone' = [s \in Sessions |-> IF s \in Live THEN [phone[s] EXCEPT !.st = "over"] ELSE phone[s]]
  /\ data' = [s \in Sessions |-> IF data[s] = "none" THEN "none" ELSE "over"]
  /\ pending' = {} /\ slots' = [i \in Ips |-> 0]
  /\ push' = [c \in Conns |-> NoPush] /\ nextNote' = 1 /\ stored' = <<>> /\ order' = <<>> /\ sent' = <<>>
  /\ gone' = {} /\ stream' = [stream EXCEPT !.on = FALSE, !.ready = FALSE, !.q = <<>>]
  /\ seen' = {} /\ lagged' = {} /\ UNCHANGED <<cur, status>>

----------------------------------------------------------------------------
HostStep(r) == HostReads(r) \/ HostGivesUp(r)
ConnStep(c) == Register(c) \/ Ends(c) \/ DropConn(c) \/ Store(c) \/ Send(c)
PhoneStep(s) == Lookup(s) \/ Dial(s) \/ Timeout(s) \/ TakeBack(s) \/ PhoneHalf(s)
DataStep(s) == DataWs(s) \/ HandOver(s) \/ DataHalf(s)

Next ==
  \/ \E r \in Routes : Connect(r) \/ HostStep(r) \/ Notify(r)
  \/ \E c \in Conns : Break(c) \/ ConnStep(c) \/ Allot(c) \/ Refuse(c)
  \/ \E s \in Sessions : Accept(s) \/ PhoneStep(s) \/ DataStep(s) \/ PhoneLeaves(s) \/ DataFails(s)
  \/ Expire \/ Subscribe \/ Replay \/ Shows \/ Unsubscribe \/ Restart

Spec == Init /\ [][Next]_vars

(* Tasks run, timeouts fire and a client tries again; nobody need call. *)
Fairness ==
  /\ \A r \in Routes : WF_vars(Connect(r)) /\ WF_vars(HostStep(r))
  /\ \A c \in 1..MaxConns : WF_vars(c \in Conns /\ (ConnStep(c) \/ Allot(c) \/ Refuse(c)))
  /\ \A s \in Sessions : WF_vars(PhoneStep(s)) /\ WF_vars(DataStep(s))
FairSpec == Spec /\ Fairness

----------------------------------------------------------------------------
PhoneStates == {"idle", "held", "found", "waiting", "late", "spliced", "over"}

TypeOK ==
  /\ Len(conn) <= MaxConns /\ Len(push) = Len(conn)
  /\ \A c \in Conns : /\ conn[c].route \in Routes /\ conn[c].relay \in {"open", "closing", "closed"}
                      /\ Len(conn[c].down) <= DialCap
                      /\ ToSet(conn[c].down) \subseteq {"registered"} \cup Sessions
                      /\ ToSet(conn[c].up) \subseteq {"register", "notify"}
  /\ cur \in [Routes -> 0..Len(conn)] /\ routes \in [Routes -> 0..Len(conn)]
  /\ status \in [Routes -> {"Connecting", "Registered", "Disconnected"}]
  /\ \A s \in Sessions : phone[s].st \in PhoneStates
  /\ data \in [Sessions -> {"none", "asked", "taken", "open", "over"}]
  /\ pending \subseteq Sessions /\ slots \in [Ips -> 0..MaxPerIp]
  /\ Len(stored) <= NoteCap /\ Len(stream.q) <= LagCap /\ load \in LoadType

(* The connection that registered a route last keeps it until it ends, whatever
   older connections of the host end meanwhile (state.rs:74, state.rs:106). *)
NewestOwns ==
  \A r \in Routes : /\ routes[r] \in {0, last[r]}
                    /\ last[r] # 0 /\ routes[r] = 0 => conn[last[r]].relay = "closed"

(* A phone that gave up, was answered or never reached its host leaves no nonce
   and no slot behind, and one that waits has not lost its nonce but to the
   answer (splice.rs:83, splice.rs:89, state.rs:218). *)
NothingLeaks ==
  /\ pending = {s \in Sessions : phone[s].st \in {"waiting", "late"} /\ data[s] \in {"none", "asked"}}
  /\ \A i \in Ips : slots[i] = Cardinality({s \in Live : phone[s].ip = i})

(* A phone whose stream has caught up has been shown every note there was, over
   reconnections and a restart of the relay; but for those too old, those its
   queue lost, and those overtaken: stored or broadcast after a note with a greater
   id, which the stream then takes for repeats (http.rs:209, http.rs:239). *)
Behind(n, ids) == \E i, j \in DOMAIN ids : i < j /\ ids[j] = n /\ ids[i] > n
Overtaken(n) == Behind(n, order) \/ Behind(n, sent)
NotesReach ==
  stream.ready /\ stream.q = <<>> =>
    \A n \in ToSet(sent) \ (seen \cup gone \cup lagged) : Overtaken(n)

(* In the end every host is registered with the connection it uses, and so can be
   reached, whatever broke and in whatever order the ends of old connections were
   noticed (relay_client.rs:63, state.rs:74). *)
Reachable ==
  \A r \in Routes : <>[](cur[r] # 0 /\ routes[r] = cur[r] /\ status[r] = "Registered")
============================================================================
