---------------------------- MODULE RemoteHub ----------------------------
(***************************************************************************)
(* The remote sidecar (gaviero-remote server): one hub task owns the       *)
(* active phone connection, coalesces stream chunks, holds back snapshots  *)
(* to the flush tick and filters commands; one task per socket pumps       *)
(* frames; the TUI's event loop feeds the hub with try_send and falls back *)
(* to a snapshot when a frame does not fit (projection.rs).                *)
(*                                                                         *)
(* What the host shows is a history of numbered steps per conversation,    *)
(* stream chunks and other events.  Wording and wire form are left out.    *)
(***************************************************************************)
EXTENDS Integers, Sequences, FiniteSets

CONSTANTS
  Convs, Shown,  \* conversations; the active one, whose text a snapshot carries
  Conns,         \* sockets that may complete the handshake, once each
  Cmds,          \* command ids
  MaxSteps,      \* bound on the host's steps
  MaxAsks,       \* bound on the frames clients send, retries included
  MaxRotations,  \* bound on token rotations
  InCap, OutCap, HostCap, InboundCap, RegCap, \* capacities: input, a socket's outbound, output, inbound, registration
  RecentCap,     \* RECENT_COMMAND_IDS
  NoConn, NoSnap

ASSUME HubAssumption ==
  /\ Shown \in Convs /\ IsFiniteSet(Convs) /\ {MaxSteps, MaxAsks, MaxRotations} \subseteq Nat
  /\ {InCap, OutCap, HostCap, InboundCap, RegCap, RecentCap} \subseteq Nat \ {0}
ASSUME ConnAssumption == NoConn \notin Conns
ASSUME SnapAssumption == NoSnap \notin [type : {"snapshot"}, at : [Convs -> 0..MaxSteps]]

VARIABLES
  made,       \* conversation -> the kinds of the steps the host made
  todo,       \* RemoteState.pending_frames, taken by a running pump
  pumping,    \* is the event loop inside pump_remote?
  dirty,      \* RemoteState.snapshot_dirty
  hostClient, \* RemoteState.client_connected
  input, inbound, regs, output, \* the four channels of the hub
  telling,    \* what the hub awaits room for in output
  active,     \* RemoteHub.active
  bufs,       \* RemoteHub.chunk_bufs
  pendingSnap,\* RemoteHub.pending_snapshot
  recentCmds, \* RemoteHub.recent_cmds
  conn,       \* how far each socket's task is
  signal,     \* has the hub asked the socket to close?
  outbound,   \* a socket's queue of frames
  asks, rotations, \* what the bounds have used up
  got,        \* history: the steps a client has received or seen in a snapshot
  ran, answers \* history: how often a command ran, and was answered

hostVars == <<made, todo, pumping, dirty, hostClient, ran>>
hubVars == <<telling, active, bufs, pendingSnap, recentCmds>>
clientVars == <<got, answers>>
budgets == <<asks, rotations>>
vars == <<hostVars, hubVars, clientVars, budgets, input, inbound, regs, output,
          conn, signal, outbound>>

Kinds == {"chunk", "event"}
Steps(v) == 1..Len(made[v])
EventsOf(v) == {k \in Steps(v) : made[v][k] = "event"}

(* A frame of steps of one conversation; a coalesced run of chunks is one frame. *)
Delta(v, ns) == [type |-> "delta", conv |-> v, ns |-> ns]
(* A snapshot: how far every conversation was when it was built. *)
Snapshot(at) == [type |-> "snapshot", at |-> at]
Result(cmd) == [type |-> "result", cmd |-> cmd]
Refusal(cmd) == [type |-> "refusal", cmd |-> cmd]
Control(what) == [type |-> what]

(* What a snapshot tells of a conversation: the state of each, the text of the
   shown one. *)
Tells(snap, v) ==
  {k \in 1..snap.at[v] : v = Shown \/ made[v][k] = "event"}

Init ==
  /\ made = [v \in Convs |-> <<>>]
  /\ todo = <<>> /\ pumping = FALSE /\ dirty = FALSE /\ hostClient = FALSE
  /\ input = <<>> /\ inbound = <<>> /\ regs = <<>> /\ output = <<>> /\ telling = <<>>
  /\ active = NoConn /\ bufs = <<>> /\ pendingSnap = NoSnap /\ recentCmds = <<>>
  /\ conn = [c \in Conns |-> "new"]
  /\ signal = [c \in Conns |-> FALSE]
  /\ outbound = [c \in Conns |-> <<>>]
  /\ asks = 0 /\ rotations = 0
  /\ got = [c \in Conns |-> [v \in Convs |-> {}]]
  /\ ran = [x \in Cmds |-> 0] /\ answers = [x \in Cmds |-> 0]

-----------------------------------------------------------------------------
(* The host: one event at a time, each ending in a pump. *)

Idle == ~pumping

(* An event of a conversation is reduced and projected; one that also moves the
   conversation's revision yields a second frame (the pump's sweep). *)
HostStep(v, kinds) ==
  /\ Idle
  /\ Cardinality(UNION {{<<u, k>> : k \in Steps(u)} : u \in Convs}) + Len(kinds) <= MaxSteps
  /\ made' = [made EXCEPT ![v] = @ \o kinds]
  /\ todo' = [i \in 1..Len(kinds) |-> Delta(v, <<Len(made[v]) + i>>)]
  /\ pumping' = TRUE
  /\ UNCHANGED <<dirty, hostClient, ran, hubVars, clientVars, budgets, input, inbound,
                 regs, output, conn, signal, outbound>>

(* Event::Tick changes nothing itself; its pump retries a snapshot. *)
HostTick ==
  /\ Idle /\ dirty
  /\ pumping' = TRUE
  /\ UNCHANGED <<made, todo, dirty, hostClient, ran, hubVars, clientVars, budgets, input,
                 inbound, regs, output, conn, signal, outbound>>

(* One output of the hub, through the bridge task and the event channel. *)
HostReceive ==
  /\ Idle /\ output # <<>>
  /\ output' = Tail(output)
  /\ pumping' = TRUE
  /\ \/ /\ Head(output).type \in {"connected", "disconnected"}
        /\ hostClient' = (Head(output).type = "connected")
        /\ UNCHANGED <<todo, dirty, ran>>
     \/ /\ Head(output).type = "snapshotNeeded"
        /\ dirty' = TRUE
        /\ UNCHANGED <<todo, hostClient, ran>>
     \/ /\ Head(output).type = "command"
        /\ ran' = [ran EXCEPT ![Head(output).cmd] = @ + 1]
        /\ todo' = <<Result(Head(output).cmd)>>
        /\ dirty' \in {dirty, TRUE} \* some commands ask for a snapshot
        /\ UNCHANGED hostClient
  /\ UNCHANGED <<made, hubVars, clientVars, budgets, input, inbound, regs, conn, signal,
                 outbound>>

(* One try_send of the pump: the first that does not fit drops the rest. *)
PumpFrame ==
  /\ pumping /\ todo # <<>>
  /\ \/ /\ Len(input) < InCap
        /\ input' = Append(input, Head(todo))
        /\ todo' = Tail(todo)
        /\ UNCHANGED dirty
     \/ /\ Len(input) >= InCap
        /\ todo' = <<>>
        /\ dirty' = TRUE
        /\ UNCHANGED input
  /\ UNCHANGED <<made, pumping, hostClient, ran, hubVars, clientVars, budgets, inbound,
                 regs, output, conn, signal, outbound>>

(* A bug: the flag is cleared even when the snapshot did not fit. *)
PumpSnapshotClears ==
  /\ pumping /\ todo = <<>>
  /\ pumping' = FALSE /\ dirty' = FALSE
  /\ input' = IF dirty /\ Len(input) < InCap
              THEN Append(input, Snapshot([v \in Convs |-> Len(made[v])])) ELSE input
  /\ UNCHANGED <<made, todo, hostClient, ran, hubVars, clientVars, budgets, inbound, regs,
                 output, conn, signal, outbound>>

(* The pump's end: a dirty host tries to send a snapshot of this moment. *)
PumpSnapshot ==
  /\ pumping /\ todo = <<>>
  /\ pumping' = FALSE
  /\ \/ /\ dirty /\ Len(input) < InCap
        /\ input' = Append(input, Snapshot([v \in Convs |-> Len(made[v])]))
        /\ dirty' = FALSE
     \/ /\ ~dirty \/ Len(input) >= InCap
        /\ UNCHANGED <<input, dirty>>
  /\ UNCHANGED <<made, todo, hostClient, ran, hubVars, clientVars, budgets, inbound, regs,
                 output, conn, signal, outbound>>

(* The desktop rotates the token: best effort, a full channel loses it. *)
HostRotate ==
  /\ Idle /\ rotations < MaxRotations
  /\ rotations' = rotations + 1
  /\ Len(input) < InCap
  /\ input' = Append(input, Control("rotated"))
  /\ UNCHANGED <<hostVars, hubVars, clientVars, asks, inbound, regs, output, conn, signal,
                 outbound>>

-----------------------------------------------------------------------------
(* The hub: one handler at a time.  A handler that has told the host less than
   it must waits in `telling`. *)

HubFree == telling = <<>>

(* A bug: a slow client's queue grows without bound. *)
EmitUnbounded(frames) ==
  /\ outbound' = IF active = NoConn THEN outbound ELSE [outbound EXCEPT ![active] = @ \o frames]
  /\ UNCHANGED <<active, signal, output>>

(* emit, for a sequence of frames: queue them on the active socket; the first
   that does not fit, or that finds the socket's task ended, closes the client
   as slow and tells the host if that fits. *)
Emit(frames) ==
  IF active = NoConn
  THEN UNCHANGED <<active, outbound, signal, output>>
  ELSE LET room == IF conn[active] = "gone" THEN 0 ELSE OutCap - Len(outbound[active])
           fits == Len(frames) <= room
       IN /\ outbound' = [outbound EXCEPT
                            ![active] = @ \o SubSeq(frames, 1, IF fits THEN Len(frames) ELSE room)]
          /\ active' = IF fits THEN active ELSE NoConn
          /\ signal' = [signal EXCEPT ![active] = @ \/ ~fits]
          /\ output' = IF fits \/ Len(output) >= HostCap THEN output
                       ELSE Append(output, Control("disconnected"))

(* The output channel gets the oldest message the hub awaits room for. *)
HubTell ==
  /\ telling # <<>> /\ Len(output) < HostCap
  /\ output' = Append(output, Head(telling))
  /\ telling' = Tail(telling)
  /\ UNCHANGED <<hostVars, active, bufs, pendingSnap, recentCmds, clientVars, budgets,
                 input, inbound, regs, conn, signal, outbound>>

(* on_registration: the newest client evicts the one before, stale chunks go, the
   new client gets hello and the host is asked for a snapshot.  A socket whose
   task ended meanwhile fails the hello and is dropped at once. *)
OnRegistration ==
  /\ HubFree /\ regs # <<>>
  /\ LET c == Head(regs)
         dead == conn[c] = "gone"
         evicted == active # NoConn /\ conn[active] # "gone"
     IN /\ regs' = Tail(regs)
        /\ bufs' = <<>>
        /\ active' = IF dead THEN NoConn ELSE c
        /\ outbound' = [outbound EXCEPT ![c] = IF dead THEN @ ELSE <<Control("hello")>>]
        /\ signal' = [s \in Conns |-> signal[s] \/ s = active \/ (s = c /\ dead)]
        /\ \E told \in BOOLEAN : \* emit's try_send, after the eviction's awaited send
             /\ told => dead /\ (evicted \/ Len(output) < HostCap)
             /\ ~told => ~dead \/ Len(output) + (IF evicted THEN 1 ELSE 0) >= HostCap
             /\ telling' = (IF evicted THEN <<Control("disconnected")>> ELSE <<>>)
                           \o (IF told THEN <<Control("disconnected")>> ELSE <<>>)
                           \o <<Control("connected"), Control("snapshotNeeded")>>
  /\ UNCHANGED <<hostVars, pendingSnap, recentCmds, clientVars, budgets, input, inbound,
                 output, conn>>

(* close_active: a rotation, by the desktop or another instance's token file. *)
CloseActive ==
  /\ active' = NoConn
  /\ signal' = [c \in Conns |-> signal[c] \/ c = active]
  /\ telling' = IF active = NoConn THEN <<>> ELSE <<Control("disconnected")>>

(* A bug: any socket's end counts as the active one's. *)
OnClosedAny ==
  /\ HubFree /\ inbound # <<>> /\ Head(inbound).type = "closed"
  /\ inbound' = Tail(inbound)
  /\ active' = NoConn
  /\ telling' = IF active = NoConn THEN <<>> ELSE <<Control("disconnected")>>
  /\ UNCHANGED <<hostVars, bufs, pendingSnap, recentCmds, clientVars, budgets, input, regs,
                 output, conn, signal, outbound>>

(* A bug: the host is told of the end of a socket that was replaced. *)
OnClosedTells ==
  /\ HubFree /\ inbound # <<>> /\ Head(inbound).type = "closed"
  /\ inbound' = Tail(inbound)
  /\ active' = IF Head(inbound).conn = active THEN NoConn ELSE active
  /\ telling' = <<Control("disconnected")>>
  /\ UNCHANGED <<hostVars, bufs, pendingSnap, recentCmds, clientVars, budgets, input, regs,
                 output, conn, signal, outbound>>

(* on_inbound, Closed: only the active socket's end counts. *)
OnClosed ==
  /\ HubFree /\ inbound # <<>> /\ Head(inbound).type = "closed"
  /\ inbound' = Tail(inbound)
  /\ IF Head(inbound).conn = active
     THEN active' = NoConn /\ telling' = <<Control("disconnected")>>
     ELSE UNCHANGED <<active, telling>>
  /\ UNCHANGED <<hostVars, bufs, pendingSnap, recentCmds, clientVars, budgets, input, regs,
                 output, conn, signal, outbound>>

(* recent_cmds, oldest out. *)
Appended(cmd) == Append(recentCmds, cmd)

(* A bug: the cache holds one id less than its bound. *)
RememberShort(cmd) ==
  IF Len(Appended(cmd)) >= RecentCap THEN Tail(Appended(cmd)) ELSE Appended(cmd)

Remember(cmd) ==
  IF Len(Appended(cmd)) > RecentCap THEN Tail(Appended(cmd)) ELSE Appended(cmd)

InRecent(cmd) == \E i \in DOMAIN recentCmds : recentCmds[i] = cmd

(* on_command: a stale socket's frame and a repeated id are dropped in silence;
   a new id is remembered before the rate limit and the full queue refuse it. *)
OnCommand ==
  /\ HubFree /\ inbound # <<>> /\ Head(inbound).type = "command"
  /\ inbound' = Tail(inbound)
  /\ LET cmd == Head(inbound).cmd IN
     \/ /\ Head(inbound).conn # active \/ InRecent(cmd)
        /\ UNCHANGED <<recentCmds, active, outbound, signal, output>>
     \/ /\ Head(inbound).conn = active /\ ~InRecent(cmd)
        /\ recentCmds' = Remember(cmd)
        /\ \E granted \in BOOLEAN : \* take_rate_token
             IF granted /\ Len(output) < HostCap
             THEN /\ output' = Append(output, [type |-> "command", cmd |-> cmd])
                  /\ UNCHANGED <<active, outbound, signal>>
             ELSE Emit(<<Refusal(cmd)>>)
  /\ UNCHANGED <<hostVars, telling, bufs, pendingSnap, clientVars, budgets, input, regs, conn>>

(* A frame of an unknown type, or with a wrong instance id, is answered and not
   remembered. *)
OnBadFrame ==
  /\ HubFree /\ inbound # <<>> /\ Head(inbound).type = "bad"
  /\ inbound' = Tail(inbound)
  /\ IF Head(inbound).conn = active
     THEN Emit(<<Control("error")>>)
     ELSE UNCHANGED <<active, outbound, signal, output>>
  /\ UNCHANGED <<hostVars, telling, bufs, pendingSnap, recentCmds, clientVars, budgets,
                 input, regs, conn>>

(* flush_conversation parts the runs: a conversation has one at most. *)
HasRun(v, runs) == \E i \in DOMAIN runs : runs[i].conv = v
RunOf(v, runs) == CHOOSE i \in DOMAIN runs : runs[i].conv = v
RunsOf(v, runs) == IF HasRun(v, runs) THEN <<runs[RunOf(v, runs)]>> ELSE <<>>
RunsBut(v, runs) ==
  IF HasRun(v, runs) THEN SubSeq(runs, 1, RunOf(v, runs) - 1) \o SubSeq(runs, RunOf(v, runs) + 1, Len(runs))
  ELSE runs

(* chunk_bufs: one run per conversation, in the order the runs began. *)
Buffered(v, k) ==
  IF HasRun(v, bufs)
  THEN [i \in DOMAIN bufs |->
          IF bufs[i].conv = v THEN Delta(v, Append(bufs[i].ns, k)) ELSE bufs[i]]
  ELSE Append(bufs, Delta(v, <<k>>))

(* on_input, a step of a conversation: a chunk is buffered, and flushed at once
   when its run is over the bound; any other event flushes its conversation's
   run first and is then emitted. *)
OnDelta ==
  /\ HubFree /\ input # <<>> /\ Head(input).type = "delta"
  /\ input' = Tail(input)
  /\ LET v == Head(input).conv
         k == Head(input).ns[1]
     IN \/ /\ made[v][k] = "chunk"
           /\ bufs' = Buffered(v, k)
           /\ UNCHANGED <<active, outbound, signal, output>>
        \/ /\ made[v][k] = "chunk" \* over CHUNK_BUFFER_FLUSH_BYTES
           /\ bufs' = RunsBut(v, bufs)
           /\ Emit(RunsOf(v, Buffered(v, k)))
        \/ /\ made[v][k] = "event"
           /\ bufs' = RunsBut(v, bufs)
           /\ Emit(Append(RunsOf(v, bufs), Head(input)))
  /\ UNCHANGED <<hostVars, telling, pendingSnap, recentCmds, clientVars, budgets, inbound,
                 regs, conn>>

(* on_input, a command's result: belongs to no conversation, so every run goes first. *)
OnResult ==
  /\ HubFree /\ input # <<>> /\ Head(input).type = "result"
  /\ input' = Tail(input)
  /\ bufs' = <<>>
  /\ Emit(Append(bufs, Head(input)))
  /\ UNCHANGED <<hostVars, telling, pendingSnap, recentCmds, clientVars, budgets, inbound,
                 regs, conn>>

(* on_input, a snapshot: replaces the one waiting for the tick. *)
OnSnapshot ==
  /\ HubFree /\ input # <<>> /\ Head(input).type = "snapshot"
  /\ input' = Tail(input)
  /\ pendingSnap' = Head(input)
  /\ UNCHANGED <<hostVars, telling, active, bufs, recentCmds, clientVars, budgets, inbound,
                 regs, output, conn, signal, outbound>>

OnRotated ==
  /\ HubFree /\ input # <<>> /\ Head(input).type = "rotated"
  /\ input' = Tail(input)
  /\ CloseActive
  /\ UNCHANGED <<hostVars, bufs, pendingSnap, recentCmds, clientVars, budgets, inbound,
                 regs, output, conn, outbound>>

(* poll_token_file found another instance's token. *)
PollToken ==
  /\ HubFree /\ rotations < MaxRotations
  /\ rotations' = rotations + 1
  /\ CloseActive
  /\ UNCHANGED <<hostVars, bufs, pendingSnap, recentCmds, clientVars, asks, input, inbound,
                 regs, output, conn, outbound>>

(* A bug: the snapshot goes out before the runs it already tells of. *)
FlushAllReversed ==
  /\ HubFree /\ (bufs # <<>> \/ pendingSnap # NoSnap)
  /\ bufs' = <<>>
  /\ pendingSnap' = NoSnap
  /\ Emit((IF pendingSnap = NoSnap THEN <<>> ELSE <<pendingSnap>>) \o bufs)
  /\ UNCHANGED <<hostVars, telling, recentCmds, clientVars, budgets, input, inbound, regs,
                 conn>>

(* A bug: with no run to flush the snapshot waits on. *)
FlushAllRuns == bufs # <<>> /\ FlushAllReversed

(* flush_all: every run, then the snapshot that waited. *)
FlushAll ==
  /\ HubFree /\ (bufs # <<>> \/ pendingSnap # NoSnap)
  /\ bufs' = <<>>
  /\ pendingSnap' = NoSnap
  /\ Emit(bufs \o (IF pendingSnap = NoSnap THEN <<>> ELSE <<pendingSnap>>))
  /\ UNCHANGED <<hostVars, telling, recentCmds, clientVars, budgets, input, inbound, regs,
                 conn>>

-----------------------------------------------------------------------------
(* A socket's task and the client behind it. *)

(* conn::run, phase 2: the handshake is done and the registration is queued. *)
Connect(c) ==
  /\ conn[c] = "new" /\ Len(regs) < RegCap
  /\ conn' = [conn EXCEPT ![c] = "open"]
  /\ regs' = Append(regs, c)
  /\ UNCHANGED <<hostVars, hubVars, clientVars, budgets, input, inbound, output, signal,
                 outbound>>

Serving(c) == conn[c] = "open" /\ ~signal[c]
Waiting(c) == \E i \in DOMAIN regs : regs[i] = c

(* A frame reaches the client, which applies it. *)
Deliver(c) ==
  /\ Serving(c) /\ outbound[c] # <<>>
  /\ outbound' = [outbound EXCEPT ![c] = Tail(@)]
  /\ LET f == Head(outbound[c]) IN
     \/ /\ f.type = "delta"
        /\ got' = [got EXCEPT ![c][f.conv] = @ \cup {f.ns[i] : i \in DOMAIN f.ns}]
        /\ UNCHANGED answers
     \/ /\ f.type = "snapshot"
        /\ got' = [got EXCEPT ![c] = [v \in Convs |-> @[v] \cup Tells(f, v)]]
        /\ UNCHANGED answers
     \/ /\ f.type \in {"result", "refusal"}
        /\ answers' = [answers EXCEPT ![f.cmd] = @ + 1]
        /\ UNCHANGED got
     \/ /\ f.type \in {"hello", "error"}
        /\ UNCHANGED clientVars
  /\ UNCHANGED <<hostVars, hubVars, budgets, input, inbound, regs, output, conn, signal>>

(* A client's frame reaches the hub's queue: a command, new or sent again, or one
   the hub cannot take.  The socket is read only when no frame waits to go out. *)
Ask(c, frame) ==
  /\ Serving(c) /\ outbound[c] = <<>> /\ ~Waiting(c) \* after hello
  /\ asks < MaxAsks /\ Len(inbound) < InboundCap
  /\ asks' = asks + 1
  /\ inbound' = Append(inbound, frame)
  /\ UNCHANGED <<hostVars, hubVars, got, answers, rotations, input, regs, output, conn,
                 signal, outbound>>

(* The task leaves its loop: told to by the hub, or the socket is lost, idle,
   closed by the client or in breach of the protocol. *)
Stop(c) ==
  /\ conn' = [conn EXCEPT ![c] = "closing"]
  /\ UNCHANGED <<hostVars, hubVars, clientVars, budgets, input, inbound, regs, output, signal,
                 outbound>>

Obey(c) == conn[c] = "open" /\ signal[c] /\ Stop(c)
Leave(c) == Serving(c) /\ Stop(c)

(* The task ends: Closed is the last message of its socket. *)
End(c) ==
  /\ conn[c] = "closing" /\ Len(inbound) < InboundCap
  /\ conn' = [conn EXCEPT ![c] = "gone"]
  /\ inbound' = Append(inbound, [type |-> "closed", conn |-> c])
  /\ outbound' = [outbound EXCEPT ![c] = <<>>]
  /\ got' = [got EXCEPT ![c] = [v \in Convs |-> {}]]
  /\ UNCHANGED <<hostVars, hubVars, answers, budgets, input, regs, output, signal>>

-----------------------------------------------------------------------------
HostLoop == HostTick \/ HostReceive \/ PumpFrame \/ PumpSnapshot
HubLoop == \/ HubTell \/ OnRegistration \/ OnClosed \/ OnCommand \/ OnBadFrame
           \/ OnDelta \/ OnResult \/ OnSnapshot \/ OnRotated \/ FlushAll
ConnLoop(c) == Deliver(c) \/ Obey(c) \/ End(c)

Next ==
  \/ \E v \in Convs, kinds \in {<<"chunk">>, <<"event">>, <<"event", "event">>} : HostStep(v, kinds)
  \/ HostRotate \/ PollToken
  \/ HostLoop
  \/ HubLoop
  \/ \E c \in Conns :
       \/ Connect(c) \/ Leave(c) \/ ConnLoop(c)
       \/ \E cmd \in Cmds : Ask(c, [type |-> "command", conn |-> c, cmd |-> cmd])
       \/ Ask(c, [type |-> "bad", conn |-> c])

Spec == Init /\ [][Next]_vars

(* Every task runs while it can: the event loop, the hub, whose select takes its
   ready branches in random order, and each socket's task.  An output of the hub
   is handled although ticks keep coming: the event channel is a queue.  Clients
   and users may stop for good. *)
FairSpec ==
  /\ Spec
  /\ WF_vars(HostTick) /\ SF_vars(HostReceive) /\ WF_vars(PumpFrame) /\ WF_vars(PumpSnapshot)
  /\ WF_vars(HubTell) /\ WF_vars(OnRegistration) /\ WF_vars(FlushAll)
  /\ WF_vars(OnClosed \/ OnCommand \/ OnBadFrame)
  /\ WF_vars(OnDelta \/ OnResult \/ OnSnapshot \/ OnRotated)
  /\ \A c \in Conns : WF_vars(ConnLoop(c))

-----------------------------------------------------------------------------
Frame ==
  [type : {"delta"}, conv : Convs, ns : Seq(1..MaxSteps)]
    \cup [type : {"snapshot"}, at : [Convs -> 0..MaxSteps]]
    \cup [type : {"result", "refusal"}, cmd : Cmds]
    \cup [type : {"hello", "error", "rotated", "connected", "disconnected", "snapshotNeeded"}]

TypeOK ==
  /\ made \in [Convs -> Seq(Kinds)] /\ todo \in Seq(Frame) /\ {pumping, dirty, hostClient} \subseteq BOOLEAN
  /\ input \in Seq(Frame) /\ Len(input) <= InCap
  /\ inbound \in Seq([type : {"command"}, conn : Conns, cmd : Cmds] \cup [type : {"bad", "closed"}, conn : Conns])
  /\ Len(inbound) <= InboundCap
  /\ regs \in Seq(Conns) /\ Len(regs) <= RegCap
  /\ {output, telling} \subseteq Seq(Frame \cup [type : {"command"}, cmd : Cmds]) /\ Len(output) <= HostCap
  /\ active \in Conns \cup {NoConn} /\ bufs \in Seq(Frame) /\ pendingSnap \in Frame \cup {NoSnap}
  /\ recentCmds \in Seq(Cmds) /\ Len(recentCmds) <= RecentCap
  /\ conn \in [Conns -> {"new", "open", "closing", "gone"}] /\ signal \in [Conns -> BOOLEAN]
  /\ outbound \in [Conns -> Seq(Frame)] /\ \A c \in Conns : Len(outbound[c]) <= OutCap
  /\ asks \in 0..MaxAsks /\ rotations \in 0..MaxRotations
  /\ got \in [Conns -> [Convs -> SUBSET (1..MaxSteps)]]
  /\ {ran, answers} \subseteq [Cmds -> Nat]

Within(q, Test(_)) == \E i \in DOMAIN q : Test(q[i])

(* Newest wins (hub.rs:227): a socket in its loop is the active one, or still waits
   to be registered, or was asked to close.  No socket is left open and unserved,
   none is served beside another, and the end of an older one never unseats it. *)
OneServed ==
  \A c \in Conns :
    /\ Serving(c) => c = active \/ Waiting(c)
    /\ c = active => ~signal[c]

(* While a client is active, the last the host was or is being told of is its
   connection: the desktop never shows a served phone as absent (remote.rs:117). *)
HostSeesClient ==
  active # NoConn =>
    LET told == output \o telling
        Said(word) == {i \in DOMAIN told : told[i].type = word}
    IN IF Said("connected") \cup Said("disconnected") = {} THEN hostClient
       ELSE \E i \in Said("connected") : \A j \in Said("disconnected") : j < i

(* Steps reach a client in the order they were made and none twice, not even by a
   snapshot and a later frame: stream text is append-only (the order rule, hub.rs:354). *)
AppliedInOrder ==
  [][\A c \in Conns : \A f \in {outbound[c][i] : i \in DOMAIN outbound[c] \cap {1}} :
       (f.type = "delta" /\ outbound'[c] = Tail(outbound[c]) /\ conn'[c] = "open") =>
         /\ \A i \in DOMAIN f.ns, k \in got[c][f.conv] : k < f.ns[i]
         /\ \A i \in 2..Len(f.ns) : f.ns[i - 1] < f.ns[i]]_vars

(* A step the active client has not got is on its way, alone or within a snapshot
   that is or will be built: a full queue, a replacement and a slow client lose no
   more than the next snapshot restores (projection.rs:672-673, hub.rs:472-473). *)
Carries(f, v, k) ==
  \/ f.type = "delta" /\ f.conv = v /\ \E i \in DOMAIN f.ns : f.ns[i] = k
  \/ f.type = "snapshot" /\ k \in Tells(f, v)

Needed(v) == IF v = Shown THEN Steps(v) ELSE EventsOf(v)

MissedIsCovered ==
  (active # NoConn /\ conn[active] = "open") =>
    \/ dirty
    \/ Within(output \o telling, LAMBDA m : m.type = "snapshotNeeded")
    \/ \A v \in Convs : \A k \in Needed(v) \ got[active][v] :
         Within(todo \o input \o bufs \o outbound[active]
                  \o (IF pendingSnap = NoSnap THEN <<>> ELSE <<pendingSnap>>),
                LAMBDA f : Carries(f, v, k))

(* A command runs at most once however often it is sent, on whatever socket, and is
   answered at most once: one refused by the rate limit never runs later. *)
RunsOnce ==
  \A x \in Cmds : ran[x] <= 1 /\ answers[x] <= 1

(* A client that stays connected ends up with everything the host showed. *)
Converges ==
  \A c \in Conns :
    <>[](active = c) => <>[](\A v \in Convs : Needed(v) \subseteq got[c][v])

=============================================================================
