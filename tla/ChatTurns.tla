----------------------------- MODULE ChatTurns -----------------------------
(***************************************************************************)
(* Chat turns over the write gate.  The host (gaviero-tui) dispatches a    *)
(* prompt as a task, side_panel.rs dispatch_prompt_core; the task runs the *)
(* agent, whose writes go through the gate, hands what was deferred to the *)
(* host and ends.  The host is one event loop: it takes events in the      *)
(* order they were sent and the user's keys in between, and tells the gate *)
(* about reviews by tasks of their own.                                    *)
(*                                                                         *)
(* A turn says it is over before it is: the conversation takes the next    *)
(* prompt while the task of the last one still closes.                     *)
(***************************************************************************)
EXTENDS WriteGate

CONSTANTS
  MaxTurns,  \* bound on turns
  MaxQueue,  \* bound on the host's event queue: who sends waits for room
  MayFail    \* whether writes may fail

ASSUME TurnAssumption == MaxTurns \in Nat /\ MaxQueue \in Nat /\ MayFail \in BOOLEAN

VARIABLES
  task,      \* the tasks of the turns dispatched so far
  streaming, \* conversations shown as streaming
  inReview,  \* conversations with a turn review pending
  handle,    \* acp_tasks: the turn whose handle is held, 0 if none
  overlay,   \* diff_review: the proposal on screen, 0 if none
  rows,      \* batch_review
  finals, releases \* gate calls of the host not yet run

hostVars == <<streaming, inReview, handle, overlay, rows, finals, releases>>
vars == <<gateVars, task, hostVars>>

Turns == DOMAIN task
Free == [st |-> "free"]
Active(t) == task[t].phase \notin {"done", "aborted"}
Room == Len(events) < MaxQueue
Message(c) == [kind |-> "message", conv |-> c]
IsOf(e, c) == "conv" \in DOMAIN e /\ e.conv = c

Init ==
  /\ GateInit
  /\ task = <<>> /\ streaming = {} /\ inReview = {} /\ handle = [c \in Convs |-> 0]
  /\ overlay = 0 /\ rows = <<>> /\ finals = {} /\ releases = {}

----------------------------------------------------------------------------
(* The host dispatches.  alone: no other turn of the conversation is on its
   way, nor anything one has told the host. *)
Dispatch(c) ==
  /\ c \notin streaming \cup inReview /\ Len(task) < MaxTurns
  /\ task' = Append([t \in Turns |-> IF task[t].conv = c THEN [task[t] EXCEPT !.alone = FALSE] ELSE task[t]],
       [conv |-> c, phase |-> "spawned", captured |-> FALSE, cancelled |-> FALSE,
        alone |-> /\ \A t \in Turns : task[t].conv = c => ~Active(t)
                  /\ \A i \in DOMAIN events : ~IsOf(events[i], c),
        offer |-> Free, batch |-> <<>>])
  /\ streaming' = streaming \cup {c}
  /\ handle' = [handle EXCEPT ![c] = Len(task) + 1]
  /\ UNCHANGED <<gateVars, inReview, overlay, rows, finals, releases>>

Moves(t, phase) == task' = [task EXCEPT ![t].phase = phase]
SetMode(t, mode) == convMode' = [convMode EXCEPT ![task[t].conv] = mode]

StartDeferred(t) ==
  /\ task[t].phase = "spawned" /\ Moves(t, "begin") /\ SetMode(t, "Deferred")
  /\ UNCHANGED <<active, deferred, hold, prop, nextId, disk, events, hostVars>>

(* The turn is captured, or, if that fails, left to the gate. *)
Begin(t) ==
  /\ task[t].phase = "begin"
  /\ \/ task' = [task EXCEPT ![t].phase = "send", ![t].captured = TRUE] /\ SetMode(t, "AutoAccept")
     \/ Moves(t, "send") /\ UNCHANGED convMode
  /\ UNCHANGED <<active, deferred, hold, prop, nextId, disk, events, hostVars>>

Offer(t) == task[t].offer
SetOffer(t, o) == task' = [task EXCEPT ![t].offer = o]

(* propose_write, first lock: who else proposes for the file, and an id. *)
Ask(t) ==
  /\ task[t].phase = "send" /\ Offer(t) = Free /\ nextId \in Ids
  /\ \E new \in Offers : SetOffer(t, [st |-> "asked", id |-> nextId, new |-> new, peers |-> Known])
  /\ nextId' = nextId + 1
  /\ UNCHANGED <<active, deferred, hold, prop, convMode, disk, events, hostVars>>

(* It reads the file, outside the lock; nothing to propose if nothing changes. *)
Read(t) ==
  /\ Offer(t).st = "asked"
  /\ SetOffer(t, IF Original = Offer(t).new THEN Free
                 ELSE [st |-> "read", id |-> Offer(t).id, new |-> Offer(t).new,
                       peers |-> Offer(t).peers, base |-> Original])
  /\ UNCHANGED <<gateVars, hostVars>>

(* Second lock; an auto-accepted write is still to be done, outside it. *)
Propose(t) ==
  LET o == Offer(t)
      c == task[t].conv
  IN /\ o.st = "read" /\ Room
     /\ Insert(o.id, [conv |-> c, turn |-> t, base |-> o.base, new |-> o.new,
                      status |-> "Pending", links |-> o.peers], o.peers)
     /\ SetOffer(t, IF convMode[c] = "AutoAccept" THEN [st |-> "write", new |-> o.new] ELSE Free)
     /\ UNCHANGED <<hostVars>>

AutoWrite(t) ==
  /\ Offer(t).st = "write" /\ disk' = Offer(t).new /\ SetOffer(t, Free)
  /\ UNCHANGED <<active, deferred, hold, prop, convMode, nextId, events, hostVars>>

(* The final message, or any other, in the middle of the turn.  As a bound, a
   conversation has one such message on its way at a time. *)
Unsent(e) == \A i \in DOMAIN events : events[i] # e
Say(t) ==
  /\ task[t].phase = "send" /\ Room /\ Unsent(Message(task[t].conv))
  /\ events' = Append(events, Message(task[t].conv))
  /\ UNCHANGED <<active, deferred, hold, prop, convMode, nextId, disk, task, hostVars>>

(* send_turn returns, with or without an error to report. *)
Returns(t) ==
  /\ task[t].phase = "send" /\ Offer(t) = Free /\ Room /\ Moves(t, "closing")
  /\ \/ UNCHANGED events
     \/ events' = Append(events, Message(task[t].conv))
  /\ UNCHANGED <<active, deferred, hold, prop, convMode, nextId, disk, hostVars>>

(* The cancelled task drops the session; a write it was at may still land. *)
MayStillLand(t) == UNCHANGED disk \/ (Offer(t).st = "write" /\ disk' = Offer(t).new)
SeesCancel(t) ==
  /\ task[t].phase = "send" /\ task[t].cancelled /\ Room
  /\ task' = [task EXCEPT ![t].phase = "closing", ![t].offer = Free]
  /\ MayStillLand(t)
  /\ events' = Append(events, Message(task[t].conv))
  /\ UNCHANGED <<active, deferred, hold, prop, convMode, nextId, hostVars>>

(* The end scan: its warnings are messages, what changed is a review. *)
CaptureEnds(t) ==
  LET c == task[t].conv
  IN /\ task[t].phase = "closing" /\ Room
     /\ task' = [task EXCEPT ![t].phase = "drain", ![t].captured = FALSE]
     /\ \E warned, changed \in (IF task[t].captured THEN BOOLEAN ELSE {FALSE}) :
          events' = events \o (IF warned THEN <<Message(c)>> ELSE <<>>)
                           \o (IF changed THEN <<[kind |-> "review", conv |-> c]>> ELSE <<>>)
     /\ UNCHANGED <<active, deferred, hold, prop, convMode, nextId, disk, hostVars>>

Row(i) == [id |-> i, links |-> prop[i].links, superseded |-> prop[i].status = "Superseded"]
Rows(c) == [k \in DOMAIN deferred[c] |-> Row(deferred[c][k])]

(* One lock: what was deferred is taken, the override goes. *)
DrainUnlessCancelled(t) ==
  /\ task[t].phase = "drain"
  /\ LET c == task[t].conv
     IN IF task[t].cancelled
        THEN /\ task' = [task EXCEPT ![t].phase = "tell"]
             /\ convMode' = [convMode EXCEPT ![c] = "Interactive"] /\ UNCHANGED <<deferred, hold>>
        ELSE /\ task' = [task EXCEPT ![t].phase = "tell",
                                     ![t].batch = Rows(c)]
             /\ Take(c)
  /\ UNCHANGED <<active, prop, nextId, disk, events, hostVars>>
Drain(t) ==
  LET c == task[t].conv
  IN /\ task[t].phase = "drain"
     /\ task' = [task EXCEPT ![t].phase = "tell",
                             ![t].batch = Rows(c)]
     /\ Take(c)
     /\ UNCHANGED <<active, prop, nextId, disk, events, hostVars>>

Tell(t) ==
  LET c == task[t].conv
  IN /\ task[t].phase = "tell" /\ Room
     /\ task' = [task EXCEPT ![t].phase = "done", ![t].batch = <<>>]
     /\ events' = events \o (IF task[t].batch = <<>> THEN <<>> ELSE <<[kind |-> "batch", conv |-> c, rows |-> task[t].batch]>>)
                         \o <<[kind |-> "finished", conv |-> c]>>
     /\ UNCHANGED <<active, deferred, hold, prop, convMode, nextId, disk, hostVars>>

----------------------------------------------------------------------------
(* The host's event loop. *)
Next1 == Head(events)
Taken == events' = Tail(events)
RowIds(rs) == {rs[k].id : k \in DOMAIN rs}
gateKept == <<active, deferred, hold, prop, convMode, nextId, events>>
gateRest == <<active, deferred, hold, prop, convMode, nextId, disk>>

(* enter_review_mode: ignored while another proposal is on screen. *)
OnCreated ==
  /\ Next1.kind = "created" /\ Taken
  /\ overlay' = IF overlay = 0 THEN Next1.id ELSE overlay
  /\ UNCHANGED <<gateRest, task, streaming, inReview, handle, rows, finals, releases>>

(* sync_batch_proposal_from_gate: asks the gate and sends itself the answer. *)
OnUpdated ==
  /\ Next1.kind = "updated"
  /\ events' = IF rows # <<>> /\ Next1.id \in Known
               THEN Append(Tail(events), [kind |-> "synced", row |-> Row(Next1.id)]) ELSE Tail(events)
  /\ UNCHANGED <<gateRest, task, hostVars>>

(* apply_batch_proposal_sync: the gate's links and verdict replace the row's. *)
OnSynced ==
  /\ Next1.kind = "synced" /\ Taken
  /\ LET new == Next1.row
     IN rows' = [k \in DOMAIN rows |->
          IF rows[k].id = new.id THEN new
          ELSE IF new.id \in rows[k].links
          THEN [rows[k] EXCEPT !.links = @ \cup (new.links \ {rows[k].id})] ELSE rows[k]]
  /\ UNCHANGED <<gateRest, task, streaming, inReview, handle, overlay, finals, releases>>

(* enter_batch_review: merged with what is listed already, and as all rows are
   for one file, all are linked. *)
AllLinked(rs) == [k \in DOMAIN rs |-> [rs[k] EXCEPT !.links = @ \cup (RowIds(rs) \ {rs[k].id})]]
MergedReplace(old, new) == AllLinked(new)
Unlisted(old, new) ==
  IF RowIds(old) \cap RowIds(new) = {} THEN new ELSE SelectSeq(new, LAMBDA r : r.id \notin RowIds(old))
Merged(old, new) == AllLinked(old \o Unlisted(old, new))
OnBatch ==
  /\ Next1.kind = "batch" /\ Taken /\ rows' = Merged(rows, Next1.rows)
  /\ UNCHANGED <<gateRest, task, streaming, inReview, handle, overlay, finals, releases>>

(* finalize_message_to: whatever the message, nothing streams any more. *)
OnMessage ==
  /\ Next1.kind = "message" /\ Taken /\ streaming' = streaming \ {Next1.conv}
  /\ UNCHANGED <<gateRest, task, inReview, handle, overlay, rows, finals, releases>>

OnReview ==
  /\ Next1.kind = "review" /\ Taken /\ inReview' = inReview \cup {Next1.conv}
  /\ UNCHANGED <<gateRest, task, streaming, handle, overlay, rows, finals, releases>>

OnFinishedAll ==
  /\ Next1.kind = "finished" /\ Taken /\ handle' = [c \in Convs |-> 0]
  /\ UNCHANGED <<gateRest, task, streaming, inReview, overlay, rows, finals, releases>>
OnFinished ==
  /\ Next1.kind = "finished" /\ Taken /\ handle' = [handle EXCEPT ![Next1.conv] = 0]
  /\ UNCHANGED <<gateRest, task, streaming, inReview, overlay, rows, finals, releases>>

HostEvent == /\ events # <<>>
             /\ \/ OnCreated \/ OnUpdated \/ OnSynced \/ OnBatch
                \/ OnMessage \/ OnReview \/ OnFinished

----------------------------------------------------------------------------
(* The user. *)

(* cancel_agent_conv: first the token, then the axe, which falls at the task's
   next await; past the drain it has none. *)
Cancel(c) ==
  LET t == handle[c]
  IN /\ t # 0 /\ streaming' = streaming \ {c}
     /\ \/ /\ ~task[t].cancelled /\ task' = [task EXCEPT ![t].cancelled = TRUE]
           /\ UNCHANGED <<handle, disk>>
        \/ /\ task[t].cancelled /\ handle' = [handle EXCEPT ![c] = 0]
           /\ task' = IF task[t].phase \in {"tell", "done"} THEN task
                      ELSE [task EXCEPT ![t].phase = "aborted", ![t].offer = Free]
           /\ MayStillLand(t)
     /\ UNCHANGED <<gateKept, inReview, overlay, rows, finals, releases>>

TurnReviewed(c) ==
  /\ c \in inReview /\ inReview' = inReview \ {c}
  /\ UNCHANGED <<gateVars, task, streaming, handle, overlay, rows, finals, releases>>

Edit ==
  /\ \E c \in (Contents \cup {Absent}) \ {disk} : disk' = c
  /\ UNCHANGED <<active, deferred, hold, prop, convMode, nextId, events, task, hostVars>>

(* A write of the host: done, refused, or failed. *)
Applies(expected, content) ==
  \/ Written(expected, content)
  \/ Refused(expected)
  \/ MayFail /\ UNCHANGED disk

(* finalize_current_review, and finalize_gate_proposal for the remote client:
   the gate is told whatever came of the write. *)
FinishSingle(id, rejected) ==
  /\ Applies(ExpectedSingle(id), Final(id, rejected)) /\ finals' = finals \cup {id}
  /\ UNCHANGED <<active, deferred, hold, prop, convMode, nextId, events, task,
                 streaming, inReview, handle, rows, releases>>
OverlayFinish == overlay # 0 /\ overlay' = 0 /\ \E rejected \in BOOLEAN : FinishSingle(overlay, rejected)
OverlayDismiss ==
  /\ overlay # 0 /\ overlay' = 0
  /\ UNCHANGED <<gateVars, task, streaming, inReview, handle, rows, finals, releases>>

(* apply_review_action on the gate's copy, refused for a superseded one.  As a
   bound, one update of a proposal is on its way at a time. *)
RemoteVerdict ==
  /\ Room
  /\ \E id \in active \ {overlay}, status \in {"Accepted", "Rejected"} :
       /\ prop[id].status \notin {"Superseded", status} /\ Unsent([kind |-> "updated", id |-> id])
       /\ Verdict(id, status)
  /\ UNCHANGED <<task, hostVars>>
RemoteFinish ==
  \E id \in active \ {overlay} :
    /\ prop[id].status # "Superseded" /\ FinishSingle(id, prop[id].status = "Rejected")
    /\ UNCHANGED overlay

GateFinalize ==
  \E id \in finals :
    /\ Room /\ Finalize(id) /\ finals' = finals \ {id}
    /\ UNCHANGED <<task, streaming, inReview, handle, overlay, rows, releases>>

ReleaseHold ==
  \E id \in releases :
    /\ hold' = hold \ {id} /\ releases' = releases \ {id}
    /\ prop' = [prop EXCEPT ![id] = Gone(id)]
    /\ UNCHANGED <<active, deferred, convMode, nextId, disk, events, task,
                   streaming, inReview, handle, overlay, rows, finals>>

(* The batch review. *)
Leave(k) == RemoveAt(rows, k)
Outvoted(rs, links) ==
  [k \in DOMAIN rs |-> IF rs[k].id \in links THEN [rs[k] EXCEPT !.superseded = TRUE] ELSE rs[k]]
batchRest == <<active, deferred, hold, prop, convMode, nextId, events, task,
               streaming, inReview, handle, overlay, finals>>

(* 'a': refused for a superseded row or a stale file; a write that failed
   settles the row like one that succeeded. *)
RowAccept(k) ==
  LET r == rows[k]
  IN /\ ~r.superseded
     /\ Written(ExpectedBatch(r.id), prop[r.id].new) \/ (MayFail /\ UNCHANGED disk)
     /\ rows' = Outvoted(Leave(k), r.links) /\ releases' = releases \cup {r.id}
     /\ UNCHANGED batchRest

RowRejectKeeps(k) ==
  rows' = Leave(k) /\ UNCHANGED <<disk, batchRest, releases>>
RowReject(k) ==
  rows' = Leave(k) /\ releases' = releases \cup {rows[k].id} /\ UNCHANGED <<disk, batchRest>>

(* 'f': a row that no earlier winner has a link to wins, and is written unless
   a winner has a link to it. *)
Wins[k \in Nat] ==
  ~rows[k].superseded /\ \A j \in 1..(k - 1) : Wins[j] => rows[k].id \notin rows[j].links
Applied == {k \in DOMAIN rows : Wins[k] /\ \A j \in DOMAIN rows : Wins[j] => rows[k].id \notin rows[j].links}
AfterRow(k, d) ==
  IF k \notin Applied THEN {d}
  ELSE {IF d = ExpectedBatch(rows[k].id) THEN prop[rows[k].id].new ELSE d} \cup (IF MayFail THEN {d} ELSE {})
BatchApply ==
  /\ rows # <<>> /\ rows' = <<>> /\ releases' = releases \cup RowIds(rows) /\ UNCHANGED batchRest
  /\ \E d \in [0..Len(rows) -> Contents \cup {Absent}] :
       d[0] = disk /\ disk' = d[Len(rows)] /\ \A k \in DOMAIN rows : d[k] \in AfterRow(k, d[k - 1])

BatchCancel ==
  /\ rows # <<>> /\ rows' = <<>> /\ releases' = releases \cup RowIds(rows)
  /\ UNCHANGED <<disk, batchRest>>

Turn(t) ==
  \/ StartDeferred(t) \/ Begin(t) \/ Ask(t) \/ Read(t) \/ Propose(t) \/ AutoWrite(t)
  \/ Say(t) \/ Returns(t) \/ SeesCancel(t) \/ CaptureEnds(t) \/ Drain(t) \/ Tell(t)
User ==
  \/ \E c \in Convs : Dispatch(c) \/ Cancel(c) \/ TurnReviewed(c)
  \/ Edit \/ OverlayFinish \/ OverlayDismiss \/ RemoteVerdict \/ RemoteFinish
  \/ \E k \in DOMAIN rows : RowAccept(k) \/ RowReject(k)
  \/ BatchApply \/ BatchCancel
Next == (\E t \in Turns : Turn(t)) \/ HostEvent \/ User \/ GateFinalize \/ ReleaseHold

Spec == Init /\ [][Next]_vars

----------------------------------------------------------------------------
Phases == {"spawned", "begin", "send", "closing", "drain", "tell", "done", "aborted"}
RowType == [id : Ids, links : SUBSET Ids, superseded : BOOLEAN]

TypeOK ==
  /\ active \subseteq Ids /\ deferred \in [Convs -> Seq(Ids)] /\ hold \subseteq Ids /\ Apart
  /\ prop \in [Ids -> Proposal \cup {<<>>}] /\ convMode \in [Convs -> Modes]
  /\ nextId \in 1..(MaxProps + 1) /\ disk \in Contents \cup {Absent}
  /\ streaming \subseteq Convs /\ inReview \subseteq Convs /\ handle \in [Convs -> 0..MaxTurns]
  /\ overlay \in {0} \cup Ids /\ ToSet(rows) \subseteq RowType
  /\ finals \subseteq Ids /\ releases \subseteq Ids
  /\ Len(task) <= MaxTurns
  /\ \A t \in Turns : /\ task[t].conv \in Convs /\ task[t].phase \in Phases
                      /\ ToSet(task[t].batch) \subseteq RowType

(* Batches that were taken from the gate and are not listed yet. *)
InFlight ==
  UNION ({RowIds(task[t].batch) : t \in Turns}
         \cup {RowIds(events[i].rows) : i \in {j \in DOMAIN events : events[j].kind = "batch"}})

(* What the gate holds as under review is what the host lists, is about to list
   or is about to release: a proposal dropped from the gate too early is not
   paired with later ones for its file, one kept too long conflicts for ever
   (write_gate.rs:55, review.rs:578). *)
HeldIffShown == hold = RowIds(rows) \cup InFlight \cup releases

(* A turn that ended leaves nothing deferred behind, however it ended; only one
   that was aborted does (side_panel.rs:3233). *)
EndedTurnsDrained ==
  \A i \in Queued : task[prop[i].turn].phase \in {"send", "closing", "drain", "aborted"}

(* A turn that has its conversation to itself never has a proposal pop up for
   review, whatever turns of other conversations begin and end meanwhile
   (write_gate.rs:50). *)
NoSurpriseModal == \A i \in active : ~task[prop[i].turn].alone

(* A turn that has its conversation to itself can be cancelled until it ends
   (side_panel.rs:3404, controller.rs:922). *)
CancelReaches ==
  \A t \in Turns : task[t].alone /\ Active(t) /\ ~task[t].cancelled => handle[task[t].conv] = t

(* Proposals under review, as the user is promised: see ReviewInbox. *)
Waiting == Queued \cup (InFlight \ RowIds(rows))
Shown == active \cup RowIds(rows)
Closed == {i \in Ids : prop[i] # <<>>} \ (Waiting \cup Shown)
Inbox == INSTANCE ReviewInbox WITH waiting <- Waiting, shown <- Shown, closed <- Closed

(* Through drains, events out of step with the gate, merges and cancels, every
   proposal is listed before it is settled and settled at most once
   (write_gate.rs:325, review.rs:446). *)
InboxSpec == Inbox!Spec
=============================================================================
