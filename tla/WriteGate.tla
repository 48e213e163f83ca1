----------------------------- MODULE WriteGate -----------------------------
(***************************************************************************)
(* The write gate of gaviero-core (write_gate.rs) and the two ways into    *)
(* and out of it: propose_write (acp/client.rs) and the check before a     *)
(* reviewed proposal reaches the disk (gaviero-tui app/review.rs).         *)
(*                                                                         *)
(* One file is modelled: proposals for different files share nothing but   *)
(* the counter.  A proposal is one hunk, accepted or rejected as a whole,  *)
(* and never a deletion.  Scopes and the secrets rail are left out.        *)
(***************************************************************************)
EXTENDS Naturals, Sequences, FiniteSets, SequencesExt

CONSTANTS
  Convs,     \* conversations
  Contents,  \* what the file may hold
  Empty,     \* the content of an empty file
  Absent,    \* no file
  Offers,    \* what agents propose
  MaxProps   \* bound on proposals

Ids == 1..MaxProps

ASSUME GateAssumption ==
  /\ Empty \in Contents /\ Offers \subseteq Contents /\ Absent \notin Contents
  /\ MaxProps \in Nat

VARIABLES
  active,    \* proposals: open for review one by one
  deferred,  \* deferred_proposals of each conversation, in the order they came
  hold,      \* review_hold: handed to the batch review
  prop,      \* what the gate knows of each proposal it was given
  convMode,  \* conv_modes, "Interactive" where there is no override
  nextId,    \* next_id
  disk,      \* the file
  events     \* the host's event queue

gateVars == <<active, deferred, hold, prop, convMode, nextId, disk, events>>

Modes == {"Interactive", "AutoAccept", "Deferred"}
Statuses == {"Pending", "Accepted", "Rejected", "Superseded"}
Proposal == [conv : Convs, turn : Nat, base : Contents, new : Contents,
             status : Statuses, links : SUBSET Ids]

Queued == UNION {ToSet(deferred[c]) : c \in Convs}
Known == active \cup Queued \cup hold

(* A proposal is in one place of the gate at a time. *)
Apart ==
  /\ active \cap hold = {} /\ Queued \cap (active \cup hold) = {}
  /\ \A c, d \in Convs : \A i \in DOMAIN deferred[c], j \in DOMAIN deferred[d] :
       deferred[c][i] = deferred[d][j] => c = d /\ i = j

GateInit ==
  /\ active = {} /\ deferred = [c \in Convs |-> <<>>] /\ hold = {} /\ prop = [i \in Ids |-> <<>>]
  /\ convMode = [c \in Convs |-> "Interactive"] /\ nextId = 1
  /\ disk \in Contents \cup {Absent} /\ events = <<>>

(* What a proposer reads: a missing file is an empty one. *)
Original == IF disk = Absent THEN Empty ELSE disk

(* One event for each of S; nothing depends on their order. *)
Updates(S) ==
  {[k \in DOMAIN q |-> [kind |-> "updated", id |-> q[k]]] : q \in {p \in [1..Cardinality(S) -> S] : IsInjective(p)}}

(* mark_conflict_pair: those of the peers that are still anywhere learn of it. *)
Paired(id, peers) == {q \in peers : q \in Known /\ id \notin prop[q].links}
Linked(id, peers) ==
  [q \in Ids |-> IF q \in Paired(id, peers) THEN [prop[q] EXCEPT !.links = @ \cup {id}] ELSE prop[q]]

(* insert_proposal, by the mode the conversation has now, and the pairing. *)
Insert(id, p, peers) ==
  LET mode == convMode[p.conv]
  IN /\ active' = IF mode = "Interactive" THEN active \cup {id} ELSE active
     /\ deferred' = IF mode = "Deferred" THEN [deferred EXCEPT ![p.conv] = Append(@, id)] ELSE deferred
     /\ prop' = IF mode = "AutoAccept" THEN Linked(id, peers)
                ELSE [Linked(id, peers) EXCEPT ![id] = p]
     /\ \E updates \in Updates(Paired(id, peers)) :
          events' = events \o (IF mode = "Interactive" THEN <<[kind |-> "created", id |-> id]>> ELSE <<>>)
                           \o updates
     /\ UNCHANGED <<hold, convMode, nextId, disk>>

(* take_pending_proposals_for_conv and clear_conv_mode, under one lock. *)
Held(c) == hold' = hold \cup ToSet(deferred[c])
TakeFlipAll(c) ==
  /\ deferred' = [deferred EXCEPT ![c] = <<>>] /\ Held(c)
  /\ convMode' = [d \in Convs |-> "Interactive"]
TakeCopies(c) ==
  /\ deferred' = deferred /\ Held(c)
  /\ convMode' = [convMode EXCEPT ![c] = "Interactive"]
Take(c) ==
  /\ deferred' = [deferred EXCEPT ![c] = <<>>] /\ Held(c)
  /\ convMode' = [convMode EXCEPT ![c] = "Interactive"]

(* Of a proposal the gate has dropped, only what a copy of it needs is kept. *)
Gone(id) == [prop[id] EXCEPT !.status = "Pending", !.links = {}]

(* finalize: only an active proposal; whoever it conflicts with loses. *)
Losers(id) == (prop[id].links \cap Known) \ {id}
Finalize(id) ==
  /\ IF id \in active
     THEN /\ active' = active \ {id}
          /\ prop' = [q \in Ids |-> IF q \in Losers(id) THEN [prop[q] EXCEPT !.status = "Superseded"]
                                   ELSE IF q = id THEN Gone(q) ELSE prop[q]]
          /\ \E updates \in Updates(Losers(id)) : events' = events \o updates
     ELSE UNCHANGED <<active, prop, events>>
  /\ UNCHANGED <<deferred, hold, convMode, nextId, disk>>

(* accept_all and reject_all, for the remote client. *)
Verdict(id, status) ==
  /\ prop' = [prop EXCEPT ![id].status = status]
  /\ events' = Append(events, [kind |-> "updated", id |-> id])
  /\ UNCHANGED <<active, deferred, hold, convMode, nextId, disk>>

(* assemble_final_content: pending hunks count as accepted when it is written. *)
Final(id, rejected) == IF rejected THEN prop[id].base ELSE prop[id].new

(* apply_proposal_to_disk: refused when the file is not what was expected. *)
Written(expected, content) == disk = expected /\ disk' = content
Refused(expected) == disk # expected /\ UNCHANGED disk

(* What a single review and a batch review expect to find. *)
ExpectedSingle(id) == IF prop[id].base = Empty /\ disk = Absent THEN Absent ELSE prop[id].base
ExpectedBatch(id) == IF prop[id].base = Empty THEN Absent ELSE prop[id].base
=============================================================================
