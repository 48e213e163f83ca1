-------------------------- MODULE RelayNoteProofs --------------------------
(***************************************************************************)
(* Notes through the relay: for any bounds, and whatever order readers     *)
(* store and broadcast in, a stream that has caught up showed every note   *)
(* but those too old, lost by its queue, or overtaken; and the types of    *)
(* the whole relay.                                                        *)
(***************************************************************************)
EXTENDS RelayProofs, WellFoundedInduction

PushType == [id : Nat, st : {"idle", "store", "send"}]
StreamType == [on : BOOLEAN, ready : BOOLEAN, q : Seq(Nat), floor : Nat, epoch : Nat]

NoteTypes ==
  /\ push \in Seq(PushType) /\ Len(push) = Len(conn) /\ nextNote \in Nat \ {0}
  /\ stored \in Seq(Nat) /\ order \in Seq(Nat) /\ sent \in Seq(Nat)
  /\ gone \subseteq Nat /\ seen \subseteq Nat /\ lagged \subseteq Nat
  /\ stream \in StreamType /\ epoch \in Nat

(* A note's id is its own; it is stored, then broadcast once. *)
NoteIds ==
  /\ \A c \in DOMAIN push : push[c].st # "idle" => push[c].id \in 1..(nextNote - 1) /\ push[c].id \notin ToSet(sent)
  /\ \A c \in DOMAIN push : push[c].st = "send" => push[c].id \in ToSet(order)
  /\ \A c, d \in DOMAIN push :
       push[c].st # "idle" /\ push[d].st # "idle" /\ push[c].id = push[d].id => c = d
  /\ IsInjective(sent) /\ ToSet(sent) \subseteq ToSet(order) /\ ToSet(order) \subseteq 1..(nextNote - 1)
  /\ ToSet(order) \subseteq ToSet(stored) \cup gone /\ ToSet(stored) \subseteq ToSet(order)

(* A queue holds the end of what was broadcast: what came before is past. *)
EndOf(q, ids) == Len(q) <= Len(ids) /\ \A i \in DOMAIN q : q[i] = ids[Len(ids) - Len(q) + i]
Past == Len(sent) - Len(stream.q)
Passed == {sent[i] : i \in 1..Past}
Streaming ==
  /\ stream.epoch <= epoch
  /\ stream.ready => stream.on /\ stream.epoch = epoch
  /\ stream.epoch = epoch => stream.floor < nextNote
  /\ stream.on => EndOf(stream.q, sent)
  /\ ~stream.on => stream.q = <<>>

(* Note n is, or will be, after a greater one. *)
Late(n, ids) == \E j \in DOMAIN ids : ids[j] > n /\ \A k \in DOMAIN ids : ids[k] = n => k > j
Missed(n) == n \notin seen \cup gone \cup lagged /\ ~Late(n, order) /\ ~Late(n, sent)

(* Nothing below the floor was missed, and nothing that is past. *)
Reached ==
  /\ stream.epoch = epoch => \A n \in 1..stream.floor : ~Missed(n)
  /\ stream.ready => \A n \in Passed : ~Missed(n)

NoteInv == NoteTypes /\ NoteIds /\ Streaming /\ Reached
Rooms == Len(stored) <= NoteCap /\ Len(stream.q) <= LagCap

----------------------------------------------------------------------------
(* Numbers and sequences. *)

UpTo(T, n) == {m \in T : m <= n}

LEMMA Least ==
  ASSUME NEW T, T \subseteq Nat, T # {}
  PROVE  \E x \in T : \A y \in T : x <= y
<1> DEFINE F == {UpTo(T, n) : n \in T}
           R == StrictSubsetOrdering(Nat)
<1>1. ASSUME NEW n \in T
      PROVE  UpTo(T, n) \subseteq Nat /\ IsFiniteSet(UpTo(T, n))
  <2>1. n \in Nat /\ UpTo(T, n) \subseteq Nat /\ \A m \in UpTo(T, n) : m <= n
    BY DEF UpTo
  <2> QED BY <2>1, FS_BoundedSetOfNaturals
<1>2. F \subseteq FiniteSubsetsOf(Nat) /\ F # {}
  BY <1>1 DEF FiniteSubsetsOf
<1>3. \E X \in F : \A Y \in F : ~(<<Y, X>> \in R)
  <2> HIDE DEF F, R
  <2> QED BY <1>2, FS_StrictSubsetOrderingWellFounded, WFMin DEF R
<1>4. PICK x \in T : \A y \in T : ~(<<UpTo(T, y), UpTo(T, x)>> \in R)
  BY <1>3
<1>5. ASSUME NEW y \in T, y < x
      PROVE  FALSE
  <2>1. x \in Nat /\ y \in Nat
    OBVIOUS
  <2>2. UpTo(T, y) \subseteq UpTo(T, x)
    <3>1. ASSUME NEW m \in UpTo(T, y)
          PROVE  m \in UpTo(T, x)
      <4>1. m \in T /\ m \in Nat /\ m <= y
        BY DEF UpTo
      <4>2. m <= x
        BY <1>5, <2>1, <4>1
      <4> QED BY <4>1, <4>2 DEF UpTo
    <3> QED BY <3>1
  <2>3. x \in UpTo(T, x) /\ x \notin UpTo(T, y)
    BY <1>5, <2>1 DEF UpTo
  <2> QED BY <1>1, <1>4, <2>2, <2>3 DEF StrictSubsetOrdering
<1>6. \A y \in T : x <= y
  BY <1>5
<1> QED BY <1>6

LEMMA Greatest ==
  ASSUME NEW S, NEW b \in Nat, S \subseteq 0..b, S # {}
  PROVE  \E x \in S : \A y \in S : y <= x
<1> DEFINE T == {n \in 0..b : b - n \in S}
<1>1. T \subseteq Nat /\ T # {}
  <2>1. PICK x \in S : TRUE
    OBVIOUS
  <2>2. b - x \in T
    BY <2>1
  <2> QED BY <2>2
<1>2. PICK x \in T : \A y \in T : x <= y
  <2> HIDE DEF T
  <2> QED BY <1>1, Least
<1>3. \A y \in S : b - y \in T
  OBVIOUS
<1>4. b - x \in S /\ x \in 0..b
  OBVIOUS
<1>5. \A y \in S : y <= b - x
  BY <1>2, <1>3, <1>4
<1> QED BY <1>4, <1>5

LEMMA NewestOf ==
  ASSUME NEW S, NEW b \in Nat, S \subseteq 0..b, S # {}
  PROVE  Newest(S) \in S /\ \A m \in S : m <= Newest(S)
BY Greatest DEF Newest

LEMMA SetOfAppend ==
  ASSUME NEW S, NEW s \in Seq(S), NEW e \in S
  PROVE  ToSet(Append(s, e)) = ToSet(s) \cup {e}
<1>1. /\ DOMAIN Append(s, e) = DOMAIN s \cup {Len(s) + 1} /\ Append(s, e)[Len(s) + 1] = e
      /\ \A k \in DOMAIN s : Append(s, e)[k] = s[k]
  BY AppendOf
<1>2. ToSet(Append(s, e)) = {Append(s, e)[k] : k \in DOMAIN s \cup {Len(s) + 1}}
  BY <1>1 DEF ToSet
<1> QED BY <1>1, <1>2 DEF ToSet

LEMMA SetOfTail ==
  ASSUME NEW S, NEW s \in Seq(S), s # <<>>
  PROVE  ToSet(s) = ToSet(Tail(s)) \cup {Head(s)} /\ Head(s) \in S
<1>1. \A k \in DOMAIN Tail(s) : k \in Nat /\ k + 1 \in DOMAIN s /\ Tail(s)[k] = s[k + 1]
  BY TailOf
<1>2. \A k \in DOMAIN s : k = 1 \/ (k - 1 \in DOMAIN Tail(s) /\ s[k] = Tail(s)[k - 1])
  OBVIOUS
<1>3. 1 \in DOMAIN s /\ s[1] = Head(s) /\ s[1] \in S
  OBVIOUS
<1>4. ASSUME NEW x \in ToSet(s)
      PROVE  x = Head(s) \/ x \in ToSet(Tail(s))
  <2>1. PICK k \in DOMAIN s : x = s[k]
    BY DEF ToSet
  <2> QED BY <1>2, <1>3, <2>1 DEF ToSet
<1>5. ASSUME NEW x \in ToSet(Tail(s))
      PROVE  x \in ToSet(s)
  <2>1. PICK k \in DOMAIN Tail(s) : x = Tail(s)[k]
    BY DEF ToSet
  <2> QED BY <1>1, <2>1 DEF ToSet
<1>6. Head(s) \in ToSet(s)
  BY <1>3 DEF ToSet
<1> QED BY <1>3, <1>4, <1>5, <1>6

LEMMA StillLate ==
  ASSUME NEW ids \in Seq(Nat), NEW e \in Nat, NEW n \in Nat, Late(n, ids)
  PROVE  Late(n, Append(ids, e))
<1>1. PICK j \in DOMAIN ids : ids[j] > n /\ \A k \in DOMAIN ids : ids[k] = n => k > j
  BY DEF Late
<1>2. /\ DOMAIN Append(ids, e) = DOMAIN ids \cup {Len(ids) + 1}
      /\ \A k \in DOMAIN ids : Append(ids, e)[k] = ids[k]
  BY AppendOf
<1>3. Len(ids) + 1 > j
  OBVIOUS
<1>4. ASSUME NEW k \in DOMAIN Append(ids, e), Append(ids, e)[k] = n
      PROVE  k > j
  BY <1>1, <1>2, <1>3, <1>4
<1> QED BY <1>1, <1>2, <1>4 DEF Late

LEMMA LateIsBehind ==
  ASSUME NEW ids \in Seq(Nat), NEW n \in ToSet(ids), Late(n, ids)
  PROVE  Behind(n, ids)
BY DEF Late, Behind, ToSet

----------------------------------------------------------------------------
(* Steps. *)

Grown(ids, more) == more = ids \/ \E e \in Nat : more = Append(ids, e)

(* What was shown, dropped, lost or overtaken stays so. *)
LEMMA FewerMissed ==
  ASSUME NoteTypes, seen \subseteq seen', gone \subseteq gone', lagged \subseteq lagged',
         Grown(order, order'), Grown(sent, sent')
  PROVE  \A n \in Nat : Missed(n)' => Missed(n)
<1>1. ASSUME NEW n \in Nat, NEW ids \in Seq(Nat), NEW more, Grown(ids, more), Late(n, ids)
      PROVE  Late(n, more)
  BY <1>1, StillLate DEF Grown
<1>2. ASSUME NEW n \in Nat
      PROVE  /\ Late(n, order) => Late(n, order')
             /\ Late(n, sent) => Late(n, sent')
  BY <1>1 DEF NoteTypes
<1> QED BY <1>2 DEF Missed, Late

LEMMA PassedOf ==
  ASSUME sent \in Seq(Nat), stream.q \in Seq(Nat)
  PROVE  Passed \subseteq Nat /\ \A i \in 1..Past : i \in DOMAIN sent
<1>1. Past \in Int /\ Past <= Len(sent)
  BY DEF Past
<1>2. \A i \in 1..Past : i \in DOMAIN sent
  BY <1>1
<1> QED BY <1>2 DEF Passed

LEMMA StreamStays ==
  ASSUME NoteTypes, Streaming, Reached, UNCHANGED <<sent, stream, seen, lagged, epoch>>,
         nextNote' \in Nat, nextNote <= nextNote', gone \subseteq gone', Grown(order, order')
  PROVE  Streaming' /\ Reached'
<1>1. \A n \in Nat : Missed(n)' => Missed(n)
  BY FewerMissed DEF Grown
<1>2. stream.floor \in Nat /\ nextNote \in Nat /\ sent \in Seq(Nat) /\ stream.q \in Seq(Nat)
  BY DEF NoteTypes, StreamType
<1>3. Past' = Past /\ Past \in Int
  BY <1>2 DEF Past
<1>4. Streaming'
  BY <1>2, <1>3 DEF Streaming, EndOf
<1>5. \A n \in 1..stream.floor : n \in Nat
  BY <1>2
<1>6. stream.ready => Passed \subseteq Nat
  BY <1>2, <1>3, PassedOf
<1>7. stream.epoch' = epoch' => \A n \in 1..stream.floor' : ~Missed(n)'
  BY <1>1, <1>5 DEF Reached
<1>8. stream.ready' => \A n \in Passed' : ~Missed(n)'
  BY <1>1, <1>3, <1>6 DEF Reached, Passed
<1> QED BY <1>4, <1>7, <1>8 DEF Reached

(* The readers' notes, when reader c's changes. *)
LEMMA PushOf ==
  ASSUME NoteTypes, NEW c \in DOMAIN push, NEW p \in PushType, push' = [push EXCEPT ![c] = p]
  PROVE  /\ push' \in Seq(PushType) /\ Len(push') = Len(push) /\ DOMAIN push' = DOMAIN push
         /\ push'[c] = p /\ \A d \in DOMAIN push : d # c => push'[d] = push[d]
BY DEF NoteTypes

LEMMA NotesConnect ==
  ASSUME NoteInv, OwnerTypes, OwnerTypes', NEW r \in Routes, Connect(r)
  PROVE  NoteInv'
<1>1. /\ push' = Append(push, NoPush) /\ \E b \in ConnType : conn' = Append(conn, b)
      /\ UNCHANGED <<nextNote, stored, order, sent, gone, stream, seen, lagged, epoch>>
  <2> DEFINE b == [route |-> r, link |-> TRUE, host |-> TRUE, relay |-> "open",
                   up |-> <<"register">>, down |-> <<>>]
  <2>1. conn' = Append(conn, b)
    BY DEF Connect
  <2>2. b \in ConnType
    <3>1. <<"register">> \in Ups
      BY DEF Ups
    <3> QED BY <3>1, EmptyQueues DEF ConnType, Ups, Downs
  <2> HIDE DEF b
  <2> QED BY <2>1, <2>2 DEF Connect
<1>2. NoPush \in PushType /\ NoPush.st = "idle"
  BY DEF NoPush, PushType
<1>3. Len(conn') = Len(conn) + 1
  BY <1>1 DEF OwnerTypes
<1>4. /\ push' \in Seq(PushType) /\ Len(push') = Len(push) + 1
      /\ DOMAIN push' = DOMAIN push \cup {Len(push) + 1}
      /\ push'[Len(push) + 1] = NoPush /\ \A d \in DOMAIN push : push'[d] = push[d]
  BY <1>1, <1>2, AppendOf DEF NoteInv, NoteTypes
<1>5. NoteTypes'
  BY <1>1, <1>3, <1>4 DEF NoteInv, NoteTypes
<1>6. \A d \in DOMAIN push' : push'[d].st # "idle" => d \in DOMAIN push /\ push'[d] = push[d]
  BY <1>2, <1>4
<1>7. NoteIds'
  BY <1>1, <1>6 DEF NoteInv, NoteIds
<1>8. Streaming' /\ Reached'
  BY <1>1, StreamStays DEF NoteInv, NoteTypes, Grown
<1> QED BY <1>5, <1>7, <1>8 DEF NoteInv

LEMMA NotesAllot ==
  ASSUME NoteInv, OwnerTypes, NEW c \in Conns, Allot(c)
  PROVE  NoteInv'
<1> DEFINE p == [id |-> nextNote, st |-> "store"]
<1>1. /\ push' = [push EXCEPT ![c] = p] /\ nextNote' = nextNote + 1 /\ c \in DOMAIN push /\ p \in PushType
      /\ UNCHANGED <<stored, order, sent, gone, stream, seen, lagged, epoch>>
  BY DEF Allot, NoteInv, NoteTypes, OwnerTypes, Conns, PushType
<1>2. Len(conn') = Len(conn)
  BY Steps, Altered
<1>3. p.id = nextNote /\ p.st = "store"
  OBVIOUS
<1> HIDE DEF p
<1>4. /\ push' \in Seq(PushType) /\ Len(push') = Len(push) /\ DOMAIN push' = DOMAIN push
      /\ push'[c] = p /\ \A d \in DOMAIN push : d # c => push'[d] = push[d]
  BY <1>1, PushOf DEF NoteInv
<1>5. nextNote \in Nat \ {0} /\ nextNote' \in Nat \ {0} /\ nextNote <= nextNote'
  BY <1>1 DEF NoteInv, NoteTypes
<1>6. NoteTypes'
  BY <1>1, <1>2, <1>4, <1>5 DEF NoteInv, NoteTypes
<1>7. \A n \in 1..(nextNote - 1) : n \in 1..(nextNote' - 1) /\ n # nextNote
  BY <1>1, <1>5
<1>8. nextNote \in 1..(nextNote' - 1) /\ nextNote \notin 1..(nextNote - 1)
  BY <1>1, <1>5
<1>9. NoteIds'
  BY <1>1, <1>3, <1>4, <1>7, <1>8 DEF NoteInv, NoteIds
<1>10. Streaming' /\ Reached'
  BY <1>1, <1>5, StreamStays DEF NoteInv, Grown
<1> QED BY <1>6, <1>9, <1>10 DEF NoteInv


LEMMA KeptOf ==
  ASSUME NEW s \in Seq(Nat), NEW e \in Nat, Len(s) <= NoteCap
  PROVE  LET all == Append(s, e)
         IN /\ Kept(all) \in Seq(Nat) /\ Len(Kept(all)) <= NoteCap
            /\ ToSet(Kept(all)) \subseteq ToSet(s) \cup {e} /\ ToSet(all) = ToSet(s) \cup {e}
<1> DEFINE all == Append(s, e)
<1>1. all \in Seq(Nat) /\ Len(all) = Len(s) + 1 /\ ToSet(all) = ToSet(s) \cup {e}
  BY SetOfAppend
<1> HIDE DEF all
<1>2. NoteCap \in Nat /\ Len(s) \in Nat
  BY RelayAssumption
<1>3. all # <<>>
  BY <1>1, <1>2
<1>4. Tail(all) \in Seq(Nat) /\ Len(Tail(all)) = Len(all) - 1 /\ ToSet(Tail(all)) \subseteq ToSet(all)
  BY <1>1, <1>3, SetOfTail
<1> QED BY <1>1, <1>2, <1>4 DEF Kept, all

LEMMA NotesStore ==
  ASSUME NoteInv, Len(stored) <= NoteCap, OwnerTypes, NEW c \in Conns, Store(c)
  PROVE  NoteInv' /\ Len(stored') <= NoteCap
<1> DEFINE id == push[c].id
           p == [push[c] EXCEPT !.st = "send"]
           all == Append(stored, id)
<1>1. /\ push[c].st = "store" /\ stored' = Kept(all) /\ gone' = gone \cup (ToSet(all) \ ToSet(Kept(all)))
      /\ order' = Append(order, id) /\ push' = [push EXCEPT ![c] = p]
      /\ UNCHANGED <<conn, nextNote, sent, stream, seen, lagged, epoch>>
  BY DEF Store, hostVars
<1>2. c \in DOMAIN push /\ push[c] \in PushType /\ id \in Nat
  <2>1. c \in DOMAIN push /\ push[c] \in PushType
    BY DEF NoteInv, NoteTypes, OwnerTypes, Conns
  <2> QED BY <2>1 DEF PushType
<1>3. p \in PushType /\ p.id = id /\ p.st = "send"
  BY <1>2 DEF PushType
<1>4. /\ Kept(all) \in Seq(Nat) /\ Len(Kept(all)) <= NoteCap
      /\ ToSet(Kept(all)) \subseteq ToSet(stored) \cup {id} /\ ToSet(all) = ToSet(stored) \cup {id}
  BY <1>2, KeptOf DEF NoteInv, NoteTypes
<1>5. order' \in Seq(Nat) /\ ToSet(order') = ToSet(order) \cup {id}
  <2>1. order \in Seq(Nat)
    BY DEF NoteInv, NoteTypes
  <2> HIDE DEF id
  <2> QED BY <1>1, <1>2, <2>1, AppendOf, SetOfAppend
<1>6. id \in 1..(nextNote - 1) /\ id \notin ToSet(sent)
  BY <1>1, <1>2 DEF NoteInv, NoteIds
<1> HIDE DEF id, p, all
<1>7. /\ push' \in Seq(PushType) /\ Len(push') = Len(push) /\ DOMAIN push' = DOMAIN push
      /\ push'[c] = p /\ \A d \in DOMAIN push : d # c => push'[d] = push[d]
  BY <1>1, <1>2, <1>3, PushOf DEF NoteInv
<1>8. gone' \subseteq Nat /\ gone \subseteq gone' /\ ToSet(stored') \cup gone' = ToSet(stored) \cup gone \cup {id}
  <2>1. ToSet(stored) \subseteq Nat
    BY DEF NoteInv, NoteTypes, ToSet
  <2> QED BY <1>1, <1>2, <1>4, <2>1 DEF NoteInv, NoteTypes
<1>9. NoteTypes'
  BY <1>1, <1>4, <1>5, <1>7, <1>8 DEF NoteInv, NoteTypes
<1>10. NoteIds'
  <2>1. \A d \in DOMAIN push : push'[d].id = push[d].id /\ (push'[d].st # "idle" <=> push[d].st # "idle")
    BY <1>1, <1>3, <1>7 DEF id
  <2>2. /\ ToSet(order') \subseteq 1..(nextNote' - 1) /\ ToSet(sent') \subseteq ToSet(order')
        /\ ToSet(order') \subseteq ToSet(stored') \cup gone' /\ ToSet(stored') \subseteq ToSet(order')
    BY <1>1, <1>4, <1>5, <1>6, <1>8 DEF NoteInv, NoteIds
  <2>3. \A d \in DOMAIN push' : push'[d].st = "send" => push'[d].id \in ToSet(order')
    BY <1>3, <1>5, <1>7 DEF NoteInv, NoteIds
  <2> QED BY <1>1, <1>7, <2>1, <2>2, <2>3 DEF NoteInv, NoteIds
<1>11. Streaming' /\ Reached'
  <2>1. Grown(order, order')
    BY <1>1, <1>2 DEF Grown
  <2> QED BY <1>1, <1>8, <2>1, StreamStays DEF NoteInv, NoteTypes
<1> QED BY <1>1, <1>4, <1>9, <1>10, <1>11 DEF NoteInv

LEMMA NotesExpire ==
  ASSUME NoteInv, Len(stored) <= NoteCap, Expire
  PROVE  NoteInv' /\ Len(stored') <= NoteCap
<1>1. /\ stored # <<>> /\ stored' = Tail(stored) /\ gone' = gone \cup {Head(stored)}
      /\ UNCHANGED <<conn, push, nextNote, order, sent, stream, seen, lagged, epoch>>
  BY DEF Expire, hostVars
<1>2. /\ ToSet(stored) = ToSet(stored') \cup {Head(stored)} /\ Head(stored) \in Nat
      /\ stored' \in Seq(Nat) /\ Len(stored') <= NoteCap
  <2>1. stored' \in Seq(Nat) /\ Len(stored') = Len(stored) - 1 /\ Len(stored) \in Nat /\ NoteCap \in Nat
    BY <1>1, RelayAssumption DEF NoteInv, NoteTypes
  <2> QED BY <1>1, <2>1, SetOfTail DEF NoteInv, NoteTypes
<1>3. NoteTypes'
  BY <1>1, <1>2 DEF NoteInv, NoteTypes
<1>4. NoteIds'
  BY <1>1, <1>2 DEF NoteInv, NoteIds
<1>5. Streaming' /\ Reached'
  BY <1>1, StreamStays DEF NoteInv, NoteTypes, Grown
<1> QED BY <1>2, <1>3, <1>4, <1>5 DEF NoteInv

LEMMA InjectiveAppend ==
  ASSUME NEW s \in Seq(Nat), NEW e \in Nat \ ToSet(s), IsInjective(s)
  PROVE  IsInjective(Append(s, e))
<1>1. /\ DOMAIN Append(s, e) = DOMAIN s \cup {Len(s) + 1} /\ Append(s, e)[Len(s) + 1] = e
      /\ \A k \in DOMAIN s : Append(s, e)[k] = s[k]
  BY AppendOf
<1>2. \A k \in DOMAIN s : s[k] # e
  BY DEF ToSet
<1> QED BY <1>1, <1>2 DEF IsInjective


LEMMA EndAppend ==
  ASSUME NEW q \in Seq(Nat), NEW ids \in Seq(Nat), NEW e \in Nat, EndOf(q, ids)
  PROVE  /\ EndOf(Append(q, e), Append(ids, e))
         /\ Append(q, e) \in Seq(Nat) /\ Len(Append(q, e)) = Len(q) + 1
         /\ Append(ids, e) \in Seq(Nat) /\ Len(Append(ids, e)) = Len(ids) + 1
         /\ \A i \in 1..Len(ids) : Append(ids, e)[i] = ids[i]
<1>1. /\ Append(q, e) \in Seq(Nat) /\ Len(Append(q, e)) = Len(q) + 1 /\ Append(q, e)[Len(q) + 1] = e
      /\ DOMAIN Append(q, e) = DOMAIN q \cup {Len(q) + 1} /\ \A k \in DOMAIN q : Append(q, e)[k] = q[k]
  BY AppendOf
<1>2. /\ Append(ids, e) \in Seq(Nat) /\ Len(Append(ids, e)) = Len(ids) + 1 /\ Append(ids, e)[Len(ids) + 1] = e
      /\ \A k \in DOMAIN ids : Append(ids, e)[k] = ids[k]
  BY AppendOf
<1>3. Len(q) \in Nat /\ Len(ids) \in Nat /\ DOMAIN q = 1..Len(q) /\ DOMAIN ids = 1..Len(ids) /\ Len(q) <= Len(ids)
  BY DEF EndOf
<1>4. ASSUME NEW i \in DOMAIN Append(q, e)
      PROVE  Append(q, e)[i] = Append(ids, e)[Len(ids) - Len(q) + i]
  <2>1. CASE i = Len(q) + 1
    <3>1. Len(ids) - Len(q) + i = Len(ids) + 1
      BY <1>3, <2>1
    <3> QED BY <1>1, <1>2, <2>1, <3>1
  <2>2. CASE i \in DOMAIN q
    <3>1. Len(ids) - Len(q) + i \in DOMAIN ids
      BY <1>3, <2>2
    <3> QED BY <1>1, <1>2, <2>2, <3>1 DEF EndOf
  <2> QED BY <1>1, <2>1, <2>2
<1>5. Len(Append(ids, e)) - Len(Append(q, e)) = Len(ids) - Len(q)
  BY <1>1, <1>2, <1>3
<1> QED BY <1>1, <1>2, <1>3, <1>4, <1>5, SMTT(30) DEF EndOf

LEMMA EndTail ==
  ASSUME NEW q \in Seq(Nat), NEW ids \in Seq(Nat), q # <<>>, EndOf(q, ids)
  PROVE  /\ EndOf(Tail(q), ids) /\ Tail(q) \in Seq(Nat) /\ Len(Tail(q)) = Len(q) - 1
         /\ Len(ids) - Len(q) + 1 \in DOMAIN ids /\ Head(q) = ids[Len(ids) - Len(q) + 1] /\ Head(q) \in Nat
<1>1. \A k \in DOMAIN Tail(q) : k \in Nat /\ k >= 1 /\ k + 1 \in DOMAIN q /\ Tail(q)[k] = q[k + 1]
  BY TailOf
<1>2. /\ Tail(q) \in Seq(Nat) /\ Len(Tail(q)) = Len(q) - 1 /\ Len(q) \in Nat /\ Len(q) >= 1
      /\ Head(q) = q[1] /\ 1 \in DOMAIN q /\ Head(q) \in Nat
  OBVIOUS
<1>3. Len(ids) \in Nat /\ Len(q) <= Len(ids) /\ DOMAIN ids = 1..Len(ids)
  BY DEF EndOf
<1>4. ASSUME NEW i \in DOMAIN Tail(q)
      PROVE  Tail(q)[i] = ids[Len(ids) - Len(Tail(q)) + i]
  <2>1. Len(ids) - Len(Tail(q)) + i = Len(ids) - Len(q) + (i + 1)
    BY <1>1, <1>2, <1>3
  <2> QED BY <1>1, <2>1 DEF EndOf
<1>5. Len(ids) - Len(q) + 1 \in DOMAIN ids
  BY <1>2, <1>3
<1> QED BY <1>2, <1>3, <1>4, <1>5 DEF EndOf

(* What a broadcast does to a stream. *)
Hears(id) ==
  LET q == Append(stream.q, id)
  IN IF ~stream.on THEN UNCHANGED <<stream, lagged>>
     ELSE IF Len(q) > LagCap THEN stream' = [stream EXCEPT !.q = Tail(q)] /\ lagged' = lagged \cup {Head(q)}
     ELSE stream' = [stream EXCEPT !.q = q] /\ UNCHANGED lagged

LEMMA Pasts ==
  ASSUME NEW a \in Nat, NEW b \in Nat, NEW c, NEW d, c = a + 1, d = b + 1
  PROVE  c - d = a - b /\ c - (d - 1) = a - b + 1 /\ c \in Nat /\ d \in Nat
OBVIOUS

LEMMA StreamOn ==
  ASSUME NoteTypes, Streaming, Len(stream.q) <= LagCap, NEW id \in Nat, Hears(id),
         NEW more, more = Append(sent, id)
  PROVE  /\ stream' \in StreamType /\ Len(stream'.q) <= LagCap
         /\ stream'.on = stream.on /\ stream'.ready = stream.ready
         /\ stream'.floor = stream.floor /\ stream'.epoch = stream.epoch
         /\ lagged' \subseteq Nat /\ lagged \subseteq lagged'
         /\ ~stream.on => stream'.q = <<>>
         /\ stream.on => /\ EndOf(stream'.q, more)
                         /\ \/ Len(more) - Len(stream'.q) = Past
                            \/ Len(more) - Len(stream'.q) = Past + 1 /\ more[Past + 1] \in lagged'
<1> DEFINE q == Append(stream.q, id)
<1>1. /\ stream \in StreamType /\ stream.q \in Seq(Nat) /\ sent \in Seq(Nat) /\ lagged \subseteq Nat
      /\ LagCap \in Nat /\ Len(stream.q) \in Nat /\ Len(sent) \in Nat
  BY RelayAssumption DEF NoteTypes, StreamType
<1>2. /\ q \in Seq(Nat) /\ Len(q) = Len(stream.q) + 1
      /\ more \in Seq(Nat) /\ Len(more) = Len(sent) + 1
  BY <1>1
<1>0. /\ Len(more) - Len(q) = Past /\ Len(more) - (Len(q) - 1) = Past + 1
      /\ Len(more) \in Nat /\ Len(q) \in Nat
  <2> HIDE DEF q
  <2> QED BY <1>1, <1>2, Pasts DEF Past
<1>3. stream.on => EndOf(q, more)
  BY <1>1, EndAppend DEF Streaming
<1> HIDE DEF q
<1>4. CASE ~stream.on
  BY <1>1, <1>4 DEF Streaming, Hears
<1>5. CASE stream.on /\ Len(q) <= LagCap
  <2>1. stream' = [stream EXCEPT !.q = q] /\ lagged' = lagged
    BY <1>1, <1>2, <1>5 DEF q, Hears
  <2>2. /\ stream' \in StreamType /\ stream'.q = q /\ stream'.on = stream.on /\ stream'.ready = stream.ready
        /\ stream'.floor = stream.floor /\ stream'.epoch = stream.epoch
    BY <1>1, <1>2, <2>1 DEF StreamType
  <2>3. Len(more) - Len(stream'.q) = Past
    BY <1>0, <2>2
  <2> QED BY <1>1, <1>3, <1>5, <2>1, <2>2, <2>3
<1>6. CASE stream.on /\ Len(q) > LagCap
  <2>1. stream' = [stream EXCEPT !.q = Tail(q)] /\ lagged' = lagged \cup {Head(q)}
    BY <1>6 DEF q, Hears
  <2>2. q # <<>>
    BY <1>1, <1>2
  <2>3. /\ EndOf(Tail(q), more) /\ Tail(q) \in Seq(Nat) /\ Len(Tail(q)) = Len(q) - 1
        /\ Head(q) = more[Len(more) - Len(q) + 1] /\ Head(q) \in Nat
    BY <1>2, <1>3, <1>6, <2>2, EndTail
  <2>4. /\ stream' \in StreamType /\ stream'.q = Tail(q) /\ stream'.on = stream.on /\ stream'.ready = stream.ready
        /\ stream'.floor = stream.floor /\ stream'.epoch = stream.epoch
    BY <1>1, <2>1, <2>3 DEF StreamType
  <2>5. Len(more) - Len(stream'.q) = Past + 1 /\ Len(more) - Len(q) + 1 = Past + 1
    BY <1>0, <2>3, <2>4
  <2>6. Len(stream'.q) <= LagCap
    BY <1>1, <1>2, <2>3, <2>4
  <2> QED BY <1>1, <1>6, <2>1, <2>3, <2>4, <2>5, <2>6
<1>7. ~stream.on \/ (stream.on /\ Len(q) <= LagCap) \/ (stream.on /\ Len(q) > LagCap)
  BY <1>0, <1>1
<1> QED BY <1>4, <1>5, <1>6, <1>7


LEMMA NotesSend ==
  ASSUME NoteInv, Len(stream.q) <= LagCap, OwnerTypes, NEW c \in Conns, Send(c)
  PROVE  NoteInv' /\ Len(stream'.q) <= LagCap
<1> DEFINE id == push[c].id
<1>1. /\ push[c].st = "send" /\ push' = [push EXCEPT ![c] = NoPush] /\ sent' = Append(sent, id) /\ Hears(id)
      /\ UNCHANGED <<conn, nextNote, stored, order, gone, seen, epoch>>
  BY DEF Send, hostVars, Hears
<1>2. c \in DOMAIN push /\ push[c] \in PushType /\ id \in Nat
  <2>1. c \in DOMAIN push /\ push[c] \in PushType
    BY DEF NoteInv, NoteTypes, OwnerTypes, Conns
  <2> QED BY <2>1 DEF PushType
<1>3. id \in ToSet(order) /\ id \notin ToSet(sent) /\ \A d \in DOMAIN push : d # c /\ push[d].st # "idle" => push[d].id # id
  BY <1>1, <1>2 DEF NoteInv, NoteIds
<1> HIDE DEF id
<1>4. NoPush \in PushType /\ NoPush.st = "idle"
  BY DEF NoPush, PushType
<1>5. /\ push' \in Seq(PushType) /\ Len(push') = Len(push) /\ DOMAIN push' = DOMAIN push
      /\ push'[c] = NoPush /\ \A d \in DOMAIN push : d # c => push'[d] = push[d]
  BY <1>1, <1>2, <1>4, PushOf DEF NoteInv
<1>6. sent \in Seq(Nat) /\ stream.q \in Seq(Nat) /\ stream.floor \in Nat
  BY DEF NoteInv, NoteTypes, StreamType
<1>7. sent' \in Seq(Nat) /\ ToSet(sent') = ToSet(sent) \cup {id} /\ IsInjective(sent')
  BY <1>1, <1>2, <1>3, <1>6, AppendOf, SetOfAppend, InjectiveAppend DEF NoteInv, NoteIds
<1>8. /\ stream' \in StreamType /\ Len(stream'.q) <= LagCap
      /\ stream'.on = stream.on /\ stream'.ready = stream.ready
      /\ stream'.floor = stream.floor /\ stream'.epoch = stream.epoch
      /\ lagged' \subseteq Nat /\ lagged \subseteq lagged'
      /\ ~stream.on => stream'.q = <<>>
      /\ stream.on => /\ EndOf(stream'.q, sent')
                      /\ \/ Len(sent') - Len(stream'.q) = Past
                         \/ Len(sent') - Len(stream'.q) = Past + 1 /\ sent'[Past + 1] \in lagged'
  BY <1>1, <1>2, StreamOn DEF NoteInv
<1>9. NoteTypes'
  BY <1>1, <1>5, <1>7, <1>8 DEF NoteInv, NoteTypes
<1>10. NoteIds'
  BY <1>1, <1>3, <1>4, <1>5, <1>7 DEF NoteInv, NoteIds
<1>11. Streaming'
  BY <1>1, <1>8 DEF NoteInv, Streaming
<1>12. \A n \in Nat : Missed(n)' => Missed(n)
  BY <1>1, <1>2, <1>8, FewerMissed DEF NoteInv, Grown
<1>13. ASSUME stream.ready, NEW n \in Passed'
       PROVE  ~Missed(n)'
  <2>1. Past \in Nat /\ Past <= Len(sent) /\ Len(sent) \in Nat /\ stream.on
    BY <1>6, <1>13 DEF Past, NoteInv, Streaming, EndOf
  <2>2. PICK i \in 1..(Len(sent') - Len(stream'.q)) : n = sent'[i]
    BY DEF Passed, Past
  <2>3. i \in 1..Past \/ (i = Past + 1 /\ sent'[Past + 1] \in lagged')
    <3> DEFINE w == Len(sent') - Len(stream'.q)
    <3>1. w = Past \/ (w = Past + 1 /\ sent'[Past + 1] \in lagged')
      BY <1>8, <2>1
    <3>2. i \in 1..w
      BY <2>2
    <3> HIDE DEF w
    <3> QED BY <2>1, <3>1, <3>2
  <2>4. CASE i \in 1..Past
    <3>1. i \in DOMAIN sent /\ sent'[i] = sent[i] /\ n \in Nat
      BY <1>1, <1>2, <1>6, <2>2, <2>4, AppendOf, PassedOf
    <3>2. n \in Passed
      BY <2>2, <2>4, <3>1 DEF Passed
    <3> QED BY <1>12, <1>13, <3>1, <3>2 DEF NoteInv, Reached
  <2>5. CASE i = Past + 1 /\ sent'[Past + 1] \in lagged'
    BY <2>2, <2>5 DEF Missed
  <2> QED BY <2>3, <2>4, <2>5
<1>14. Reached'
  <2>1. stream'.epoch = epoch' => \A n \in 1..stream'.floor : ~Missed(n)'
    BY <1>1, <1>6, <1>8, <1>12 DEF NoteInv, Reached
  <2>2. stream'.ready => \A n \in Passed' : ~Missed(n)'
    BY <1>8, <1>13
  <2> QED BY <2>1, <2>2 DEF Reached
<1> QED BY <1>8, <1>9, <1>10, <1>11, <1>14 DEF NoteInv


LEMMA StreamCut ==
  ASSUME NEW s \in StreamType, NEW on \in BOOLEAN, NEW t,
         t = [s EXCEPT !.on = on, !.ready = FALSE, !.q = <<>>]
  PROVE  t \in StreamType /\ t.q = <<>> /\ t.ready = FALSE /\ t.on = on /\ t.floor = s.floor /\ t.epoch = s.epoch
<1>1. <<>> \in Seq(Nat)
  OBVIOUS
<1> QED BY <1>1 DEF StreamType

LEMMA NotesSubscribe ==
  ASSUME NoteInv, Rooms, Subscribe \/ Unsubscribe
  PROVE  NoteInv' /\ Rooms'
<1>1. /\ \/ stream' = [stream EXCEPT !.on = TRUE, !.ready = FALSE, !.q = <<>>]
         \/ stream' = [stream EXCEPT !.on = FALSE, !.ready = FALSE, !.q = <<>>]
      /\ UNCHANGED <<conn, push, nextNote, stored, order, sent, gone, seen, lagged, epoch>>
  BY DEF Subscribe, Unsubscribe, hostVars
<1>2. stream \in StreamType /\ sent \in Seq(Nat) /\ LagCap \in Nat
  BY RelayAssumption DEF NoteInv, NoteTypes
<1>3. /\ stream' \in StreamType /\ stream'.q = <<>> /\ stream'.ready = FALSE
      /\ stream'.floor = stream.floor /\ stream'.epoch = stream.epoch
  BY <1>1, <1>2, StreamCut
<1>4. EndOf(<<>>, sent) /\ Len(<<>>) <= LagCap
  BY <1>2 DEF EndOf
<1>5. NoteTypes' /\ NoteIds' /\ Rooms'
  BY <1>1, <1>3, <1>4 DEF NoteInv, NoteTypes, NoteIds, Rooms
<1>6. Streaming'
  BY <1>1, <1>3, <1>4 DEF NoteInv, Streaming
<1>7. Reached'
  BY <1>1, <1>3 DEF NoteInv, Reached, Missed
<1> QED BY <1>5, <1>6, <1>7 DEF NoteInv

LEMMA NotesRestart ==
  ASSUME NoteInv, Rooms, OwnerTypes, Restart
  PROVE  NoteInv' /\ Rooms'
<1>1. /\ push' = [c \in Conns |-> NoPush] /\ nextNote' = 1 /\ stored' = <<>> /\ order' = <<>> /\ sent' = <<>>
      /\ gone' = {} /\ stream' = [stream EXCEPT !.on = FALSE, !.ready = FALSE, !.q = <<>>]
      /\ seen' = {} /\ lagged' = {} /\ epoch' = epoch + 1
  BY DEF Restart
<1>2. NoPush \in PushType /\ NoPush.st = "idle"
  BY DEF NoPush, PushType
<1>3. Len(conn') = Len(conn) /\ Conns = 1..Len(conn) /\ Len(conn) \in Nat
  BY RestartConns DEF OwnerTypes, Conns
<1>4. /\ push' \in Seq(PushType) /\ Len(push') = Len(conn) /\ \A c \in DOMAIN push' : push'[c] = NoPush
  <2>1. push' = [c \in 1..Len(conn) |-> NoPush]
    BY <1>1, <1>3
  <2> HIDE DEF NoPush
  <2> QED BY <1>2, <1>3, <2>1
<1>5. stream \in StreamType /\ epoch \in Nat /\ stream.epoch <= epoch /\ LagCap \in Nat /\ NoteCap \in Nat
  BY RelayAssumption DEF NoteInv, NoteTypes, Streaming
<1>6. /\ stream' \in StreamType /\ stream'.q = <<>> /\ stream'.ready = FALSE /\ stream'.on = FALSE
      /\ stream'.floor = stream.floor /\ stream'.epoch = stream.epoch
  BY <1>1, <1>5, StreamCut
<1>7. stream'.epoch # epoch' /\ stream'.epoch <= epoch'
  BY <1>1, <1>5, <1>6 DEF StreamType
<1>8. NoteTypes'
  BY <1>1, <1>3, <1>4, <1>5, <1>6 DEF NoteTypes
<1>9. ToSet(<<>>) = {} /\ IsInjective(<<>>) /\ Len(<<>>) = 0
  BY DEF ToSet, IsInjective
<1>10. NoteIds'
  BY <1>1, <1>2, <1>4, <1>9 DEF NoteIds
<1>11. Streaming' /\ Reached' /\ Rooms'
  BY <1>1, <1>5, <1>6, <1>7, <1>9 DEF Streaming, Reached, Rooms
<1> QED BY <1>8, <1>10, <1>11 DEF NoteInv

LEMMA NotesShow ==
  ASSUME NoteInv, Rooms, Shows
  PROVE  NoteInv' /\ Rooms'
<1>0. PICK n : n = Head(stream.q)
  OBVIOUS
<1>1. /\ stream.ready /\ stream.q # <<>> /\ Live1(n)
      /\ UNCHANGED <<conn, push, nextNote, stored, order, sent, gone, lagged, epoch>>
  BY <1>0 DEF Shows, hostVars
<1>2. stream \in StreamType /\ sent \in Seq(Nat) /\ stream.q \in Seq(Nat) /\ seen \subseteq Nat
  BY DEF NoteInv, NoteTypes, StreamType
<1>3. stream.on /\ stream.epoch = epoch /\ EndOf(stream.q, sent)
  BY <1>1 DEF NoteInv, Streaming
<1>4. /\ EndOf(Tail(stream.q), sent) /\ Tail(stream.q) \in Seq(Nat) /\ Len(Tail(stream.q)) = Len(stream.q) - 1
      /\ Past + 1 \in DOMAIN sent /\ n = sent[Past + 1] /\ n \in Nat
  BY <1>0, <1>1, <1>2, <1>3, EndTail DEF Past
<1>5. n \in ToSet(sent) /\ n \in 1..(nextNote - 1)
  BY <1>4 DEF ToSet, NoteInv, NoteIds
<1>6. Past \in Int /\ Past <= Len(sent) /\ Past \in Nat
  BY <1>2, <1>3 DEF Past, EndOf
<1>7. /\ stream' \in StreamType /\ stream'.on = stream.on /\ stream'.ready = stream.ready
      /\ stream'.q = Tail(stream.q) /\ stream'.epoch = stream.epoch
      /\ \/ n <= stream.floor /\ stream'.floor = stream.floor /\ seen' = seen
         \/ ~(n <= stream.floor) /\ stream'.floor = n /\ seen' = seen \cup {n}
  BY <1>1, <1>2, <1>4 DEF Live1, StreamType
<1>8. NoteTypes' /\ NoteIds'
  BY <1>1, <1>2, <1>4, <1>7 DEF NoteInv, NoteTypes, NoteIds
<1>9. Past' = Past + 1
  <2>1. \A a, b \in Nat : a - (b - 1) = a - b + 1
    OBVIOUS
  <2>2. Len(sent) \in Nat /\ Len(stream.q) \in Nat
    BY <1>2
  <2>3. Past' = Len(sent) - (Len(stream.q) - 1)
    BY <1>1, <1>4, <1>7 DEF Past
  <2> QED BY <2>1, <2>2, <2>3 DEF Past
<1>10. Streaming' /\ Rooms'
  <2>1. nextNote \in Nat /\ stream.floor \in Nat /\ Len(stream.q) \in Nat /\ LagCap \in Nat
    BY <1>2, RelayAssumption DEF NoteInv, NoteTypes, StreamType
  <2>2. stream'.floor < nextNote /\ Len(stream'.q) <= LagCap
    BY <1>3, <1>4, <1>5, <1>7, <2>1 DEF NoteInv, Streaming, Rooms
  <2> QED BY <1>1, <1>3, <1>4, <1>7, <2>2 DEF NoteInv, Streaming, Rooms
<1>11. seen \subseteq seen' /\ \A m \in Nat : Missed(m)' => Missed(m)
  BY <1>1, <1>7, FewerMissed DEF NoteInv, Grown
<1>12. ~Missed(n)'
  <2>1. n <= stream.floor => ~Missed(n)
    BY <1>2, <1>3, <1>5 DEF NoteInv, Reached, StreamType
  <2>2. n \in seen' => ~Missed(n)'
    BY DEF Missed
  <2> QED BY <1>4, <1>7, <1>11, <2>1, <2>2
<1>13. ASSUME NEW m \in Nat, m < n, stream.floor < m
       PROVE  ~Missed(m)
  <2>1. CASE m \notin ToSet(sent)
    BY <1>4, <1>13, <2>1 DEF Missed, Late, ToSet
  <2>2. CASE m \in ToSet(sent)
    <3>1. PICK i \in DOMAIN sent : sent[i] = m
      BY <2>2 DEF ToSet
    <3>2. CASE i \in 1..Past
      BY <1>1, <3>1, <3>2 DEF NoteInv, Reached, Passed
    <3>3. CASE i > Past + 1
      <4>1. \A k \in DOMAIN sent : sent[k] = m => k = i
        BY <3>1 DEF NoteInv, NoteIds, IsInjective
      <4> QED BY <1>4, <1>13, <3>3, <4>1 DEF Missed, Late
    <3>4. i # Past + 1
      BY <1>4, <1>13, <3>1
    <3> QED BY <1>2, <1>6, <3>2, <3>3, <3>4
  <2> QED BY <2>1, <2>2
<1>14. \A m \in 1..stream'.floor : ~Missed(m)'
  <2>1. ASSUME NEW m \in 1..stream'.floor
        PROVE  ~Missed(m)'
    <3>1. m \in Nat /\ stream.floor \in Nat /\ m >= 1
      BY <1>2, <1>4, <1>7 DEF StreamType
    <3>2. m <= stream.floor => ~Missed(m)
      BY <1>3, <3>1 DEF NoteInv, Reached
    <3>3. m <= stream.floor \/ m = n \/ (m < n /\ stream.floor < m)
      BY <1>4, <1>7, <3>1
    <3> QED BY <1>11, <1>12, <1>13, <3>1, <3>2, <3>3
  <2> QED BY <2>1
<1>15. \A m \in Passed' : ~Missed(m)'
  <2>1. ASSUME NEW m \in Passed'
        PROVE  ~Missed(m)'
    <3>1. PICK i \in 1..(Past + 1) : m = sent[i]
      BY <1>1, <1>9 DEF Passed
    <3>2. m = n \/ m \in Passed
      BY <1>4, <1>6, <3>1 DEF Passed
    <3>3. Passed \subseteq Nat
      BY <1>2, PassedOf
    <3> QED BY <1>1, <1>11, <1>12, <3>2, <3>3 DEF NoteInv, Reached
  <2> QED BY <2>1
<1> QED BY <1>8, <1>10, <1>14, <1>15 DEF NoteInv, Reached


LEMMA NotesReplay ==
  ASSUME NoteInv, Rooms, Replay
  PROVE  NoteInv' /\ Rooms'
<1> DEFINE new == {n \in ToSet(stored) : n > Since}
<1>0. PICK f : f = Newest(new \cup {Since})
  OBVIOUS
<1>1. /\ stream.on /\ stream' = Replayed(new) /\ seen' = seen \cup new
      /\ UNCHANGED <<conn, push, nextNote, stored, order, sent, gone, lagged, epoch>>
  BY DEF Replay, hostVars
<1>2. /\ stream \in StreamType /\ stream.q \in Seq(Nat) /\ stream.floor \in Nat /\ epoch \in Nat
      /\ nextNote \in Nat \ {0} /\ sent \in Seq(Nat) /\ seen \subseteq Nat
  BY DEF NoteInv, NoteTypes, StreamType
<1>3. Since \in 0..(nextNote - 1) /\ (Since = 0 \/ (Since = stream.floor /\ stream.epoch = epoch))
  BY <1>2 DEF Since
<1>4. ToSet(stored) \subseteq ToSet(order) /\ ToSet(order) \subseteq 1..(nextNote - 1)
  BY DEF NoteInv, NoteIds
<1>5. new \cup {Since} \subseteq 0..(nextNote - 1) /\ nextNote - 1 \in Nat
  BY <1>2, <1>3, <1>4
<1>6. f \in new \cup {Since} /\ f \in 0..(nextNote - 1)
  <2> HIDE DEF new
  <2> QED BY <1>0, <1>5, NewestOf
<1>7. /\ stream' \in StreamType /\ stream'.q = stream.q /\ stream'.on = TRUE /\ stream'.ready = TRUE
      /\ stream'.floor = f /\ stream'.epoch = epoch
  <2>1. stream' = [on |-> TRUE, ready |-> TRUE, q |-> stream.q, floor |-> f, epoch |-> epoch] /\ f \in Nat
    BY <1>0, <1>1, <1>2, <1>6 DEF Replayed
  <2> HIDE DEF new
  <2> QED BY <1>2, <2>1 DEF StreamType
<1>8. NoteTypes' /\ NoteIds' /\ Rooms'
  <2>1. new \subseteq Nat
    BY <1>2, <1>4
  <2> HIDE DEF new
  <2> QED BY <1>1, <1>2, <1>7, <2>1 DEF NoteInv, NoteTypes, NoteIds, Rooms
<1>9. Streaming'
  <2>1. f < nextNote
    BY <1>2, <1>6
  <2> QED BY <1>1, <1>2, <1>7, <2>1 DEF NoteInv, Streaming
<1>10. \A m \in Nat : Missed(m)' => Missed(m)
  BY <1>1, FewerMissed DEF NoteInv, Grown
<1>11. ASSUME NEW m \in Nat, m >= 1, m <= Since
       PROVE  ~Missed(m)
  BY <1>2, <1>3, <1>11 DEF NoteInv, Reached
<1>12. ASSUME NEW m \in ToSet(order), m > Since
       PROVE  ~Missed(m)'
  BY <1>1, <1>12 DEF Missed, NoteInv, NoteIds
<1>13. ASSUME NEW m \in 1..f
       PROVE  ~Missed(m)'
  <2>1. m \in Nat /\ m >= 1 /\ m <= f /\ f \in Nat
    BY <1>2, <1>6
  <2>2. CASE m <= Since
    BY <1>10, <1>11, <2>1, <2>2
  <2>3. CASE m > Since
    <3>1. f \in ToSet(order)
      BY <1>3, <1>4, <1>6, <2>1, <2>3
    <3>2. CASE m \in ToSet(order)
      BY <1>12, <2>3, <3>2
    <3>3. CASE m \notin ToSet(order)
      <4>1. m < f
        BY <2>1, <3>1, <3>3
      <4>2. Late(m, order)
        BY <3>1, <3>3, <4>1 DEF Late, ToSet
      <4> QED BY <1>10, <2>1, <4>2 DEF Missed
    <3> QED BY <3>2, <3>3
  <2> QED BY <1>3, <2>1, <2>2, <2>3
<1>14. ASSUME NEW m \in Passed'
       PROVE  ~Missed(m)'
  <2>1. m \in Passed
    BY <1>1, <1>7 DEF Passed, Past
  <2>2. m \in ToSet(sent)
    BY <1>2, <2>1, PassedOf DEF Passed, ToSet
  <2>3. m \in ToSet(order) /\ m \in Nat /\ m >= 1
    BY <1>2, <1>4, <2>2 DEF NoteInv, NoteIds
  <2>4. m <= Since \/ m > Since
    BY <1>3, <2>3
  <2> QED BY <1>10, <1>11, <1>12, <2>3, <2>4
<1> QED BY <1>1, <1>7, <1>8, <1>9, <1>13, <1>14 DEF NoteInv, Reached

----------------------------------------------------------------------------
(* Every step. *)

LEMMA NotesQuiet ==
  ASSUME OwnerTypes, [Next]_vars
  PROVE  \/ \E r \in Routes : Connect(r)
         \/ \E c \in Conns : Allot(c) \/ Store(c) \/ Send(c)
         \/ Expire \/ Subscribe \/ Unsubscribe \/ Replay \/ Shows \/ Restart
         \/ UNCHANGED <<noteVars, epoch>> /\ Len(conn') = Len(conn)
<1>0. \A c \in Conns : \A x : Alters(c, x) => Len(conn') = Len(conn)
  BY Altered
<1>1. ASSUME NEW r \in Routes, HostReads(r) \/ HostGivesUp(r) \/ Notify(r)
      PROVE  UNCHANGED <<noteVars, epoch>> /\ Len(conn') = Len(conn)
  <2>1. Len(conn') = Len(conn)
    BY <1>0, <1>1, Steps
  <2> QED BY <1>1, <2>1 DEF HostReads, HostGivesUp, Notify
<1>2. ASSUME NEW c \in Conns, Break(c) \/ Register(c) \/ Ends(c) \/ DropConn(c) \/ Refuse(c)
      PROVE  UNCHANGED <<noteVars, epoch>> /\ Len(conn') = Len(conn)
  <2>1. Len(conn') = Len(conn)
    BY <1>0, <1>2, Steps
  <2> QED BY <1>2, <2>1 DEF Break, Register, Ends, DropConn, Refuse
<1>3. ASSUME NEW s \in Sessions, Dial(s)
      PROVE  UNCHANGED <<noteVars, epoch>> /\ Len(conn') = Len(conn)
  <2>1. Len(conn') = Len(conn)
    BY <1>0, <1>3, Steps DEF owners
  <2> QED BY <1>3, <2>1 DEF Dial
<1>4. ASSUME NEW s \in Sessions,
             \/ Accept(s) \/ Lookup(s) \/ Timeout(s) \/ TakeBack(s) \/ PhoneHalf(s)
             \/ DataStep(s) \/ PhoneLeaves(s) \/ DataFails(s)
      PROVE  UNCHANGED <<noteVars, epoch, conn>>
  BY <1>4 DEF Accept, Lookup, Timeout, TakeBack, PhoneHalf, DataStep, DataWs, HandOver, DataHalf,
              PhoneLeaves, DataFails, hostVars
<1>5. UNCHANGED vars => UNCHANGED <<noteVars, epoch, conn>>
  BY DEF vars, hostVars
<1> QED BY <1>1, <1>2, <1>3, <1>4, <1>5 DEF Next, HostStep, ConnStep, PhoneStep

LEMMA NotesStill ==
  ASSUME NoteInv, Rooms, UNCHANGED <<noteVars, epoch>>, Len(conn') = Len(conn)
  PROVE  NoteInv' /\ Rooms'
BY DEF noteVars, NoteInv, Rooms, NoteTypes, NoteIds, Streaming, Reached, Missed, Passed, Past

NoteFull == OwnerInv /\ NoteInv /\ Rooms

LEMMA NoteStep == NoteFull /\ [Next]_vars => NoteFull'
<1> SUFFICES ASSUME NoteFull, [Next]_vars PROVE NoteFull'
  OBVIOUS
<1>0. OwnerInv /\ OwnerInv' /\ OwnerTypes /\ OwnerTypes' /\ NoteInv /\ Rooms
  BY OwnerStep DEF NoteFull, OwnerInv
<1>1. ASSUME NEW r \in Routes, Connect(r)
      PROVE  NoteFull'
  <2>1. UNCHANGED <<stored, stream>>
    BY <1>1 DEF Connect
  <2> QED BY <1>0, <1>1, <2>1, NotesConnect DEF NoteFull, Rooms
<1>2. ASSUME NEW c \in Conns, Allot(c)
      PROVE  NoteFull'
  <2>1. UNCHANGED <<stored, stream>>
    BY <1>2 DEF Allot
  <2> QED BY <1>0, <1>2, <2>1, NotesAllot DEF NoteFull, Rooms
<1>3. ASSUME NEW c \in Conns, Store(c)
      PROVE  NoteFull'
  <2>1. UNCHANGED stream
    BY <1>3 DEF Store
  <2> QED BY <1>0, <1>3, <2>1, NotesStore DEF NoteFull, Rooms
<1>4. ASSUME NEW c \in Conns, Send(c)
      PROVE  NoteFull'
  <2>1. UNCHANGED stored
    BY <1>4 DEF Send
  <2> QED BY <1>0, <1>4, <2>1, NotesSend DEF NoteFull, Rooms
<1>5. CASE Expire
  <2>1. UNCHANGED stream
    BY <1>5 DEF Expire
  <2> QED BY <1>0, <1>5, <2>1, NotesExpire DEF NoteFull, Rooms
<1>6. CASE Subscribe \/ Unsubscribe \/ Replay \/ Shows \/ Restart
  BY <1>0, <1>6, NotesSubscribe, NotesReplay, NotesShow, NotesRestart DEF NoteFull
<1>7. CASE UNCHANGED <<noteVars, epoch>> /\ Len(conn') = Len(conn)
  BY <1>0, <1>7, NotesStill DEF NoteFull
<1> QED BY <1>0, <1>1, <1>2, <1>3, <1>4, <1>5, <1>6, <1>7, NotesQuiet

LEMMA NoteInit == Init => NoteFull
<1> SUFFICES ASSUME Init PROVE NoteFull
  OBVIOUS
<1>1. OwnerInv
  BY SpliceInit DEF SpliceFull
<1>2. /\ push = <<>> /\ nextNote = 1 /\ stored = <<>> /\ order = <<>> /\ sent = <<>> /\ gone = {}
      /\ stream = NoStream /\ seen = {} /\ lagged = {} /\ epoch = 1 /\ conn = <<>>
  BY DEF Init
<1>3. /\ NoStream \in StreamType /\ NoStream.q = <<>> /\ NoStream.ready = FALSE /\ NoStream.on = FALSE
      /\ NoStream.floor = 0 /\ NoStream.epoch = 0
  <2>1. <<>> \in Seq(Nat)
    OBVIOUS
  <2> QED BY <2>1 DEF NoStream, StreamType
<1>4. ToSet(<<>>) = {} /\ IsInjective(<<>>) /\ Len(<<>>) = 0 /\ <<>> \in Seq(PushType) /\ <<>> \in Seq(Nat)
  BY DEF ToSet, IsInjective
<1>5. NoteTypes /\ NoteIds
  BY <1>2, <1>3, <1>4 DEF NoteTypes, NoteIds
<1>6. Streaming /\ Reached /\ Rooms
  BY <1>2, <1>3, <1>4, RelayAssumption DEF Streaming, Reached, Rooms
<1> QED BY <1>1, <1>5, <1>6 DEF NoteFull, NoteInv

LEMMA NoteInductive == Spec => []NoteFull
BY NoteInit, NoteStep, PTL DEF Spec

(* A phone's stream that has caught up has shown every note broadcast in this life of
   the relay, save the expired or dropped, those its queue lost, and those that came after
   a greater id: for any capacities, any number of readers at any points between their
   store and their broadcast, and any reconnections (http.rs:209, http.rs:239). *)
THEOREM EveryNoteReaches == Spec => []NotesReach
<1>1. NoteFull => NotesReach
  <2> SUFFICES ASSUME NoteFull, stream.ready, stream.q = <<>>, NEW n \in ToSet(sent) \ (seen \cup gone \cup lagged)
               PROVE  Overtaken(n)
    BY DEF NotesReach
  <2>1. sent \in Seq(Nat) /\ order \in Seq(Nat) /\ n \in ToSet(order) /\ n \in Nat
    <3>1. sent \in Seq(Nat) /\ order \in Seq(Nat) /\ n \in ToSet(order)
      BY DEF NoteFull, NoteInv, NoteTypes, NoteIds
    <3>2. ToSet(order) \subseteq Nat
      BY <3>1 DEF ToSet
    <3> QED BY <3>1, <3>2
  <2>2. n \in Passed
    BY <2>1 DEF Passed, Past, ToSet
  <2>3. Late(n, order) \/ Late(n, sent)
    BY <2>2 DEF NoteFull, NoteInv, Reached, Missed
  <2> QED BY <2>1, <2>3, LateIsBehind DEF Overtaken
<1> QED BY <1>1, NoteInductive, PTL


----------------------------------------------------------------------------
(* Types of the whole relay. *)

Statuses == {"Connecting", "Registered", "Disconnected"}
Sized == Len(conn) <= MaxConns /\ status \in [Routes -> Statuses] /\ load \in LoadType

LEMMA LoadSteps ==
  ASSUME load \in LoadType
  PROVE  /\ load.notes > 0 => [load EXCEPT !.notes = @ - 1] \in LoadType
         /\ load.breaks > 0 => [load EXCEPT !.breaks = @ - 1] \in LoadType
         /\ load.restarts > 0 => [load EXCEPT !.restarts = @ - 1] \in LoadType
         /\ load.streams > 0 => [load EXCEPT !.streams = @ - 1] \in LoadType
BY DEF LoadType

LEMMA SizedStep ==
  ASSUME Sized, OwnerTypes, [Next]_vars
  PROVE  Sized'
<1>0. /\ Len(conn) <= MaxConns /\ status \in [Routes -> Statuses] /\ load \in LoadType
      /\ MaxConns \in Nat /\ Len(conn) \in Nat
  BY RelayAssumption DEF Sized, OwnerTypes
<1>1. \A c \in Conns : \A x : Alters(c, x) => Len(conn') = Len(conn)
  BY Altered
<1>2. \A c \in Conns : conn[c].route \in Routes
  BY ConnOf
<1>3. ASSUME NEW r \in Routes, Connect(r)
      PROVE  Sized'
  <2>1. Len(conn') = Len(conn) + 1 /\ Len(conn) < MaxConns /\ status' = [status EXCEPT ![r] = "Connecting"] /\ UNCHANGED load
    BY <1>3 DEF Connect, OwnerTypes
  <2> QED BY <1>0, <2>1 DEF Sized, Statuses
<1>4. ASSUME NEW r \in Routes, HostReads(r) \/ HostGivesUp(r)
      PROVE  Sized'
  <2>1. Len(conn') = Len(conn)
    BY <1>1, <1>4, Steps
  <2>2. UNCHANGED load /\ status' \in [Routes -> Statuses]
    BY <1>0, <1>4 DEF HostReads, HostGivesUp, Statuses
  <2> QED BY <1>0, <2>1, <2>2 DEF Sized
<1>5. ASSUME NEW r \in Routes, Notify(r)
      PROVE  Sized'
  <2>1. Len(conn') = Len(conn)
    BY <1>1, <1>5, Steps
  <2>2. load' \in LoadType /\ UNCHANGED status
    BY <1>0, <1>5, LoadSteps DEF Notify
  <2> QED BY <1>0, <2>1, <2>2 DEF Sized
<1>6. ASSUME NEW c \in Conns, Break(c)
      PROVE  Sized'
  <2>1. Len(conn') = Len(conn)
    BY <1>1, <1>6, Steps
  <2>2. load' \in LoadType
    BY <1>0, <1>6, LoadSteps DEF Break
  <2>3. status' = status \/ status' = [status EXCEPT ![conn[c].route] = "Connecting"]
    BY <1>6 DEF Break
  <2> QED BY <1>0, <1>2, <2>1, <2>2, <2>3 DEF Sized, Statuses
<1>7. ASSUME NEW c \in Conns, Register(c) \/ Ends(c) \/ DropConn(c) \/ Allot(c) \/ Refuse(c)
      PROVE  Sized'
  <2>1. Len(conn') = Len(conn)
    BY <1>1, <1>7, Steps
  <2>2. UNCHANGED <<load, status>>
    BY <1>7 DEF Register, Ends, DropConn, Allot, Refuse
  <2> QED BY <1>0, <2>1, <2>2 DEF Sized
<1>8. ASSUME NEW s \in Sessions, Dial(s)
      PROVE  Sized'
  <2>1. Len(conn') = Len(conn)
    BY <1>1, <1>8, Steps DEF owners
  <2>2. UNCHANGED <<load, status>>
    BY <1>8 DEF Dial
  <2> QED BY <1>0, <2>1, <2>2 DEF Sized
<1>9. CASE Restart
  <2>1. Len(conn') = Len(conn)
    BY <1>9, RestartConns
  <2>2. load' \in LoadType /\ UNCHANGED status
    BY <1>0, <1>9, LoadSteps DEF Restart
  <2> QED BY <1>0, <2>1, <2>2 DEF Sized
<1>10. CASE UNCHANGED owners
  <2>1. status' \in [Routes -> Statuses] /\ load' \in LoadType
    <3>1. ASSUME NEW s \in Sessions, Accept(s) \/ PhoneStep(s) \/ DataStep(s) \/ PhoneLeaves(s) \/ DataFails(s)
          PROVE  UNCHANGED <<status, load>>
      BY <3>1 DEF Accept, PhoneStep, Lookup, Dial, Timeout, TakeBack, PhoneHalf, DataStep, DataWs, HandOver, DataHalf,
                  PhoneLeaves, DataFails, hostVars
    <3>2. ASSUME NEW c \in Conns, ConnStep(c) \/ Allot(c) \/ Refuse(c)
          PROVE  UNCHANGED <<status, load>>
      BY <3>2 DEF ConnStep, Register, Ends, DropConn, Store, Send, Allot, Refuse, hostVars
    <3>3. ASSUME Expire \/ Replay \/ Shows \/ Unsubscribe \/ UNCHANGED vars
          PROVE  UNCHANGED <<status, load>>
      BY <3>3 DEF Expire, Replay, Shows, Unsubscribe, hostVars, vars
    <3>4. ASSUME Subscribe
          PROVE  UNCHANGED status /\ load' \in LoadType
      BY <1>0, <3>4, LoadSteps DEF Subscribe, hostVars
    <3>5. ASSUME NEW r \in Routes, Connect(r) \/ HostStep(r) \/ Notify(r)
          PROVE  Sized'
      BY <1>3, <1>4, <1>5, <3>5 DEF HostStep
    <3> QED BY <1>0, <1>6, <1>9, <3>1, <3>2, <3>3, <3>4, <3>5 DEF Next, Sized
  <2> QED BY <1>0, <1>10, <2>1 DEF Sized, owners
<1> QED BY <1>3, <1>4, <1>5, <1>6, <1>7, <1>8, <1>9, <1>10, OtherSteps

(* Every variable of the relay keeps its type, every queue its capacity. *)
THEOREM RelayTypes == Spec => []TypeOK
<1> DEFINE All == SpliceFull /\ NoteFull /\ Sized
<1>1. Init => All
  <2>1. Init => Sized
    BY RelayAssumption DEF Init, Sized, Statuses
  <2> QED BY <2>1, SpliceInit, NoteInit
<1>2. All /\ [Next]_vars => All'
  BY SpliceStep, NoteStep, SizedStep DEF SpliceFull, OwnerInv
<1>3. All => TypeOK
  <2> SUFFICES ASSUME All PROVE TypeOK
    OBVIOUS
  <2>1. \A c \in Conns : /\ conn[c].route \in Routes /\ conn[c].relay \in {"open", "closing", "closed"}
                         /\ Len(conn[c].down) <= DialCap
                         /\ ToSet(conn[c].down) \subseteq {"registered"} \cup Sessions
                         /\ ToSet(conn[c].up) \subseteq {"register", "notify"}
    <3>1. ASSUME NEW c \in Conns
          PROVE  /\ conn[c].route \in Routes /\ conn[c].relay \in {"open", "closing", "closed"}
                 /\ Len(conn[c].down) <= DialCap
      BY ConnOf DEF SpliceFull, OwnerInv, Short, RelaySides
    <3>2. ASSUME NEW c \in Conns
          PROVE  ToSet(conn[c].down) \subseteq {"registered"} \cup Sessions
      BY ConnOf DEF SpliceFull, OwnerInv, Downs, ToSet
    <3>3. ASSUME NEW c \in Conns
          PROVE  ToSet(conn[c].up) \subseteq {"register", "notify"}
      BY ConnOf DEF SpliceFull, OwnerInv, Ups, ToSet
    <3> QED BY <3>1, <3>2, <3>3
  <2>2. /\ \A s \in Sessions : phone[s].st \in PhoneStates
        /\ data \in [Sessions -> {"none", "asked", "taken", "open", "over"}]
        /\ pending \subseteq Sessions /\ slots \in [Ips -> 0..MaxPerIp]
    BY DEF SpliceFull, Spliced, SpliceTypes, SlotsTrue, Pends, PhoneType, DataStates
  <2> QED BY <2>1, <2>2 DEF SpliceFull, OwnerInv, OwnerTypes, NoteFull, NoteInv, NoteTypes, Rooms, Sized, Statuses, TypeOK
<1> QED BY <1>1, <1>2, <1>3, PTL DEF Spec
=============================================================================
