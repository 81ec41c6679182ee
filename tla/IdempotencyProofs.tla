-------------------------- MODULE IdempotencyProofs --------------------------
(***************************************************************************)
(* Theorems about the idempotency caches: for any clients, a replay is the *)
(* answer of the request it is given to, and records within their ttl are  *)
(* spared; for clients that wait for their answers, a key is run once.     *)
(***************************************************************************)
EXTENDS Idempotency, TLAPS

-----------------------------------------------------------------------------
(* Type correctness. *)

(* What the type of a slot says of its fields. *)
LEMMA SlotFields ==
    ASSUME TypeOK, NEW r \in Requests
    PROVE  /\ slot[r].pc \in {"lookup", "expired", "running", "storing", "answered", "conflict"}
                  => slot[r].ask \in Ask
           /\ slot[r].pc \in {"storing", "answered"}
                  => slot[r].run \in Runs /\ slot[r].outcome \in Outcomes
BY DEF TypeOK, Slot, Ask

LEMMA KeyType ==
    ASSUME TypeOK, NEW r \in Requests,
           slot[r].pc \in {"lookup", "expired", "running", "storing", "answered", "conflict"}
    PROVE  /\ Key(r) \in Keys
           /\ slot[r].ask.payload \in Payloads
           /\ slot[r].ask.id \in Ids
BY SlotFields DEF Key, Ask

(* Answering from a record keeps the slots typed. *)
LEMMA AnswerTyped ==
    ASSUME TypeOK, NEW r \in Requests, slot[r].pc \in {"lookup", "expired"},
           Fresh(Key(r)), Answer(r, records[Key(r)])
    PROVE  slot' \in [Requests -> Slot]
<1>1. records[Key(r)] \in Record
  BY KeyType DEF TypeOK, Fresh, Recorded
<1>2. slot[r].ask \in Ask
  BY SlotFields
<1>3. Replay(r, records[Key(r)]) \in Slot
  BY <1>1, <1>2 DEF Replay, ReplayId, Slot, Record, Ask
<1>4. [pc |-> "conflict", ask |-> slot[r].ask] \in Slot
  BY <1>2 DEF Slot
<1> QED
  BY <1>3, <1>4 DEF TypeOK, Answer

LEMMA GotoTyped ==
    ASSUME TypeOK, NEW r \in Requests, slot[r].pc \in {"lookup", "expired"},
           NEW pc \in {"expired", "running"}, Goto(r, pc)
    PROVE  slot' \in [Requests -> Slot]
<1>1. [pc |-> pc, ask |-> slot[r].ask] \in Slot
  BY SlotFields DEF Slot
<1> QED
  BY <1>1 DEF TypeOK, Goto

(* Dropping records, together with the marks of their age. *)
LEMMA DroppedTyped ==
    ASSUME TypeOK, NEW ks \in SUBSET Keys, records' = Dropped(ks), stale' = stale \ ks
    PROVE  /\ records' \in [Keys -> Record \cup {NoRecord}]
           /\ stale' \subseteq {k \in Keys : records'[k] # NoRecord}
BY DEF TypeOK, Dropped

LEMMA InitTypeOK == Init => TypeOK
BY DEF Init, TypeOK, IdleSlot, Slot

LEMMA InsertTyped ==
    ASSUME TypeOK, NEW r \in Requests, Insert(r)
    PROVE  TypeOK'
<1>1. slot[r].ask \in Ask /\ slot[r].run \in Runs /\ slot[r].outcome \in Outcomes
  BY SlotFields DEF Insert, At
<1>2. RecordOf(r) \in Record
  BY <1>1 DEF RecordOf, Record, Ask
<1>3. Result(r, slot[r].outcome) \in Slot
  BY <1>1 DEF Result, Slot, Ask
<1>4. Kept(r) \in [Keys -> Record \cup {NoRecord}]
  BY DEF TypeOK, Kept, Dropped
<1>5. records' \in [Keys -> Record \cup {NoRecord}]
  BY <1>2, <1>4 DEF Insert
<1>6. stale' \subseteq {k \in Keys : records'[k] # NoRecord}
  BY DEF TypeOK, Insert, Kept, Outdated, StaleWith, Dropped
<1>7. slot' \in [Requests -> Slot]
  BY <1>3 DEF TypeOK, Insert
<1> QED
  BY <1>5, <1>6, <1>7 DEF TypeOK, Insert

LEMMA TypeStep == TypeOK /\ [Next]_vars => TypeOK'
<1> SUFFICES ASSUME TypeOK, [Next]_vars PROVE TypeOK'
  OBVIOUS
<1>1. CASE UNCHANGED vars
  BY <1>1 DEF vars, TypeOK
<1>2. ASSUME NEW r \in Requests, Begin(r) PROVE TypeOK'
  BY <1>2 DEF TypeOK, Begin, Slot
<1>3. ASSUME NEW r \in Requests, PassThrough(r) PROVE TypeOK'
  BY <1>3 DEF TypeOK, PassThrough, Slot
<1>4. ASSUME NEW r \in Requests, End(r) PROVE TypeOK'
  BY <1>4 DEF TypeOK, End, IdleSlot, Slot
<1>5. ASSUME NEW r \in Requests, Get(r) PROVE TypeOK'
  <2>1. slot' \in [Requests -> Slot]
    BY <1>5, AnswerTyped, GotoTyped DEF Get, At
  <2> QED
    BY <1>5, <2>1 DEF TypeOK, Get
<1>6. ASSUME NEW r \in Requests, GetExpired(r) PROVE TypeOK'
  <2>1. slot' \in [Requests -> Slot]
    BY <1>6, AnswerTyped, GotoTyped DEF GetExpired, At
  <2>2. Key(r) \in Keys
    BY <1>6, KeyType DEF GetExpired, At
  <2> QED
    BY <1>6, <2>1, <2>2, DroppedTyped DEF TypeOK, GetExpired
<1>7. ASSUME NEW r \in Requests, IdempotencyReplay(r) PROVE TypeOK'
  <2>1. slot' \in [Requests -> Slot]
    BY <1>7, AnswerTyped, GotoTyped DEF IdempotencyReplay, At
  <2>2. Expired(r) \in SUBSET Keys
    BY DEF Expired, StaleWith, TypeOK
  <2> QED
    BY <1>7, <2>1, <2>2, DroppedTyped DEF TypeOK, IdempotencyReplay
<1>8. ASSUME NEW r \in Requests, RunRequest(r) PROVE TypeOK'
  <2>1. slot[r].ask \in Ask /\ slot[r].ask.payload \in Payloads /\ Key(r) \in Keys
    BY <1>8, SlotFields, KeyType DEF RunRequest, At
  <2>2. PICK n \in FreshRuns, outcome \in Outcomes :
            /\ done' = done \cup {[run |-> n, key |-> Key(r), payload |-> slot[r].ask.payload,
                                   outcome |-> outcome]}
            /\ slot' = [slot EXCEPT ![r] = [pc |-> "storing", ask |-> @.ask, run |-> n,
                                            outcome |-> outcome]]
    BY <1>8 DEF RunRequest
  <2>3. n \in Runs
    BY DEF FreshRuns
  <2>4. done' \subseteq Run
    BY <2>1, <2>2, <2>3 DEF TypeOK, Run
  <2>5. [pc |-> "storing", ask |-> slot[r].ask, run |-> n, outcome |-> outcome] \in Slot
    BY <2>1, <2>3 DEF Slot
  <2>6. slot' \in [Requests -> Slot]
    BY <2>2, <2>5 DEF TypeOK
  <2> QED
    BY <1>8, <2>4, <2>6 DEF TypeOK, RunRequest
<1>9. ASSUME NEW r \in Requests, Skip(r) \/ BufferOverflows(r) PROVE TypeOK'
  <2>1. slot[r].ask \in Ask /\ slot[r].run \in Runs /\ slot[r].outcome \in Outcomes
    BY <1>9, SlotFields DEF Skip, BufferOverflows, At
  <2>2. Result(r, slot[r].outcome) \in Slot /\ Result(r, "failed") \in Slot
    BY <2>1 DEF Result, Slot, Ask, Outcomes
  <2> QED
    BY <1>9, <2>2 DEF TypeOK, Skip, BufferOverflows
<1>10. ASSUME NEW r \in Requests, Disconnect(r) PROVE TypeOK'
  BY <1>10 DEF TypeOK, Disconnect, IdleSlot, Slot
<1>11. ASSUME NEW k \in Keys, Expire(k) PROVE TypeOK'
  BY <1>11 DEF TypeOK, Expire, Fresh, Recorded
<1> QED
  BY <1>1, <1>2, <1>3, <1>4, <1>5, <1>6, <1>7, <1>8, <1>9, <1>10, <1>11, InsertTyped DEF Next

(* The tables, the slots and the runs keep their types. *)
THEOREM IdempotencyTypes == Spec => []TypeOK
BY InitTypeOK, TypeStep, PTL DEF Spec

-----------------------------------------------------------------------------
(* A replay answers the request it is given to. *)

RunOf(k, record) == [run |-> record.run, key |-> k, payload |-> record.payload,
                     outcome |-> record.outcome]

(* Every record, and every answer about to be stored, is that of a run. *)
RecordsAreRuns == \A k \in Keys : Recorded(k) => RunOf(k, records[k]) \in done
AnswersAreRuns == \A r \in Requests : At(r, "storing") => RunOf(Key(r), RecordOf(r)) \in done

ReplayInv == TypeOK /\ RecordsAreRuns /\ AnswersAreRuns /\ ReplaysMatch

LEMMA InitReplayInv == Init => ReplayInv
BY InitTypeOK DEF Init, ReplayInv, RecordsAreRuns, AnswersAreRuns, ReplaysMatch, Recorded,
                  At, IdleSlot

(* A step that moves one slot, to a place where it neither stores nor       *)
(* replays an answer, and at most drops records, keeps the invariant.       *)
LEMMA ReplayQuietStep ==
    ASSUME ReplayInv, TypeOK', NEW r \in Requests, NEW s \in Slot,
           slot' = [slot EXCEPT ![r] = s],
           s.pc = "storing" => FALSE,
           s.pc = "answered" => s.kind = "result",
           \A k \in Keys : records'[k] \in {records[k], NoRecord},
           done' = done
    PROVE  ReplayInv'
<1>1. \A q \in Requests : q # r => slot'[q] = slot[q]
  BY DEF ReplayInv, TypeOK
<1>2. slot'[r] = s
  BY DEF ReplayInv, TypeOK
<1>3. RecordsAreRuns'
  BY DEF ReplayInv, RecordsAreRuns, Recorded, RunOf
<1>4. AnswersAreRuns'
  <2> SUFFICES ASSUME NEW q \in Requests, At(q, "storing")'
               PROVE  (RunOf(Key(q), RecordOf(q)) \in done)'
    BY DEF AnswersAreRuns
  <2>1. q # r
    BY <1>2 DEF At
  <2> QED
    BY <1>1, <2>1 DEF ReplayInv, AnswersAreRuns, At, RunOf, Key, RecordOf
<1>5. ReplaysMatch'
  <2> SUFFICES ASSUME NEW q \in Requests, At(q, "answered")', slot'[q].kind = "replay"
               PROVE  [run |-> slot'[q].run, key |-> Key(q)', payload |-> slot'[q].ask.payload,
                       outcome |-> slot'[q].outcome] \in done'
    BY DEF ReplaysMatch
  <2>1. q # r
    BY <1>2 DEF At
  <2> QED
    BY <1>1, <2>1 DEF ReplayInv, ReplaysMatch, At, Key
<1> QED
  BY <1>3, <1>4, <1>5 DEF ReplayInv

(* Looking a key up keeps it: the record found is that of a run of the     *)
(* request's payload, or there is a conflict.                              *)
LEMMA ReplayAnswerStep ==
    ASSUME ReplayInv, TypeOK', NEW r \in Requests, slot[r].pc \in {"lookup", "expired"},
           Fresh(Key(r)), Answer(r, records[Key(r)]),
           \A k \in Keys : records'[k] \in {records[k], NoRecord},
           done' = done
    PROVE  ReplayInv'
<1> DEFINE record == records[Key(r)]
<1>1. \A q \in Requests : q # r => slot'[q] = slot[q]
  BY DEF ReplayInv, TypeOK, Answer
<1>2. Key(r) \in Keys /\ slot[r].ask \in Ask
  BY KeyType, SlotFields DEF ReplayInv
<1>3. CASE record.payload # slot[r].ask.payload
  <2> DEFINE s == [pc |-> "conflict", ask |-> slot[r].ask]
  <2>1. s \in Slot
    BY <1>2 DEF Slot
  <2>2. slot' = [slot EXCEPT ![r] = s]
    BY <1>3 DEF Answer
  <2>3. s.pc # "storing" /\ s.pc # "answered"
    OBVIOUS
  <2> HIDE DEF s
  <2> QED
    BY <2>1, <2>2, <2>3, ReplayQuietStep
<1>4. CASE record.payload = slot[r].ask.payload
  <2>1. slot'[r] = Replay(r, record)
    BY <1>4 DEF ReplayInv, TypeOK, Answer
  <2>2. RunOf(Key(r), record) \in done
    BY <1>2 DEF ReplayInv, RecordsAreRuns, Fresh
  <2>3. RecordsAreRuns'
    BY DEF ReplayInv, RecordsAreRuns, Recorded, RunOf
  <2>4. AnswersAreRuns'
    <3> SUFFICES ASSUME NEW q \in Requests, At(q, "storing")'
                 PROVE  (RunOf(Key(q), RecordOf(q)) \in done)'
      BY DEF AnswersAreRuns
    <3>1. q # r
      BY <2>1 DEF At, Replay
    <3> QED
      BY <1>1, <3>1 DEF ReplayInv, AnswersAreRuns, At, RunOf, Key, RecordOf
  <2>5. ReplaysMatch'
    <3> SUFFICES ASSUME NEW q \in Requests, At(q, "answered")', slot'[q].kind = "replay"
                 PROVE  [run |-> slot'[q].run, key |-> Key(q)', payload |-> slot'[q].ask.payload,
                         outcome |-> slot'[q].outcome] \in done'
      BY DEF ReplaysMatch
    <3>1. CASE q = r
      BY <1>4, <2>1, <2>2, <3>1 DEF Replay, RunOf, Key
    <3>2. CASE q # r
      BY <1>1, <3>2 DEF ReplayInv, ReplaysMatch, At, Key
    <3> QED
      BY <3>1, <3>2
  <2> QED
    BY <2>3, <2>4, <2>5 DEF ReplayInv
<1> QED
  BY <1>3, <1>4

LEMMA ReplayRunStep ==
    ASSUME ReplayInv, TypeOK', NEW r \in Requests, RunRequest(r)
    PROVE  ReplayInv'
<1>1. PICK n \in FreshRuns, outcome \in Outcomes :
          /\ done' = done \cup {[run |-> n, key |-> Key(r), payload |-> slot[r].ask.payload,
                                 outcome |-> outcome]}
          /\ slot' = [slot EXCEPT ![r] = [pc |-> "storing", ask |-> @.ask, run |-> n,
                                          outcome |-> outcome]]
  BY DEF RunRequest
<1>2. \A q \in Requests : q # r => slot'[q] = slot[q]
  BY <1>1 DEF ReplayInv, TypeOK
<1>3. slot'[r] = [pc |-> "storing", ask |-> slot[r].ask, run |-> n, outcome |-> outcome]
  BY <1>1 DEF ReplayInv, TypeOK
<1>4. RecordsAreRuns'
  BY <1>1 DEF RunRequest, ReplayInv, RecordsAreRuns, Recorded, RunOf
<1>5. AnswersAreRuns'
  <2> SUFFICES ASSUME NEW q \in Requests, At(q, "storing")'
               PROVE  (RunOf(Key(q), RecordOf(q)) \in done)'
    BY DEF AnswersAreRuns
  <2>1. CASE q = r
    BY <1>1, <1>3, <2>1 DEF RunOf, Key, RecordOf
  <2>2. CASE q # r
    BY <1>1, <1>2, <2>2 DEF ReplayInv, AnswersAreRuns, At, RunOf, Key, RecordOf
  <2> QED
    BY <2>1, <2>2
<1>6. ReplaysMatch'
  BY <1>1, <1>2, <1>3 DEF ReplayInv, ReplaysMatch, At, Key
<1> QED
  BY <1>4, <1>5, <1>6 DEF ReplayInv

LEMMA ReplayInsertStep ==
    ASSUME ReplayInv, TypeOK', NEW r \in Requests, Insert(r)
    PROVE  ReplayInv'
<1>1. \A q \in Requests : q # r => slot'[q] = slot[q]
  BY DEF ReplayInv, TypeOK, Insert
<1>2. slot'[r] = Result(r, slot[r].outcome)
  BY DEF ReplayInv, TypeOK, Insert
<1>3. RunOf(Key(r), RecordOf(r)) \in done
  BY DEF ReplayInv, AnswersAreRuns, Insert
<1>4. \A k \in Keys : Kept(r)[k] \in {records[k], NoRecord}
  BY DEF Kept, Dropped
<1>5. RecordsAreRuns'
  <2> SUFFICES ASSUME NEW k \in Keys, Recorded(k)'
               PROVE  RunOf(k, records'[k]) \in done
    BY DEF RecordsAreRuns, RunOf, Insert
  <2>1. Kept(r) \in [Keys -> Record \cup {NoRecord}]
    BY DEF ReplayInv, TypeOK, Kept, Dropped
  <2>2. CASE k = Key(r)
    BY <1>3, <2>1, <2>2 DEF Insert
  <2>3. CASE k # Key(r)
    <3>1. records'[k] = Kept(r)[k]
      BY <2>1, <2>3 DEF Insert
    <3> QED
      BY <1>4, <3>1 DEF ReplayInv, RecordsAreRuns, Recorded
  <2> QED
    BY <2>2, <2>3
<1>6. AnswersAreRuns'
  <2> SUFFICES ASSUME NEW q \in Requests, At(q, "storing")'
               PROVE  (RunOf(Key(q), RecordOf(q)) \in done)'
    BY DEF AnswersAreRuns
  <2>1. q # r
    BY <1>2 DEF At, Result
  <2> QED
    BY <1>1, <2>1 DEF ReplayInv, AnswersAreRuns, At, RunOf, Key, RecordOf, Insert
<1>7. ReplaysMatch'
  BY <1>1, <1>2 DEF ReplayInv, ReplaysMatch, At, Key, Result, Insert
<1> QED
  BY <1>5, <1>6, <1>7 DEF ReplayInv

LEMMA ReplayStep == ReplayInv /\ [Next]_vars => ReplayInv'
<1> SUFFICES ASSUME ReplayInv, [Next]_vars PROVE ReplayInv'
  OBVIOUS
<1>0. TypeOK /\ TypeOK'
  BY TypeStep DEF ReplayInv
<1>1. CASE UNCHANGED vars
  BY <1>0, <1>1 DEF vars, ReplayInv, RecordsAreRuns, AnswersAreRuns, ReplaysMatch, Recorded,
                    At, RunOf, Key, RecordOf
<1>2. ASSUME NEW r \in Requests,
             Begin(r) \/ PassThrough(r) \/ End(r) \/ Skip(r) \/ BufferOverflows(r)
                 \/ Disconnect(r)
      PROVE  ReplayInv'
  <2> DEFINE s == slot'[r]
  <2>1. slot' = [slot EXCEPT ![r] = s] /\ s \in Slot
    BY <1>0, <1>2 DEF TypeOK, Begin, PassThrough, End, Skip, BufferOverflows, Disconnect
  <2>2. s.pc # "storing" /\ (s.pc = "answered" => s.kind = "result")
    BY <1>0, <1>2 DEF TypeOK, Begin, PassThrough, End, Skip, BufferOverflows, Disconnect,
                      Result, IdleSlot
  <2>3. done' = done /\ records' = records
    BY <1>2 DEF Begin, PassThrough, End, Skip, BufferOverflows, Disconnect
  <2> HIDE DEF s
  <2> QED
    BY <1>0, <2>1, <2>2, <2>3, ReplayQuietStep
<1>3. ASSUME NEW r \in Requests, Get(r) \/ GetExpired(r) \/ IdempotencyReplay(r)
      PROVE  ReplayInv'
  <2>1. done' = done /\ \A k \in Keys : records'[k] \in {records[k], NoRecord}
    BY <1>3 DEF Get, GetExpired, IdempotencyReplay, Dropped
  <2>2. slot[r].pc \in {"lookup", "expired"}
    BY <1>3 DEF Get, GetExpired, IdempotencyReplay, At
  <2>3. CASE Fresh(Key(r))
    <3>1. Answer(r, records[Key(r)])
      BY <1>3, <2>3 DEF Get, GetExpired, IdempotencyReplay
    <3> QED
      BY <1>0, <2>1, <2>2, <2>3, <3>1, ReplayAnswerStep
  <2>4. CASE ~Fresh(Key(r))
    <3>1. PICK pc \in {"expired", "running"} : Goto(r, pc)
      BY <1>3, <2>4 DEF Get, GetExpired, IdempotencyReplay
    <3> DEFINE s == [pc |-> pc, ask |-> slot[r].ask]
    <3>2. s \in Slot
      BY <1>0, <2>2, SlotFields DEF Slot
    <3>3. slot' = [slot EXCEPT ![r] = s] /\ s.pc # "storing" /\ s.pc # "answered"
      BY <3>1 DEF Goto
    <3> HIDE DEF s
    <3> QED
      BY <1>0, <2>1, <3>2, <3>3, ReplayQuietStep
  <2> QED
    BY <2>3, <2>4
<1>4. ASSUME NEW r \in Requests, RunRequest(r) PROVE ReplayInv'
  BY <1>0, <1>4, ReplayRunStep
<1>5. ASSUME NEW r \in Requests, Insert(r) PROVE ReplayInv'
  BY <1>0, <1>5, ReplayInsertStep
<1>6. ASSUME NEW k \in Keys, Expire(k) PROVE ReplayInv'
  BY <1>0, <1>6 DEF Expire, ReplayInv, RecordsAreRuns, AnswersAreRuns, ReplaysMatch, Recorded,
                    At, RunOf, Key, RecordOf
<1> QED
  BY <1>1, <1>2, <1>3, <1>4, <1>5, <1>6 DEF Next

(* Whatever the clients do and however records age, a replayed answer is   *)
(* that of a run of the same key and payload.                              *)
THEOREM ReplaysAnswerTheirRequest == Spec => []ReplaysMatch
<1>1. ReplayInv => ReplaysMatch
  BY DEF ReplayInv
<1> QED
  BY <1>1, InitReplayInv, ReplayStep, PTL DEF Spec

-----------------------------------------------------------------------------
(* Records within their ttl stay. *)

LEMMA FreshStep ==
    ASSUME TypeOK, [Next]_vars, NEW k \in Keys, Fresh(k)
    PROVE  records'[k] # NoRecord
<1>1. CASE UNCHANGED vars
  BY <1>1 DEF vars, Fresh, Recorded
<1>2. ASSUME NEW r \in Requests, Insert(r) PROVE records'[k] # NoRecord
  <2>1. Kept(r) \in [Keys -> Record \cup {NoRecord}] /\ Kept(r)[k] = records[k]
    BY DEF TypeOK, Kept, Outdated, StaleWith, Dropped, Fresh
  <2>2. TypeOK'
    BY <1>2, InsertTyped
  <2>3. CASE k = Key(r)
    <3>1. records'[k] = RecordOf(r)
      BY <1>2, <2>1, <2>3 DEF Insert
    <3>2. RecordOf(r) \in Record
      BY <1>2, SlotFields DEF RecordOf, Record, Insert, At, Ask
    <3> QED
      BY <3>1, <3>2, IdempotencyAssumption
  <2>4. CASE k # Key(r)
    BY <1>2, <2>1, <2>4 DEF Insert, Fresh, Recorded
  <2> QED
    BY <2>3, <2>4
<1>3. ASSUME NEW r \in Requests, GetExpired(r) PROVE records'[k] # NoRecord
  BY <1>3 DEF GetExpired, Dropped, Fresh, Recorded
<1>4. ASSUME NEW r \in Requests, IdempotencyReplay(r) PROVE records'[k] # NoRecord
  BY <1>4 DEF IdempotencyReplay, Expired, StaleWith, Dropped, Fresh, Recorded
<1>5. ASSUME NEW r \in Requests, RunRequest(r) PROVE records'[k] # NoRecord
  BY <1>5 DEF RunRequest, Fresh, Recorded
<1>6. ASSUME NEW r \in Requests,
             Begin(r) \/ PassThrough(r) \/ End(r) \/ Get(r) \/ Skip(r) \/ BufferOverflows(r)
                 \/ Disconnect(r)
      PROVE  records'[k] # NoRecord
  BY <1>6 DEF Begin, PassThrough, End, Get, Skip, BufferOverflows, Disconnect, Fresh, Recorded
<1>7. ASSUME NEW j \in Keys, Expire(j) PROVE records'[k] # NoRecord
  BY <1>7 DEF Expire, Fresh, Recorded
<1> QED
  BY <1>1, <1>2, <1>3, <1>4, <1>5, <1>6, <1>7 DEF Next

(* No interleaving of lookups, clean-ups and inserts drops a record within *)
(* its ttl.                                                                *)
THEOREM FreshRecordsAreKept == Spec => FreshRecordsStay
<1>1. TypeOK /\ [Next]_vars => [\A k \in Keys : Fresh(k) => records'[k] # NoRecord]_vars
  BY FreshStep
<1> QED
  BY <1>1, IdempotencyTypes, PTL DEF Spec, FreshRecordsStay

-----------------------------------------------------------------------------
(* One run per key, when clients wait for their answers. *)

(* Of the keys whose records last: no two clients use one, nobody who uses *)
(* one goes away while it waits, and their answers can be buffered.        *)
Patient == /\ \A q, r \in Requests : q # r => KeysOf[q] \cap KeysOf[r] \subseteq MayExpire
           /\ \A r \in MayDisconnect \cup Oversized : KeysOf[r] \subseteq MayExpire

Counts(d) == d.key \notin MayExpire /\ d.outcome \in Stored(d.key)

(* The runs that count are all accounted for: by a record, or by a slot    *)
(* that is about to store their answer.  A slot about to run its request   *)
(* has a key without a run that counts.                                    *)
SlotsUseTheirKeys ==
    \A r \in Requests : slot[r].pc \in {"lookup", "expired", "running", "storing"}
                        => Key(r) \in KeysOf[r]
RunsAreKept ==
    \A d \in done : Counts(d) =>
        \/ Recorded(d.key)
        \/ \E r \in Requests : At(r, "storing") /\ Key(r) = d.key /\ slot[r].outcome \in Stored(d.key)
NothingToRunTwice ==
    \A r \in Requests, d \in done : At(r, "running") /\ Counts(d) => d.key # Key(r)

OneRunInv == /\ TypeOK
             /\ stale \subseteq MayExpire
             /\ SlotsUseTheirKeys
             /\ RunsAreKept
             /\ NothingToRunTwice
             /\ OneRunPerKey

LEMMA InitOneRunInv == Init => OneRunInv
BY InitTypeOK DEF Init, OneRunInv, SlotsUseTheirKeys, RunsAreKept, NothingToRunTwice,
                  OneRunPerKey, At, IdleSlot

(* Slots at work on one lasting key are one slot. *)
LEMMA OwnKey ==
    ASSUME Patient, OneRunInv, NEW q \in Requests, NEW r \in Requests,
           slot[q].pc \in {"lookup", "expired", "running", "storing"},
           slot[r].pc \in {"lookup", "expired", "running", "storing"},
           Key(q) = Key(r), Key(r) \notin MayExpire
    PROVE  q = r
BY DEF Patient, OneRunInv, SlotsUseTheirKeys

(* A slot that finds no record within its ttl goes on to run its request:  *)
(* nothing that counts has been run under its key.                         *)
LEMMA NotFound ==
    ASSUME Patient, OneRunInv, NEW r \in Requests, slot[r].pc \in {"lookup", "expired"},
           ~Fresh(Key(r)), NEW d \in done, Counts(d)
    PROVE  d.key # Key(r)
<1> SUFFICES ASSUME d.key = Key(r) PROVE FALSE
  OBVIOUS
<1>1. ~Recorded(d.key)
  BY DEF OneRunInv, Fresh, Counts
<1>2. PICK q \in Requests : At(q, "storing") /\ Key(q) = d.key
  BY <1>1 DEF OneRunInv, RunsAreKept
<1>3. q = r
  BY <1>2, OwnKey DEF At, Counts
<1> QED
  BY <1>2, <1>3 DEF At

(* A step of one slot that is not storing and does not come to store, that *)
(* runs nothing and drops no record of a key that cannot expire.           *)
LEMMA OneRunQuietStep ==
    ASSUME Patient, OneRunInv, TypeOK', NEW r \in Requests, NEW s \in Slot,
           slot' = [slot EXCEPT ![r] = s],
           ~At(r, "storing") \/ slot[r].outcome \notin Stored(Key(r)) \/ Key(r) \in MayExpire,
           s.pc # "storing",
           s.pc \in {"lookup", "expired", "running"} => s.ask.key \in KeysOf[r],
           s.pc = "running" => \A d \in done : Counts(d) => d.key # s.ask.key,
           \A k \in Keys \ MayExpire : records'[k] = records[k],
           stale' \subseteq MayExpire,
           done' = done
    PROVE  OneRunInv'
<1>1. \A q \in Requests : q # r => slot'[q] = slot[q]
  BY DEF OneRunInv, TypeOK
<1>2. slot'[r] = s
  BY DEF OneRunInv, TypeOK
<1>3. SlotsUseTheirKeys'
  BY <1>1, <1>2 DEF OneRunInv, SlotsUseTheirKeys, Key
<1>4. RunsAreKept'
  <2> SUFFICES ASSUME NEW d \in done, Counts(d)
               PROVE  \/ records'[d.key] # NoRecord
                      \/ \E q \in Requests : /\ slot'[q].pc = "storing"
                                             /\ slot'[q].ask.key = d.key
                                             /\ slot'[q].outcome \in Stored(d.key)
    BY DEF RunsAreKept, Recorded, At, Key, Counts
  <2>1. d.key \in Keys \ MayExpire
    BY DEF Counts, OneRunInv, TypeOK, Run
  <2>2. CASE Recorded(d.key)
    BY <2>1, <2>2 DEF Recorded
  <2>3. CASE ~Recorded(d.key)
    <3>1. PICK q \in Requests : At(q, "storing") /\ Key(q) = d.key /\ slot[q].outcome \in Stored(d.key)
      BY <2>3 DEF OneRunInv, RunsAreKept
    <3>2. slot'[q] = slot[q]
      BY <1>1, <2>1, <3>1
    <3> QED
      BY <3>1, <3>2 DEF At, Key
  <2> QED
    BY <2>2, <2>3
<1>5. NothingToRunTwice'
  BY <1>1, <1>2 DEF OneRunInv, NothingToRunTwice, At, Key, Counts
<1>6. OneRunPerKey'
  BY DEF OneRunInv, OneRunPerKey
<1> QED
  BY <1>3, <1>4, <1>5, <1>6 DEF OneRunInv

LEMMA OneRunRunStep ==
    ASSUME Patient, OneRunInv, TypeOK', NEW r \in Requests, RunRequest(r)
    PROVE  OneRunInv'
<1>1. PICK n \in FreshRuns, outcome \in Outcomes :
          /\ done' = done \cup {[run |-> n, key |-> Key(r), payload |-> slot[r].ask.payload,
                                 outcome |-> outcome]}
          /\ slot' = [slot EXCEPT ![r] = [pc |-> "storing", ask |-> @.ask, run |-> n,
                                          outcome |-> outcome]]
  BY DEF RunRequest
<1> DEFINE new == [run |-> n, key |-> Key(r), payload |-> slot[r].ask.payload,
                   outcome |-> outcome]
<1>2. \A q \in Requests : q # r => slot'[q] = slot[q]
  BY <1>1 DEF OneRunInv, TypeOK
<1>3. slot'[r] = [pc |-> "storing", ask |-> slot[r].ask, run |-> n, outcome |-> outcome]
  BY <1>1 DEF OneRunInv, TypeOK
<1>4. new.key = Key(r) /\ new.outcome = outcome /\ done' = done \cup {new}
  BY <1>1
<1>5. At(r, "running") /\ records' = records /\ stale' = stale
  BY DEF RunRequest
<1> HIDE DEF new
<1>6. SlotsUseTheirKeys'
  BY <1>2, <1>3, <1>5 DEF OneRunInv, SlotsUseTheirKeys, Key, At
<1>7. RunsAreKept'
  <2> SUFFICES ASSUME NEW d \in done', Counts(d)
               PROVE  \/ records'[d.key] # NoRecord
                      \/ \E q \in Requests : /\ slot'[q].pc = "storing"
                                             /\ slot'[q].ask.key = d.key
                                             /\ slot'[q].outcome \in Stored(d.key)
    BY DEF RunsAreKept, Recorded, At, Key, Counts
  <2>1. CASE d = new
    BY <1>3, <1>4, <2>1 DEF Counts, Key
  <2>2. CASE d \in done /\ Recorded(d.key)
    BY <1>5, <2>2 DEF Recorded
  <2>3. CASE d \in done /\ ~Recorded(d.key)
    <3>1. PICK q \in Requests : At(q, "storing") /\ Key(q) = d.key /\ slot[q].outcome \in Stored(d.key)
      BY <2>3 DEF OneRunInv, RunsAreKept
    <3>2. slot'[q] = slot[q]
      BY <1>2, <1>5, <3>1 DEF At
    <3> QED
      BY <3>1, <3>2 DEF At, Key
  <2> QED
    BY <1>4, <2>1, <2>2, <2>3
<1>8. NothingToRunTwice'
  <2> SUFFICES ASSUME NEW q \in Requests, NEW d \in done', slot'[q].pc = "running", Counts(d)
               PROVE  d.key # slot'[q].ask.key
    BY DEF NothingToRunTwice, At, Key, Counts
  <2>1. q # r /\ slot'[q] = slot[q]
    BY <1>2, <1>3
  <2>2. CASE d \in done
    BY <2>1, <2>2 DEF OneRunInv, NothingToRunTwice, At, Key
  <2>3. CASE d = new
    BY <1>4, <1>5, <2>1, <2>3, OwnKey DEF At, Key, Counts
  <2> QED
    BY <1>4, <2>2, <2>3
<1>9. OneRunPerKey'
  <2> SUFFICES ASSUME NEW d \in done', NEW e \in done', d.key = e.key, Counts(d), Counts(e)
               PROVE  d = e
    BY DEF OneRunPerKey, Counts
  <2>1. \A x \in done : Counts(x) => x.key # Key(r)
    BY <1>5 DEF OneRunInv, NothingToRunTwice
  <2> QED
    BY <1>4, <2>1 DEF OneRunInv, OneRunPerKey, Counts
<1> QED
  BY <1>5, <1>6, <1>7, <1>8, <1>9 DEF OneRunInv

LEMMA OneRunInsertStep ==
    ASSUME Patient, OneRunInv, TypeOK', NEW r \in Requests, Insert(r)
    PROVE  OneRunInv'
<1>1. \A q \in Requests : q # r => slot'[q] = slot[q]
  BY DEF OneRunInv, TypeOK, Insert
<1>2. slot'[r] = Result(r, slot[r].outcome)
  BY DEF OneRunInv, TypeOK, Insert
<1>3. Kept(r) \in [Keys -> Record \cup {NoRecord}]
  BY DEF OneRunInv, TypeOK, Kept, Dropped
<1>4. \A k \in Keys \ MayExpire : Recorded(k) => records'[k] # NoRecord
  <2> SUFFICES ASSUME NEW k \in Keys \ MayExpire, Recorded(k) PROVE records'[k] # NoRecord
    OBVIOUS
  <2>1. Fresh(k)
    BY DEF OneRunInv, Fresh
  <2> QED
    BY <2>1, FreshStep DEF OneRunInv, Next
<1>5. records'[Key(r)] # NoRecord
  <2>1. RecordOf(r) \in Record /\ Key(r) \in Keys
    BY SlotFields, KeyType DEF OneRunInv, RecordOf, Record, Insert, At, Ask
  <2> QED
    BY <1>3, <2>1, IdempotencyAssumption DEF Insert
<1>6. stale' \subseteq MayExpire /\ done' = done
  BY DEF OneRunInv, Insert
<1>7. SlotsUseTheirKeys'
  BY <1>1, <1>2 DEF OneRunInv, SlotsUseTheirKeys, Key, Result
<1>8. RunsAreKept'
  <2> SUFFICES ASSUME NEW d \in done, Counts(d)
               PROVE  \/ records'[d.key] # NoRecord
                      \/ \E q \in Requests : /\ slot'[q].pc = "storing"
                                             /\ slot'[q].ask.key = d.key
                                             /\ slot'[q].outcome \in Stored(d.key)
    BY <1>6 DEF RunsAreKept, Recorded, At, Key, Counts
  <2>1. d.key \in Keys \ MayExpire
    BY DEF Counts, OneRunInv, TypeOK, Run
  <2>2. CASE Recorded(d.key)
    BY <1>4, <2>1, <2>2
  <2>3. CASE ~Recorded(d.key)
    <3>1. PICK q \in Requests : At(q, "storing") /\ Key(q) = d.key /\ slot[q].outcome \in Stored(d.key)
      BY <2>3 DEF OneRunInv, RunsAreKept
    <3>2. CASE q = r
      BY <1>5, <3>1, <3>2
    <3>3. CASE q # r
      BY <1>1, <3>1, <3>3 DEF At, Key
    <3> QED
      BY <3>2, <3>3
  <2> QED
    BY <2>2, <2>3
<1>9. NothingToRunTwice'
  BY <1>1, <1>2, <1>6 DEF OneRunInv, NothingToRunTwice, At, Key, Counts, Result
<1>10. OneRunPerKey'
  BY <1>6 DEF OneRunInv, OneRunPerKey
<1> QED
  BY <1>6, <1>7, <1>8, <1>9, <1>10 DEF OneRunInv

(* A lookup: a record of a key that cannot expire stays as it is. *)
LEMMA OneRunLookupStep ==
    ASSUME Patient, OneRunInv, TypeOK', NEW r \in Requests,
           Get(r) \/ GetExpired(r) \/ IdempotencyReplay(r)
    PROVE  OneRunInv'
<1>1. slot[r].pc \in {"lookup", "expired"} /\ slot[r].ask \in Ask
  BY SlotFields DEF OneRunInv, Get, GetExpired, IdempotencyReplay, At
<1>2. done' = done /\ stale' \subseteq MayExpire
  BY DEF OneRunInv, Get, GetExpired, IdempotencyReplay
<1>3. \A k \in Keys \ MayExpire : records'[k] = records[k]
  <2>1. CASE Get(r)
    BY <2>1 DEF Get
  <2>2. CASE GetExpired(r)
    <3>1. CASE Fresh(Key(r))
      BY <2>2, <3>1 DEF GetExpired
    <3>2. CASE ~Fresh(Key(r))
      <4>1. records' = Dropped({Key(r)})
        BY <2>2, <3>2 DEF GetExpired
      <4>2. \A k \in Keys \ MayExpire : k = Key(r) => records[k] = NoRecord
        BY <3>2 DEF OneRunInv, Fresh, Recorded
      <4> QED
        BY <4>1, <4>2 DEF Dropped
    <3> QED
      BY <3>1, <3>2
  <2>3. CASE IdempotencyReplay(r)
    BY <2>3 DEF OneRunInv, IdempotencyReplay, Expired, StaleWith, Dropped
  <2> QED
    BY <2>1, <2>2, <2>3
<1>4. CASE Fresh(Key(r))
  <2> DEFINE s == slot'[r]
  <2>1. Answer(r, records[Key(r)])
    BY <1>4 DEF Get, GetExpired, IdempotencyReplay
  <2>2. slot' = [slot EXCEPT ![r] = s] /\ s \in Slot
    BY <2>1 DEF OneRunInv, TypeOK, Answer
  <2>3. s.pc \in {"answered", "conflict"}
    BY <2>1 DEF OneRunInv, TypeOK, Answer, Replay
  <2> HIDE DEF s
  <2> QED
    BY <1>1, <1>2, <1>3, <2>2, <2>3, OneRunQuietStep DEF At
<1>5. CASE ~Fresh(Key(r))
  <2>1. PICK pc \in {"expired", "running"} : Goto(r, pc)
    BY <1>5 DEF Get, GetExpired, IdempotencyReplay
  <2> DEFINE s == [pc |-> pc, ask |-> slot[r].ask]
  <2>2. s \in Slot
    BY <1>1 DEF Slot
  <2>3. slot' = [slot EXCEPT ![r] = s] /\ s.pc = pc /\ s.ask.key = Key(r)
    BY <2>1 DEF Goto, Key
  <2>4. Key(r) \in KeysOf[r]
    BY <1>1 DEF OneRunInv, SlotsUseTheirKeys
  <2>5. \A d \in done : Counts(d) => d.key # Key(r)
    BY <1>1, <1>5, NotFound
  <2> HIDE DEF s
  <2> QED
    BY <1>1, <1>2, <1>3, <2>2, <2>3, <2>4, <2>5, OneRunQuietStep DEF At
<1> QED
  BY <1>4, <1>5

LEMMA OneRunStep ==
    ASSUME Patient
    PROVE  OneRunInv /\ [Next]_vars => OneRunInv'
<1> SUFFICES ASSUME OneRunInv, [Next]_vars PROVE OneRunInv'
  OBVIOUS
<1>0. TypeOK /\ TypeOK'
  BY TypeStep DEF OneRunInv
<1>1. CASE UNCHANGED vars
  BY <1>0, <1>1 DEF vars, OneRunInv, SlotsUseTheirKeys, RunsAreKept, NothingToRunTwice,
                    OneRunPerKey, Counts, Recorded, At, Key
<1>2. ASSUME NEW r \in Requests,
             Begin(r) \/ PassThrough(r) \/ End(r) \/ Skip(r) \/ BufferOverflows(r) \/ Disconnect(r)
      PROVE  OneRunInv'
  <2> DEFINE s == slot'[r]
  <2>1. slot' = [slot EXCEPT ![r] = s] /\ s \in Slot
    BY <1>0, <1>2 DEF TypeOK, Begin, PassThrough, End, Skip, BufferOverflows, Disconnect
  <2>2. s.pc \notin {"storing", "running", "expired"}
        /\ (s.pc = "lookup" => s.ask.key \in KeysOf[r])
    BY <1>0, <1>2 DEF TypeOK, Begin, PassThrough, End, Skip, BufferOverflows, Disconnect,
                        Result, IdleSlot
  <2>3. done' = done /\ records' = records /\ stale' = stale
    BY <1>2 DEF Begin, PassThrough, End, Skip, BufferOverflows, Disconnect
  <2>4. ~At(r, "storing") \/ slot[r].outcome \notin Stored(Key(r)) \/ Key(r) \in MayExpire
    <3>1. At(r, "storing") => Key(r) \in KeysOf[r]
      BY DEF OneRunInv, SlotsUseTheirKeys, At
    <3> QED
      BY <1>2, <3>1 DEF Begin, PassThrough, End, Skip, BufferOverflows, Disconnect, At, Patient
  <2>5. stale \subseteq MayExpire
    BY DEF OneRunInv
  <2> HIDE DEF s
  <2> QED
    BY <1>0, <2>1, <2>2, <2>3, <2>4, <2>5, OneRunQuietStep
<1>3. ASSUME NEW r \in Requests, Get(r) \/ GetExpired(r) \/ IdempotencyReplay(r)
      PROVE  OneRunInv'
  BY <1>0, <1>3, OneRunLookupStep
<1>4. ASSUME NEW r \in Requests, RunRequest(r) PROVE OneRunInv'
  BY <1>0, <1>4, OneRunRunStep
<1>5. ASSUME NEW r \in Requests, Insert(r) PROVE OneRunInv'
  BY <1>0, <1>5, OneRunInsertStep
<1>6. ASSUME NEW k \in Keys, Expire(k) PROVE OneRunInv'
  BY <1>0, <1>6 DEF Expire, OneRunInv, SlotsUseTheirKeys, RunsAreKept, NothingToRunTwice,
                    OneRunPerKey, Counts, Recorded, At, Key
<1> QED
  BY <1>1, <1>2, <1>3, <1>4, <1>5, <1>6 DEF Next

(* Clients that wait for their answers have a request carried out once per *)
(* key while its record lasts, whatever the others do.                     *)
THEOREM PatientClientsRunOnce ==
    ASSUME Patient
    PROVE  Spec => []OneRunPerKey
<1>1. OneRunInv => OneRunPerKey
  BY DEF OneRunInv
<1>2. OneRunInv /\ [Next]_vars => OneRunInv'
  BY OneRunStep
<1> QED
  BY <1>1, <1>2, InitOneRunInv, PTL DEF Spec

=============================================================================
