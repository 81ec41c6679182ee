----------------------------- MODULE Idempotency -----------------------------
(***************************************************************************)
(* The answer caches that let a client repeat a request it had no answer   *)
(* to: the Idempotency-Key middleware of the REST API (src/idempotency.rs) *)
(* and the caches of the MCP handler (src/mcp.rs, idempotency_key) and of  *)
(* the A2A handler (src/a2a.rs, messageId).  The three share one shape -   *)
(* look the key up, carry the request out, store the answer - and differ   *)
(* in what each step locks, drops and stores.  Each has a table of its     *)
(* own: CacheOf[k] is the one that key k belongs to.                       *)
(*                                                                         *)
(* A request is modelled by a slot, and its program counter names the next *)
(* critical section.  KeysOf[r] are the keys the client behind slot r      *)
(* uses: disjoint sets are clients that wait for an answer before they     *)
(* repeat a request.  A run is one execution of the operation behind the   *)
(* cache, told apart from every other by its identifier.                   *)
(***************************************************************************)
EXTENDS Naturals, FiniteSets

CONSTANTS
    Requests,       \* slots for requests in progress: a bound of the model
    Keys, Payloads, \* idempotency keys, hashes of requests
    CacheOf,        \* the cache a key belongs to: "rest", "mcp" or "a2a"
    Ids,            \* JSON-RPC ids, or Request-Id headers
    Runs,           \* identifiers of executions: a bound of the model
    KeysOf,         \* the keys each slot's client uses
    MayExpire,      \* the keys whose records may outlive their ttl
    MayDisconnect,  \* the slots whose client may go away
    Oversized,      \* the slots whose answer may exceed MAX_REQUEST_BODY_BYTES
    NoRecord

(* How an operation ends: with a result, refused by the service, refused   *)
(* before it reached the service (its body does not parse), or failed.     *)
Outcomes == {"ok", "refused", "invalid", "failed"}

(* What is stored under a key. *)
Record == [payload : Payloads, run : Runs, outcome : Outcomes, id : Ids]

ASSUME IdempotencyAssumption ==
    /\ CacheOf \in [Keys -> {"rest", "mcp", "a2a"}]
    /\ KeysOf \in [Requests -> SUBSET Keys]
    /\ MayExpire \subseteq Keys
    /\ MayDisconnect \subseteq Requests
    /\ Oversized \subseteq Requests
    /\ NoRecord \notin Record

VARIABLES
    records,  \* the answer stored under each key
    stale,    \* the keys whose record is older than the ttl
    slot,     \* the request each slot is at
    done      \* every run so far, with the request that caused it

vars == <<records, stale, slot, done>>

(* The outcomes whose answer is stored: the middleware leaves out statuses *)
(* of 500 and above, MCP returns early when the parameters do not parse,   *)
(* A2A stores whatever it answers.                                         *)
Stored(k) == [rest |-> {"ok", "refused", "invalid"},
              mcp |-> {"ok", "refused", "failed"},
              a2a |-> Outcomes][CacheOf[k]]

Ask == [key : Keys, payload : Payloads, id : Ids]
Run == [run : Runs, key : Keys, payload : Payloads, outcome : Outcomes]

(* Slots by what they wait for.  "expired" waits for the write lock after  *)
(* the read lock showed a stale record (REST only).                        *)
IdleSlot == [pc |-> "idle"]
Slot == [pc : {"lookup", "expired", "running"}, ask : Ask]
        \cup [pc : {"storing"}, ask : Ask, run : Runs, outcome : Outcomes]
        \cup [pc : {"answered"}, ask : Ask, run : Runs, outcome : Outcomes, id : Ids,
              kind : {"result", "replay"}]
        \cup [pc : {"conflict"}, ask : Ask]
        \cup [pc : {"idle", "passed"}]

TypeOK == /\ records \in [Keys -> Record \cup {NoRecord}]
          /\ stale \subseteq {k \in Keys : records[k] # NoRecord}
          /\ slot \in [Requests -> Slot]
          /\ done \subseteq Run

Init == /\ records = [k \in Keys |-> NoRecord]
        /\ stale = {}
        /\ slot = [r \in Requests |-> IdleSlot]
        /\ done = {}

-----------------------------------------------------------------------------

At(r, pc) == slot[r].pc = pc
Goto(r, pc) == slot' = [slot EXCEPT ![r] = [pc |-> pc, ask |-> slot[r].ask]]
Key(r) == slot[r].ask.key
Cache(r) == CacheOf[Key(r)]
Recorded(k) == records[k] # NoRecord
Fresh(k) == Recorded(k) /\ k \notin stale

(* The stale records of the cache that k is used with. *)
StaleWith(k) == {l \in stale : CacheOf[l] = CacheOf[k]}

(* A client sends a request under a key, as long as Runs lasts for it. *)
FreshRuns == Runs \ {d.run : d \in done}
Unfinished == {r \in Requests : slot[r].pc \in {"lookup", "expired", "running"}}

Begin(r) == /\ At(r, "idle") /\ Cardinality(Unfinished) < Cardinality(FreshRuns)
            /\ \E ask \in Ask : /\ ask.key \in KeysOf[r]
                                /\ slot' = [slot EXCEPT ![r] = [pc |-> "lookup", ask |-> ask]]
            /\ UNCHANGED <<records, stale, done>>

(* A request without a key, or with a method other than POST and PUT, is   *)
(* carried out and answered without a look at the records.                 *)
PassThrough(r) == /\ At(r, "idle")
                  /\ slot' = [slot EXCEPT ![r] = [pc |-> "passed"]]
                  /\ UNCHANGED <<records, stale, done>>

(* The client has its answer. *)
End(r) == /\ slot[r].pc \in {"answered", "conflict", "passed"}
          /\ slot' = [slot EXCEPT ![r] = IdleSlot]
          /\ UNCHANGED <<records, stale, done>>

-----------------------------------------------------------------------------
(* Looking a key up. *)

(* The id of a replay: the middleware copies the Request-Id header of the  *)
(* request at hand; MCP and A2A return the stored response as it is.       *)
ReplayId(r, record) == IF Cache(r) = "rest" THEN slot[r].ask.id ELSE record.id

Replay(r, record) ==
    [pc |-> "answered", ask |-> slot[r].ask, run |-> record.run, outcome |-> record.outcome,
     id |-> ReplayId(r, record), kind |-> "replay"]

(* A bug to detect: the request's hash is not compared with the record's. *)
AnswerUnchecked(r, record) == slot' = [slot EXCEPT ![r] = Replay(r, record)]

(* The answer to a request whose key has a record. *)
Answer(r, record) ==
    slot' = [slot EXCEPT ![r] = IF record.payload = @.ask.payload THEN Replay(r, record)
                                ELSE [pc |-> "conflict", ask |-> @.ask]]

Dropped(ks) == [k \in Keys |-> IF k \in ks THEN NoRecord ELSE records[k]]

(* IdempotencyStore::get under the read lock. *)
Get(r) == /\ At(r, "lookup") /\ Cache(r) = "rest"
          /\ IF Fresh(Key(r)) THEN Answer(r, records[Key(r)])
             ELSE Goto(r, IF Recorded(Key(r)) THEN "expired" ELSE "running")
          /\ UNCHANGED <<records, stale, done>>

(* A bug to detect: the record found stale under the read lock is removed  *)
(* without a second look.                                                  *)
RemoveSeenExpired(r) ==
    /\ At(r, "expired") /\ Cache(r) = "rest"
    /\ records' = Dropped({Key(r)})
    /\ stale' = stale \ {Key(r)}
    /\ Goto(r, "running")
    /\ UNCHANGED done

(* The rest of get, under the write lock: the record is looked at again. *)
GetExpired(r) == /\ At(r, "expired") /\ Cache(r) = "rest"
                 /\ IF Fresh(Key(r))
                    THEN Answer(r, records[Key(r)]) /\ UNCHANGED <<records, stale>>
                    ELSE /\ Goto(r, "running")
                         /\ records' = Dropped({Key(r)})
                         /\ stale' = stale \ {Key(r)}
                 /\ UNCHANGED done

(* idempotency_replay: MCP drops every stale record, A2A the one it met. *)
Expired(r) == IF Cache(r) = "mcp" THEN StaleWith(Key(r)) ELSE stale \cap {Key(r)}

IdempotencyReplay(r) ==
    /\ At(r, "lookup") /\ Cache(r) # "rest"
    /\ records' = Dropped(Expired(r))
    /\ stale' = stale \ Expired(r)
    /\ IF Fresh(Key(r)) THEN Answer(r, records[Key(r)]) ELSE Goto(r, "running")
    /\ UNCHANGED done

-----------------------------------------------------------------------------
(* Carrying the request out and storing the answer. *)

(* next.run, or the call of the service. *)
RunRequest(r) ==
    /\ At(r, "running")
    /\ \E n \in FreshRuns, outcome \in Outcomes :
           /\ done' = done \cup {[run |-> n, key |-> Key(r), payload |-> slot[r].ask.payload,
                                  outcome |-> outcome]}
           /\ slot' = [slot EXCEPT ![r] = [pc |-> "storing", ask |-> @.ask, run |-> n,
                                           outcome |-> outcome]]
    /\ UNCHANGED <<records, stale>>

Result(r, outcome) ==
    [pc |-> "answered", ask |-> slot[r].ask, run |-> slot[r].run, outcome |-> outcome,
     id |-> slot[r].ask.id, kind |-> "result"]

RecordOf(r) == [payload |-> slot[r].ask.payload, run |-> slot[r].run,
                outcome |-> slot[r].outcome, id |-> slot[r].ask.id]

(* A bug to detect: the table is cleared whenever an answer is stored. *)
KeptClearing(r) == [k \in Keys |-> NoRecord]

Outdated(r) == IF Cache(r) = "a2a" THEN {} ELSE StaleWith(Key(r))

(* What insert leaves of the table: REST and MCP drop stale records, A2A   *)
(* never does.                                                             *)
Kept(r) == Dropped(Outdated(r))

(* IdempotencyStore::insert, store_idempotency: one write lock. *)
Insert(r) ==
    /\ At(r, "storing") /\ slot[r].outcome \in Stored(Key(r))
    /\ records' = [Kept(r) EXCEPT ![Key(r)] = RecordOf(r)]
    /\ stale' = stale \ (Outdated(r) \cup {Key(r)})
    /\ slot' = [slot EXCEPT ![r] = Result(r, @.outcome)]
    /\ UNCHANGED done

(* The answer is not one to store. *)
Skip(r) == /\ At(r, "storing") /\ slot[r].outcome \notin Stored(Key(r))
           /\ slot' = [slot EXCEPT ![r] = Result(r, @.outcome)]
           /\ UNCHANGED <<records, stale, done>>

(* The middleware cannot buffer the answer: the request has been carried   *)
(* out, the client is told of a processing error, nothing is stored.       *)
BufferOverflows(r) == /\ r \in Oversized /\ At(r, "storing") /\ Cache(r) = "rest"
                      /\ slot' = [slot EXCEPT ![r] = Result(r, "failed")]
                      /\ UNCHANGED <<records, stale, done>>

-----------------------------------------------------------------------------
(* The environment: time passes; the client's connection closes and the    *)
(* future of its request is dropped where it waits.                        *)
Expire(k) == /\ k \in MayExpire /\ Fresh(k)
             /\ stale' = stale \cup {k}
             /\ UNCHANGED <<records, slot, done>>

Disconnect(r) == /\ r \in MayDisconnect /\ ~At(r, "idle")
                 /\ slot' = [slot EXCEPT ![r] = IdleSlot]
                 /\ UNCHANGED <<records, stale, done>>

Next == \/ \E r \in Requests :
               \/ Begin(r) \/ PassThrough(r) \/ End(r)
               \/ Get(r) \/ GetExpired(r) \/ IdempotencyReplay(r)
               \/ RunRequest(r) \/ Insert(r) \/ Skip(r) \/ BufferOverflows(r)
               \/ Disconnect(r)
        \/ \E k \in Keys : Expire(k)

Spec == Init /\ [][Next]_vars

-----------------------------------------------------------------------------

(* A client that repeats a request under its key while the record lasts    *)
(* has it carried out once: no two runs of a key have an answer worth      *)
(* storing (the middleware and the caches run what they find no record of).*)
OneRunPerKey ==
    \A d, e \in done : d.key = e.key /\ d.key \notin MayExpire
                       /\ {d.outcome, e.outcome} \subseteq Stored(d.key) => d = e

(* A replay is the answer to the very request it is given to: a run under  *)
(* its key of its payload ended like that (the hash comparison of the      *)
(* three caches, whatever the records went through in between).            *)
ReplaysMatch ==
    \A r \in Requests : At(r, "answered") /\ slot[r].kind = "replay" =>
        [run |-> slot[r].run, key |-> Key(r), payload |-> slot[r].ask.payload,
         outcome |-> slot[r].outcome] \in done

(* The answer carries the id of the request it answers. *)
AnswersEchoTheId == \A r \in Requests : At(r, "answered") => slot[r].id = slot[r].ask.id

(* A record within its ttl is there to stay: a request that met a stale    *)
(* one looks again before it removes it, and the clean-up of insert and of *)
(* idempotency_replay spares it.                                           *)
FreshRecordsStay == [][\A k \in Keys : Fresh(k) => records'[k] # NoRecord]_vars

=============================================================================
