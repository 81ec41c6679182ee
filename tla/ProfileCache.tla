---------------------------- MODULE ProfileCache ----------------------------
(***************************************************************************)
(* The profiles of platforms (src/negotiation.rs, ProfileCache): a request *)
(* names its platform's profile, which is fetched and kept for a while.    *)
(* The cache is read under its lock, the platform is asked without it, and *)
(* the answer is stored under it again, so that fetches of one profile     *)
(* overlap.  A profile that has expired stays in the cache, to be used     *)
(* when the platform does not answer.                                      *)
(*                                                                         *)
(* A platform publishes its profiles one after the other:                  *)
(* Publications[p] lists them, and a profile is named by its place there.  *)
(***************************************************************************)
EXTENDS Negotiation, Sequences

CONSTANTS
    Platforms, NoPlatform,
    Publications,       \* Publications[p]: the profiles p publishes, in order
    Requests,           \* slots for requests in progress: a bound of the model
    RequireAgent,       \* require_ucp_agent
    RequireSignature,   \* require_request_signature
    NotCached

ASSUME ProfileCacheAssumption ==
    /\ Publications \in [Platforms -> Seq(Profile) \ {<<>>}]
    /\ NoPlatform \notin Platforms
    /\ RequireAgent \in BOOLEAN /\ RequireSignature \in BOOLEAN
    /\ NotCached \notin [profile : Nat, expired : BOOLEAN]

VARIABLES
    published,  \* the profile each platform serves
    cache,      \* the profile that is cached for each, and whether it expired
    slot        \* the request each slot is at

cacheVars == <<published, cache, slot>>

Editions(p) == 1..Len(Publications[p])
Content(p, n) == Publications[p][n]

(* A slot remembers the cached profile it saw at its lookup, 0 for none,   *)
(* to fall back on.                                                        *)
IdleSlot == [pc |-> "idle"]
FetchSlot == [pc : {"idle"}]
             \cup [pc : {"lookup"}, platform : Platforms]
             \cup [pc : {"fetching"}, platform : Platforms, seen : Nat]
             \cup [pc : {"storing"}, platform : Platforms, seen : Nat, profile : Nat \ {0}]
             \cup [pc : {"agreed"}, platform : Platforms \cup {NoPlatform}, seen : Nat,
                   profile : Nat]

CacheTypeOK ==
    /\ \A p \in Platforms :
           /\ published[p] \in Editions(p)
           /\ cache[p] \in [profile : 1..published[p], expired : BOOLEAN] \cup {NotCached}
    /\ DOMAIN published = Platforms /\ DOMAIN cache = Platforms

CacheInit == /\ published = [p \in Platforms |-> 1]
             /\ cache = [p \in Platforms |-> NotCached]
             /\ slot = [r \in Requests |-> IdleSlot]

-----------------------------------------------------------------------------

At(r, pc) == slot[r].pc = pc
To(r, next) == slot' = [slot EXCEPT ![r] = next]

(* The platform replaces its profile, and with it the keys it signs with. *)
Publish(p) == /\ published[p] + 1 \in Editions(p)
              /\ published' = [published EXCEPT ![p] = @ + 1]
              /\ UNCHANGED <<cache, slot>>

(* The ttl is over: what Cache-Control says, or the default. *)
ExpireProfile(p) == /\ cache[p] # NotCached /\ ~cache[p].expired
                    /\ cache' = [cache EXCEPT ![p].expired = TRUE]
                    /\ UNCHANGED <<published, slot>>

(* ucp_agent_middleware: a header that does not parse, or names no         *)
(* profile, is refused, and so is a missing one where it is required.      *)
Arrive(r) ==
    /\ At(r, "idle")
    /\ \/ \E p \in Platforms : To(r, [pc |-> "lookup", platform |-> p])
       \/ ~RequireAgent
          /\ To(r, [pc |-> "agreed", platform |-> NoPlatform, seen |-> 0, profile |-> 0])
    /\ UNCHANGED <<published, cache>>

(* The request is served under profile n, unless its version is too new:   *)
(* then it is refused.                                                     *)
Serve(r, p, seen, n) ==
    IF SupportsVersion(Content(p, n))
    THEN To(r, [pc |-> "agreed", platform |-> p, seen |-> seen, profile |-> n])
    ELSE To(r, IdleSlot)

(* fetch_profile under the read lock. *)
Lookup(r) ==
    /\ At(r, "lookup")
    /\ LET p == slot[r].platform IN
       IF cache[p] = NotCached THEN To(r, [pc |-> "fetching", platform |-> p, seen |-> 0])
       ELSE IF cache[p].expired
            THEN To(r, [pc |-> "fetching", platform |-> p, seen |-> cache[p].profile])
            ELSE Serve(r, p, cache[p].profile, cache[p].profile)
    /\ UNCHANGED <<published, cache>>

(* The platform answers with what it serves. *)
Answered(r) == /\ At(r, "fetching")
               /\ To(r, [pc |-> "storing", platform |-> slot[r].platform, seen |-> slot[r].seen,
                         profile |-> published[slot[r].platform]])
               /\ UNCHANGED <<published, cache>>

(* Bugs to detect: the cache is read again after the failure; the copy is  *)
(* renewed, so that the platform need not be asked so soon.                *)
UnansweredRereads(r) ==
    /\ At(r, "fetching")
    /\ LET p == slot[r].platform IN
       IF cache[p] = NotCached THEN To(r, IdleSlot)
       ELSE Serve(r, p, slot[r].seen, cache[p].profile)
    /\ UNCHANGED <<published, cache>>

UnansweredRenews(r) ==
    /\ At(r, "fetching")
    /\ LET s == slot[r] IN
       IF s.seen = 0 THEN To(r, IdleSlot) /\ UNCHANGED cache
       ELSE /\ cache' = [cache EXCEPT ![s.platform] = [profile |-> s.seen, expired |-> FALSE]]
            /\ Serve(r, s.platform, s.seen, s.seen)
    /\ UNCHANGED published

(* It cannot be reached, or answers with an error or something else than a *)
(* profile: the cached copy serves, however old, or the request is refused.*)
Unanswered(r) == /\ At(r, "fetching")
                 /\ IF slot[r].seen = 0 THEN To(r, IdleSlot)
                    ELSE Serve(r, slot[r].platform, slot[r].seen, slot[r].seen)
                 /\ UNCHANGED <<published, cache>>

(* A bug to detect: what was seen is stored again. *)
StoreSeen(r) ==
    /\ At(r, "storing")
    /\ LET s == slot[r] IN
       /\ cache' = [cache EXCEPT ![s.platform] = [profile |-> s.seen, expired |-> FALSE]]
       /\ Serve(r, s.platform, s.seen, s.profile)
    /\ UNCHANGED published

(* fetch_profile under the write lock: the last to come wins. *)
StoreProfile(r) ==
    /\ At(r, "storing")
    /\ LET s == slot[r] IN
       /\ cache' = [cache EXCEPT ![s.platform] = [profile |-> s.profile, expired |-> FALSE]]
       /\ Serve(r, s.platform, s.seen, s.profile)
    /\ UNCHANGED published

Refetch(r) == Lookup(r) \/ Answered(r) \/ Unanswered(r) \/ StoreProfile(r)

CacheNext == \/ \E p \in Platforms : Publish(p) \/ ExpireProfile(p)
             \/ \E r \in Requests : Arrive(r) \/ Refetch(r)

(* What a request is served under. *)
Terms(r) == IF slot[r].platform = NoPlatform THEN WithoutAgent
            ELSE Agreed(Content(slot[r].platform, slot[r].profile))

(* request_signature_middleware, which looks at POST and PUT only and runs *)
(* once the profile is known: without keys that load no signature          *)
(* verifies, and a request without a profile has none.                     *)
SignatureMayPass(r) == RequireSignature => Terms(r).keys # {}

=============================================================================
