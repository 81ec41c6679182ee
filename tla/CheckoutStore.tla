---------------------------- MODULE CheckoutStore ----------------------------
(***************************************************************************)
(* CheckoutStore (src/store.rs) without an iCommerce engine: two maps, each *)
(* behind a RwLock of its own.  An action of this module is one critical   *)
(* section of one of the two locks; the callers sequence them.  Time is    *)
(* not modelled: a cached session may pass its deadline at any moment, and *)
(* is then in "expired" until it is evicted or written again.              *)
(***************************************************************************)
EXTENDS CheckoutSession

CONSTANTS
    Platforms,   \* what negotiation with a platform can yield
    MayExpire    \* the sessions whose deadline can pass

ASSUME StoreAssumption == /\ Platforms \cap {"none", "no_overlay"} = {}
                          /\ MayExpire \subseteq Checkouts

VARIABLES
    cache,       \* cache[c]: the session stored under c, or NoSession
    expired,     \* the cached sessions whose deadline has passed
    overlays     \* overlays[c]: the negotiation recorded in the overlay

storeVars == <<cache, expired, overlays>>

(* "no_overlay": the map has no entry; "none": nothing was negotiated yet. *)
Overlays == Platforms \cup {"none", "no_overlay"}

StoreTypeOK == /\ cache \in [Checkouts -> Session]
               /\ expired \subseteq Checkouts
               /\ overlays \in [Checkouts -> Overlays]

StoreInit == /\ cache = [c \in Checkouts |-> NoSession]
             /\ expired = {}
             /\ overlays = [c \in Checkouts |-> "no_overlay"]

Present(c) == cache[c].status # "absent"
Hit(c) == Present(c) /\ c \notin expired

-----------------------------------------------------------------------------

(* insert, first critical section: the entry gets a new deadline. *)
InsertCached(c, s) == /\ cache' = [cache EXCEPT ![c] = s]
                      /\ expired' = expired \ {c}
                      /\ UNCHANGED overlays

(* A bug to detect: insert starts from an empty overlay. *)
NegotiationForgotten(c) == "none"

(* insert, second critical section: the negotiation the overlay holds now. *)
NegotiatedIn(c) == IF overlays[c] = "no_overlay" THEN "none" ELSE overlays[c]

(* insert, third critical section: a new overlay with the value read.  *)
InsertOverlay(c, negotiated) == /\ overlays' = [overlays EXCEPT ![c] = negotiated]
                                /\ UNCHANGED <<cache, expired>>

(* get, under the write lock: an expired entry leaves the cache. *)
EvictCached(c) == /\ Present(c) /\ c \in expired
                  /\ cache' = [cache EXCEPT ![c] = NoSession]
                  /\ expired' = expired \ {c}
                  /\ UNCHANGED overlays

(* get, after that lock is released: the overlay goes too. *)
RemoveOverlay(c) == /\ overlays' = [overlays EXCEPT ![c] = "no_overlay"]
                    /\ UNCHANGED <<cache, expired>>

(* set_negotiated changes an overlay and never makes one. *)
SetNegotiated(c, platform) ==
    /\ overlays' = IF overlays[c] = "no_overlay" THEN overlays
                   ELSE [overlays EXCEPT ![c] = platform]
    /\ UNCHANGED <<cache, expired>>

(* The deadline of a cached session passes. *)
Expire(c) == /\ c \in MayExpire /\ Hit(c)
             /\ expired' = expired \cup {c}
             /\ UNCHANGED <<cache, overlays>>

=============================================================================
