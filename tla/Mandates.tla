------------------------------ MODULE Mandates ------------------------------
(***************************************************************************)
(* AP2 mandates (src/service.rs, src/crypto.rs): a business that offers    *)
(* AP2 authorizes every checkout it stores, with a signature or with a     *)
(* constant, and a platform that negotiated AP2 completes it with a        *)
(* mandate, signed by one of the platform's keys.  What is signed is the   *)
(* checkout as it is stored; what is answered is that checkout cut down to *)
(* what was negotiated.                                                    *)
(*                                                                         *)
(* A checkout's data is a mark: two states of a checkout that a signature  *)
(* tells apart have different marks or statuses.  Uses[m] are the          *)
(* capabilities that a checkout with mark m draws on.                      *)
(***************************************************************************)
EXTENDS ProfileCache

CONSTANTS
    Checkouts, OtherCheckout,  \* the sessions, and an id that is none of them
    Marks, Uses,
    NoMark,
    NoMandate,
    NoSession,
    StaticAuthorization,       \* whether ap2_merchant_authorization is configured
    SigningKey,                \* whether a key for signing was loaded
    ConfiguredAuthorization, NoAuthorization

(* The claims of a mandate are optional, its key is not.  An authorization *)
(* is named by the mark that it was made for.                              *)
Mandate == [key : Keys, checkout : Checkouts \cup {OtherCheckout, NoSession},
            authorizes : Marks \cup {NoMark}, expired : BOOLEAN]

Statuses == {"ready", "completed", "canceled"}
Signed == [mark : Marks, status : Statuses]
Authorization == Signed \cup {ConfiguredAuthorization, NoAuthorization}
Session == [mark : Marks, status : Statuses, authorization : Authorization]

ASSUME MandatesAssumption ==
    /\ OtherCheckout \notin Checkouts
    /\ NoSession \notin Checkouts \cup {OtherCheckout} \cup Session
    /\ Uses \in [Marks -> SUBSET (Business \ {Checkout, Ap2})]
    /\ NoMark \notin Marks /\ NoMandate \notin Mandate
    /\ StaticAuthorization \in BOOLEAN /\ SigningKey \in BOOLEAN
    /\ {ConfiguredAuthorization, NoAuthorization} \cap Signed = {}
    /\ ConfiguredAuthorization # NoAuthorization

VARIABLES
    sessions,    \* the stored sessions
    work,        \* what the handler in each slot is at
    completions  \* how the stored completion of each session came about

vars == <<cacheVars, sessions, work, completions>>

NoWork == [pc |-> "none"]
Work == [pc : {"none"}]
        \cup [pc : {"writing"}, checkout : Checkouts, result : Session,
              mandate : Mandate \cup {NoMandate}]
        \cup [pc : {"answered"}, result : Session]

Completion == [mandate : Mandate \cup {NoMandate}, platform : Platforms \cup {NoPlatform},
               profile : Nat]

TypeOK == /\ CacheTypeOK
          /\ slot \in [Requests -> FetchSlot]
          /\ sessions \in [Checkouts -> Session \cup {NoSession}]
          /\ work \in [Requests -> Work]
          /\ completions \in [Checkouts -> Completion \cup {NoMandate}]
          /\ \A r \in Requests : work[r].pc # "none" => At(r, "agreed")

Init == /\ CacheInit
        /\ sessions = [c \in Checkouts |-> NoSession]
        /\ work = [r \in Requests |-> NoWork]
        /\ completions = [c \in Checkouts |-> NoMandate]

-----------------------------------------------------------------------------
(* Signatures *)

(* response_meta_for: the capabilities that an answer names. *)
UsedBy(s) == Uses[s.mark] \cup {Checkout} \cup ({Ap2} \cap Business)

(* What a signed authorization covers: all of the checkout but ap2.        *)
Payload(s) == [mark |-> s.mark, status |-> s.status]

(* sign_detached_b64, with the one key the business has. *)
Signature(mark, status) == [mark |-> mark, status |-> status]

(* verify_detached_b64: a signature verifies over what it was made for and *)
(* nothing else.                                                           *)
Verifies(signature, payload) == signature = Signature(payload.mark, payload.status)

(* ap2_response_for_checkout: none without AP2, a configured constant      *)
(* before a signature, and none if the configured key did not load.        *)
MerchantAuthorization(mark, status) ==
    IF Ap2 \notin Business THEN NoAuthorization
    ELSE IF StaticAuthorization THEN ConfiguredAuthorization
    ELSE IF SigningKey THEN Signature(mark, status) ELSE NoAuthorization

Authorized(mark, status) ==
    [mark |-> mark, status |-> status, authorization |-> MerchantAuthorization(mark, status)]

(* verify_merchant_authorization: a constant is only compared.             *)
AuthorizationHolds(s) ==
    IF StaticAuthorization THEN s.authorization = ConfiguredAuthorization
    ELSE SigningKey /\ Verifies(s.authorization, Payload(s))

(* verify_sd_jwt_signature: the key with the kid of the mandate is one of  *)
(* the platform's.                                                         *)
SignedWith(m, keys) == m.key \in keys

(* A bug to detect: the mandate's claims are not compared. *)
MandateOfAnything(m, c, s, keys) == SignedWith(m, keys) /\ ~m.expired

(* verify_ap2_mandate: claims that are there have to agree with the        *)
(* session.  One with neither is good for any session.                     *)
MandateHolds(m, c, s, keys) ==
    /\ SignedWith(m, keys) /\ ~m.expired
    /\ m.checkout \in {c, NoSession}
    /\ \/ m.authorizes = NoMark
       \/ s.authorization = MerchantAuthorization(m.authorizes, "ready")
    /\ AuthorizationHolds(s)

-----------------------------------------------------------------------------
(* The handlers: the session is read, a copy is changed, and the copy is   *)
(* written.                                                                *)

Idle(r) == At(r, "agreed") /\ work[r].pc = "none"
MayChange(r) == Idle(r) /\ SignatureMayPass(r)
Writes(r, c, result, mandate) ==
    work' = [work EXCEPT ![r] = [pc |-> "writing", checkout |-> c, result |-> result,
                                 mandate |-> mandate]]
Open(c) == sessions[c] # NoSession /\ sessions[c].status = "ready"

(* create_checkout and update_checkout, of sessions that are ready. *)
CreateCheckout(r, c) ==
    /\ MayChange(r) /\ sessions[c] = NoSession
    /\ \A q \in Requests : work[q].pc = "writing" => work[q].checkout # c
    /\ \E mark \in Marks : Writes(r, c, Authorized(mark, "ready"), NoMandate)
    /\ UNCHANGED <<cacheVars, sessions, completions>>

UpdateCheckout(r, c) ==
    /\ MayChange(r) /\ Open(c)
    /\ \E mark \in Marks : Writes(r, c, Authorized(mark, "ready"), NoMandate)
    /\ UNCHANGED <<cacheVars, sessions, completions>>

(* A bug to detect: the authorization of the ready checkout is kept. *)
CompletedUnsigned(s) == [s EXCEPT !.status = "completed"]

CompletedAs(s) == Authorized(s.mark, "completed")

(* A mandate that is not required is not looked at. *)
CompleteCheckout(r, c) ==
    /\ MayChange(r) /\ Open(c)
    /\ \/ /\ ~RequiresMandate(Terms(r))
          /\ Writes(r, c, CompletedAs(sessions[c]), NoMandate)
       \/ /\ RequiresMandate(Terms(r)) /\ Terms(r).keys # {}
          /\ \E m \in Mandate : /\ MandateHolds(m, c, sessions[c], Terms(r).keys)
                               /\ Writes(r, c, CompletedAs(sessions[c]), m)
    /\ UNCHANGED <<cacheVars, sessions, completions>>

(* The authorization stays what it was. *)
CancelCheckout(r, c) ==
    /\ MayChange(r) /\ Open(c)
    /\ Writes(r, c, [sessions[c] EXCEPT !.status = "canceled"], NoMandate)
    /\ UNCHANGED <<cacheVars, sessions, completions>>

(* get_checkout *)
GetCheckout(r, c) ==
    /\ Idle(r) /\ sessions[c] # NoSession
    /\ work' = [work EXCEPT ![r] = [pc |-> "answered", result |-> sessions[c]]]
    /\ UNCHANGED <<cacheVars, sessions, completions>>

(* The session is not found, in another state, or the signature of the     *)
(* request or its mandate is refused.                                      *)
Refuse(r) == /\ Idle(r)
             /\ To(r, IdleSlot)
             /\ UNCHANGED <<published, cache, sessions, work, completions>>

StoreSession(r) ==
    /\ work[r].pc = "writing"
    /\ LET w == work[r] IN
       /\ sessions' = [sessions EXCEPT ![w.checkout] = w.result]
       /\ completions' = IF w.result.status # "completed" THEN completions
                         ELSE [completions EXCEPT ![w.checkout] =
                                   [mandate |-> w.mandate, platform |-> slot[r].platform,
                                    profile |-> slot[r].profile]]
       /\ work' = [work EXCEPT ![r] = [pc |-> "answered", result |-> w.result]]
    /\ UNCHANGED cacheVars

(* The client has its answer, or has gone away while its request waited.   *)
End(r) == /\ work[r].pc \in {"writing", "answered"}
          /\ work' = [work EXCEPT ![r] = NoWork]
          /\ To(r, IdleSlot)
          /\ UNCHANGED <<published, cache, sessions, completions>>

Handle(r) == \/ Refuse(r) \/ StoreSession(r) \/ End(r)
             \/ \E c \in Checkouts : \/ CreateCheckout(r, c) \/ UpdateCheckout(r, c)
                                     \/ CompleteCheckout(r, c) \/ CancelCheckout(r, c)
                                     \/ GetCheckout(r, c)

Next == \/ CacheNext /\ UNCHANGED <<sessions, work, completions>>
        \/ \E r \in Requests : Handle(r)

Spec == Init /\ [][Next]_vars

-----------------------------------------------------------------------------

Served(r) == At(r, "agreed") /\ slot[r].platform # NoPlatform

(* No request is served under a profile that its platform had not yet      *)
(* published, or that is older than the one the cache held when the        *)
(* request came: a profile that was stored is not answered back from       *)
(* before, however fetches overlap and platforms fail (fetch_profile).     *)
ServedUnderPublished ==
    \A r \in Requests : Served(r) =>
        /\ slot[r].profile \in 1..published[slot[r].platform]
        /\ slot[r].profile >= slot[r].seen

(* An older profile replaces a newer one in the cache only when its fetch  *)
(* began before the newer one was stored (fetch_profile asks the platform  *)
(* without the lock).                                                      *)
CacheGoesBackByOverlap ==
    [][\A p \in Platforms :
           LET old == cache[p] new == cache'[p] IN
           old # NotCached /\ new # NotCached /\ new.profile < old.profile =>
               \E r \in Requests : At(r, "storing") /\ slot[r].platform = p
                                   /\ slot[r].seen < old.profile]_vars

(* What is agreed on is all that both sides have, and no extension of      *)
(* something else (intersect_capabilities computes it in passes).          *)
AgreesOnTheMost ==
    \A r \in Requests : Served(r) =>
        Terms(r).capabilities =
            LargestCommon(Business, Content(slot[r].platform, slot[r].profile).capabilities)

(* A session that was completed by a platform with AP2 was completed under *)
(* a mandate that fits it, whatever other requests did between the check   *)
(* and the write: signed with a key the platform had published, and, as    *)
(* far as it names a session or an authorization at all, naming this       *)
(* session and the authorization of the state that was completed.  Of a    *)
(* mandate that names neither this says only whose key signed it           *)
(* (complete_checkout_with_requirements, verify_sd_jwt_claims).            *)
MandateFitsCompletion ==
    \A c \in Checkouts :
        sessions[c] # NoSession /\ sessions[c].status = "completed" =>
            LET done == completions[c]
                terms == IF done.platform = NoPlatform THEN WithoutAgent
                         ELSE Agreed(Content(done.platform, done.profile))
            IN  RequiresMandate(terms) =>
                    /\ done.platform # NoPlatform /\ done.profile <= published[done.platform]
                    /\ done.mandate.key \in terms.keys
                    /\ done.mandate.checkout \in {c, NoSession}
                    /\ ~StaticAuthorization =>
                           done.mandate.authorizes \in {NoMark, sessions[c].mark}

(* What is stored with a session, until it is canceled, is what completing *)
(* it would accept: the constant, or a signature over the session it is    *)
(* stored with.  A business that offers no AP2, or has neither, stores     *)
(* none (ap2_response_for_checkout, verify_merchant_authorization).        *)
StoredAuthorizationHolds ==
    \A c \in Checkouts : sessions[c] # NoSession /\ sessions[c].status # "canceled" =>
        IF Ap2 \in Business /\ (StaticAuthorization \/ SigningKey)
        THEN AuthorizationHolds(sessions[c])
        ELSE sessions[c].authorization = NoAuthorization

(* What the platform gets to see of a checkout, and whether the signature  *)
(* in it covers that.                                                      *)
Whole(s, terms) == terms.version = BusinessVersion /\ Shown(UsedBy(s), terms) = UsedBy(s)
AnswerVerifies(s, terms) == Whole(s, terms) /\ Verifies(s.authorization, Payload(s))

(* A signature a platform is given can be verified over the checkout it    *)
(* came with.                                                              *)
AnswersVerify ==
    \A r \in Requests :
        /\ work[r].pc = "answered" /\ Ap2 \in Shown({Ap2}, Terms(r))
        /\ work[r].result.authorization \in Signed
        => AnswerVerifies(work[r].result, Terms(r))

=============================================================================
