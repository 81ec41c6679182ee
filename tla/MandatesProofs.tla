---------------------------- MODULE MandatesProofs ----------------------------
(***************************************************************************)
(* Proofs about ProfileCache and Mandates for any platforms, publications, *)
(* sessions, marks and requests.                                           *)
(***************************************************************************)
EXTENDS Mandates, FiniteSetTheorems, InductionProofs

-----------------------------------------------------------------------------
(* The cache and the requests that fetch into it. *)

(* The same as the type of the slots, pc by pc. *)
LEMMA SlotFields ==
  ASSUME NEW s \in FetchSlot
  PROVE  /\ s.pc \in {"idle", "lookup", "fetching", "storing", "agreed"}
         /\ s.pc = "lookup" => s.platform \in Platforms
         /\ s.pc = "fetching" => s.platform \in Platforms /\ s.seen \in Nat
         /\ s.pc = "storing" => /\ s.platform \in Platforms /\ s.seen \in Nat
                                /\ s.profile \in Nat \ {0}
         /\ s.pc = "agreed" => /\ s.platform \in Platforms \cup {NoPlatform}
                               /\ s.seen \in Nat /\ s.profile \in Nat
  BY DEF FetchSlot

(* What a request has seen or fetched was published, and what it fetched   *)
(* or is served under is not older than what it saw.                       *)
SlotsInOrder ==
    \A r \in Requests :
        LET s == slot[r] IN
        /\ s.pc = "fetching" => s.seen <= published[s.platform]
        /\ s.pc = "storing" => /\ s.profile \in 1..published[s.platform]
                               /\ s.profile >= s.seen
        /\ Served(r) => /\ s.profile \in 1..published[s.platform]
                        /\ s.profile >= s.seen

FetchInv == /\ CacheTypeOK
            /\ slot \in [Requests -> FetchSlot]
            /\ SlotsInOrder

LEMMA PublishedType ==
  ASSUME CacheTypeOK
  PROVE  \A p \in Platforms : published[p] \in Nat \ {0} /\ Len(Publications[p]) \in Nat
  BY ProfileCacheAssumption DEF CacheTypeOK, Editions

(* Serving a request under a published profile that is not older than the  *)
(* one it saw.                                                             *)
LEMMA ServeInOrder ==
  ASSUME FetchInv, NEW r \in Requests, NEW p \in Platforms, NEW seen \in Nat,
         NEW n \in 1..published[p], n >= seen, Serve(r, p, seen, n), published' = published
  PROVE  slot' \in [Requests -> FetchSlot] /\ SlotsInOrder'
  <1>0. n \in Nat
    BY PublishedType DEF FetchInv
  <1>1. CASE slot' = [slot EXCEPT ![r] =
                         [pc |-> "agreed", platform |-> p, seen |-> seen, profile |-> n]]
    <2>1. [pc |-> "agreed", platform |-> p, seen |-> seen, profile |-> n] \in FetchSlot
      BY <1>0 DEF FetchSlot
    <2>2. QED
      BY <1>1, <2>1 DEF FetchInv, SlotsInOrder, Served, At
  <1>2. CASE slot' = [slot EXCEPT ![r] = IdleSlot]
    BY <1>2 DEF FetchInv, SlotsInOrder, Served, At, IdleSlot, FetchSlot
  <1>3. QED
    BY <1>1, <1>2 DEF Serve, To

LEMMA IdleInOrder ==
  ASSUME FetchInv, NEW r \in Requests, To(r, IdleSlot), published' = published
  PROVE  slot' \in [Requests -> FetchSlot] /\ SlotsInOrder'
  BY DEF To, FetchInv, SlotsInOrder, Served, At, IdleSlot, FetchSlot

LEMMA FetchStep ==
  ASSUME FetchInv, CacheNext
  PROVE  FetchInv'
  <1> USE DEF FetchInv
  <1>0. \A p \in Platforms : published[p] \in Nat \ {0} /\ Len(Publications[p]) \in Nat
    BY PublishedType
  <1>1. ASSUME NEW p \in Platforms, Publish(p)
        PROVE  FetchInv'
    <2>1. /\ published' = [published EXCEPT ![p] = @ + 1]
          /\ cache' = cache /\ slot' = slot
          /\ published[p] + 1 \in Editions(p)
      BY <1>1 DEF Publish
    <2>2. CacheTypeOK'
      BY <1>0, <2>1 DEF CacheTypeOK
    <2>3. \A q \in Platforms : published'[q] \in Nat /\ published[q] <= published'[q]
      BY <1>0, <2>1 DEF CacheTypeOK
    <2>4. SlotsInOrder'
      <3>1. SUFFICES ASSUME NEW r \in Requests
                     PROVE  LET s == slot[r] IN
                            /\ s.pc = "fetching" => s.seen <= published'[s.platform]
                            /\ s.pc = "storing" => /\ s.profile \in 1..published'[s.platform]
                                                   /\ s.profile >= s.seen
                            /\ Served(r) => /\ s.profile \in 1..published'[s.platform]
                                            /\ s.profile >= s.seen
        BY <2>1 DEF SlotsInOrder, Served, At
      <3>2. slot[r] \in FetchSlot
        OBVIOUS
      <3> DEFINE s == slot[r]
      <3>3. CASE s.pc = "fetching"
        BY <1>0, <2>3, <3>2, <3>3, SlotFields DEF SlotsInOrder, Served, At
      <3>4. CASE s.pc = "storing" \/ Served(r)
        <4>1. s.platform \in Platforms /\ s.profile \in Nat
          BY <3>2, <3>4, SlotFields DEF Served, At
        <4>2. s.profile \in 1..published[s.platform] /\ s.profile >= s.seen
          BY <3>4 DEF SlotsInOrder
        <4>3. s.profile \in 1..published'[s.platform]
          <5> HIDE DEF s
          <5>1. QED
            BY <1>0, <2>3, <4>1, <4>2
        <4>4. QED
          BY <3>4, <4>2, <4>3 DEF Served, At
      <3>5. QED
        BY <3>3, <3>4
    <2>5. QED
      BY <2>1, <2>2, <2>4
  <1>2. ASSUME NEW p \in Platforms, ExpireProfile(p)
        PROVE  FetchInv'
    <2>1. CacheTypeOK'
      BY <1>2, ProfileCacheAssumption DEF ExpireProfile, CacheTypeOK
    <2>2. QED
      BY <1>2, <2>1 DEF ExpireProfile, SlotsInOrder, Served, At
  <1>3. ASSUME NEW r \in Requests, Arrive(r)
        PROVE  FetchInv'
    <2>1. published' = published /\ cache' = cache
      BY <1>3 DEF Arrive
    <2>2. CacheTypeOK'
      BY <2>1 DEF CacheTypeOK
    <2>3. ASSUME NEW p \in Platforms, To(r, [pc |-> "lookup", platform |-> p])
          PROVE  slot' \in [Requests -> FetchSlot] /\ SlotsInOrder'
      BY <2>1, <2>3 DEF To, FetchSlot, SlotsInOrder, Served, At
    <2>4. ASSUME To(r, [pc |-> "agreed", platform |-> NoPlatform, seen |-> 0, profile |-> 0])
          PROVE  slot' \in [Requests -> FetchSlot] /\ SlotsInOrder'
      BY <2>1, <2>4 DEF To, FetchSlot, SlotsInOrder, Served, At
    <2>5. QED
      BY <1>3, <2>2, <2>3, <2>4 DEF Arrive
  <1>4. ASSUME NEW r \in Requests, Lookup(r)
        PROVE  FetchInv'
    <2> DEFINE p == slot[r].platform
    <2>1. /\ published' = published /\ cache' = cache
          /\ slot[r] \in FetchSlot /\ p \in Platforms
      BY <1>4, SlotFields DEF Lookup, At
    <2>2. CacheTypeOK'
      BY <2>1 DEF CacheTypeOK
    <2>3. ASSUME NEW seen \in Nat, seen <= published[p],
                 To(r, [pc |-> "fetching", platform |-> p, seen |-> seen])
          PROVE  slot' \in [Requests -> FetchSlot] /\ SlotsInOrder'
      <3> HIDE DEF p
      <3>1. [pc |-> "fetching", platform |-> p, seen |-> seen] \in FetchSlot
        BY <2>1 DEF FetchSlot
      <3>2. QED
        BY <2>1, <2>3, <3>1 DEF To, SlotsInOrder, Served, At
    <2>4. cache[p] # NotCached => cache[p].profile \in Nat /\ cache[p].profile \in 1..published[p]
      BY <1>0, <2>1 DEF CacheTypeOK
    <2>5. \/ To(r, [pc |-> "fetching", platform |-> p, seen |-> 0])
          \/ cache[p] # NotCached
             /\ To(r, [pc |-> "fetching", platform |-> p, seen |-> cache[p].profile])
          \/ cache[p] # NotCached /\ Serve(r, p, cache[p].profile, cache[p].profile)
      BY <1>4 DEF Lookup
    <2>6. slot' \in [Requests -> FetchSlot] /\ SlotsInOrder'
      <3>1. CASE To(r, [pc |-> "fetching", platform |-> p, seen |-> 0])
        BY <1>0, <2>1, <2>3, <3>1
      <3>2. CASE cache[p] # NotCached
                 /\ To(r, [pc |-> "fetching", platform |-> p, seen |-> cache[p].profile])
        <4>1. cache[p].profile \in Nat /\ cache[p].profile <= published[p]
          BY <1>0, <2>1, <2>4, <3>2
        <4>2. QED
          BY <2>3, <3>2, <4>1
      <3>3. CASE cache[p] # NotCached /\ Serve(r, p, cache[p].profile, cache[p].profile)
        <4>1. cache[p].profile >= cache[p].profile
          BY <2>4, <3>3
        <4>2. QED
          BY <2>1, <2>4, <3>3, <4>1, ServeInOrder
      <3>4. QED
        BY <2>5, <3>1, <3>2, <3>3
    <2>7. QED
      BY <2>2, <2>6
  <1>5. ASSUME NEW r \in Requests, Answered(r)
        PROVE  FetchInv'
    <2> DEFINE s == slot[r]
    <2>1. /\ published' = published /\ cache' = cache
          /\ s \in FetchSlot /\ s.pc = "fetching"
          /\ slot' = [slot EXCEPT ![r] =
                 [pc |-> "storing", platform |-> s.platform, seen |-> s.seen,
                  profile |-> published[s.platform]]]
      BY <1>5 DEF Answered, At, To
    <2>2. CacheTypeOK'
      BY <2>1 DEF CacheTypeOK
    <2>3. /\ s.platform \in Platforms /\ s.seen \in Nat
          /\ published[s.platform] \in Nat \ {0} /\ s.seen <= published[s.platform]
      BY <1>0, <2>1, SlotFields DEF SlotsInOrder
    <2>4. [pc |-> "storing", platform |-> s.platform, seen |-> s.seen,
           profile |-> published[s.platform]] \in FetchSlot
      <3> HIDE DEF s
      <3>1. QED
        BY <2>3 DEF FetchSlot
    <2>5. SlotsInOrder'
      BY <2>1, <2>3 DEF SlotsInOrder, Served, At
    <2>6. QED
      BY <2>1, <2>2, <2>4, <2>5
  <1>6. ASSUME NEW r \in Requests, Unanswered(r)
        PROVE  FetchInv'
    <2> DEFINE s == slot[r]
    <2>1. /\ published' = published /\ cache' = cache
          /\ s \in FetchSlot /\ s.pc = "fetching"
      BY <1>6 DEF Unanswered, At
    <2>2. CacheTypeOK'
      BY <2>1 DEF CacheTypeOK
    <2>3. s.platform \in Platforms /\ s.seen \in Nat /\ s.seen <= published[s.platform]
      BY <2>1, SlotFields DEF SlotsInOrder
    <2>4. CASE s.seen = 0
      BY <1>6, <2>1, <2>2, <2>4, IdleInOrder DEF Unanswered
    <2>5. CASE s.seen # 0
      <3>1. s.seen \in 1..published[s.platform] /\ s.seen >= s.seen
        BY <1>0, <2>3, <2>5
      <3>2. Serve(r, s.platform, s.seen, s.seen)
        BY <1>6, <2>5 DEF Unanswered
      <3>3. QED
        BY <2>1, <2>2, <2>3, <3>1, <3>2, ServeInOrder
    <2>6. QED
      BY <2>4, <2>5
  <1>7. ASSUME NEW r \in Requests, StoreProfile(r)
        PROVE  FetchInv'
    <2> DEFINE s == slot[r]
    <2>1. /\ published' = published
          /\ cache' = [cache EXCEPT ![s.platform] = [profile |-> s.profile, expired |-> FALSE]]
          /\ s \in FetchSlot /\ s.pc = "storing"
          /\ Serve(r, s.platform, s.seen, s.profile)
      BY <1>7 DEF StoreProfile, At
    <2>2. /\ s.platform \in Platforms /\ s.seen \in Nat
          /\ s.profile \in 1..published[s.platform] /\ s.profile >= s.seen
      BY <2>1, SlotFields DEF SlotsInOrder
    <2>3. CacheTypeOK'
      BY <2>1, <2>2 DEF CacheTypeOK
    <2>4. QED
      BY <2>1, <2>2, <2>3, ServeInOrder
  <1>8. QED
    BY <1>1, <1>2, <1>3, <1>4, <1>5, <1>6, <1>7 DEF CacheNext, Refetch

-----------------------------------------------------------------------------
(* The handlers. *)

(* The authorization of a session is the one its state is given, in the    *)
(* store and in the copy a handler is about to write, but for canceled     *)
(* sessions.                                                               *)
Covered(s) ==
    s.status # "canceled" => s.authorization = MerchantAuthorization(s.mark, s.status)
StoredAreCovered == \A c \in Checkouts : sessions[c] # NoSession => Covered(sessions[c])

(* What a completion under AP2 rests on. *)
RestsOn(c, m, terms, mark) ==
    RequiresMandate(terms) =>
        /\ m \in Mandate /\ m.key \in terms.keys
        /\ m.checkout \in {c, NoSession}
        /\ ~StaticAuthorization => m.authorizes \in {NoMark, mark}

WorkIsCovered ==
    \A r \in Requests : work[r].pc = "writing" =>
        /\ Covered(work[r].result)
        /\ work[r].result.status = "completed" =>
               RestsOn(work[r].checkout, work[r].mandate, Terms(r), work[r].result.mark)

CompletionsAreRecorded ==
    \A c \in Checkouts : sessions[c] # NoSession /\ sessions[c].status = "completed" =>
        completions[c] \in Completion

MandateInv == /\ FetchInv /\ TypeOK
              /\ StoredAreCovered /\ WorkIsCovered
              /\ CompletionsAreRecorded /\ MandateFitsCompletion

(* A request without a UCP-Agent header brings no keys. *)
LEMMA TermsOfServed ==
  ASSUME FetchInv, NEW r \in Requests, At(r, "agreed"), Terms(r).keys # {}
  PROVE  Served(r)
  BY DEF Served, Terms, WithoutAgent

LEMMA AuthorizedType ==
  ASSUME NEW mark \in Marks, NEW status \in {"ready", "completed"}
  PROVE  /\ Authorized(mark, status) \in Session
         /\ Authorized(mark, status).mark = mark
         /\ Authorized(mark, status).status = status
         /\ Covered(Authorized(mark, status))
  BY DEF Authorized, MerchantAuthorization, Signature, Session, Authorization, Signed,
         Statuses, Covered

(* Handlers that write nothing to the store but set their own work. *)
LEMMA WorkStep ==
  ASSUME MandateInv, NEW r \in Requests, NEW c \in Checkouts, At(r, "agreed"),
         NEW result \in Session, NEW m \in Mandate \cup {NoMandate},
         Writes(r, c, result, m), Covered(result),
         result.status = "completed" => RestsOn(c, m, Terms(r), result.mark),
         UNCHANGED <<cacheVars, sessions, completions>>
  PROVE  MandateInv'
  <1> DEFINE w == [pc |-> "writing", checkout |-> c, result |-> result, mandate |-> m]
  <1>1. w \in Work
    BY DEF Work
  <1>2. work' = [work EXCEPT ![r] = w] /\ work \in [Requests -> Work]
    BY DEF Writes, MandateInv, TypeOK
  <1>3. FetchInv'
    BY DEF MandateInv, FetchInv, cacheVars, CacheTypeOK, SlotsInOrder, Served, At
  <1>4. TypeOK'
    <2>1. \A q \in Requests : work'[q].pc # "none" => At(q, "agreed")'
      BY <1>2 DEF MandateInv, TypeOK, At, cacheVars
    <2>2. work' \in [Requests -> Work]
      BY <1>1, <1>2
    <2>3. QED
      BY <1>3, <2>1, <2>2 DEF MandateInv, TypeOK, FetchInv
  <1>5. WorkIsCovered'
    <2>1. SUFFICES ASSUME NEW q \in Requests, work'[q].pc = "writing"
                   PROVE  /\ Covered(work'[q].result)
                          /\ work'[q].result.status = "completed" =>
                                RestsOn(work'[q].checkout, work'[q].mandate, Terms(q)',
                                        work'[q].result.mark)
      BY DEF WorkIsCovered, Covered, RestsOn
    <2>2. Terms(q)' = Terms(q)
      BY DEF Terms, cacheVars
    <2>3. CASE q = r
      BY <1>2, <2>2, <2>3
    <2>4. CASE q # r
      BY <1>2, <2>1, <2>2, <2>4 DEF MandateInv, WorkIsCovered
    <2>5. QED
      BY <2>3, <2>4
  <1>6. StoredAreCovered' /\ CompletionsAreRecorded' /\ MandateFitsCompletion'
    BY DEF MandateInv, StoredAreCovered, CompletionsAreRecorded,
       MandateFitsCompletion, Covered, cacheVars
  <1>7. QED
    BY <1>3, <1>4, <1>5, <1>6 DEF MandateInv

(* A mandate that holds names no other checkout and no other state of it.  *)
LEMMA HoldingMandate ==
  ASSUME NEW s \in Session, s.status = "ready", NEW m \in Mandate, NEW c \in Checkouts,
         NEW keys, MandateHolds(m, c, s, keys)
  PROVE  /\ m.key \in keys /\ m.checkout \in {c, NoSession}
         /\ ~StaticAuthorization => m.authorizes \in {NoMark, s.mark}
  <1>1. m.key \in keys /\ m.checkout \in {c, NoSession}
    BY DEF MandateHolds, SignedWith
  <1>2. ASSUME ~StaticAuthorization, m.authorizes # NoMark
        PROVE  m.authorizes = s.mark
    <2>1. s.authorization = MerchantAuthorization(m.authorizes, "ready")
      BY <1>2 DEF MandateHolds
    <2>2. s.authorization = Signature(s.mark, s.status) /\ s.authorization \in Signed
      BY <1>2 DEF MandateHolds, AuthorizationHolds, Verifies, Payload, Signature, Signed, Session
    <2>3. s.authorization = Signature(m.authorizes, "ready")
      BY <1>2, <2>1, <2>2, MandatesAssumption DEF MerchantAuthorization
    <2>4. QED
      BY <2>2, <2>3 DEF Signature
  <1>3. QED
    BY <1>1, <1>2

LEMMA CompleteKeeps ==
  ASSUME MandateInv, NEW r \in Requests, NEW c \in Checkouts, CompleteCheckout(r, c)
  PROVE  MandateInv'
  <1> DEFINE s == sessions[c]
  <1>1. s \in Session /\ s.status = "ready" /\ At(r, "agreed")
    BY DEF CompleteCheckout, Open, MayChange, Idle, MandateInv, TypeOK
  <1>2. PICK m \in Mandate \cup {NoMandate} :
           /\ RequiresMandate(Terms(r)) =>
                  m \in Mandate /\ MandateHolds(m, c, s, Terms(r).keys)
           /\ Writes(r, c, CompletedAs(s), m)
    BY DEF CompleteCheckout
  <1>3. /\ CompletedAs(s) \in Session /\ Covered(CompletedAs(s))
        /\ CompletedAs(s).mark = s.mark
    <2>1. s.mark \in Marks
      BY <1>1 DEF Session
    <2>2. QED
      BY <2>1, AuthorizedType DEF CompletedAs
  <1>4. RestsOn(c, m, Terms(r), CompletedAs(s).mark)
    <2> HIDE DEF s
    <2>1. QED
      BY <1>1, <1>2, <1>3, HoldingMandate DEF RestsOn
  <1>5. QED
    BY <1>1, <1>2, <1>3, <1>4, WorkStep DEF CompleteCheckout

(* A request that ends, or is only answered, disturbs nothing. *)
LEMMA AnswerStep ==
  ASSUME MandateInv, NEW r \in Requests,
         UNCHANGED <<published, cache, sessions, completions>>,
         \/ At(r, "agreed") /\ slot' = slot
            /\ \E s \in Session : work' = [work EXCEPT ![r] = [pc |-> "answered", result |-> s]]
         \/ To(r, IdleSlot) /\ work' = [work EXCEPT ![r] = NoWork]
  PROVE  MandateInv'
  <1> USE DEF MandateInv
  <1>1. FetchInv'
    <2>1. CacheTypeOK'
      BY DEF FetchInv, CacheTypeOK
    <2>2. slot' \in [Requests -> FetchSlot] /\ SlotsInOrder'
      <3>1. CASE slot' = slot
        BY <3>1 DEF FetchInv, SlotsInOrder, Served, At
      <3>2. CASE To(r, IdleSlot)
        BY <3>2, IdleInOrder
      <3>3. QED
        BY <3>1, <3>2
    <2>3. QED
      BY <2>1, <2>2 DEF FetchInv
  <1>2. \A q \in Requests : q # r => slot'[q] = slot[q] /\ work'[q] = work[q]
    BY DEF To, FetchInv, TypeOK
  <1>3. /\ work' \in [Requests -> Work] /\ work'[r].pc # "writing"
        /\ work'[r].pc # "none" => At(r, "agreed")'
    BY DEF TypeOK, Work, NoWork, At
  <1>4. TypeOK'
    <2>1. \A q \in Requests : work'[q].pc # "none" => At(q, "agreed")'
      BY <1>2, <1>3 DEF TypeOK, At
    <2>2. QED
      BY <1>1, <1>3, <2>1 DEF TypeOK, FetchInv
  <1>5. WorkIsCovered'
    <2>1. SUFFICES ASSUME NEW q \in Requests, work'[q].pc = "writing"
                   PROVE  /\ Covered(work'[q].result)
                          /\ work'[q].result.status = "completed" =>
                                RestsOn(work'[q].checkout, work'[q].mandate, Terms(q)',
                                        work'[q].result.mark)
      BY DEF WorkIsCovered, Covered, RestsOn
    <2>2. q # r
      BY <1>3, <2>1
    <2>3. Terms(q)' = Terms(q) /\ work'[q] = work[q]
      BY <1>2, <2>2 DEF Terms
    <2>4. QED
      BY <2>1, <2>3 DEF WorkIsCovered
  <1>6. StoredAreCovered' /\ CompletionsAreRecorded' /\ MandateFitsCompletion'
    BY DEF StoredAreCovered, CompletionsAreRecorded, MandateFitsCompletion, Covered
  <1>7. QED
    BY <1>1, <1>4, <1>5, <1>6

LEMMA StoreKeeps ==
  ASSUME MandateInv, NEW r \in Requests, StoreSession(r)
  PROVE  MandateInv'
  <1> USE DEF MandateInv
  <1> DEFINE w == work[r]
             c == w.checkout
             done == [mandate |-> w.mandate, platform |-> slot[r].platform,
                      profile |-> slot[r].profile]
  <1>1. /\ w \in Work /\ w.pc = "writing" /\ At(r, "agreed")
        /\ slot[r] \in FetchSlot
    BY DEF StoreSession, TypeOK
  <1>2. /\ c \in Checkouts /\ w.result \in Session /\ w.mandate \in Mandate \cup {NoMandate}
    BY <1>1 DEF Work
  <1>3. done \in Completion
    <2>1. /\ slot[r].platform \in Platforms \cup {NoPlatform} /\ slot[r].profile \in Nat
      BY <1>1, SlotFields DEF At
    <2>2. QED
      BY <1>2, <2>1 DEF Completion
  <1>4. /\ sessions' = [sessions EXCEPT ![c] = w.result]
        /\ completions' = IF w.result.status # "completed" THEN completions
                          ELSE [completions EXCEPT ![c] = done]
        /\ work' = [work EXCEPT ![r] = [pc |-> "answered", result |-> w.result]]
        /\ published' = published /\ cache' = cache /\ slot' = slot
    BY DEF StoreSession, cacheVars
  <1>5. FetchInv'
    BY <1>4 DEF FetchInv, CacheTypeOK, SlotsInOrder, Served, At
  <1>6. [pc |-> "answered", result |-> w.result] \in Work
    BY <1>2 DEF Work
  <1>7. TypeOK'
    <2>1. \A q \in Requests : work'[q].pc # "none" => At(q, "agreed")'
      BY <1>1, <1>4 DEF TypeOK, At
    <2>2. /\ sessions' \in [Checkouts -> Session \cup {NoSession}]
          /\ completions' \in [Checkouts -> Completion \cup {NoMandate}]
          /\ work' \in [Requests -> Work]
      <3> HIDE DEF w, c, done
      <3>1. QED
        BY <1>2, <1>3, <1>4, <1>6 DEF TypeOK
    <2>3. QED
      BY <1>5, <2>1, <2>2 DEF TypeOK, FetchInv
  <1>8. WorkIsCovered'
    <2>1. SUFFICES ASSUME NEW q \in Requests, work'[q].pc = "writing"
                   PROVE  /\ Covered(work'[q].result)
                          /\ work'[q].result.status = "completed" =>
                                RestsOn(work'[q].checkout, work'[q].mandate, Terms(q)',
                                        work'[q].result.mark)
      BY DEF WorkIsCovered, Covered, RestsOn
    <2>2. work'[q] = work[q] /\ Terms(q)' = Terms(q)
      BY <1>4, <2>1 DEF TypeOK, Terms
    <2>3. QED
      BY <2>1, <2>2 DEF WorkIsCovered
  <1>9. \A d \in Checkouts : d # c => sessions'[d] = sessions[d] /\ completions'[d] = completions[d]
    BY <1>4 DEF TypeOK
  <1>10. /\ sessions'[c] = w.result
         /\ w.result.status = "completed" => completions'[c] = done
    BY <1>2, <1>4 DEF TypeOK
  <1>11. StoredAreCovered'
    <2>1. Covered(w.result)
      BY <1>1 DEF WorkIsCovered
    <2>2. QED
      <3> HIDE DEF w, c, done
      <3>1. QED
        BY <1>9, <1>10, <2>1 DEF StoredAreCovered, Covered
  <1>12. MandateFitsCompletion'
    <2> DEFINE TermsOf(d) == IF d.platform = NoPlatform THEN WithoutAgent
                             ELSE Agreed(Content(d.platform, d.profile))
               Right(d, s, f) ==
                   LET terms == TermsOf(f)
                   IN  RequiresMandate(terms) =>
                           /\ f.platform # NoPlatform /\ f.profile <= published[f.platform]
                           /\ f.mandate.key \in terms.keys
                           /\ f.mandate.checkout \in {d, NoSession}
                           /\ ~StaticAuthorization =>
                                  f.mandate.authorizes \in {NoMark, s.mark}
    <2>1. SUFFICES ASSUME NEW d \in Checkouts, sessions'[d] # NoSession,
                          sessions'[d].status = "completed"
                   PROVE  Right(d, sessions'[d], completions'[d])
      BY <1>4 DEF MandateFitsCompletion
    <2>2. CASE d # c
      <3>1. Right(d, sessions[d], completions[d])
        BY <1>9, <2>1, <2>2 DEF MandateFitsCompletion
      <3>2. QED
        BY <1>9, <2>2, <3>1
    <2>3. CASE d = c
      <3>1. w.result.status = "completed"
        BY <1>10, <2>1, <2>3
      <3>2. RestsOn(c, w.mandate, Terms(r), w.result.mark)
        BY <1>1, <3>1 DEF WorkIsCovered
      <3>3. TermsOf(done) = Terms(r)
        BY DEF Terms
      <3>4. RequiresMandate(Terms(r)) =>
               slot[r].platform # NoPlatform /\ slot[r].profile <= published[slot[r].platform]
        <4>1. SUFFICES ASSUME RequiresMandate(Terms(r))
                       PROVE  Served(r) /\ slot[r].profile <= published[slot[r].platform]
          BY DEF Served
        <4>2. Served(r)
          BY <1>1, <3>2, <4>1, TermsOfServed DEF RestsOn
        <4>3. slot[r].profile \in 1..published[slot[r].platform]
          BY <4>2 DEF FetchInv, SlotsInOrder
        <4>4. QED
          BY <4>2, <4>3
      <3>5. Right(c, w.result, done)
        BY <3>2, <3>3, <3>4 DEF RestsOn
      <3>6. QED
        BY <1>10, <2>3, <3>1, <3>5
    <2>4. QED
      BY <2>2, <2>3
  <1>13. CompletionsAreRecorded'
    <2> HIDE DEF w, c, done
    <2>1. QED
      BY <1>3, <1>9, <1>10 DEF CompletionsAreRecorded
  <1>14. QED
    BY <1>5, <1>7, <1>8, <1>11, <1>12, <1>13

(* While the cache works, requests keep what they are served under.        *)
LEMMA CacheKeeps ==
  ASSUME MandateInv, CacheNext, UNCHANGED <<sessions, work, completions>>
  PROVE  MandateInv'
  <1> USE DEF MandateInv
  <1>1. FetchInv'
    BY FetchStep
  <1>2. \A r \in Requests : At(r, "agreed") => slot'[r] = slot[r]
    BY DEF FetchInv, CacheNext, Refetch, Publish, ExpireProfile, Arrive, Lookup, Answered,
       Unanswered, StoreProfile, Serve, To, At
  <1>3. \A p \in Platforms : published[p] \in Nat /\ published'[p] \in Nat
                             /\ published[p] <= published'[p]
    <2>1. \A p \in Platforms : published[p] \in Nat
      BY PublishedType DEF FetchInv
    <2>2. published' = published
          \/ \E p \in Platforms : published' = [published EXCEPT ![p] = @ + 1]
      BY DEF CacheNext, Refetch, Publish, ExpireProfile, Arrive, Lookup, Answered, Unanswered,
         StoreProfile
    <2>3. QED
      BY <2>1, <2>2 DEF FetchInv, CacheTypeOK
  <1>4. TypeOK'
    BY <1>1, <1>2 DEF TypeOK, FetchInv, At
  <1>5. WorkIsCovered'
    <2>1. SUFFICES ASSUME NEW q \in Requests, work[q].pc = "writing"
                   PROVE  /\ Covered(work[q].result)
                          /\ work[q].result.status = "completed" =>
                                RestsOn(work[q].checkout, work[q].mandate, Terms(q)',
                                        work[q].result.mark)
      BY DEF WorkIsCovered, Covered, RestsOn
    <2>2. Terms(q)' = Terms(q)
      BY <1>2, <2>1 DEF TypeOK, Terms
    <2>3. QED
      BY <2>1, <2>2 DEF WorkIsCovered
  <1>6. StoredAreCovered'
    BY DEF StoredAreCovered, Covered
  <1>7. MandateFitsCompletion'
    <2>1. SUFFICES ASSUME NEW c \in Checkouts, sessions[c] # NoSession,
                          sessions[c].status = "completed",
                          completions[c].platform # NoPlatform,
                          completions[c].profile <= published[completions[c].platform]
                   PROVE  completions[c].profile <= published'[completions[c].platform]
      BY DEF MandateFitsCompletion
    <2>2. completions[c].platform \in Platforms /\ completions[c].profile \in Nat
      BY <2>1 DEF CompletionsAreRecorded, Completion
    <2>3. QED
      BY <1>3, <2>1, <2>2
  <1>8. CompletionsAreRecorded'
    BY DEF CompletionsAreRecorded
  <1>9. QED
    BY <1>1, <1>4, <1>5, <1>6, <1>7, <1>8

LEMMA MandateInvStep == MandateInv /\ [Next]_vars => MandateInv'
  <1> SUFFICES ASSUME MandateInv, [Next]_vars PROVE MandateInv'
    OBVIOUS
  <1>1. CASE CacheNext /\ UNCHANGED <<sessions, work, completions>>
    BY <1>1, CacheKeeps
  <1>2. ASSUME NEW r \in Requests, NEW c \in Checkouts,
               CreateCheckout(r, c) \/ UpdateCheckout(r, c)
        PROVE  MandateInv'
    <2>1. PICK mark \in Marks : Writes(r, c, Authorized(mark, "ready"), NoMandate)
      BY <1>2 DEF CreateCheckout, UpdateCheckout
    <2>2. /\ At(r, "agreed") /\ UNCHANGED <<cacheVars, sessions, completions>>
          /\ Authorized(mark, "ready").status # "completed"
      BY <1>2, AuthorizedType DEF CreateCheckout, UpdateCheckout, MayChange, Idle
    <2>3. Authorized(mark, "ready") \in Session /\ Covered(Authorized(mark, "ready"))
      BY AuthorizedType
    <2>4. QED
      BY <2>1, <2>2, <2>3, WorkStep
  <1>3. ASSUME NEW r \in Requests, NEW c \in Checkouts, CompleteCheckout(r, c)
        PROVE  MandateInv'
    BY <1>3, CompleteKeeps
  <1>4. ASSUME NEW r \in Requests, NEW c \in Checkouts, CancelCheckout(r, c)
        PROVE  MandateInv'
    <2> DEFINE s == [sessions[c] EXCEPT !.status = "canceled"]
    <2>1. s \in Session /\ s.status = "canceled"
      <3>1. sessions[c] \in Session
        BY <1>4 DEF CancelCheckout, Open, MandateInv, TypeOK
      <3>2. QED
        BY <3>1 DEF Session, Statuses
    <2>2. /\ At(r, "agreed") /\ Writes(r, c, s, NoMandate)
          /\ UNCHANGED <<cacheVars, sessions, completions>>
      BY <1>4 DEF CancelCheckout, MayChange, Idle
    <2>3. QED
      <3> HIDE DEF s
      <3>1. QED
        BY <2>1, <2>2, WorkStep DEF Covered
  <1>5. ASSUME NEW r \in Requests, StoreSession(r)
        PROVE  MandateInv'
    BY <1>5, StoreKeeps
  <1>6. ASSUME NEW r \in Requests, NEW c \in Checkouts, GetCheckout(r, c)
        PROVE  MandateInv'
    <2>1. sessions[c] \in Session /\ At(r, "agreed")
      BY <1>6 DEF GetCheckout, Idle, MandateInv, TypeOK
    <2>2. QED
      BY <1>6, <2>1, AnswerStep DEF GetCheckout, cacheVars
  <1>7. ASSUME NEW r \in Requests, Refuse(r) \/ End(r)
        PROVE  MandateInv'
    <2>1. work' = [work EXCEPT ![r] = NoWork]
      <3>1. CASE End(r)
        BY <3>1 DEF End
      <3>2. CASE Refuse(r)
        <4>1. work[r] \in Work /\ work[r].pc = "none" /\ work' = work
          BY <3>2 DEF Refuse, Idle, MandateInv, TypeOK
        <4>2. work[r] = NoWork
          BY <4>1 DEF Work, NoWork
        <4>3. QED
          BY <4>1, <4>2 DEF MandateInv, TypeOK
      <3>3. QED
        BY <1>7, <3>1, <3>2
    <2>2. QED
      BY <1>7, <2>1, AnswerStep DEF Refuse, End
  <1>8. CASE UNCHANGED vars
    <2>1. FetchInv'
      BY <1>8 DEF MandateInv, FetchInv, vars, cacheVars, CacheTypeOK, SlotsInOrder, Served, At
    <2>2. TypeOK'
      BY <1>8, <2>1 DEF MandateInv, TypeOK, FetchInv, vars, cacheVars, At
    <2>3. (StoredAreCovered /\ CompletionsAreRecorded /\ MandateFitsCompletion)'
      BY <1>8 DEF MandateInv, StoredAreCovered, CompletionsAreRecorded,
         MandateFitsCompletion, Covered, vars, cacheVars
    <2>4. WorkIsCovered'
      BY <1>8 DEF MandateInv, WorkIsCovered, Covered, RestsOn, Terms, vars, cacheVars
    <2>5. QED
      BY <2>1, <2>2, <2>3, <2>4 DEF MandateInv
  <1>9. QED
    BY <1>1, <1>2, <1>3, <1>4, <1>5, <1>6, <1>7, <1>8 DEF Next, Handle

LEMMA MandateInvariance == Spec => []MandateInv
  <1>1. Init => MandateInv
    <2> SUFFICES ASSUME Init PROVE MandateInv
      OBVIOUS
    <2>1. FetchInv
      <3>1. \A p \in Platforms : 1 \in Editions(p)
        BY ProfileCacheAssumption DEF Editions
      <3>2. QED
        BY <3>1 DEF Init, CacheInit, FetchInv, CacheTypeOK, SlotsInOrder, IdleSlot, FetchSlot,
           Served, At
    <2>2. TypeOK
      BY <2>1 DEF Init, FetchInv, TypeOK, NoWork, Work
    <2>3. StoredAreCovered /\ WorkIsCovered /\ CompletionsAreRecorded
          /\ MandateFitsCompletion
      BY DEF Init, StoredAreCovered, WorkIsCovered, CompletionsAreRecorded,
         MandateFitsCompletion, NoWork
    <2>4. QED
      BY <2>1, <2>2, <2>3 DEF MandateInv
  <1>2. QED
    BY <1>1, MandateInvStep, PTL DEF Spec

-----------------------------------------------------------------------------
(* What capability negotiation computes. *)

LEMMA WithoutOrphansFacts ==
  ASSUME NEW x, NEW y, x \subseteq y
  PROVE  /\ WithoutOrphans(x) \subseteq x
         /\ WithoutOrphans(x) \subseteq WithoutOrphans(y)
  BY DEF WithoutOrphans

(* The passes of intersect_capabilities, one after the other. *)
LEMMA Passes ==
  ASSUME NEW business, IsFiniteSet(business), NEW platform
  PROVE  \E after : /\ after[0] = business \cap platform
                    /\ \A n \in 0..(Cardinality(business) - 1) :
                           after[n + 1] = WithoutOrphans(after[n])
                    /\ Intersect(business, platform) = after[Cardinality(business)]
  <1> DEFINE last == Cardinality(business)
             S == SUBSET (business \cap platform)
             base == business \cap platform
             step == [n \in Nat |-> [x \in S |-> WithoutOrphans(x)]]
             Solves(g) == g = [n \in 0..last |-> IF n = 0 THEN business \cap platform
                                                 ELSE WithoutOrphans(g[n - 1])]
  <1>1. last \in Nat
    BY FS_CardinalityType
  <1>2. base \in S /\ step \in [Nat -> [S -> S]]
    BY WithoutOrphansFacts
  <1>3. PICK f \in [Nat -> S] : f[0] = base /\ \A n \in Nat : f[n + 1] = step[n][f[n]]
    <2> HIDE DEF base, step, S
    <2>1. PICK f \in [Nat -> S] : Iterates(f, base, step)
      BY <1>2, RecursionExists, Zenon
    <2> QED BY <2>1 DEF Iterates
  <1>4. \A n \in Nat : f[n + 1] = WithoutOrphans(f[n])
    <2> HIDE DEF S
    <2> QED BY <1>3
  <1>5. Solves([n \in 0..last |-> f[n]])
    <2> DEFINE h == [n \in 0..last |-> f[n]]
    <2> HIDE DEF last
    <2>1. ASSUME NEW n \in 0..last
          PROVE  h[n] = IF n = 0 THEN business \cap platform ELSE WithoutOrphans(h[n - 1])
      <3>1. CASE n = 0
        BY <3>1, <1>1, <1>3
      <3>2. CASE n # 0
        <4>1. n - 1 \in Nat /\ n - 1 \in 0..last /\ (n - 1) + 1 = n
          BY <3>2, <1>1
        <4>2. f[n] = WithoutOrphans(f[n - 1])
          BY <4>1, <1>4
        <4> QED BY <3>2, <4>1, <4>2
      <3> QED BY <3>1, <3>2
    <2> QED BY <2>1
  <1> DEFINE after == CHOOSE g : Solves(g)
  <1>6. Solves(after)
    <2> HIDE DEF Solves
    <2> QED BY <1>5
  <1>7. Intersect(business, platform) = after[last]
    BY DEF Intersect
  <1> HIDE DEF after
  <1>8. /\ after[0] = business \cap platform
        /\ \A n \in 1..last : after[n] = WithoutOrphans(after[n - 1])
    <2> HIDE DEF last
    <2>1. \A n \in 0..last : after[n] = IF n = 0 THEN business \cap platform
                                        ELSE WithoutOrphans(after[n - 1])
      BY <1>6
    <2> HIDE DEF Solves
    <2>2. 0 \in 0..last /\ \A n \in 1..last : n \in 0..last /\ n # 0
      BY <1>1
    <2> QED BY <2>1, <2>2, Zenon
  <1> HIDE DEF last
  <1>9. ASSUME NEW n \in 0..(last - 1) PROVE after[n + 1] = WithoutOrphans(after[n])
    <2>1. n + 1 \in 1..last /\ (n + 1) - 1 = n
      BY <1>1
    <2> QED BY <2>1, <1>8
  <1> QED
    BY <1>7, <1>8, <1>9 DEF last

(* The passes come to an end, and what they leave is the largest set that  *)
(* is common to both sides and in which no extension lacks its parent.     *)
LEMMA IntersectIsLargest ==
  ASSUME NEW business, IsFiniteSet(business), NEW platform
  PROVE  Intersect(business, platform) = LargestCommon(business, platform)
  <1> DEFINE last == Cardinality(business)
             common == business \cap platform
             most == LargestCommon(business, platform)
  <1>1. last \in Nat
    BY FS_CardinalityType
  <1>2. PICK after : /\ after[0] = common
                     /\ \A n \in 0..(last - 1) : after[n + 1] = WithoutOrphans(after[n])
                     /\ Intersect(business, platform) = after[last]
    BY Passes
  <1>3. most \subseteq common /\ Closed(most)
    <2>1. ASSUME NEW c \in most PROVE c \in WithoutOrphans(most)
      <3>1. PICK result \in SUBSET common : Closed(result) /\ c \in result
        BY <2>1 DEF LargestCommon
      <3>2. result \subseteq most
        BY <3>1 DEF LargestCommon
      <3>3. Parent[c] \in result \cup {NoParent}
        BY <3>1 DEF Closed, WithoutOrphans
      <3> QED BY <2>1, <3>2, <3>3 DEF WithoutOrphans
    <2>2. WithoutOrphans(most) \subseteq most
      BY WithoutOrphansFacts
    <2>3. most \subseteq common
      BY DEF LargestCommon
    <2> QED BY <2>1, <2>2, <2>3 DEF Closed
  <1> HIDE DEF last, most, common
  <1> DEFINE T == {n \in 0..last : /\ most \subseteq after[n] /\ after[n] \subseteq common
                                   /\ Closed(after[n]) \/ Cardinality(after[n]) + n <= last}
  <1>4. IsFiniteSet(common) /\ Cardinality(common) <= last /\ Cardinality(common) \in Nat
    BY FS_Subset, FS_CardinalityType DEF common, last
  <1>5. 0 \in T
    BY <1>1, <1>2, <1>3, <1>4
  <1>6. \A n \in 0..(last - 1) : n \in T => n + 1 \in T
    <2> SUFFICES ASSUME NEW n \in 0..(last - 1), n \in T
                 PROVE  n + 1 \in T
      OBVIOUS
    <2> DEFINE old == after[n] new == after[n + 1]
    <2>1. /\ most \subseteq old /\ old \subseteq common
          /\ Closed(old) \/ Cardinality(old) + n <= last
      OBVIOUS
    <2>2. new = WithoutOrphans(old)
      BY <1>2
    <2>3. n + 1 \in 0..last /\ n \in Nat
      BY <1>1
    <2> SUFFICES /\ most \subseteq new /\ new \subseteq common
                 /\ Closed(new) \/ Cardinality(new) + (n + 1) <= last
      BY <2>3
    <2> HIDE DEF old, new, T
    <2>4. new \subseteq old
      BY <2>2, WithoutOrphansFacts
    <2>5. most \subseteq new
      <3>1. WithoutOrphans(most) = most
        BY <1>3 DEF Closed
      <3> QED BY <2>1, <2>2, <3>1, WithoutOrphansFacts
    <2>6. CASE Closed(old)
      <3>1. new = old
        BY <2>2, <2>6 DEF Closed
      <3> QED BY <2>1, <2>6, <3>1
    <2>7. CASE ~Closed(old)
      <3>1. IsFiniteSet(old) /\ new \in SUBSET old /\ new # old
        BY <1>4, <2>1, <2>2, <2>4, <2>7, FS_Subset DEF Closed
      <3>2. /\ Cardinality(new) \in Nat /\ Cardinality(old) \in Nat
            /\ Cardinality(new) <= Cardinality(old) /\ Cardinality(new) # Cardinality(old)
        BY <3>1, FS_Subset, FS_CardinalityType
      <3>3. Cardinality(new) + (n + 1) <= last
        BY <1>1, <2>1, <2>3, <2>7, <3>2
      <3> QED BY <2>1, <2>4, <2>5, <3>3
    <2> QED BY <2>6, <2>7
  <1>7. last \in T
    <2> HIDE DEF T
    <2>1. 0..last \subseteq T
      BY <1>1, <1>5, <1>6, InductionTo
    <2> QED BY <1>1, <2>1
  <1>8. most \subseteq after[last] /\ after[last] \subseteq common
    BY <1>7
  <1>9. Closed(after[last])
    <2> DEFINE left == after[last]
    <2>1. left \in SUBSET common /\ (Closed(left) \/ Cardinality(left) + last <= last)
      BY <1>7
    <2> HIDE DEF left
    <2>2. CASE Cardinality(left) + last <= last
      <3>1. IsFiniteSet(left) /\ Cardinality(left) \in Nat
        BY <1>4, <2>1, FS_Subset, FS_CardinalityType
      <3>2. Cardinality(left) = 0
        BY <1>1, <2>2, <3>1
      <3>3. left = {}
        BY <3>1, <3>2, FS_EmptySet
      <3> QED BY <3>3 DEF Closed, WithoutOrphans, left
    <2> QED BY <2>1, <2>2 DEF left
  <1>10. after[last] \subseteq most
    BY <1>8, <1>9 DEF LargestCommon, most, common
  <1> QED
    BY <1>2, <1>8, <1>10 DEF most

(* The profiles, requests, sessions and completions keep their types, and  *)
(* only a request that was agreed on works on a session.                   *)
THEOREM MandateTypes == Spec => []TypeOK
  BY MandateInvariance, PTL DEF MandateInv

(* Requests are served under a profile that was published, and never under *)
(* one older than what the cache held when they came (fetch_profile).      *)
THEOREM ServedUnderPublishedProfiles == Spec => []ServedUnderPublished
  <1>1. MandateInv => ServedUnderPublished
    BY DEF MandateInv, FetchInv, SlotsInOrder, ServedUnderPublished
  <1>2. QED
    BY <1>1, MandateInvariance, PTL

(* The cache goes back to an older profile only by fetches that overlap:   *)
(* the one that stores it began before the newer one was stored.           *)
THEOREM CacheGoesBackOnlyByOverlap == Spec => CacheGoesBackByOverlap
  <1>1. ASSUME MandateInv, [Next]_vars, NEW p \in Platforms, cache[p] # NotCached,
               cache'[p] # NotCached, cache'[p].profile < cache[p].profile
        PROVE  \E r \in Requests : At(r, "storing") /\ slot[r].platform = p
                                   /\ slot[r].seen < cache[p].profile
    <2>1. /\ CacheTypeOK /\ slot \in [Requests -> FetchSlot] /\ SlotsInOrder
          /\ cache[p] \in [profile : 1..published[p], expired : BOOLEAN]
          /\ published[p] \in Nat
      BY <1>1, PublishedType DEF MandateInv, FetchInv, CacheTypeOK
    <2>2. cache[p].profile \in Nat
      BY <2>1
    <2>3. cache'[p] # cache[p]
      BY <1>1, <2>2
    <2>4. ~ExpireProfile(p)
      BY <1>1, <2>1, <2>2 DEF ExpireProfile, CacheTypeOK
    <2>5. \A q \in Platforms : ExpireProfile(q) => q = p
      BY <2>1, <2>3 DEF ExpireProfile, CacheTypeOK
    <2>6. PICK r \in Requests : StoreProfile(r)
      BY <1>1, <2>3, <2>4, <2>5
      DEF Next, CacheNext, Refetch, Handle, Publish, Arrive, Lookup, Answered, Unanswered,
          CreateCheckout, UpdateCheckout, CompleteCheckout, CancelCheckout, GetCheckout, Refuse,
          StoreSession, End, vars, cacheVars
    <2>7. /\ slot[r] \in FetchSlot /\ slot[r].pc = "storing"
          /\ cache' = [cache EXCEPT ![slot[r].platform] =
                          [profile |-> slot[r].profile, expired |-> FALSE]]
      BY <2>1, <2>6 DEF StoreProfile, At
    <2>8. slot[r].platform = p /\ cache'[p].profile = slot[r].profile
      BY <2>1, <2>3, <2>7 DEF CacheTypeOK
    <2>9. slot[r].profile \in Nat /\ slot[r].seen \in Nat /\ slot[r].profile >= slot[r].seen
      BY <2>1, <2>7, SlotFields DEF SlotsInOrder
    <2>10. QED
      BY <1>1, <2>2, <2>7, <2>8, <2>9 DEF At
  <1>2. MandateInv /\ [Next]_vars
          => [\A p \in Platforms :
                 LET old == cache[p] new == cache'[p] IN
                 old # NotCached /\ new # NotCached /\ new.profile < old.profile =>
                     \E r \in Requests : At(r, "storing") /\ slot[r].platform = p
                                         /\ slot[r].seen < old.profile]_vars
    BY <1>1
  <1>3. QED
    BY <1>2, MandateInvariance, PTL DEF Spec, CacheGoesBackByOverlap

(* A session that is completed by a platform with AP2 is completed under a *)
(* mandate that was signed with a key of the platform and that names no    *)
(* other session and no other authorization than that of the state that    *)
(* was completed, however requests interleave and profiles change          *)
(* (complete_checkout_with_requirements, verify_ap2_mandate).              *)
THEOREM MandatesFitCompletions == Spec => []MandateFitsCompletion
  BY MandateInvariance, PTL DEF MandateInv

(* Until a session is canceled, what is stored with it is what completing  *)
(* it accepts: the configured constant, or a signature over what it is     *)
(* stored with; and nothing is if there is neither, or no AP2              *)
(* (ap2_response_for_checkout, verify_merchant_authorization).             *)
THEOREM StoredAuthorizationsHold == Spec => []StoredAuthorizationHolds
  <1>1. MandateInv => StoredAuthorizationHolds
    <2>1. SUFFICES ASSUME StoredAreCovered, NEW c \in Checkouts, sessions[c] # NoSession,
                          sessions[c].status # "canceled"
                   PROVE  LET s == sessions[c]
                          IN  IF Ap2 \in Business /\ (StaticAuthorization \/ SigningKey)
                              THEN AuthorizationHolds(s)
                              ELSE s.authorization = NoAuthorization
      BY DEF StoredAuthorizationHolds, MandateInv
    <2>2. sessions[c].authorization
            = MerchantAuthorization(sessions[c].mark, sessions[c].status)
      BY <2>1 DEF StoredAreCovered, Covered
    <2>3. QED
      BY <2>2 DEF MerchantAuthorization, AuthorizationHolds, Verifies, Payload
  <1>2. QED
    BY <1>1, MandateInvariance, PTL

(* Whatever was published and however fetches overlap, what a request is   *)
(* served under is the largest set of capabilities that the business and   *)
(* the platform have in common and in which no extension lacks its parent  *)
(* (intersect_capabilities), for any number of capabilities and chains of  *)
(* extensions.                                                             *)
THEOREM AgreementIsLargest == Spec => []AgreesOnTheMost
  <1>1. MandateInv => AgreesOnTheMost
    <2> SUFFICES ASSUME MandateInv, NEW r \in Requests, Served(r)
                 PROVE  Terms(r).capabilities
                          = LargestCommon(Business,
                                Content(slot[r].platform, slot[r].profile).capabilities)
      BY DEF AgreesOnTheMost
    <2>1. IsFiniteSet(Business)
      BY NegotiationAssumption, FS_Subset
    <2>2. Terms(r) = Agreed(Content(slot[r].platform, slot[r].profile))
      BY DEF Served, Terms
    <2> QED BY <2>1, <2>2, IntersectIsLargest DEF Agreed
  <1>2. QED
    BY <1>1, MandateInvariance, PTL

=============================================================================
