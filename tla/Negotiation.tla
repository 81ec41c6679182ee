----------------------------- MODULE Negotiation -----------------------------
(***************************************************************************)
(* Capability negotiation (src/negotiation.rs, src/ucp_meta.rs): what a    *)
(* business and a platform have in common, and what of a checkout a        *)
(* platform gets to see.  Pure operators, no state.                        *)
(***************************************************************************)
EXTENDS Naturals, FiniteSets

CONSTANTS
    Capabilities,
    Checkout, Ap2,     \* the capabilities the code treats apart
    Parent, NoParent,  \* the capability that each one extends
    Business,          \* business_capabilities, as configured
    BusinessVersion,   \* versions are dates, in order
    Keys, Loadable     \* the keys that platforms publish, and those that load

(* A platform's profile, as far as negotiation looks at it. *)
Profile == [version : Nat, capabilities : SUBSET Capabilities, keys : SUBSET Keys]

ASSUME NegotiationAssumption ==
    /\ IsFiniteSet(Capabilities)
    /\ NoParent \notin Capabilities
    /\ Parent \in [Capabilities -> Capabilities \cup {NoParent}]
    /\ Business \subseteq Capabilities
    /\ Checkout \in Business /\ Ap2 \in Capabilities /\ Parent[Ap2] = Checkout
    /\ BusinessVersion \in Nat
    /\ Loadable \subseteq Keys

-----------------------------------------------------------------------------

(* One pass over the result drops the extensions whose parent is not in it.*)
WithoutOrphans(result) == {c \in result : Parent[c] \in result \cup {NoParent}}

(* A bug to detect: an extension stays without what it extends. *)
IntersectUnpruned(business, platform) == business \cap platform

(* intersect_capabilities: passes until nothing changes, which takes no    *)
(* more of them than there are capabilities.                               *)
Intersect(business, platform) ==
    LET after[n \in 0..Cardinality(business)] ==
            IF n = 0 THEN business \cap platform ELSE WithoutOrphans(after[n - 1])
    IN  after[Cardinality(business)]

(* What the passes are to compute: the largest set that both sides have    *)
(* and in which no extension lacks its parent.                             *)
Closed(result) == WithoutOrphans(result) = result
LargestCommon(business, platform) ==
    UNION {result \in SUBSET (business \cap platform) : Closed(result)}

(* validate_version *)
SupportsVersion(profile) == profile.version <= BusinessVersion

(* load_verifying_key: a key of another curve, or without coordinates, is  *)
(* skipped.                                                                *)
LoadedKeys(profile) == profile.keys \cap Loadable

(* What a request is served under: the platform's version and the common   *)
(* capabilities, with the keys that load, or all that the business has for *)
(* a request without a UCP-Agent header.                                   *)
Agreed(profile) == [version |-> profile.version,
                    capabilities |-> Intersect(Business, profile.capabilities),
                    keys |-> LoadedKeys(profile)]

WithoutAgent == [version |-> BusinessVersion, capabilities |-> Business, keys |-> {}]

(* requires_ap2_mandate, for a request that was negotiated. *)
RequiresMandate(agreed) == Ap2 \in agreed.capabilities

(* apply_negotiated_checkout: the capabilities of a checkout's answer, and *)
(* with them the parts that depend on them.                                *)
Shown(uses, agreed) == uses \cap agreed.capabilities

=============================================================================
