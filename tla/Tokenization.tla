---------------------------- MODULE Tokenization ----------------------------
(***************************************************************************)
(* The vault (src/tokenization.rs): a payment handler hands in a           *)
(* credential and gets a token for it, bound to a checkout and perhaps to  *)
(* the identity of a buyer; whoever names the token under its binding gets *)
(* the credential back.  Each operation is one critical section.           *)
(***************************************************************************)
EXTENDS Naturals, Sequences, FiniteSets

CONSTANTS
    VaultTokens,    \* identifiers of tokens: a bound of the model
    Credentials,    \* what is handed in: here, by whom
    VaultCheckouts, BlankCheckout,  \* ids a binding may name, one of them blank
    Identities, NoIdentity,  \* the access tokens a binding may name
    SingleUse,      \* the configuration's single_use
    MaxRedemptions, \* how often a token is redeemed: a bound of the model
    NoEntry

Binding == [checkout : VaultCheckouts, identity : Identities \cup {NoIdentity}]
Entry == [credential : Credentials, binding : Binding]

ASSUME TokenizationAssumption ==
    /\ BlankCheckout \in VaultCheckouts
    /\ NoIdentity \notin Identities
    /\ SingleUse \in BOOLEAN /\ MaxRedemptions \in Nat
    /\ NoEntry \notin Entry

VARIABLES
    vault,     \* the entry behind each token
    outdated,  \* the tokens that are older than the ttl
    entered,   \* every entry so far
    handed     \* the bindings each token was redeemed under, in order

vaultVars == <<vault, outdated, entered, handed>>

TokenizationTypeOK == /\ vault \in [VaultTokens -> Entry \cup {NoEntry}]
                      /\ outdated \subseteq VaultTokens
                      /\ entered \in [VaultTokens -> Entry \cup {NoEntry}]
                      /\ handed \in [VaultTokens -> Seq(Binding)]

TokenizationInit == /\ vault = [v \in VaultTokens |-> NoEntry]
                    /\ outdated = {}
                    /\ entered = [v \in VaultTokens |-> NoEntry]
                    /\ handed = [v \in VaultTokens |-> <<>>]

-----------------------------------------------------------------------------

(* purge_expired, which both operations start with. *)
Purged == [v \in VaultTokens |-> IF v \in outdated THEN NoEntry ELSE vault[v]]

(* Uuid::new_v4 *)
FreshVaultTokens == {v \in VaultTokens : entered[v] = NoEntry}

Tokenize == \E v \in FreshVaultTokens, entry \in Entry :
                /\ entry.binding.checkout # BlankCheckout
                /\ vault' = [Purged EXCEPT ![v] = entry]
                /\ entered' = [entered EXCEPT ![v] = entry]
                /\ UNCHANGED <<outdated, handed>>

(* A bug to detect: an entry is good for any identity of its checkout. *)
MatchesCheckout(stored, binding) == stored.checkout = binding.checkout

(* validate_binding: an entry that is bound to no identity takes any. *)
Matches(stored, binding) ==
    /\ stored.checkout = binding.checkout
    /\ stored.identity \in {NoIdentity, binding.identity}

(* A bug to detect: the token outlives its redemption. *)
HandOutKeeping(v, binding) ==
    /\ Purged[v] # NoEntry /\ Matches(Purged[v].binding, binding)
    /\ Len(handed[v]) < MaxRedemptions
    /\ vault' = Purged
    /\ handed' = [handed EXCEPT ![v] = Append(@, binding)]
    /\ UNCHANGED <<outdated, entered>>

(* The credential goes out; a single-use token goes with it. *)
HandOut(v, binding) ==
    /\ Purged[v] # NoEntry /\ Matches(Purged[v].binding, binding)
    /\ Len(handed[v]) < MaxRedemptions
    /\ vault' = IF SingleUse THEN [Purged EXCEPT ![v] = NoEntry] ELSE Purged
    /\ handed' = [handed EXCEPT ![v] = Append(@, binding)]
    /\ UNCHANGED <<outdated, entered>>

(* A bug to detect: the token is taken out before its binding is looked at.*)
TakeAndRefuse(v, binding) ==
    /\ Purged[v] # NoEntry => ~Matches(Purged[v].binding, binding)
    /\ vault' = IF SingleUse THEN [Purged EXCEPT ![v] = NoEntry] ELSE Purged
    /\ UNCHANGED <<outdated, entered, handed>>

(* The token is unknown, or its binding is another: it stays. *)
RefuseToken(v, binding) ==
    /\ Purged[v] # NoEntry => ~Matches(Purged[v].binding, binding)
    /\ vault' = Purged
    /\ UNCHANGED <<outdated, entered, handed>>

Outdate(v) == /\ vault[v] # NoEntry
              /\ outdated' = outdated \cup {v}
              /\ UNCHANGED <<vault, entered, handed>>

(* The tokens a request may name: a token is known once it is answered. *)
Detokenize == \E v \in VaultTokens \ FreshVaultTokens, binding \in Binding :
                  HandOut(v, binding) \/ RefuseToken(v, binding)

-----------------------------------------------------------------------------

(* A single-use token yields its credential once, however its requests     *)
(* interleave (detokenize looks it up and removes it under one lock).      *)
OneCredentialPerToken == SingleUse => \A v \in VaultTokens : Len(handed[v]) <= 1

(* A token that is redeemed was redeemed for the checkout it was entered   *)
(* for, by the identity it was entered with, if any (validate_binding).    *)
OnlyUnderItsBinding ==
    \A v \in VaultTokens : \A n \in DOMAIN handed[v] :
        LET stored == entered[v].binding
        IN  /\ handed[v][n].checkout = stored.checkout
            /\ stored.identity # NoIdentity => handed[v][n].identity = stored.identity

(* Nobody but its holder can use a token up: it goes when it has been      *)
(* redeemed, or has outlived its ttl (detokenize checks the binding before *)
(* it removes the entry).                                                  *)
RefusalsSpendNothing ==
    [][\A v \in VaultTokens : vault[v] # NoEntry /\ vault'[v] = NoEntry =>
           v \in outdated \/ handed'[v] # handed[v]]_vaultVars

(* A single-use token as a credential that may be used once. *)
VaultPhase(v) == IF entered[v] = NoEntry THEN "new"
                 ELSE IF vault[v] # NoEntry THEN "live" ELSE "spent"
VaultPrize(v) == IF handed[v] = <<>> THEN NoIdentity ELSE handed[v][1]

VaultedCredentials ==
    INSTANCE OneShot WITH
        Cells <- VaultTokens, Prizes <- Binding, NoPrize <- NoIdentity,
        phase <- [v \in VaultTokens |-> VaultPhase(v)],
        prize <- [v \in VaultTokens |-> VaultPrize(v)]

VaultIsOneShot == VaultedCredentials!OneShotSpec

=============================================================================
