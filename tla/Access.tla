------------------------------- MODULE Access -------------------------------
(***************************************************************************)
(* The requests that need a key (src/auth.rs): every transport asks        *)
(* AuthConfig whether a request's bearer token is an API key or an access  *)
(* token of OAuth, before it carries the request out.  What it carries out *)
(* is here a use of the vault, or something else that changes neither      *)
(* tables nor vault.                                                       *)
(***************************************************************************)
EXTENDS OAuth, Tokenization

CONSTANTS
    Callers,        \* slots for requests to the API: a bound of the model
    ApiKeys,        \* api_keys of the configuration
    OtherKeys,      \* what else a request may present
    Unsigned,       \* no token is presented
    RequireAuth     \* require_auth of the configuration

Presentable == Tokens \cup ApiKeys \cup OtherKeys \cup {Unsigned}

ASSUME AccessAssumption ==
    /\ RequireAuth \in BOOLEAN
    /\ (Codes \cup Tokens) \cap (ApiKeys \cup OtherKeys) = {} /\ ApiKeys \cap OtherKeys = {}
    /\ Unsigned \notin Tokens \cup ApiKeys

VARIABLES
    call,   \* the request each slot is at
    late    \* the slots whose request began after its token's revocation

vars == <<oauthVars, vaultVars, call, late>>

IdleCall == [pc |-> "idle"]
Call == [pc : {"idle"}] \cup [pc : {"auth", "admitted"}, token : Presentable]

TypeOK == /\ OAuthTypeOK /\ TokenizationTypeOK
          /\ call \in [Callers -> Call]
          /\ late \subseteq Callers

Init == /\ OAuthInit /\ TokenizationInit
        /\ call = [q \in Callers |-> IdleCall]
        /\ late = {}

-----------------------------------------------------------------------------

(* The tokens a request may present: access tokens once they are issued.   *)
(* Authorization: Bearer comes before X-API-Key.                           *)
Known == {t \in Presentable : t \in Tokens => issued[t] # NoToken}

Arrive(q) == /\ call[q].pc = "idle"
             /\ \E t \in Known :
                    /\ call' = [call EXCEPT ![q] = [pc |-> "auth", token |-> t]]
                    /\ late' = IF t \in revoked THEN late \cup {q} ELSE late \ {q}
             /\ UNCHANGED <<oauthVars, vaultVars>>

(* A bug to detect: tokens are looked up without a look at their age. *)
AcceptsStored(token) == token \in ApiKeys \/ (token \in Tokens /\ StoredToken(token))

(* AuthConfig::validate_token *)
Accepts(token) == token \in ApiKeys \/ (token \in Tokens /\ ValidToken(token))

(* auth_middleware, up to the lock of the access tokens. *)
Authenticate(q) ==
    /\ call[q].pc = "auth"
    /\ call' = [call EXCEPT ![q] = IF ~RequireAuth \/ Accepts(@.token)
                                   THEN [@ EXCEPT !.pc = "admitted"] ELSE IdleCall]
    /\ IF RequireAuth /\ call[q].token \in Tokens THEN DropIfLapsed(call[q].token)
       ELSE UNCHANGED tokens
    /\ UNCHANGED <<codes, lapsed, client, granted, issued, revoked, vaultVars, late>>

(* The handler, and the answer; it may be carried out long after the       *)
(* token was looked at.                                                    *)
Handle(q) == /\ call[q].pc = "admitted"
             /\ \/ Tokenize \/ Detokenize
                \/ UNCHANGED vaultVars
             /\ call' = [call EXCEPT ![q] = IdleCall]
             /\ UNCHANGED <<oauthVars, late>>

HangUp(q) == /\ call[q].pc = "auth"
             /\ call' = [call EXCEPT ![q] = IdleCall]
             /\ UNCHANGED <<oauthVars, vaultVars, late>>

Next == \/ OAuthNext /\ UNCHANGED <<vaultVars, call, late>>
        \/ \E v \in VaultTokens : Outdate(v) /\ UNCHANGED <<oauthVars, call, late>>
        \/ \E q \in Callers : Arrive(q) \/ Authenticate(q) \/ Handle(q) \/ HangUp(q)

Spec == Init /\ [][Next]_vars

-----------------------------------------------------------------------------

Admitted(q) == call[q].pc = "admitted"

(* A request that begins once its token's revocation was answered is not   *)
(* carried out, and neither is one whose token was too old by the time it  *)
(* was looked at: nothing puts a token back (revoke, validate_access_token,*)
(* cleanup_expired).                                                       *)
RevokedStaysOut ==
    [][\A q \in Callers : RequireAuth /\ ~Admitted(q) /\ Admitted(q)' =>
           q \notin late /\ call[q].token \notin lapsed]_vars

=============================================================================
