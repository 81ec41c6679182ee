-------------------------------- MODULE OAuth --------------------------------
(***************************************************************************)
(* Identity linking (src/oauth.rs): a client asks for an authorization     *)
(* code, exchanges it for an access token, and may revoke that.  Codes and *)
(* tokens are two tables with a lock each; a request cleans both up and    *)
(* then takes the locks one after the other, so that an exchange has given *)
(* up the code before it has stored the token.                             *)
(***************************************************************************)
EXTENDS Naturals, FiniteSets

CONSTANTS
    Clients,        \* slots for requests to /oauth2: a bound of the model
    Codes, Tokens,  \* identifiers of codes and access tokens
    Uris, Blank,    \* redirect URIs, and the one that is blank
    AllowedUris,    \* redirect_uris of the configuration: all of Uris without one
    Scopes,         \* the scopes a client may name
    OwnScopes,      \* scopes of the configuration
    NoUri, NoCode, NoToken

(* What is kept with a code, and with a token: the code it was issued for  *)
(* stands for the client, which is the same for all.                       *)
CodeRecord == [uri : Uris, scopes : SUBSET OwnScopes]
TokenRecord == [code : Codes, scopes : SUBSET OwnScopes]

ASSUME OAuthAssumption ==
    /\ OwnScopes \subseteq Scopes /\ AllowedUris \subseteq Uris /\ Blank \in Uris
    /\ NoUri \notin Uris
    /\ NoCode \notin CodeRecord /\ NoToken \notin TokenRecord
    /\ Codes \cap Tokens = {}

VARIABLES
    codes,    \* the codes that can still be exchanged
    tokens,   \* the access tokens
    lapsed,   \* the codes and tokens that are older than their ttl
    client,   \* the request each slot is at
    granted,  \* every code so far, as it was granted
    issued,   \* every access token so far, as it was issued
    revoked   \* the tokens whose revocation was answered

oauthVars == <<codes, tokens, lapsed, client, granted, issued, revoked>>

(* A request to /oauth2/authorize or /oauth2/token. *)
Authorization == [kind : {"authorize"}, uri : Uris, scopes : SUBSET Scopes]
Exchange == [kind : {"exchange"}, code : Codes, uri : Uris \cup {NoUri}]

IdleClient == [pc |-> "idle"]
ClientSlot == [pc : {"idle"}]
              \cup [pc : {"codes", "tokens", "work"}, ask : Authorization \cup Exchange]
              \cup [pc : {"issuing"}, code : Codes, token : Tokens, scopes : SUBSET OwnScopes]

OAuthTypeOK == /\ codes \in [Codes -> CodeRecord \cup {NoCode}]
               /\ tokens \in [Tokens -> TokenRecord \cup {NoToken}]
               /\ lapsed \subseteq Codes \cup Tokens
               /\ client \in [Clients -> ClientSlot]
               /\ granted \in [Codes -> CodeRecord \cup {NoCode}]
               /\ issued \in [Tokens -> TokenRecord \cup {NoToken}]
               /\ revoked \subseteq Tokens

OAuthInit == /\ codes = [c \in Codes |-> NoCode]
             /\ tokens = [t \in Tokens |-> NoToken]
             /\ lapsed = {}
             /\ client = [k \in Clients |-> IdleClient]
             /\ granted = [c \in Codes |-> NoCode]
             /\ issued = [t \in Tokens |-> NoToken]
             /\ revoked = {}

-----------------------------------------------------------------------------

Step(k, slot) == client' = [client EXCEPT ![k] = slot]
Goes(k, pc) == Step(k, [client[k] EXCEPT !.pc = pc])
Asks(k, pc, kind) == client[k].pc = pc /\ client[k].ask.kind = kind

(* The codes a client has been told: with a blank redirect URI the code is *)
(* stored, and then there is nowhere to send it.                           *)
Told == {c \in Codes : granted[c] # NoCode /\ granted[c].uri # Blank}

(* A request that gets past the client's password and the parameters that  *)
(* need no table; one with other parameters changes no more than the       *)
(* clean-up, which every request starts with.                              *)
Ask(k) == /\ client[k].pc = "idle"
          /\ \E ask \in Authorization \cup Exchange :
                 /\ ask.kind = "exchange" => ask.code \in Told
                 /\ Step(k, [pc |-> "codes", ask |-> ask])
          /\ UNCHANGED <<codes, tokens, lapsed, granted, issued, revoked>>

(* cleanup_expired, one table after the other. *)
CleanCodes(k) ==
    /\ client[k].pc = "codes"
    /\ codes' = [c \in Codes |-> IF c \in lapsed THEN NoCode ELSE codes[c]]
    /\ Goes(k, "tokens")
    /\ UNCHANGED <<tokens, lapsed, granted, issued, revoked>>

CleanTokens(k) ==
    /\ client[k].pc = "tokens"
    /\ tokens' = [t \in Tokens |-> IF t \in lapsed THEN NoToken ELSE tokens[t]]
    /\ Goes(k, "work")
    /\ UNCHANGED <<codes, lapsed, granted, issued, revoked>>

(* The scopes that are granted: all of them when none is named. *)
NormalizeScopes(scopes) == IF scopes = {} THEN OwnScopes ELSE scopes

(* Uuid::new_v4 *)
FreshCodes == {c \in Codes : granted[c] = NoCode}
FreshTokens == {t \in Tokens : /\ issued[t] = NoToken
                               /\ \A k \in Clients : client[k].pc = "issuing" => client[k].token # t}

(* A bug to detect: scopes are taken as they are asked for. *)
AllowsAnyScope(ask) == ask.uri \in AllowedUris

Allows(ask) == ask.uri \in AllowedUris /\ ask.scopes \subseteq OwnScopes

Grant(k) ==
    /\ Asks(k, "work", "authorize") /\ Allows(client[k].ask)
    /\ LET record == [uri |-> client[k].ask.uri,
                      scopes |-> NormalizeScopes(client[k].ask.scopes)]
       IN  \E c \in FreshCodes : /\ codes' = [codes EXCEPT ![c] = record]
                                 /\ granted' = [granted EXCEPT ![c] = record]
    /\ Step(k, IdleClient)
    /\ UNCHANGED <<tokens, lapsed, issued, revoked>>

(* A request that is refused, or whose client goes away while it waits for *)
(* a lock, leaves the tables as they are.                                  *)
Refuse(k) ==
    /\ \/ Asks(k, "work", "authorize") /\ ~Allows(client[k].ask)
       \/ Asks(k, "work", "exchange") /\ codes[client[k].ask.code] = NoCode
    /\ Step(k, IdleClient)
    /\ UNCHANGED <<codes, tokens, lapsed, granted, issued, revoked>>

Disconnect(k) == /\ client[k].pc # "idle"
                 /\ Step(k, IdleClient)
                 /\ UNCHANGED <<codes, tokens, lapsed, granted, issued, revoked>>

Suits(c, ask) == c \notin lapsed /\ ask.uri \in {codes[c].uri, NoUri}

(* A bug to detect: the code is looked up, and removed once the token is   *)
(* stored.                                                                 *)
LookUpCode(k) ==
    /\ Asks(k, "work", "exchange") /\ codes[client[k].ask.code] # NoCode
    /\ LET ask == client[k].ask IN
       \/ /\ Suits(ask.code, ask)
          /\ \E t \in FreshTokens : Step(k, [pc |-> "issuing", code |-> ask.code, token |-> t,
                                              scopes |-> codes[ask.code].scopes])
       \/ ~Suits(ask.code, ask) /\ Step(k, IdleClient)
    /\ UNCHANGED <<codes, tokens, lapsed, granted, issued, revoked>>

(* The code is removed, and then looked at: an exchange that is refused    *)
(* has spent it.                                                           *)
RemoveCode(k) ==
    /\ Asks(k, "work", "exchange") /\ codes[client[k].ask.code] # NoCode
    /\ LET ask == client[k].ask IN
       /\ codes' = [codes EXCEPT ![ask.code] = NoCode]
       /\ \/ /\ Suits(ask.code, ask)
             /\ \E t \in FreshTokens : Step(k, [pc |-> "issuing", code |-> ask.code, token |-> t,
                                                 scopes |-> codes[ask.code].scopes])
          \/ ~Suits(ask.code, ask) /\ Step(k, IdleClient)
    /\ UNCHANGED <<tokens, lapsed, granted, issued, revoked>>

Issue(k) ==
    /\ client[k].pc = "issuing"
    /\ LET record == [code |-> client[k].code, scopes |-> client[k].scopes]
       IN  /\ tokens' = [tokens EXCEPT ![client[k].token] = record]
           /\ issued' = [issued EXCEPT ![client[k].token] = record]
    /\ Step(k, IdleClient)
    /\ UNCHANGED <<codes, lapsed, granted, revoked>>

(* Revoking a token that is gone is not an error. *)
Revoke(t) == /\ issued[t] # NoToken
             /\ tokens' = [tokens EXCEPT ![t] = NoToken]
             /\ revoked' = revoked \cup {t}
             /\ UNCHANGED <<codes, lapsed, client, granted, issued>>

Lapse == /\ \/ \E c \in Codes : codes[c] # NoCode /\ lapsed' = lapsed \cup {c}
            \/ \E t \in Tokens : tokens[t] # NoToken /\ lapsed' = lapsed \cup {t}
         /\ UNCHANGED <<codes, tokens, client, granted, issued, revoked>>

(* A bug to detect: a token is good for as long as it is in the table. *)
StoredToken(t) == tokens[t] # NoToken

(* validate_access_token: its answer, and what it leaves in the table. *)
ValidToken(t) == tokens[t] # NoToken /\ t \notin lapsed

DropIfLapsed(t) == tokens' = IF t \in lapsed THEN [tokens EXCEPT ![t] = NoToken] ELSE tokens

OAuthNext == \/ Lapse \/ \E t \in Tokens : Revoke(t)
             \/ \E k \in Clients : \/ Ask(k) \/ CleanCodes(k) \/ CleanTokens(k)
                                    \/ Grant(k) \/ Refuse(k) \/ Disconnect(k)
                                    \/ RemoveCode(k) \/ Issue(k)

-----------------------------------------------------------------------------

(* A code yields one access token at most, whoever exchanges it at the     *)
(* same time and whatever the clean-up of others does in between           *)
(* (exchange_code).                                                        *)
OneTokenPerCode ==
    \A t, u \in Tokens : issued[t] # NoToken /\ issued[u] # NoToken
                           /\ issued[t].code = issued[u].code => t = u

(* A token is good for what its code was granted for (exchange_code hands  *)
(* on the scopes of the record it removed).                                *)
TokenKeepsItsGrant ==
    \A t \in Tokens : tokens[t] # NoToken =>
        /\ codes[tokens[t].code] = NoCode
        /\ tokens[t].scopes = granted[tokens[t].code].scopes

(* An authorization code as a credential that may be used once: it is live *)
(* while it is in the table or its exchange is under way.                  *)
Exchanging(c) == \E k \in Clients : client[k].pc = "issuing" /\ client[k].code = c
TokensOf(c) == {t \in Tokens : issued[t] # NoToken /\ issued[t].code = c}

CodePhase(c) == IF granted[c] = NoCode THEN "new"
                ELSE IF codes[c] # NoCode \/ Exchanging(c) THEN "live" ELSE "spent"
CodePrize(c) == IF TokensOf(c) = {} THEN NoToken ELSE CHOOSE t \in Tokens : t \in TokensOf(c)

AuthorizationCodes ==
    INSTANCE OneShot WITH
        Cells <- Codes, Prizes <- Tokens, NoPrize <- NoToken,
        phase <- [c \in Codes |-> CodePhase(c)], prize <- [c \in Codes |-> CodePrize(c)]

CodesAreOneShot == AuthorizationCodes!OneShotSpec

=============================================================================
