---------------------------- MODULE AccessProofs ----------------------------
(***************************************************************************)
(* Proofs about Access for any number of clients, codes, access tokens,    *)
(* vault tokens and callers: authorization codes and single-use vault      *)
(* tokens are credentials that are used once, tokens keep what they were   *)
(* granted for, and a revoked or outlived token does not get a request     *)
(* in.                                                                     *)
(***************************************************************************)
EXTENDS Access, TLAPS

-----------------------------------------------------------------------------
(* Requests to the authorization server: what each slot holds.             *)

LEMMA SlotOfAsk ==
  ASSUME OAuthTypeOK, NEW k \in Clients, client[k].pc \in {"codes", "tokens", "work"}
  PROVE  /\ client[k] \in [pc : {"codes", "tokens", "work"}, ask : Authorization \cup Exchange]
         /\ client[k].ask \in Authorization \cup Exchange
         /\ client[k].ask.kind = "exchange" => client[k].ask \in Exchange
         /\ client[k].ask.kind = "authorize" => client[k].ask \in Authorization
  <1>1. client[k] \in ClientSlot
    BY DEF OAuthTypeOK
  <1>2. client[k] \in [pc : {"codes", "tokens", "work"}, ask : Authorization \cup Exchange]
    BY <1>1 DEF ClientSlot
  <1>3. QED
    BY <1>2 DEF Authorization, Exchange

LEMMA SlotOfIssuing ==
  ASSUME OAuthTypeOK, NEW k \in Clients, client[k].pc = "issuing"
  PROVE  /\ client[k].code \in Codes /\ client[k].token \in Tokens
         /\ client[k].scopes \in SUBSET OwnScopes
  <1>1. client[k] \in ClientSlot
    BY DEF OAuthTypeOK
  <1>2. client[k] \in [pc : {"issuing"}, code : Codes, token : Tokens, scopes : SUBSET OwnScopes]
    BY <1>1 DEF ClientSlot
  <1>3. QED
    BY <1>2

LEMMA GoesType ==
  ASSUME OAuthTypeOK, NEW k \in Clients, client[k].pc \in {"codes", "tokens", "work"},
         NEW pc \in {"tokens", "work"}, Goes(k, pc)
  PROVE  /\ client' \in [Clients -> ClientSlot]
         /\ client'[k].pc = pc
         /\ \A j \in Clients \ {k} : client'[j] = client[j]
  <1> DEFINE new == [client[k] EXCEPT !.pc = pc]
  <1>1. new \in [pc : {"codes", "tokens", "work"}, ask : Authorization \cup Exchange] /\ new.pc = pc
    BY SlotOfAsk
  <1>2. new \in ClientSlot
    BY <1>1 DEF ClientSlot
  <1>3. client' = [client EXCEPT ![k] = new]
    BY DEF Goes, Step
  <1> HIDE DEF new
  <1>4. QED
    BY <1>1, <1>2, <1>3 DEF OAuthTypeOK

LEMMA IdleType == IdleClient \in ClientSlot /\ IdleClient.pc = "idle"
  BY DEF IdleClient, ClientSlot

-----------------------------------------------------------------------------
(* The tables and the exchanges under way.                                 *)

Issuing(k) == client[k].pc = "issuing"

(* A code that was exchanged is gone, and its scopes went to the token.    *)
Spent(c, scopes) == codes[c] = NoCode /\ granted[c] # NoCode /\ scopes = granted[c].scopes

StoredAsGranted == \A c \in Codes : codes[c] # NoCode => codes[c] = granted[c]
StoredAsIssued == \A t \in Tokens : tokens[t] # NoToken => tokens[t] = issued[t]
IssuedIsSpent == \A t \in Tokens : issued[t] # NoToken => Spent(issued[t].code, issued[t].scopes)
IssuingIsSpent == \A k \in Clients : Issuing(k) => Spent(client[k].code, client[k].scopes)
IssuingIsNew ==
    \A k \in Clients : Issuing(k) =>
        /\ issued[client[k].token] = NoToken
        /\ \A t \in Tokens : issued[t] # NoToken => issued[t].code # client[k].code
OneExchange ==
    \A j, k \in Clients : Issuing(j) /\ Issuing(k) /\ j # k =>
        client[j].code # client[k].code /\ client[j].token # client[k].token
RevokedIsGone == \A t \in revoked : issued[t] # NoToken /\ tokens[t] = NoToken

Tables == /\ StoredAsGranted /\ StoredAsIssued
          /\ IssuedIsSpent /\ IssuingIsSpent /\ IssuingIsNew
          /\ OneExchange /\ OneTokenPerCode /\ RevokedIsGone

OAuthInv == OAuthTypeOK /\ Tables

LEMMA OAuthInvInit == OAuthInit => OAuthInv
  BY IdleType DEF OAuthInit, OAuthInv, OAuthTypeOK, Tables, StoredAsGranted, StoredAsIssued,
     IssuedIsSpent, IssuingIsSpent, IssuingIsNew, OneExchange, OneTokenPerCode, RevokedIsGone,
     Issuing

(* What only takes codes and tokens out, and starts no exchange.           *)
LEMMA TakingOutKeeps ==
  ASSUME OAuthInv,
         \A c \in Codes : codes'[c] \in {codes[c], NoCode},
         \A t \in Tokens : tokens'[t] \in {tokens[t], NoToken},
         UNCHANGED <<granted, issued, revoked>>,
         \A k \in Clients : Issuing(k)' => client'[k] = client[k]
  PROVE  Tables'
  <1> USE DEF OAuthInv, OAuthTypeOK, Tables
  <1>a. \A k \in Clients : Issuing(k)' => Issuing(k) /\ client'[k] = client[k]
    BY DEF Issuing
  <1>1. StoredAsGranted' /\ StoredAsIssued'
    BY DEF StoredAsGranted, StoredAsIssued
  <1>2. \A c \in Codes, s \in SUBSET OwnScopes : Spent(c, s) => Spent(c, s)'
    BY DEF Spent
  <1>3. IssuedIsSpent'
    BY <1>2 DEF IssuedIsSpent, TokenRecord
  <1>4. IssuingIsSpent'
    BY <1>a, <1>2, SlotOfIssuing DEF IssuingIsSpent, Issuing
  <1>5. IssuingIsNew' /\ OneExchange'
    BY <1>a DEF IssuingIsNew, OneExchange
  <1>6. OneTokenPerCode' /\ RevokedIsGone'
    BY DEF OneTokenPerCode, RevokedIsGone
  <1>7. QED
    BY <1>1, <1>3, <1>4, <1>5, <1>6

(* A step of one client that is not an exchange goes to a slot that does   *)
(* not issue.                                                              *)
LEMMA OtherSlots ==
  ASSUME OAuthTypeOK, NEW k \in Clients, NEW slot \in ClientSlot, Step(k, slot)
  PROVE  /\ client' \in [Clients -> ClientSlot]
         /\ client'[k] = slot
         /\ \A j \in Clients \ {k} : client'[j] = client[j]
  BY DEF Step, OAuthTypeOK

LEMMA AskKeeps ==
  ASSUME OAuthInv, NEW k \in Clients, Ask(k)
  PROVE  OAuthInv'
  <1>1. PICK ask \in Authorization \cup Exchange : Step(k, [pc |-> "codes", ask |-> ask])
    BY DEF Ask
  <1>2. [pc |-> "codes", ask |-> ask] \in ClientSlot
    BY DEF ClientSlot
  <1>3. /\ client' \in [Clients -> ClientSlot]
        /\ \A j \in Clients : Issuing(j)' => client'[j] = client[j]
    BY <1>1, <1>2, OtherSlots DEF Issuing, OAuthInv
  <1>4. OAuthTypeOK'
    BY <1>3 DEF Ask, OAuthInv, OAuthTypeOK
  <1>5. QED
    BY <1>3, <1>4, TakingOutKeeps DEF Ask, OAuthInv, OAuthTypeOK

LEMMA CleaningKeeps ==
  ASSUME OAuthInv, NEW k \in Clients, CleanCodes(k) \/ CleanTokens(k)
  PROVE  OAuthInv'
  <1>1. client[k].pc \in {"codes", "tokens", "work"} /\ (Goes(k, "tokens") \/ Goes(k, "work"))
    BY DEF CleanCodes, CleanTokens
  <1>2. /\ client' \in [Clients -> ClientSlot]
        /\ \A j \in Clients : Issuing(j)' => client'[j] = client[j]
    BY <1>1, GoesType DEF Issuing, OAuthInv
  <1>3. /\ codes' \in [Codes -> CodeRecord \cup {NoCode}]
        /\ \A c \in Codes : codes'[c] \in {codes[c], NoCode}
    BY DEF CleanCodes, CleanTokens, OAuthInv, OAuthTypeOK
  <1>4. /\ tokens' \in [Tokens -> TokenRecord \cup {NoToken}]
        /\ \A t \in Tokens : tokens'[t] \in {tokens[t], NoToken}
    BY DEF CleanCodes, CleanTokens, OAuthInv, OAuthTypeOK
  <1>5. UNCHANGED <<lapsed, granted, issued, revoked>>
    BY DEF CleanCodes, CleanTokens
  <1>6. OAuthTypeOK'
    BY <1>2, <1>3, <1>4, <1>5 DEF OAuthInv, OAuthTypeOK
  <1>7. QED
    BY <1>2, <1>3, <1>4, <1>5, <1>6, TakingOutKeeps DEF OAuthInv

LEMMA LeavingKeeps ==
  ASSUME OAuthInv, NEW k \in Clients, Refuse(k) \/ Disconnect(k)
  PROVE  OAuthInv'
  <1>1. Step(k, IdleClient) /\ UNCHANGED <<codes, tokens, lapsed, granted, issued, revoked>>
    BY DEF Refuse, Disconnect
  <1>2. /\ client' \in [Clients -> ClientSlot]
        /\ \A j \in Clients : Issuing(j)' => client'[j] = client[j]
    BY <1>1, IdleType, OtherSlots DEF Issuing, OAuthInv
  <1>3. OAuthTypeOK'
    BY <1>1, <1>2 DEF OAuthInv, OAuthTypeOK
  <1>4. QED
    BY <1>1, <1>2, <1>3, TakingOutKeeps DEF OAuthInv, OAuthTypeOK

(* A code nobody has had is stored: it was never exchanged.                *)
LEMMA GrantKeeps ==
  ASSUME OAuthInv, NEW k \in Clients, Grant(k)
  PROVE  OAuthInv'
  <1> DEFINE record == [uri |-> client[k].ask.uri,
                        scopes |-> NormalizeScopes(client[k].ask.scopes)]
  <1>1. PICK c \in FreshCodes : /\ codes' = [codes EXCEPT ![c] = record]
                                /\ granted' = [granted EXCEPT ![c] = record]
    BY DEF Grant
  <1>2. c \in Codes /\ granted[c] = NoCode
    BY DEF FreshCodes
  <1>3. record \in CodeRecord
    BY SlotOfAsk DEF Grant, Asks, Allows, NormalizeScopes, Authorization, CodeRecord, OAuthInv
  <1>4. record # NoCode
    BY <1>3, OAuthAssumption
  <1> HIDE DEF record
  <1>5. Step(k, IdleClient) /\ UNCHANGED <<tokens, lapsed, issued, revoked>>
    BY DEF Grant
  <1>6. /\ client' \in [Clients -> ClientSlot]
        /\ \A j \in Clients : Issuing(j)' => Issuing(j) /\ client'[j] = client[j]
    BY <1>5, IdleType, OtherSlots DEF Issuing, OAuthInv
  <1>7. OAuthTypeOK'
    BY <1>1, <1>2, <1>3, <1>5, <1>6 DEF OAuthInv, OAuthTypeOK
  <1> USE DEF OAuthInv, OAuthTypeOK, Tables
  <1>8. \A d \in Codes, s \in SUBSET OwnScopes : Spent(d, s) => Spent(d, s)'
    BY <1>1, <1>2 DEF Spent
  <1>9. StoredAsGranted' /\ StoredAsIssued'
    BY <1>1, <1>2, <1>5 DEF StoredAsGranted, StoredAsIssued
  <1>10. IssuedIsSpent'
    BY <1>5, <1>8 DEF IssuedIsSpent, TokenRecord
  <1>11. IssuingIsSpent'
    BY <1>6, <1>8, SlotOfIssuing DEF IssuingIsSpent, Issuing
  <1>12. IssuingIsNew' /\ OneExchange'
    BY <1>5, <1>6 DEF IssuingIsNew, OneExchange
  <1>13. OneTokenPerCode' /\ RevokedIsGone'
    BY <1>5 DEF OneTokenPerCode, RevokedIsGone
  <1>14. QED
    BY <1>7, <1>9, <1>10, <1>11, <1>12, <1>13

(* Whoever removes a code from the table is the only one to exchange it.   *)
LEMMA RemoveCodeKeeps ==
  ASSUME OAuthInv, NEW k \in Clients, RemoveCode(k)
  PROVE  OAuthInv'
  <1> DEFINE c == client[k].ask.code
  <1>1. /\ c \in Codes /\ codes[c] # NoCode
        /\ codes' = [codes EXCEPT ![c] = NoCode]
        /\ UNCHANGED <<tokens, lapsed, granted, issued, revoked>>
    BY SlotOfAsk DEF RemoveCode, Asks, Exchange, OAuthInv
  <1>2. codes[c] = granted[c] /\ granted[c] \in CodeRecord
    BY <1>1 DEF OAuthInv, OAuthTypeOK, Tables, StoredAsGranted
  <1>3. ASSUME Step(k, IdleClient) PROVE OAuthInv'
    <2>1. /\ client' \in [Clients -> ClientSlot]
          /\ \A j \in Clients : Issuing(j)' => client'[j] = client[j]
      BY <1>3, IdleType, OtherSlots DEF Issuing, OAuthInv
    <2>2. OAuthTypeOK'
      BY <1>1, <2>1 DEF OAuthInv, OAuthTypeOK
    <2>3. \A d \in Codes : codes'[d] \in {codes[d], NoCode}
      BY <1>1 DEF OAuthInv, OAuthTypeOK
    <2>4. QED
      BY <1>1, <2>1, <2>2, <2>3, TakingOutKeeps DEF OAuthInv, OAuthTypeOK
  <1>4. ASSUME NEW t \in FreshTokens,
               Step(k, [pc |-> "issuing", code |-> c, token |-> t, scopes |-> codes[c].scopes])
        PROVE  OAuthInv'
    <2> DEFINE slot == [pc |-> "issuing", code |-> c, token |-> t, scopes |-> codes[c].scopes]
    <2>1. slot \in ClientSlot
      BY <1>1, <1>2 DEF ClientSlot, FreshTokens, CodeRecord
    <2>2. /\ client' \in [Clients -> ClientSlot]
          /\ client'[k] = slot
          /\ \A j \in Clients \ {k} : client'[j] = client[j]
      BY <1>4, <2>1, OtherSlots DEF OAuthInv
    <2>3. /\ client'[k].code = c /\ client'[k].token = t
          /\ client'[k].scopes = granted[c].scopes /\ Issuing(k)'
      BY <1>2, <2>2 DEF Issuing
    <2>4. /\ t \in Tokens /\ issued[t] = NoToken
          /\ \A j \in Clients : Issuing(j) => client[j].token # t
      BY DEF FreshTokens, Issuing
    <2> HIDE DEF slot, c
    <2>5. OAuthTypeOK'
      BY <1>1, <2>2 DEF OAuthInv, OAuthTypeOK
    <2> USE DEF OAuthInv, OAuthTypeOK, Tables
    <2>6. \A d \in Codes, s \in SUBSET OwnScopes : Spent(d, s) => Spent(d, s)'
      BY <1>1 DEF Spent
    <2>7. StoredAsGranted' /\ StoredAsIssued'
      BY <1>1 DEF StoredAsGranted, StoredAsIssued
    <2>8. IssuedIsSpent'
      BY <1>1, <2>6 DEF IssuedIsSpent, TokenRecord
    <2>9. \A j \in Clients \ {k} : Issuing(j)' => Issuing(j) /\ client'[j] = client[j]
      BY <2>2 DEF Issuing
    <2>10. IssuingIsSpent'
      <3>1. Spent(client[k].code, client[k].scopes)'
        BY <1>1, <1>2, <2>3, OAuthAssumption DEF Spent
      <3>2. ASSUME NEW j \in Clients \ {k}, Issuing(j)'
            PROVE  Spent(client[j].code, client[j].scopes)'
        BY <2>6, <2>9, <3>2, SlotOfIssuing DEF IssuingIsSpent, Issuing
      <3>3. QED
        BY <3>1, <3>2 DEF IssuingIsSpent
    <2>11. IssuingIsNew'
      <3>1. \A u \in Tokens : issued[u] # NoToken => issued[u].code # c
        BY <1>1 DEF IssuedIsSpent, Spent
      <3>2. QED
        BY <1>1, <2>3, <2>4, <2>9, <3>1 DEF IssuingIsNew
    <2>12. OneExchange'
      <3>1. \A j \in Clients : Issuing(j) => client[j].code # c
        BY <1>1 DEF IssuingIsSpent, Spent
      <3>2. QED
        BY <2>3, <2>4, <2>9, <3>1 DEF OneExchange
    <2>13. OneTokenPerCode' /\ RevokedIsGone'
      BY <1>1 DEF OneTokenPerCode, RevokedIsGone
    <2>14. QED
      BY <2>5, <2>7, <2>8, <2>10, <2>11, <2>12, <2>13
  <1>5. \/ Step(k, IdleClient)
        \/ \E t \in FreshTokens :
              Step(k, [pc |-> "issuing", code |-> c, token |-> t, scopes |-> codes[c].scopes])
    BY DEF RemoveCode
  <1>6. QED
    BY <1>3, <1>4, <1>5

(* The token is new, and so is its code among the tokens.                  *)
LEMMA IssueKeeps ==
  ASSUME OAuthInv, NEW k \in Clients, Issue(k)
  PROVE  OAuthInv'
  <1> DEFINE t == client[k].token
             c == client[k].code
             record == [code |-> c, scopes |-> client[k].scopes]
  <1>1. /\ Issuing(k) /\ t \in Tokens /\ c \in Codes /\ client[k].scopes \in SUBSET OwnScopes
        /\ tokens' = [tokens EXCEPT ![t] = record]
        /\ issued' = [issued EXCEPT ![t] = record]
        /\ Step(k, IdleClient)
        /\ UNCHANGED <<codes, lapsed, granted, revoked>>
    BY SlotOfIssuing DEF Issue, Issuing, OAuthInv
  <1>2. /\ record \in TokenRecord /\ record # NoToken
        /\ record.code = c /\ record.scopes = client[k].scopes
    BY <1>1, OAuthAssumption DEF TokenRecord
  <1>3. /\ client' \in [Clients -> ClientSlot]
        /\ \A j \in Clients : Issuing(j)' => j # k /\ Issuing(j) /\ client'[j] = client[j]
    BY <1>1, IdleType, OtherSlots DEF Issuing, OAuthInv
  <1>4. /\ Spent(c, client[k].scopes) /\ issued[t] = NoToken
        /\ \A u \in Tokens : issued[u] # NoToken => issued[u].code # c
    BY <1>1 DEF OAuthInv, Tables, IssuingIsSpent, IssuingIsNew
  <1>5. \A j \in Clients \ {k} : Issuing(j) => client[j].code # c /\ client[j].token # t
    BY <1>1 DEF OAuthInv, Tables, OneExchange
  <1> HIDE DEF t, c, record
  <1>6. OAuthTypeOK'
    BY <1>1, <1>2, <1>3 DEF OAuthInv, OAuthTypeOK
  <1> USE DEF OAuthInv, OAuthTypeOK, Tables
  <1>7. \A d \in Codes, s \in SUBSET OwnScopes : Spent(d, s) => Spent(d, s)'
    BY <1>1 DEF Spent
  <1>8. StoredAsGranted' /\ StoredAsIssued'
    BY <1>1 DEF StoredAsGranted, StoredAsIssued
  <1>9. IssuedIsSpent'
    <2>1. codes'[c] = NoCode /\ granted'[c] # NoCode /\ record.scopes = granted'[c].scopes
      BY <1>1, <1>2, <1>4 DEF Spent
    <2>3. ASSUME NEW u \in Tokens \ {t}, issued'[u] # NoToken
          PROVE  Spent(issued[u].code, issued[u].scopes)'
      BY <1>1, <1>7, <2>3 DEF IssuedIsSpent, TokenRecord
    <2>4. issued'[t] = record
      BY <1>1
    <2>5. \A u \in Tokens : issued'[u] # NoToken => Spent(issued[u].code, issued[u].scopes)'
      BY <1>2, <2>1, <2>3, <2>4 DEF Spent
    <2>6. QED
      BY <2>5 DEF IssuedIsSpent
  <1>10. IssuingIsSpent'
    BY <1>3, <1>7, SlotOfIssuing DEF IssuingIsSpent, Issuing
  <1>11. IssuingIsNew' /\ OneExchange'
    BY <1>1, <1>2, <1>3, <1>5 DEF IssuingIsNew, OneExchange
  <1>12. OneTokenPerCode'
    BY <1>1, <1>2, <1>4 DEF OneTokenPerCode
  <1>13. RevokedIsGone'
    BY <1>1, <1>4 DEF RevokedIsGone
  <1>14. QED
    BY <1>6, <1>8, <1>9, <1>10, <1>11, <1>12, <1>13

LEMMA RevokeKeeps ==
  ASSUME OAuthInv, NEW t \in Tokens, Revoke(t)
  PROVE  OAuthInv'
  <1> USE DEF OAuthInv, OAuthTypeOK, Tables
  <1>1. /\ issued[t] # NoToken
        /\ tokens' = [tokens EXCEPT ![t] = NoToken]
        /\ revoked' = revoked \cup {t}
        /\ UNCHANGED <<codes, lapsed, client, granted, issued>>
    BY DEF Revoke
  <1>2. OAuthTypeOK'
    BY <1>1
  <1>3. StoredAsGranted' /\ StoredAsIssued' /\ RevokedIsGone'
    BY <1>1 DEF StoredAsGranted, StoredAsIssued, RevokedIsGone
  <1>4. IssuedIsSpent' /\ IssuingIsSpent'
    BY <1>1 DEF IssuedIsSpent, IssuingIsSpent, Spent, Issuing
  <1>5. IssuingIsNew' /\ OneExchange' /\ OneTokenPerCode'
    BY <1>1 DEF IssuingIsNew, OneExchange, OneTokenPerCode, Issuing
  <1>6. QED
    BY <1>2, <1>3, <1>4, <1>5

LEMMA LapseKeeps ==
  ASSUME OAuthInv, Lapse
  PROVE  OAuthInv'
  <1>1. OAuthTypeOK' /\ UNCHANGED <<codes, tokens, client, granted, issued, revoked>>
    BY DEF Lapse, OAuthInv, OAuthTypeOK
  <1>2. QED
    BY <1>1, TakingOutKeeps DEF OAuthInv, OAuthTypeOK

LEMMA OAuthStepKeeps == OAuthInv /\ OAuthNext => OAuthInv'
  BY AskKeeps, CleaningKeeps, LeavingKeeps, GrantKeeps, RemoveCodeKeeps, IssueKeeps,
     RevokeKeeps, LapseKeeps DEF OAuthNext

(* A look at a token removes it at most.                                   *)
LEMMA DropKeeps ==
  ASSUME OAuthInv, NEW t \in Tokens, DropIfLapsed(t),
         UNCHANGED <<codes, lapsed, client, granted, issued, revoked>>
  PROVE  OAuthInv'
  <1>1. OAuthTypeOK' /\ \A u \in Tokens : tokens'[u] \in {tokens[u], NoToken}
    BY DEF DropIfLapsed, OAuthInv, OAuthTypeOK
  <1>2. QED
    BY <1>1, TakingOutKeeps DEF OAuthInv, OAuthTypeOK

LEMMA SameTables ==
  ASSUME OAuthInv, UNCHANGED oauthVars
  PROVE  OAuthInv'
  <1>1. UNCHANGED <<codes, tokens, lapsed, client, granted, issued, revoked>>
    BY DEF oauthVars
  <1>2. OAuthTypeOK'
    BY <1>1 DEF OAuthInv, OAuthTypeOK
  <1>3. QED
    BY <1>1, <1>2, TakingOutKeeps DEF OAuthInv, OAuthTypeOK

-----------------------------------------------------------------------------
(* The vault.                                                              *)

StoredAsEntered == \A v \in VaultTokens : vault[v] # NoEntry => vault[v] = entered[v]
HandedWasEntered == \A v \in VaultTokens : handed[v] # <<>> => entered[v] # NoEntry
HandedIsGone == SingleUse => \A v \in VaultTokens : handed[v] # <<>> => vault[v] = NoEntry

VaultInv == /\ TokenizationTypeOK
            /\ StoredAsEntered /\ HandedWasEntered /\ HandedIsGone
            /\ OneCredentialPerToken /\ OnlyUnderItsBinding

LEMMA VaultInvInit == TokenizationInit => VaultInv
  BY DEF TokenizationInit, VaultInv, TokenizationTypeOK, StoredAsEntered, HandedWasEntered,
     HandedIsGone, OneCredentialPerToken, OnlyUnderItsBinding

LEMMA PurgedType ==
  ASSUME VaultInv
  PROVE  /\ Purged \in [VaultTokens -> Entry \cup {NoEntry}]
         /\ \A v \in VaultTokens : Purged[v] \in {vault[v], NoEntry}
         /\ \A v \in VaultTokens : Purged[v] # NoEntry => Purged[v] = entered[v] /\ entered[v] \in Entry
  BY DEF VaultInv, TokenizationTypeOK, Purged, StoredAsEntered

(* What only takes tokens out, and hands nothing out.                      *)
LEMMA PurgingKeeps ==
  ASSUME VaultInv, outdated' \subseteq VaultTokens,
         vault' \in [VaultTokens -> Entry \cup {NoEntry}],
         \A v \in VaultTokens : vault'[v] \in {vault[v], NoEntry},
         UNCHANGED <<entered, handed>>
  PROVE  VaultInv'
  BY DEF VaultInv, TokenizationTypeOK, StoredAsEntered, HandedWasEntered, HandedIsGone,
     OneCredentialPerToken, OnlyUnderItsBinding

LEMMA TokenizeKeeps ==
  ASSUME VaultInv, Tokenize
  PROVE  VaultInv'
  <1>1. PICK v \in FreshVaultTokens, entry \in Entry :
          /\ vault' = [Purged EXCEPT ![v] = entry]
          /\ entered' = [entered EXCEPT ![v] = entry]
          /\ UNCHANGED <<outdated, handed>>
    BY DEF Tokenize
  <1>2. v \in VaultTokens /\ entered[v] = NoEntry /\ entry # NoEntry
    BY TokenizationAssumption DEF FreshVaultTokens
  <1>3. handed[v] = <<>>
    BY <1>2 DEF VaultInv, HandedWasEntered
  <1>4. TokenizationTypeOK' /\ StoredAsEntered'
    BY <1>1, <1>2, PurgedType DEF VaultInv, TokenizationTypeOK, StoredAsEntered
  <1>5. HandedWasEntered' /\ HandedIsGone' /\ OneCredentialPerToken'
    BY <1>1, <1>2, <1>3, PurgedType DEF VaultInv, TokenizationTypeOK, HandedWasEntered,
       HandedIsGone, OneCredentialPerToken
  <1>6. OnlyUnderItsBinding'
    BY <1>1, <1>2, <1>3 DEF VaultInv, TokenizationTypeOK, OnlyUnderItsBinding
  <1>7. QED
    BY <1>4, <1>5, <1>6 DEF VaultInv

LEMMA RefuseTokenKeeps ==
  ASSUME VaultInv, NEW v \in VaultTokens, NEW b \in Binding, RefuseToken(v, b)
  PROVE  VaultInv'
  <1>1. vault' = Purged /\ outdated' \subseteq VaultTokens /\ UNCHANGED <<entered, handed>>
    BY DEF RefuseToken, VaultInv, TokenizationTypeOK
  <1>2. QED
    BY <1>1, PurgedType, PurgingKeeps

(* The one step that hands out a credential.                               *)
LEMMA HandOutKeeps ==
  ASSUME VaultInv, NEW v \in VaultTokens, NEW b \in Binding, HandOut(v, b)
  PROVE  VaultInv'
  <1>1. /\ Purged[v] # NoEntry /\ Matches(Purged[v].binding, b)
        /\ vault' = IF SingleUse THEN [Purged EXCEPT ![v] = NoEntry] ELSE Purged
        /\ handed' = [handed EXCEPT ![v] = Append(@, b)]
        /\ UNCHANGED <<outdated, entered>>
    BY DEF HandOut
  <1>2. /\ vault[v] # NoEntry /\ entered[v] # NoEntry /\ entered[v] \in Entry
        /\ Matches(entered[v].binding, b)
    BY <1>1, PurgedType
  <1>3. /\ vault' \in [VaultTokens -> Entry \cup {NoEntry}]
        /\ \A u \in VaultTokens : vault'[u] \in {vault[u], NoEntry}
        /\ SingleUse => vault'[v] = NoEntry
    BY <1>1, PurgedType
  <1>4. /\ handed[v] \in Seq(Binding)
        /\ handed'[v] = Append(handed[v], b) /\ handed'[v] \in Seq(Binding)
        /\ \A u \in VaultTokens \ {v} : handed'[u] = handed[u]
        /\ handed' \in [VaultTokens -> Seq(Binding)]
    BY <1>1 DEF VaultInv, TokenizationTypeOK
  <1>5. TokenizationTypeOK'
    BY <1>1, <1>3, <1>4 DEF VaultInv, TokenizationTypeOK
  <1>6. StoredAsEntered' /\ HandedWasEntered' /\ HandedIsGone'
    BY <1>1, <1>2, <1>3, <1>4 DEF VaultInv, StoredAsEntered, HandedWasEntered, HandedIsGone
  <1>7. OneCredentialPerToken'
    <2>1. SingleUse => handed[v] = <<>>
      BY <1>2 DEF VaultInv, HandedIsGone
    <2>2. SingleUse => Len(handed'[v]) = 1
      BY <1>4, <2>1
    <2>3. QED
      BY <1>4, <2>2 DEF VaultInv, OneCredentialPerToken
  <1>8. OnlyUnderItsBinding'
    <2>1. ASSUME NEW n \in DOMAIN handed'[v]
          PROVE  Matches(entered[v].binding, handed'[v][n])
      <3>1. \A m \in DOMAIN handed[v] : Matches(entered[v].binding, handed[v][m])
        BY DEF VaultInv, OnlyUnderItsBinding, Matches
      <3>2. \/ n \in DOMAIN handed[v] /\ handed'[v][n] = handed[v][n]
            \/ handed'[v][n] = b
        BY <1>4
      <3>3. QED
        BY <1>2, <3>1, <3>2
    <2>2. \A n \in DOMAIN handed'[v] :
            /\ handed'[v][n].checkout = entered'[v].binding.checkout
            /\ entered'[v].binding.identity # NoIdentity
                 => handed'[v][n].identity = entered'[v].binding.identity
      BY <1>1, <2>1 DEF Matches
    <2>3. QED
      BY <1>1, <1>4, <2>2 DEF VaultInv, OnlyUnderItsBinding
  <1>9. QED
    BY <1>5, <1>6, <1>7, <1>8 DEF VaultInv

LEMMA OutdateKeeps ==
  ASSUME VaultInv, NEW v \in VaultTokens, Outdate(v)
  PROVE  VaultInv'
  <1>1. /\ outdated' \subseteq VaultTokens /\ UNCHANGED <<vault, entered, handed>>
        /\ vault' \in [VaultTokens -> Entry \cup {NoEntry}]
    BY DEF Outdate, VaultInv, TokenizationTypeOK
  <1>2. QED
    BY <1>1, PurgingKeeps

LEMMA SameVault ==
  ASSUME VaultInv, UNCHANGED vaultVars
  PROVE  VaultInv'
  <1>1. /\ outdated' \subseteq VaultTokens /\ UNCHANGED <<vault, entered, handed>>
        /\ vault' \in [VaultTokens -> Entry \cup {NoEntry}]
    BY DEF vaultVars, VaultInv, TokenizationTypeOK
  <1>2. QED
    BY <1>1, PurgingKeeps

(* What a caller may do to the vault.                                      *)
LEMMA UseKeeps ==
  ASSUME VaultInv, Tokenize \/ Detokenize \/ UNCHANGED vaultVars
  PROVE  VaultInv'
  BY TokenizeKeeps, HandOutKeeps, RefuseTokenKeeps, SameVault DEF Detokenize

-----------------------------------------------------------------------------
(* Both, and the callers.                                                  *)

CallsTypeOK == call \in [Callers -> Call] /\ late \subseteq Callers
LateIsRevoked == \A q \in late : call[q].pc # "idle" => call[q].token \in revoked

AccessInv == OAuthInv /\ VaultInv /\ CallsTypeOK /\ LateIsRevoked

LEMMA CallToken ==
  ASSUME CallsTypeOK, NEW q \in Callers, call[q].pc # "idle"
  PROVE  /\ call[q] \in [pc : {"auth", "admitted"}, token : Presentable]
         /\ call[q].token \in Presentable
  BY DEF CallsTypeOK, Call

LEMMA AccessInvInit == Init => AccessInv
  BY OAuthInvInit, VaultInvInit DEF Init, AccessInv, CallsTypeOK, LateIsRevoked, IdleCall, Call

LEMMA ArriveKeeps ==
  ASSUME AccessInv, NEW q \in Callers, Arrive(q)
  PROVE  AccessInv'
  <1>1. PICK t \in Known :
          /\ call' = [call EXCEPT ![q] = [pc |-> "auth", token |-> t]]
          /\ late' = IF t \in revoked THEN late \cup {q} ELSE late \ {q}
    BY DEF Arrive
  <1>2. UNCHANGED <<oauthVars, vaultVars>> /\ UNCHANGED revoked
    BY DEF Arrive, oauthVars
  <1>3. [pc |-> "auth", token |-> t] \in Call
    BY DEF Known, Call
  <1>4. CallsTypeOK' /\ LateIsRevoked'
    BY <1>1, <1>2, <1>3 DEF AccessInv, CallsTypeOK, LateIsRevoked
  <1>5. QED
    BY <1>2, <1>4, SameTables, SameVault DEF AccessInv

LEMMA AuthenticateKeeps ==
  ASSUME AccessInv, NEW q \in Callers, Authenticate(q)
  PROVE  /\ AccessInv'
         /\ RequireAuth /\ Admitted(q)' => q \notin late /\ call[q].token \notin lapsed
         /\ \A p \in Callers \ {q} : call'[p] = call[p]
  <1> DEFINE t == call[q].token
             new == IF ~RequireAuth \/ Accepts(t) THEN [call[q] EXCEPT !.pc = "admitted"]
                    ELSE IdleCall
  <1>1. call[q].pc = "auth" /\ call' = [call EXCEPT ![q] = new]
        /\ UNCHANGED <<codes, lapsed, client, granted, issued, revoked, vaultVars, late>>
    BY DEF Authenticate
  <1>2. call[q] \in [pc : {"auth", "admitted"}, token : Presentable] /\ t \in Presentable
    BY <1>1, CallToken DEF AccessInv
  <1>3. new \in Call /\ (new.pc # "idle" => new.token = t)
        /\ (new.pc = "admitted" => ~RequireAuth \/ Accepts(t))
    BY <1>2 DEF Call, IdleCall
  <1>4. CallsTypeOK' /\ LateIsRevoked'
    <2> HIDE DEF new
    <2>1. call'[q] = new /\ \A p \in Callers \ {q} : call'[p] = call[p]
      BY <1>1 DEF AccessInv, CallsTypeOK
    <2>2. QED
      BY <1>1, <1>3, <2>1 DEF AccessInv, CallsTypeOK, LateIsRevoked
  <1>5. OAuthInv'
    <2>1. UNCHANGED tokens \/ (t \in Tokens /\ DropIfLapsed(t))
      BY DEF Authenticate
    <2>2. UNCHANGED tokens => UNCHANGED oauthVars
      BY <1>1 DEF oauthVars
    <2>3. QED
      BY <1>1, <2>1, <2>2, DropKeeps, SameTables DEF AccessInv
  <1>6. Accepts(t) => t \notin revoked /\ t \notin lapsed
    BY AccessAssumption DEF Accepts, ValidToken, AccessInv, OAuthInv, OAuthTypeOK, Tables,
       RevokedIsGone
  <1>7. q \in late => t \in revoked
    BY <1>1 DEF AccessInv, LateIsRevoked
  <1>8. Admitted(q)' => new.pc = "admitted"
    BY <1>1 DEF Admitted, AccessInv, CallsTypeOK
  <1>9. \A p \in Callers \ {q} : call'[p] = call[p]
    BY <1>1 DEF AccessInv, CallsTypeOK
  <1>10. QED
    BY <1>1, <1>3, <1>4, <1>5, <1>6, <1>7, <1>8, <1>9, SameVault DEF AccessInv

LEMMA LeaveKeeps ==
  ASSUME AccessInv, NEW q \in Callers, Handle(q) \/ HangUp(q)
  PROVE  AccessInv' /\ \A p \in Callers : Admitted(p)' => Admitted(p)
  <1>1. /\ call' = [call EXCEPT ![q] = IdleCall]
        /\ UNCHANGED <<oauthVars, late>> /\ UNCHANGED revoked
        /\ Tokenize \/ Detokenize \/ UNCHANGED vaultVars
    BY DEF Handle, HangUp, oauthVars
  <1>2. CallsTypeOK' /\ LateIsRevoked'
    BY <1>1 DEF AccessInv, CallsTypeOK, LateIsRevoked, IdleCall, Call
  <1>3. \A p \in Callers : Admitted(p)' => Admitted(p)
    BY <1>1 DEF AccessInv, CallsTypeOK, IdleCall, Admitted
  <1>4. QED
    BY <1>1, <1>2, <1>3, SameTables, UseKeeps DEF AccessInv

(* A revocation is never taken back, whatever the server does meanwhile.   *)
LEMMA RevokedStays == OAuthNext => revoked \subseteq revoked'
  BY DEF OAuthNext, Lapse, Revoke, Ask, CleanCodes, CleanTokens, Grant, Refuse, Disconnect,
     RemoveCode, Issue

LEMMA ServerKeeps ==
  ASSUME AccessInv, OAuthNext, UNCHANGED <<vaultVars, call, late>>
  PROVE  AccessInv'
  <1>1. CallsTypeOK' /\ LateIsRevoked'
    BY RevokedStays DEF AccessInv, CallsTypeOK, LateIsRevoked
  <1>2. QED
    BY <1>1, OAuthStepKeeps, SameVault DEF AccessInv

LEMMA AgeingKeeps ==
  ASSUME AccessInv, NEW v \in VaultTokens, Outdate(v), UNCHANGED <<oauthVars, call, late>>
  PROVE  AccessInv'
  <1>1. CallsTypeOK' /\ LateIsRevoked'
    BY DEF AccessInv, CallsTypeOK, LateIsRevoked, oauthVars
  <1>2. QED
    BY <1>1, SameTables, OutdateKeeps DEF AccessInv

LEMMA AccessInvStep ==
  ASSUME AccessInv, [Next]_vars
  PROVE  /\ AccessInv'
         /\ \A q \in Callers : RequireAuth /\ ~Admitted(q) /\ Admitted(q)' =>
                q \notin late /\ call[q].token \notin lapsed
  <1>1. ASSUME OAuthNext \/ (\E v \in VaultTokens : Outdate(v)), UNCHANGED <<call, late>>
        PROVE  \A q \in Callers : Admitted(q)' => Admitted(q)
    BY <1>1 DEF Admitted
  <1>2. ASSUME NEW q \in Callers, Arrive(q)
        PROVE  AccessInv' /\ \A p \in Callers : Admitted(p)' => Admitted(p)
    <2>1. \A p \in Callers : Admitted(p)' => Admitted(p)
      BY <1>2 DEF Arrive, Admitted, AccessInv, CallsTypeOK
    <2>2. QED
      BY <1>2, <2>1, ArriveKeeps
  <1>3. ASSUME NEW q \in Callers, Authenticate(q)
        PROVE  /\ AccessInv'
               /\ \A p \in Callers : RequireAuth /\ ~Admitted(p) /\ Admitted(p)' =>
                      p \notin late /\ call[p].token \notin lapsed
    BY <1>3, AuthenticateKeeps DEF Admitted
  <1>4. ASSUME UNCHANGED vars
        PROVE  AccessInv' /\ \A p \in Callers : Admitted(p)' => Admitted(p)
    <2>1. UNCHANGED <<oauthVars, vaultVars, call, late>> /\ UNCHANGED revoked
      BY <1>4 DEF vars, oauthVars
    <2>2. CallsTypeOK' /\ LateIsRevoked' /\ \A p \in Callers : Admitted(p)' => Admitted(p)
      BY <2>1 DEF AccessInv, CallsTypeOK, LateIsRevoked, Admitted
    <2>3. QED
      BY <2>1, <2>2, SameTables, SameVault DEF AccessInv
  <1>5. QED
    BY <1>1, <1>2, <1>3, <1>4, LeaveKeeps, ServerKeeps, AgeingKeeps DEF Next

LEMMA AccessInvariant == Spec => []AccessInv
  BY AccessInvInit, AccessInvStep, PTL DEF Spec

(* Every variable keeps its type, for any number of clients and callers.   *)
THEOREM AccessTypes == Spec => []TypeOK
  <1>1. AccessInv => TypeOK
    BY DEF AccessInv, OAuthInv, VaultInv, CallsTypeOK, TypeOK
  <1>2. QED
    BY <1>1, AccessInvariant, PTL

(* However exchanges, clean-ups and disconnections interleave, no two      *)
(* access tokens were issued for one code (exchange_code).                 *)
THEOREM OneAccessTokenPerCode == Spec => []OneTokenPerCode
  BY AccessInvariant, PTL DEF AccessInv, OAuthInv, Tables

(* An access token has the scopes its code was granted for, and that code  *)
(* cannot be exchanged again (exchange_code).                              *)
THEOREM TokensKeepTheirGrant == Spec => []TokenKeepsItsGrant
  <1>1. AccessInv => TokenKeepsItsGrant
    BY DEF AccessInv, OAuthInv, Tables, StoredAsIssued, IssuedIsSpent, Spent, TokenKeepsItsGrant
  <1>2. QED
    BY <1>1, AccessInvariant, PTL

(* A single-use vault token yields its credential once (detokenize).       *)
THEOREM OneCredentialForAToken == Spec => []OneCredentialPerToken
  BY AccessInvariant, PTL DEF AccessInv, VaultInv

(* A vault token is redeemed under its binding only (validate_binding).    *)
THEOREM RedeemedUnderItsBinding == Spec => []OnlyUnderItsBinding
  BY AccessInvariant, PTL DEF AccessInv, VaultInv

(* A request that began after the revocation of its token, or whose token  *)
(* has outlived its ttl, does not get past auth_middleware.                *)
THEOREM RevokedTokensStayOut == Spec => RevokedStaysOut
  <1>1. AccessInv /\ [Next]_vars =>
          [\A q \in Callers : RequireAuth /\ ~Admitted(q) /\ Admitted(q)' =>
               q \notin late /\ call[q].token \notin lapsed]_vars
    BY AccessInvStep
  <1>2. QED
    BY <1>1, AccessInvariant, PTL DEF Spec, RevokedStaysOut

-----------------------------------------------------------------------------
(* Single-use tokens of the vault implement OneShot.                       *)

(* What may become of one token in a step.                                 *)
VaultCell(v) ==
    \/ VaultPhase(v) = "new" /\ VaultPhase(v)' = "live" /\ VaultPrize(v)' = VaultPrize(v)
    \/ VaultPhase(v) = "live" /\ VaultPhase(v)' = "spent" /\ VaultPrize(v)' \in Binding
    \/ VaultPhase(v) = "live" /\ VaultPhase(v)' = "spent" /\ VaultPrize(v)' = VaultPrize(v)
    \/ VaultPhase(v)' = VaultPhase(v) /\ VaultPrize(v)' = VaultPrize(v)

(* Why a token may leave the vault.                                        *)
LeavesRightly(v) == vault[v] # NoEntry /\ vault'[v] = NoEntry =>
                        v \in outdated \/ handed'[v] # handed[v]

LEMMA TakenOutCell ==
  ASSUME VaultInv, NEW v \in VaultTokens, vault'[v] \in {vault[v], NoEntry},
         entered'[v] = entered[v], handed'[v] = handed[v]
  PROVE  VaultCell(v)
  BY TokenizationAssumption
  DEF VaultCell, VaultPhase, VaultPrize, VaultInv, StoredAsEntered, TokenizationTypeOK

LEMMA VaultStep ==
  ASSUME VaultInv, Tokenize \/ Detokenize \/ UNCHANGED vaultVars, NEW v \in VaultTokens
  PROVE  /\ SingleUse => VaultCell(v)
         /\ LeavesRightly(v)
  <1>0. Purged[v] \in {vault[v], NoEntry} /\ (v \notin outdated => Purged[v] = vault[v])
    BY DEF Purged
  <1>1. ASSUME Tokenize PROVE VaultCell(v) /\ LeavesRightly(v)
    <2>1. PICK u \in FreshVaultTokens, entry \in Entry :
            /\ vault' = [Purged EXCEPT ![u] = entry]
            /\ entered' = [entered EXCEPT ![u] = entry]
            /\ UNCHANGED <<outdated, handed>>
      BY <1>1 DEF Tokenize
    <2>2. ASSUME v = u PROVE VaultCell(v) /\ LeavesRightly(v)
      <3>1. entered[v] = NoEntry /\ entered'[v] = entry /\ vault'[v] = entry /\ entry # NoEntry
        BY <2>1, <2>2, PurgedType, TokenizationAssumption
        DEF FreshVaultTokens, VaultInv, TokenizationTypeOK
      <3>2. QED
        BY <2>1, <3>1 DEF VaultCell, VaultPhase, VaultPrize, LeavesRightly
    <2>3. ASSUME v # u PROVE VaultCell(v) /\ LeavesRightly(v)
      <3>1. entered'[v] = entered[v] /\ handed'[v] = handed[v] /\ vault'[v] = Purged[v]
        BY <2>1, <2>3, PurgedType DEF VaultInv, TokenizationTypeOK
      <3>2. QED
        BY <1>0, <3>1, TakenOutCell DEF LeavesRightly
    <2>4. QED
      BY <2>2, <2>3
  <1>2. ASSUME NEW u \in VaultTokens, NEW b \in Binding, HandOut(u, b)
        PROVE  (SingleUse => VaultCell(v)) /\ LeavesRightly(v)
    <2>1. /\ Purged[u] # NoEntry
          /\ vault' = IF SingleUse THEN [Purged EXCEPT ![u] = NoEntry] ELSE Purged
          /\ handed' = [handed EXCEPT ![u] = Append(@, b)]
          /\ UNCHANGED <<outdated, entered>>
      BY <1>2 DEF HandOut
    <2>2. ASSUME v = u PROVE (SingleUse => VaultCell(v)) /\ LeavesRightly(v)
      <3>1. vault[v] # NoEntry /\ entered[v] # NoEntry /\ (SingleUse => vault'[v] = NoEntry)
        BY <2>1, <2>2, PurgedType, TokenizationAssumption
      <3>2. handed[v] \in Seq(Binding) /\ handed'[v] = Append(handed[v], b)
        BY <2>1, <2>2 DEF VaultInv, TokenizationTypeOK
      <3>3. handed'[v] # handed[v] /\ handed'[v] # <<>> /\ handed'[v][1] \in Binding
        BY <3>2
      <3>4. QED
        BY <2>1, <3>1, <3>3 DEF VaultCell, VaultPhase, VaultPrize, LeavesRightly
    <2>3. ASSUME v # u PROVE VaultCell(v) /\ LeavesRightly(v)
      <3>1. entered'[v] = entered[v] /\ handed'[v] = handed[v] /\ vault'[v] = Purged[v]
        BY <2>1, <2>3, PurgedType DEF VaultInv, TokenizationTypeOK
      <3>2. QED
        BY <1>0, <3>1, TakenOutCell DEF LeavesRightly
    <2>4. QED
      BY <2>2, <2>3
  <1>3. ASSUME NEW u \in VaultTokens, NEW b \in Binding, RefuseToken(u, b)
        PROVE  VaultCell(v) /\ LeavesRightly(v)
    BY <1>0, <1>3, TakenOutCell DEF RefuseToken, LeavesRightly
  <1>4. ASSUME UNCHANGED vaultVars PROVE VaultCell(v) /\ LeavesRightly(v)
    BY <1>4, TakenOutCell DEF vaultVars, LeavesRightly
  <1>5. QED
    BY <1>1, <1>2, <1>3, <1>4 DEF Detokenize

LEMMA VaultInStep ==
  ASSUME AccessInv, [Next]_vars, NEW v \in VaultTokens
  PROVE  (SingleUse => VaultCell(v)) /\ LeavesRightly(v)
  <1>1. \/ Tokenize \/ Detokenize \/ UNCHANGED vaultVars
        \/ \E u \in VaultTokens : Outdate(u)
    BY DEF Next, vars, Arrive, Authenticate, Handle, HangUp
  <1>2. ASSUME NEW u \in VaultTokens, Outdate(u)
        PROVE  VaultCell(v) /\ LeavesRightly(v)
    BY <1>2, TakenOutCell DEF Outdate, LeavesRightly, AccessInv
  <1>3. QED
    BY <1>1, <1>2, VaultStep DEF AccessInv

(* A token leaves the vault when it is redeemed or too old, whatever       *)
(* requests are refused (validate_binding comes before the removal).       *)
THEOREM RefusedTokensStay == Spec => RefusalsSpendNothing
  <1>1. AccessInv /\ [Next]_vars =>
          [\A v \in VaultTokens : vault[v] # NoEntry /\ vault'[v] = NoEntry =>
               v \in outdated \/ handed'[v] # handed[v]]_vaultVars
    BY VaultInStep DEF LeavesRightly
  <1>2. QED
    BY <1>1, AccessInvariant, PTL DEF Spec, RefusalsSpendNothing

LEMMA VaultPhaseType ==
  ASSUME VaultInv', NEW v \in VaultTokens
  PROVE  /\ VaultPhase(v)' \in {"new", "live", "spent"}
         /\ VaultPrize(v)' \in Binding \cup {NoIdentity}
  <1>1. handed'[v] \in Seq(Binding)
    BY DEF VaultInv, TokenizationTypeOK
  <1>2. handed'[v] # <<>> => handed'[v][1] \in Binding
    BY <1>1
  <1>3. QED
    BY <1>2 DEF VaultPhase, VaultPrize

(* Single-use tokens implement OneShot: each is entered, redeemed once or  *)
(* withdrawn, and spent for good.                                          *)
THEOREM VaultTokensAreOneShot ==
  ASSUME SingleUse PROVE Spec => VaultIsOneShot
  <1>1. Init => VaultedCredentials!OneShotInit
    BY DEF Init, TokenizationInit, VaultPhase, VaultPrize, VaultedCredentials!OneShotInit
  <1>2. AccessInv /\ AccessInv' /\ [Next]_vars
          => [VaultedCredentials!OneShotNext]_(VaultedCredentials!cells)
    <2> SUFFICES ASSUME AccessInv, AccessInv', [Next]_vars
                 PROVE  VaultedCredentials!OneShotNext
      OBVIOUS
    <2>1. \A v \in VaultTokens : VaultCell(v)
      BY VaultInStep
    <2>2. \A v \in VaultTokens : /\ VaultPhase(v)' \in {"new", "live", "spent"}
                                 /\ VaultPrize(v)' \in Binding \cup {NoIdentity}
      BY VaultPhaseType DEF AccessInv
    <2>3. QED
      BY <2>1, <2>2
      DEF VaultCell, VaultedCredentials!OneShotNext,
          VaultedCredentials!Offered, VaultedCredentials!Redeemed,
          VaultedCredentials!Withdrawn, VaultedCredentials!Untouched
  <1>3. QED
    BY <1>1, <1>2, AccessInvariant, PTL DEF Spec, VaultIsOneShot, VaultedCredentials!OneShotSpec

-----------------------------------------------------------------------------
(* Authorization codes implement OneShot.                                  *)

(* What may become of one code in a step.                                  *)
CodeCell(c) ==
    \/ CodePhase(c) = "new" /\ CodePhase(c)' = "live" /\ CodePrize(c)' = CodePrize(c)
    \/ CodePhase(c) = "live" /\ CodePhase(c)' = "spent" /\ CodePrize(c)' \in Tokens
    \/ CodePhase(c) = "live" /\ CodePhase(c)' = "spent" /\ CodePrize(c)' = CodePrize(c)
    \/ CodePhase(c)' = CodePhase(c) /\ CodePrize(c)' = CodePrize(c)

LEMMA PrizeType ==
  ASSUME NEW c \in Codes
  PROVE  /\ TokensOf(c) # {} => CodePrize(c) \in Tokens
         /\ CodePrize(c) \in Tokens \cup {NoToken}
  BY DEF TokensOf, CodePrize

LEMMA PrizeSame ==
  ASSUME NEW c \in Codes, issued' = issued
  PROVE  CodePrize(c)' = CodePrize(c)
  BY DEF CodePrize, TokensOf

(* An exchange is under way for codes that were granted and are gone.      *)
LEMMA ExchangingIsGone ==
  ASSUME OAuthInv, NEW c \in Codes, Exchanging(c)
  PROVE  codes[c] = NoCode /\ granted[c] # NoCode
  BY DEF Exchanging, OAuthInv, Tables, IssuingIsSpent, Issuing, Spent

LEMMA StoredIsGranted ==
  ASSUME OAuthInv, NEW c \in Codes, codes[c] # NoCode
  PROVE  granted[c] # NoCode
  BY DEF OAuthInv, Tables, StoredAsGranted

(* What only takes codes out: a code goes, or stays as it is.              *)
LEMMA TakenOutCode ==
  ASSUME OAuthInv, NEW c \in Codes, codes'[c] \in {codes[c], NoCode},
         granted' = granted, issued' = issued, Exchanging(c)' => Exchanging(c)
  PROVE  CodeCell(c)
  BY PrizeSame, ExchangingIsGone, StoredIsGranted DEF CodeCell, CodePhase

(* What takes no part in exchanges.                                        *)
LEMMA NoNewExchange ==
  ASSUME NEW c \in Codes, \A k \in Clients : Issuing(k)' => client'[k] = client[k]
  PROVE  Exchanging(c)' => Exchanging(c)
  BY DEF Exchanging, Issuing

LEMMA QuietStep ==
  ASSUME OAuthInv, NEW c \in Codes, NEW k \in Clients,
         Ask(k) \/ CleanCodes(k) \/ CleanTokens(k) \/ Refuse(k) \/ Disconnect(k)
  PROVE  CodeCell(c)
  <1>1. granted' = granted /\ issued' = issued /\ codes'[c] \in {codes[c], NoCode}
    BY DEF Ask, CleanCodes, CleanTokens, Refuse, Disconnect, OAuthInv, OAuthTypeOK
  <1>2. ASSUME Ask(k) PROVE \A j \in Clients : Issuing(j)' => client'[j] = client[j]
    <2>1. PICK ask \in Authorization \cup Exchange : Step(k, [pc |-> "codes", ask |-> ask])
      BY <1>2 DEF Ask
    <2>2. [pc |-> "codes", ask |-> ask] \in ClientSlot
      BY DEF ClientSlot
    <2>3. QED
      BY <2>1, <2>2, OtherSlots DEF Issuing, OAuthInv
  <1>3. ASSUME CleanCodes(k) \/ CleanTokens(k)
        PROVE  \A j \in Clients : Issuing(j)' => client'[j] = client[j]
    <2>1. client[k].pc \in {"codes", "tokens", "work"} /\ (Goes(k, "tokens") \/ Goes(k, "work"))
      BY <1>3 DEF CleanCodes, CleanTokens
    <2>2. QED
      BY <2>1, GoesType DEF Issuing, OAuthInv
  <1>4. ASSUME Refuse(k) \/ Disconnect(k)
        PROVE  \A j \in Clients : Issuing(j)' => client'[j] = client[j]
    <2>1. Step(k, IdleClient)
      BY <1>4 DEF Refuse, Disconnect
    <2>2. QED
      BY <2>1, IdleType, OtherSlots DEF Issuing, OAuthInv
  <1>5. QED
    BY <1>1, <1>2, <1>3, <1>4, NoNewExchange, TakenOutCode

LEMMA GrantStep ==
  ASSUME OAuthInv, NEW c \in Codes, NEW k \in Clients, Grant(k)
  PROVE  CodeCell(c)
  <1>1. PICK d \in FreshCodes, r \in CodeRecord :
          codes' = [codes EXCEPT ![d] = r] /\ granted' = [granted EXCEPT ![d] = r]
    BY SlotOfAsk DEF Grant, Asks, Allows, NormalizeScopes, Authorization, CodeRecord, OAuthInv
  <1>2. Step(k, IdleClient) /\ issued' = issued
    BY DEF Grant
  <1>3. Exchanging(c)' => Exchanging(c)
    BY <1>2, IdleType, OtherSlots, NoNewExchange DEF Issuing, OAuthInv
  <1>4. ASSUME c = d PROVE CodeCell(c)
    <2>1. granted[c] = NoCode /\ granted'[c] = r /\ codes'[c] = r /\ r # NoCode
      BY <1>1, <1>4, OAuthAssumption DEF FreshCodes, OAuthInv, OAuthTypeOK
    <2>2. QED
      BY <1>2, <2>1, PrizeSame DEF CodeCell, CodePhase
  <1>5. ASSUME c # d PROVE CodeCell(c)
    <2>1. granted'[c] = granted[c] /\ codes'[c] = codes[c]
      BY <1>1, <1>5 DEF OAuthInv, OAuthTypeOK
    <2>2. QED
      BY <1>2, <1>3, <2>1, PrizeSame, ExchangingIsGone, StoredIsGranted
      DEF CodeCell, CodePhase, Exchanging, OAuthInv, OAuthTypeOK
  <1>6. QED
    BY <1>4, <1>5

LEMMA RemoveStep ==
  ASSUME OAuthInv, NEW c \in Codes, NEW k \in Clients, RemoveCode(k)
  PROVE  CodeCell(c)
  <1> DEFINE d == client[k].ask.code
  <1>1. /\ d \in Codes /\ codes[d] # NoCode /\ granted[d] # NoCode
        /\ codes' = [codes EXCEPT ![d] = NoCode]
        /\ granted' = granted /\ issued' = issued
    BY SlotOfAsk, StoredIsGranted DEF RemoveCode, Asks, Exchange, OAuthInv
  <1>2. ASSUME Step(k, IdleClient) PROVE CodeCell(c)
    <2>1. Exchanging(c)' => Exchanging(c)
      BY <1>2, IdleType, OtherSlots, NoNewExchange DEF Issuing, OAuthInv
    <2>2. QED
      BY <1>1, <2>1, TakenOutCode DEF OAuthInv, OAuthTypeOK
  <1>3. ASSUME NEW t \in FreshTokens,
               Step(k, [pc |-> "issuing", code |-> d, token |-> t, scopes |-> codes[d].scopes])
        PROVE  CodeCell(c)
    <2> DEFINE slot == [pc |-> "issuing", code |-> d, token |-> t, scopes |-> codes[d].scopes]
    <2>1. codes[d].scopes \in SUBSET OwnScopes
      BY <1>1, OAuthAssumption DEF OAuthInv, OAuthTypeOK, CodeRecord
    <2>2. slot \in ClientSlot /\ slot.pc = "issuing" /\ slot.code = d
      BY <1>1, <2>1 DEF ClientSlot, FreshTokens
    <2>3. client'[k] = slot /\ \A j \in Clients \ {k} : client'[j] = client[j]
      BY <1>3, <2>2, OtherSlots DEF OAuthInv
    <2> HIDE DEF slot, d
    <2>4. ASSUME c = d PROVE CodeCell(c)
      <3>1. Exchanging(c)'
        BY <2>2, <2>3, <2>4 DEF Exchanging
      <3>2. QED
        BY <1>1, <2>4, <3>1, PrizeSame DEF CodeCell, CodePhase
    <2>5. ASSUME c # d PROVE CodeCell(c)
      <3>1. Exchanging(c)' => Exchanging(c)
        BY <2>2, <2>3, <2>5 DEF Exchanging
      <3>2. QED
        BY <1>1, <3>1, TakenOutCode DEF OAuthInv, OAuthTypeOK
    <2>6. QED
      BY <2>4, <2>5
  <1>4. \/ Step(k, IdleClient)
        \/ \E t \in FreshTokens :
              Step(k, [pc |-> "issuing", code |-> d, token |-> t, scopes |-> codes[d].scopes])
    BY DEF RemoveCode
  <1>5. QED
    BY <1>2, <1>3, <1>4

LEMMA IssueStep ==
  ASSUME OAuthInv, NEW c \in Codes, NEW k \in Clients, Issue(k)
  PROVE  CodeCell(c)
  <1> DEFINE t == client[k].token
             d == client[k].code
             record == [code |-> d, scopes |-> client[k].scopes]
  <1>1. /\ Issuing(k) /\ t \in Tokens /\ d \in Codes
        /\ record \in TokenRecord /\ record.code = d
        /\ issued' = [issued EXCEPT ![t] = record]
        /\ Step(k, IdleClient)
        /\ codes' = codes /\ granted' = granted
    BY SlotOfIssuing DEF Issue, Issuing, OAuthInv, TokenRecord
  <1>2. record # NoToken /\ issued[t] = NoToken /\ codes[d] = NoCode /\ granted[d] # NoCode
    BY <1>1, OAuthAssumption DEF OAuthInv, Tables, IssuingIsNew, IssuingIsSpent, Spent
  <1>3. \A j \in Clients : Issuing(j)' => j # k /\ Issuing(j) /\ client'[j] = client[j]
    BY <1>1, IdleType, OtherSlots DEF Issuing, OAuthInv
  <1>4. ASSUME c = d PROVE CodeCell(c)
    <2>1. Exchanging(c)
      BY <1>1, <1>4 DEF Exchanging, Issuing
    <2>2. ~Exchanging(c)'
      BY <1>1, <1>3, <1>4 DEF Exchanging, Issuing, OAuthInv, Tables, OneExchange
    <2>3. t \in TokensOf(c)'
      BY <1>1, <1>2, <1>4 DEF TokensOf, OAuthInv, OAuthTypeOK
    <2>4. CodePrize(c)' \in Tokens
      BY <2>3 DEF CodePrize, TokensOf
    <2>5. QED
      BY <1>1, <1>2, <1>4, <2>1, <2>2, <2>4 DEF CodeCell, CodePhase
  <1>5. ASSUME c # d PROVE CodeCell(c)
    <2>1. TokensOf(c)' = TokensOf(c)
      BY <1>1, <1>2, <1>5 DEF TokensOf, OAuthInv, OAuthTypeOK
    <2>2. Exchanging(c)' <=> Exchanging(c)
      <3>1. \A j \in Clients \ {k} : client'[j] = client[j]
        BY <1>1, IdleType, OtherSlots DEF OAuthInv
      <3>2. QED
        BY <1>1, <1>3, <1>5, <3>1 DEF Exchanging, Issuing
    <2>3. QED
      BY <1>1, <2>1, <2>2 DEF CodeCell, CodePhase, CodePrize
  <1>6. QED
    BY <1>4, <1>5

LEMMA CodeStep ==
  ASSUME AccessInv, [Next]_vars, NEW c \in Codes
  PROVE  CodeCell(c)
  <1>1. ASSUME UNCHANGED <<codes, client, granted, issued>> PROVE CodeCell(c)
    BY <1>1 DEF CodeCell, CodePhase, CodePrize, TokensOf, Exchanging
  <1>2. \/ OAuthNext
        \/ UNCHANGED <<codes, client, granted, issued>>
    BY DEF Next, vars, oauthVars, Arrive, Authenticate, Handle, HangUp
  <1>3. ASSUME Lapse \/ \E t \in Tokens : Revoke(t)
        PROVE  UNCHANGED <<codes, client, granted, issued>>
    BY <1>3 DEF Lapse, Revoke
  <1>4. QED
    BY <1>1, <1>2, <1>3, QuietStep, GrantStep, RemoveStep, IssueStep DEF OAuthNext, AccessInv

(* Authorization codes implement OneShot: each is granted, exchanged for   *)
(* one token or given up, and spent for good.                              *)
THEOREM AuthorizationCodesAreOneShot == Spec => CodesAreOneShot
  <1>1. Init => AuthorizationCodes!OneShotInit
    BY DEF Init, OAuthInit, AuthorizationCodes!OneShotInit, CodePhase, CodePrize, Exchanging,
       IdleClient, TokensOf
  <1>2. AccessInv /\ [Next]_vars
          => [AuthorizationCodes!OneShotNext]_(AuthorizationCodes!cells)
    <2> SUFFICES ASSUME AccessInv, [Next]_vars
                 PROVE  AuthorizationCodes!OneShotNext
      OBVIOUS
    <2>1. \A c \in Codes : CodeCell(c)
      BY CodeStep
    <2>2. \A c \in Codes : /\ CodePhase(c)' \in {"new", "live", "spent"}
                           /\ CodePrize(c)' \in Tokens \cup {NoToken}
      BY DEF CodePhase, CodePrize, TokensOf
    <2>3. QED
      BY <2>1, <2>2
      DEF CodeCell, AuthorizationCodes!OneShotNext,
          AuthorizationCodes!Offered, AuthorizationCodes!Redeemed,
          AuthorizationCodes!Withdrawn, AuthorizationCodes!Untouched
  <1>3. QED
    BY <1>1, <1>2, AccessInvariant, PTL DEF Spec, CodesAreOneShot, AuthorizationCodes!OneShotSpec
=============================================================================
