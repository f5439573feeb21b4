--------------------------- MODULE AccountsProofs ---------------------------
(***************************************************************************)
(* Why only verified accounts have credentials and spent tokens stay       *)
(* spent, for any accounts, tokens and lifetimes and any number of requests *)
(* in progress. What matters about the tokens is one invariant (Records),   *)
(* what a request still knows when it writes another (Informed).            *)
(***************************************************************************)
EXTENDS Accounts, TLAPS

-----------------------------------------------------------------------------
(* The tokens.                                                             *)

\* A row is of a token that was issued and says when it expires; what is
\* denied has a row, so that only what is expired is forgotten.
Records ==
    /\ TokensTypeOK
    /\ \A t \in Tokens : outstanding[t] # NoRow =>
         t \in Issued /\ outstanding[t].expires = tokens[t].exp
    /\ \A t \in denied : outstanding[t] # NoRow

\* What every step does to the tokens.
Keeps ==
    /\ clock <= clock'
    /\ \A t \in Issued : tokens'[t] = tokens[t]
    /\ \A t \in denied : t \in denied' \/ Expired(t)
    /\ \A t \in Issued' \ Issued : t \in Usable'

LEMMA KeepsUnchanged == Records /\ UNCHANGED tokenVars => Records' /\ Keeps
  BY DEF Records, Keeps, tokenVars, TokensTypeOK, Issued

LEMMA NewClaimsFacts ==
    ASSUME TokensTypeOK, NEW kind \in Kinds, NEW a \in Accounts
    PROVE  /\ NewClaims(kind, a) \in Claims
           /\ NewClaims(kind, a) # NoToken
           /\ NewClaims(kind, a).kind = kind
           /\ NewClaims(kind, a).user = a
           /\ NewClaims(kind, a).exp = clock + Lifetime[kind]
           /\ clock + Lifetime[kind] \in Nat
           /\ clock + Lifetime[kind] > clock
  <1>1. Lifetime[kind] \in Nat \ {0} /\ clock \in Nat
    BY LifetimeAssumption DEF TokensTypeOK
  <1>2. clock + Lifetime[kind] \in Nat /\ clock + Lifetime[kind] > clock
    BY <1>1
  <1>3. NewClaims(kind, a) \in Claims
    BY <1>2 DEF NewClaims, Claims
  <1> QED BY <1>2, <1>3, AbsenceAssumption DEF NewClaims

LEMMA RowFacts ==
    ASSUME NEW a \in Accounts \cup {Nobody}, NEW e \in Nat
    PROVE  /\ [user |-> a, expires |-> e] \in OutstandingRow
           /\ [user |-> a, expires |-> e] # NoRow
  BY AbsenceAssumption DEF OutstandingRow

LEMMA IssuedHasClaims == TokensTypeOK => \A t \in Issued : t \in Tokens /\ tokens[t] \in Claims
  BY DEF TokensTypeOK, Issued

\* A token more, with or without a row, whether or not others are denied.
LEMMA NewTokenFacts ==
    ASSUME Records, NEW t \in Tokens, NEW kind \in Kinds, NEW a \in Accounts,
           t \notin Issued, tokens' = [tokens EXCEPT ![t] = NewClaims(kind, a)]
    PROVE  /\ tokens' \in [Tokens -> Claims \cup {NoToken}]
           /\ Issued' = Issued \cup {t}
           /\ tokens'[t] = NewClaims(kind, a)
           /\ \A s \in Issued : tokens'[s] = tokens[s]
           /\ t \notin denied
  <1>1. /\ NewClaims(kind, a) \in Claims
        /\ NewClaims(kind, a) # NoToken
    BY NewClaimsFacts DEF Records
  <1>2. /\ tokens' \in [Tokens -> Claims \cup {NoToken}]
        /\ tokens'[t] = NewClaims(kind, a)
        /\ \A s \in Issued : tokens'[s] = tokens[s]
        /\ Issued' = Issued \cup {t}
    BY <1>1 DEF Records, TokensTypeOK, Issued
  <1>3. t \notin denied
    BY DEF Records, TokensTypeOK
  <1> QED BY <1>2, <1>3

LEMMA IssueFacts ==
    ASSUME Records, NEW t \in Tokens, NEW kind \in Kinds, NEW a \in Accounts,
           Issue(t, kind, a)
    PROVE  /\ Records' /\ Keeps
           /\ Issued' = Issued \cup {t}
           /\ tokens'[t].kind = kind
           /\ tokens'[t].user = a
           /\ denied' = denied
  <1>1. /\ t \notin Issued
        /\ tokens' = [tokens EXCEPT ![t] = NewClaims(kind, a)]
        /\ outstanding' = [outstanding EXCEPT ![t] = [user |-> a, expires |-> clock + Lifetime[kind]]]
        /\ UNCHANGED <<clock, denied>>
    BY DEF Issue, WithIssued
  <1>2. /\ tokens' \in [Tokens -> Claims \cup {NoToken}]
        /\ Issued' = Issued \cup {t}
        /\ tokens'[t] = NewClaims(kind, a)
        /\ \A s \in Issued : tokens'[s] = tokens[s]
        /\ t \notin denied
    BY <1>1, NewTokenFacts
  <1>3. /\ NewClaims(kind, a).kind = kind
        /\ NewClaims(kind, a).user = a
        /\ NewClaims(kind, a).exp = clock + Lifetime[kind]
        /\ clock + Lifetime[kind] \in Nat
        /\ clock + Lifetime[kind] > clock
    BY NewClaimsFacts DEF Records
  <1>4. /\ [user |-> a, expires |-> clock + Lifetime[kind]] \in OutstandingRow
        /\ [user |-> a, expires |-> clock + Lifetime[kind]] # NoRow
    BY <1>3, RowFacts
  <1>5. Records'
    BY <1>1, <1>2, <1>3, <1>4 DEF Records, TokensTypeOK
  <1>6. Keeps
    BY <1>1, <1>2, <1>3 DEF Keeps, Usable, Decodes, Expired, Records, TokensTypeOK
  <1> QED BY <1>1, <1>2, <1>3, <1>5, <1>6

\* The rows once a token is denied.
LEMMA WithDeniedFacts ==
    ASSUME Records, NEW t \in Issued
    PROVE  /\ WithDenied(t) \in [Tokens -> OutstandingRow \cup {NoRow}]
           /\ WithDenied(t)[t] # NoRow
           /\ WithDenied(t)[t].expires = tokens[t].exp
           /\ \A s \in Tokens : s # t => WithDenied(t)[s] = outstanding[s]
  <1>1. t \in Tokens /\ tokens[t] \in Claims /\ tokens[t].exp \in Nat
    BY IssuedHasClaims DEF Records, Claims
  <1>2. /\ [user |-> Nobody, expires |-> tokens[t].exp] \in OutstandingRow
        /\ [user |-> Nobody, expires |-> tokens[t].exp] # NoRow
    BY <1>1, RowFacts
  <1> QED BY <1>1, <1>2 DEF WithDenied, Records, TokensTypeOK

LEMMA DenyFacts ==
    ASSUME Records, NEW t \in Issued, Deny(t)
    PROVE  Records' /\ Keeps /\ Issued' = Issued /\ tokens' = tokens /\ denied' = denied \cup {t}
  <1>1. /\ outstanding' = WithDenied(t)
        /\ denied' = denied \cup {t}
        /\ UNCHANGED <<clock, tokens>>
    BY DEF Deny
  <1>2. t \in Tokens /\ Issued' = Issued
    BY <1>1 DEF Issued
  <1>3. Records'
    BY <1>1, <1>2, WithDeniedFacts DEF Records, TokensTypeOK
  <1>4. Keeps
    BY <1>1, <1>2 DEF Keeps, Records, TokensTypeOK
  <1> QED BY <1>1, <1>2, <1>3, <1>4

LEMMA RotateFacts ==
    ASSUME Records, NEW t \in Issued, tokens[t].kind = "refresh", NEW new \in Tokens,
           Rotate(t, new)
    PROVE  /\ Records' /\ Keeps
           /\ Issued' = Issued \cup {new}
           /\ tokens'[new].kind = "refresh"
           /\ tokens'[new].user = tokens[t].user
           /\ denied' = denied \cup {t}
  <1> DEFINE a == tokens[t].user
  <1>1. /\ new \notin Issued
        /\ tokens' = [tokens EXCEPT ![new] = NewClaims("refresh", a)]
        /\ outstanding' = WithDenied(t)
        /\ denied' = denied \cup {t}
        /\ UNCHANGED clock
    BY DEF Rotate
  <1>2. t \in Tokens /\ a \in Accounts /\ t # new /\ "refresh" \in Kinds
    BY <1>1, IssuedHasClaims DEF Records, Claims, Kinds
  <1> HIDE DEF a
  <1>3. /\ tokens' \in [Tokens -> Claims \cup {NoToken}]
        /\ Issued' = Issued \cup {new}
        /\ tokens'[new] = NewClaims("refresh", a)
        /\ \A s \in Issued : tokens'[s] = tokens[s]
        /\ new \notin denied
    BY <1>1, <1>2, NewTokenFacts
  <1>4. /\ NewClaims("refresh", a).kind = "refresh"
        /\ NewClaims("refresh", a).user = a
        /\ NewClaims("refresh", a).exp > clock
    BY <1>2, NewClaimsFacts DEF Records
  <1>5. Records'
    BY <1>1, <1>2, <1>3, WithDeniedFacts DEF Records, TokensTypeOK
  <1>6. clock \in Nat /\ clock' = clock /\ new \notin denied'
    BY <1>1, <1>2, <1>3 DEF Records, TokensTypeOK
  <1>7. tokens'[new].exp > clock' /\ tokens'[new].exp \in Nat
    BY <1>2, <1>3, <1>4, <1>6, NewClaimsFacts DEF Records
  <1>8. new \in Usable'
    BY <1>3, <1>6, <1>7 DEF Usable, Decodes, Expired
  <1>9. Keeps
    BY <1>1, <1>3, <1>6, <1>8 DEF Keeps
  <1> QED BY <1>1, <1>3, <1>4, <1>5, <1>9 DEF a

\* A token is denied and its user signed in, in one transaction.
LEMMA CommitFacts ==
    ASSUME Records, NEW t \in Issued, NEW new \in Tokens \ Issued, NEW a \in Accounts,
           tokens' = [tokens EXCEPT ![new] = NewClaims("refresh", a)],
           outstanding' = WithIssued(WithDenied(t), new, "refresh", a),
           denied' = denied \cup {t}, clock' = clock
    PROVE  /\ Records' /\ Keeps
           /\ Issued' = Issued \cup {new}
           /\ tokens'[new].kind = "refresh"
           /\ tokens'[new].user = a
  <1>1. t \in Tokens /\ t # new /\ "refresh" \in Kinds
    BY DEF Issued, Kinds
  <1>2. /\ tokens' \in [Tokens -> Claims \cup {NoToken}]
        /\ Issued' = Issued \cup {new}
        /\ tokens'[new] = NewClaims("refresh", a)
        /\ \A s \in Issued : tokens'[s] = tokens[s]
        /\ new \notin denied
    BY <1>1, NewTokenFacts
  <1>3. /\ NewClaims("refresh", a).kind = "refresh"
        /\ NewClaims("refresh", a).user = a
        /\ NewClaims("refresh", a).exp = clock + Lifetime["refresh"]
        /\ clock + Lifetime["refresh"] \in Nat
        /\ clock + Lifetime["refresh"] > clock
    BY <1>1, NewClaimsFacts DEF Records
  <1>4. /\ [user |-> a, expires |-> clock + Lifetime["refresh"]] \in OutstandingRow
        /\ [user |-> a, expires |-> clock + Lifetime["refresh"]] # NoRow
    BY <1>3, RowFacts
  <1>5. /\ outstanding' \in [Tokens -> OutstandingRow \cup {NoRow}]
        /\ outstanding'[new] = [user |-> a, expires |-> clock + Lifetime["refresh"]]
        /\ \A s \in Tokens : s # new => outstanding'[s] = WithDenied(t)[s]
    BY <1>4, WithDeniedFacts DEF WithIssued
  <1>6. Records'
    BY <1>1, <1>2, <1>3, <1>4, <1>5, WithDeniedFacts DEF Records, TokensTypeOK
  <1>7. Keeps
    BY <1>1, <1>2, <1>3 DEF Keeps, Usable, Decodes, Expired, Records, TokensTypeOK
  <1> QED BY <1>2, <1>3, <1>6, <1>7

LEMMA WithoutUsersFacts ==
    ASSUME Records, NEW A \in SUBSET Accounts, outstanding' = WithoutUsers(A),
           UNCHANGED <<clock, tokens, denied>>
    PROVE  Records' /\ Keeps /\ Issued' = Issued
  <1>1. Issued' = Issued
    BY DEF Issued
  <1>2. ASSUME NEW t \in Tokens
        PROVE  /\ outstanding'[t] \in OutstandingRow \cup {NoRow}
               /\ outstanding'[t] # NoRow <=> outstanding[t] # NoRow
               /\ outstanding'[t] # NoRow => outstanding'[t].expires = outstanding[t].expires
    <2>1. CASE outstanding[t] # NoRow /\ outstanding[t].user \in A
      <3>1. outstanding[t] \in OutstandingRow
        BY <2>1 DEF Records, TokensTypeOK
      <3>2. outstanding'[t] = [user |-> Nobody, expires |-> outstanding[t].expires]
        BY <2>1, <3>1 DEF WithoutUsers, OutstandingRow
      <3> QED BY <2>1, <3>1, <3>2, RowFacts DEF OutstandingRow
    <2>2. CASE ~(outstanding[t] # NoRow /\ outstanding[t].user \in A)
      BY <2>2 DEF WithoutUsers, Records, TokensTypeOK
    <2> QED BY <2>1, <2>2
  <1>3. outstanding' \in [Tokens -> OutstandingRow \cup {NoRow}]
    BY <1>2 DEF WithoutUsers
  <1>4. Records'
    BY <1>1, <1>2, <1>3 DEF Records, TokensTypeOK
  <1>5. Keeps
    BY <1>1 DEF Keeps, Records, TokensTypeOK
  <1> QED BY <1>1, <1>4, <1>5

LEMMA FlushFacts ==
    Records /\ FlushExpiredTokens => Records' /\ Keeps /\ Issued' = Issued /\ denied' \subseteq denied
  <1> SUFFICES ASSUME Records, FlushExpiredTokens
               PROVE  Records' /\ Keeps /\ Issued' = Issued /\ denied' \subseteq denied
    OBVIOUS
  <1>1. Issued' = Issued
    BY DEF Issued, FlushExpiredTokens
  <1>2. \A t \in Flushed : Expired(t)
    BY DEF Flushed, Expired, Records
  <1>3. Records'
    BY <1>1 DEF Records, TokensTypeOK, FlushExpiredTokens
  <1>4. Keeps
    BY <1>1, <1>2 DEF Keeps, Records, TokensTypeOK, FlushExpiredTokens
  <1> QED BY <1>1, <1>3, <1>4 DEF FlushExpiredTokens

LEMMA TickFacts == Records /\ Tick => Records' /\ Keeps /\ Issued' = Issued
  BY DEF Records, Tick, Keeps, TokensTypeOK, Issued

\* What every step does is a step of Passes: what is no longer of use was
\* denied, and stays so until it has expired, or has expired.
LEMMA KeepsImplementsPasses ==
    ASSUME Records, Records', Keeps
    PROVE  [Pass!Next]_<<Usable, Issued \ Usable>>
  <1> DEFINE new == Issued' \ Issued
             old == Usable \ Usable'
  <1>1. Issued \subseteq Issued'
    BY IssuedHasClaims, AbsenceAssumption DEF Issued, Keeps, Records
  <1>2. \A t \in Issued \ Usable : t \notin Usable'
    BY <1>1, IssuedHasClaims DEF Usable, Decodes, Keeps, Expired, Records, Claims, TokensTypeOK
  <1>3. new \subseteq Usable' /\ Usable' \subseteq Issued' /\ Usable \subseteq Issued
    BY DEF Keeps, Usable, Decodes
  <1>4. Issued' \subseteq Tokens
    BY DEF Issued
  <1> HIDE DEF old, new
  <1>5. Usable' = (Usable \cup new) \ old
    BY <1>1, <1>2, <1>3 DEF old, new
  <1>6. (Issued \ Usable)' = (Issued \ Usable) \cup old
    BY <1>1, <1>2, <1>3 DEF old, new
  <1>7. new \in SUBSET Tokens /\ old \in SUBSET Tokens
    BY <1>1, <1>3, <1>4 DEF old, new
  <1>8. new \subseteq Tokens \ (Usable \cup (Issued \ Usable)) /\ old \subseteq Usable
    BY <1>3, <1>4 DEF old, new
  <1>9. Pass!IssueAndSpend(new, old)
    BY <1>5, <1>6, <1>8 DEF Pass!IssueAndSpend
  <1> QED BY <1>7, <1>9 DEF Pass!Next

-----------------------------------------------------------------------------
(* The requests.                                                           *)

\* What a request has read, and what of it is still true when it is used: tokens
\* keep their claims, what was verified stays so, accounts keep their identity.
Informed(q) ==
    /\ q.row # Nothing =>
         /\ q.account \in created
         /\ q.row.active = q.row.verified
         /\ q.row.verified => q.account \in activated
    /\ q.step = "create" => q.address # Nothing /\ q.row = Nothing /\ q.op # "reset"
    /\ q.step = "save" => q.row # Nothing
    /\ q.step = "mail" => q.account \in created
    /\ q.step = "verify" =>
         /\ q.row # Nothing
         /\ q.token \in Issued
         /\ tokens[q.token].kind = "verify-user"
         /\ tokens[q.token].user = q.account
    /\ q.step = "check" => q.token # Nothing
    /\ q.step = "deny" \/ q.op = "reset" =>
         q.token \in Issued /\ tokens[q.token].kind # "verify-user"
    /\ q.step = "rotate" => q.token \in Issued /\ tokens[q.token].kind = "refresh"
    /\ q.step = "credentials" \/ q.op = "reset" => q.account \in activated

VerifiedAreActivated == \A a \in Accounts : Exists(a) /\ users[a].verified => a \in activated

RequestsInformed == \A r \in Requests : ~Free(r) => Informed(request[r])

IInv ==
    /\ TypeOK
    /\ Records
    /\ UsedVerificationsVerified
    /\ CredentialsFollowVerification
    /\ VerifiedAreActivated
    /\ RequestsInformed

\* What a step does to what others have read.
Stays == Keeps /\ activated \subseteq activated' /\ created \subseteq created'

LEMMA InformedStays ==
    ASSUME Records, Stays, NEW q, Informed(q)
    PROVE  Informed(q)'
  <1>1. \A t \in Issued : t \in Issued' /\ tokens'[t] = tokens[t]
    BY IssuedHasClaims, AbsenceAssumption DEF Stays, Keeps, Issued, Records
  <1> QED BY <1>1 DEF Informed, Stays

LEMMA RequestFacts ==
    ASSUME NEW op \in Ops, NEW step \in Steps, NEW address \in Addresses \cup {Nothing},
           NEW a \in Accounts \cup {Nobody}, NEW row \in User \cup {Nothing},
           NEW t \in Tokens \cup {Nothing}
    PROVE  [op |-> op, step |-> step, address |-> address, account |-> a, row |-> row, token |-> t]
             \in Request
  BY DEF Request

\* One request goes on as q, or ends.
LEMMA RequestGoesOn ==
    ASSUME IInv, Stays, NEW r \in Requests, NEW q \in Request \cup {Nothing},
           request' = [request EXCEPT ![r] = q],
           q # Nothing => Informed(q)'
    PROVE  request' \in [Requests -> Request \cup {Nothing}] /\ RequestsInformed'
  <1>1. request' \in [Requests -> Request \cup {Nothing}]
    BY DEF IInv, TypeOK
  <1>2. ASSUME NEW s \in Requests, request'[s] # Nothing
        PROVE  Informed(request[s])'
    <2>1. CASE s = r
      BY <1>2, <2>1 DEF IInv, TypeOK
    <2>2. CASE s # r
      <3>1. request'[s] = request[s]
        BY <2>2 DEF IInv, TypeOK
      <3>2. PICK p : p = request[s]
        OBVIOUS
      <3>3. Informed(p)
        BY <1>2, <3>1, <3>2 DEF IInv, RequestsInformed, Free
      <3>4. Informed(p)'
        BY <3>3, InformedStays DEF IInv
      <3> QED BY <3>1, <3>2, <3>4
    <2> QED BY <2>1, <2>2
  <1> QED BY <1>1, <1>2 DEF RequestsInformed, Free

LEMMA RequestsStay == IInv /\ Stays /\ request' = request => RequestsInformed'
  <1> SUFFICES ASSUME IInv, Stays, request' = request, NEW r \in Requests, request[r] # Nothing
               PROVE  Informed(request[r])'
    BY DEF RequestsInformed, Free
  <1>1. PICK p : p = request[r]
    OBVIOUS
  <1>2. Informed(p)
    BY <1>1 DEF IInv, RequestsInformed, Free
  <1>3. Informed(p)'
    BY <1>2, InformedStays DEF IInv
  <1> QED BY <1>1, <1>3

\* No credentials and no denial but of those verified.
LEMMA TokensStay ==
    ASSUME IInv, Stays,
           \A t \in Issued' \ Issued : tokens'[t].kind = "refresh" => tokens'[t].user \in activated',
           \A t \in denied' \ denied :
             t \in Issued /\ (tokens[t].kind = "verify-user" => tokens[t].user \in activated')
    PROVE  UsedVerificationsVerified' /\ CredentialsFollowVerification'
  <1>1. \A t \in Issued : tokens'[t] = tokens[t]
    BY DEF Stays, Keeps
  <1>2. \A t \in denied : t \in Issued
    BY DEF IInv, Records, TokensTypeOK
  <1> QED BY <1>1, <1>2 DEF IInv, Stays, UsedVerificationsVerified, CredentialsFollowVerification

LEMMA InitInvariant == Init => IInv
  <1> SUFFICES ASSUME Init PROVE IInv
    OBVIOUS
  <1>1. Records /\ Issued = {}
    BY DEF Init, TokensInit, Records, TokensTypeOK, Issued
  <1>2. TypeOK
    BY <1>1 DEF Init, TypeOK, Records
  <1>3. VerifiedAreActivated /\ RequestsInformed
    BY DEF Init, VerifiedAreActivated, RequestsInformed, Exists, Free
  <1> QED BY <1>1, <1>2, <1>3 DEF Init, TokensInit, IInv, UsedVerificationsVerified, CredentialsFollowVerification

-----------------------------------------------------------------------------
(* The steps that read.                                                    *)

LEMMA ReadFacts ==
    ASSUME IInv, NEW r \in Requests, NEW op \in Ops, NEW step \in Steps,
           NEW address \in Addresses \cup {Nothing}, NEW a \in Accounts \cup {Nobody},
           NEW row \in User \cup {Nothing}, NEW t \in Tokens \cup {Nothing},
           Read(r, op, step, address, a, row, t),
           Informed([op |-> op, step |-> step, address |-> address, account |-> a,
                     row |-> row, token |-> t])
    PROVE  IInv' /\ Keeps
  <1>1. PICK q : q = [op |-> op, step |-> step, address |-> address, account |-> a,
                      row |-> row, token |-> t]
    OBVIOUS
  <1>2. q \in Request /\ Informed(q)
    BY <1>1, RequestFacts
  <1>3. /\ request' = [request EXCEPT ![r] = q]
        /\ UNCHANGED <<clock, tokens, outstanding, denied, users, created, activated, cleaning>>
    BY <1>1 DEF Read, tokenVars, userVars
  <1>4. Records' /\ Keeps
    BY <1>3, KeepsUnchanged DEF IInv, tokenVars
  <1>5. Stays
    BY <1>3, <1>4 DEF Stays, IInv, TypeOK
  <1>6. Informed(q)'
    BY <1>2, <1>5, InformedStays DEF IInv
  <1>7. request' \in [Requests -> Request \cup {Nothing}] /\ RequestsInformed'
    BY <1>2, <1>3, <1>5, <1>6, RequestGoesOn
  <1>8. TypeOK'
    BY <1>3, <1>4, <1>7 DEF IInv, TypeOK, Records
  <1>9. UsedVerificationsVerified' /\ CredentialsFollowVerification' /\ VerifiedAreActivated'
    BY <1>3 DEF IInv, UsedVerificationsVerified, CredentialsFollowVerification,
                VerifiedAreActivated, Exists, Issued
  <1> QED BY <1>4, <1>7, <1>8, <1>9 DEF IInv

LEMMA ExistsFacts ==
    ASSUME IInv, NEW a \in Accounts, Exists(a)
    PROVE  /\ users[a] \in User /\ users[a] # Nothing
           /\ a \in created
           /\ users[a].active = users[a].verified
           /\ users[a].verified => a \in activated
           /\ IsActive(a) => a \in activated
  BY DEF IInv, TypeOK, VerifiedAreActivated, Exists, IsActive

LEMMA RegisterFacts ==
    ASSUME IInv, NEW r \in Requests, NEW op \in {"sign_up", "social"}, NEW address \in Addresses,
           Register(r, op, address)
    PROVE  IInv' /\ Keeps
  <1> USE DEF Ops, Steps
  <1>1. address # Nothing
    BY NothingAssumption
  <1>2. CASE Read(r, op, "create", address, Nobody, Nothing, Nothing)
    BY <1>1, <1>2, ReadFacts DEF Informed
  <1>3. CASE \E a \in With(address) : Read(r, op, "save", Nothing, a, users[a], Nothing)
    <2>1. PICK a \in With(address) : Read(r, op, "save", Nothing, a, users[a], Nothing)
      BY <1>3
    <2>2. a \in Accounts /\ Exists(a)
      BY DEF With
    <2> QED BY <2>1, <2>2, ExistsFacts, ReadFacts DEF Informed
  <1> QED BY <1>2, <1>3 DEF Register

LEMMA UserEndpointFacts == ASSUME IInv, NEW r \in Requests, UserEndpoint(r) PROVE IInv' /\ Keeps
  <1> USE DEF Ops, Steps
  <1>1. CASE \E address \in Addresses : Register(r, "sign_up", address)
    BY <1>1, RegisterFacts
  <1>2. CASE \E address \in Addresses :
               ResendVerification(r, address) \/ RequestResetPassword(r, address)
    <2>1. PICK a \in Accounts, op \in {"sign_up", "request_reset"} :
            Exists(a) /\ Read(r, op, "mail", Nothing, a, Nothing, Nothing)
      BY <1>2 DEF ResendVerification, RequestResetPassword, With
    <2> QED BY <2>1, ExistsFacts, ReadFacts DEF Informed
  <1>3. CASE \E a \in Accounts : UpdateUser(r, a)
    <2>1. PICK a \in Accounts : Exists(a) /\ Read(r, "update", "save", Nothing, a, users[a], Nothing)
      BY <1>3 DEF UpdateUser, Authenticated, IsActive
    <2> QED BY <2>1, ExistsFacts, ReadFacts DEF Informed
  <1>4. CASE \E t \in Tokens : VerifyUser(r, t)
    <2>1. PICK t \in Tokens : ReadVerification(r, t)
      BY <1>4 DEF VerifyUser
    <2>2. t \in Issued /\ tokens[t].kind = "verify-user" /\ tokens[t].user \in Accounts
      BY <2>1, IssuedHasClaims DEF ReadVerification, Accepted, Decodes, IInv, Records, Claims
    <2> QED BY <2>1, <2>2, ExistsFacts, ReadFacts DEF ReadVerification, Informed
  <1>5. CASE \E t \in Tokens : DiscardReset(r, t)
    <2>1. PICK t \in Tokens : DiscardReset(r, t)
      BY <1>5
    <2> QED BY <2>1, ReadFacts DEF DiscardReset, Accepted, Decodes, Informed
  <1>6. CASE \E t \in Tokens : ResetPassword(r, t)
    <2>1. PICK t \in Tokens : ResetPassword(r, t)
      BY <1>6
    <2>2. /\ t \in Issued /\ tokens[t].kind = "reset-password" /\ tokens[t].user \in Accounts
          /\ IsActive(tokens[t].user) /\ Exists(tokens[t].user)
      BY <2>1, IssuedHasClaims DEF ResetPassword, Accepted, Decodes, IInv, Records, Claims, IsActive
    <2> QED BY <2>1, <2>2, ExistsFacts, ReadFacts DEF ResetPassword, Informed
  <1> QED BY <1>1, <1>2, <1>3, <1>4, <1>5, <1>6 DEF UserEndpoint

LEMMA AuthEndpointFacts == ASSUME IInv, NEW r \in Requests, AuthEndpoint(r) PROVE IInv' /\ Keeps
  <1> USE DEF Ops, Steps
  <1>1. CASE \E address \in Addresses : Login(r, address)
    <2>1. PICK a \in Accounts :
            /\ IsActive(a) /\ Exists(a)
            /\ Read(r, "sign_in", "credentials", Nothing, a, Nothing, Nothing)
      BY <1>1 DEF Login, With
    <2> QED BY <2>1, ExistsFacts, ReadFacts DEF Informed
  <1>2. CASE \E address \in Addresses, verified \in BOOLEAN : SaveSocialUser(r, address, verified)
    BY <1>2, RegisterFacts DEF SaveSocialUser
  <1>3. CASE \E t \in Tokens : RefreshToken(r, t)
    <2>1. PICK t \in Tokens : RefreshToken(r, t)
      BY <1>3
    <2> QED BY <2>1, ReadFacts DEF RefreshToken, Accepted, Decodes, Informed
  <1>4. CASE \E t \in Tokens : BlacklistToken(r, t)
    <2>1. PICK t \in Tokens : BlacklistToken(r, t)
      BY <1>4
    <2> QED BY <2>1, ReadFacts DEF BlacklistToken, Accepted, Decodes, Informed
  <1> QED BY <1>1, <1>2, <1>3, <1>4 DEF AuthEndpoint, PreLogin

-----------------------------------------------------------------------------
(* The steps that write.                                                   *)

LEMMA AtFacts ==
    ASSUME IInv, NEW r \in Requests, NEW step, At(r, step)
    PROVE  /\ request[r] \in Request
           /\ request[r].step = step
           /\ Informed(request[r])
  BY DEF IInv, TypeOK, At, RequestsInformed, Free

\* What the accounts must stay.
UsersOK ==
    /\ users \in [Accounts -> User \cup {Nothing}]
    /\ created \subseteq Accounts
    /\ \A a \in Accounts : users[a] # Nothing => a \in created /\ users[a].active = users[a].verified
    /\ activated \subseteq Accounts
    /\ VerifiedAreActivated

LEMMA TogetherFacts ==
    ASSUME Records', Keeps, UsersOK', cleaning' \in SUBSET Accounts,
           request' \in [Requests -> Request \cup {Nothing}], RequestsInformed',
           UsedVerificationsVerified', CredentialsFollowVerification'
    PROVE  IInv' /\ Keeps
  BY DEF IInv, TypeOK, UsersOK, Records

LEMMA UsersFacts == IInv => UsersOK /\ Records /\ cleaning \in SUBSET Accounts
  BY DEF IInv, TypeOK, UsersOK

\* An account is written with a row that was read of it.
LEMMA RowIsSaved ==
    ASSUME IInv, NEW a \in created, NEW row \in User, row.active = row.verified,
           activated \subseteq activated', activated' \subseteq Accounts,
           row.verified => a \in activated', created' = created,
           users' = [users EXCEPT ![a] = row]
    PROVE  UsersOK'
  <1>1. a \in Accounts /\ users'[a] = row /\ (\A b \in Accounts : b # a => users'[b] = users[b])
    BY UsersFacts DEF UsersOK
  <1> QED BY <1>1, UsersFacts DEF UsersOK, VerifiedAreActivated, Exists

LEMMA CreateUserFacts == ASSUME IInv, NEW r \in Requests, CreateUser(r) PROVE IInv' /\ Keeps
  <1> DEFINE req == request[r]
  <1>1. req \in Request /\ Informed(req) /\ req.step = "create" /\ req.address \in Addresses
    BY AtFacts DEF CreateUser, Informed, Request
  <1>2. Records' /\ Keeps /\ UNCHANGED <<tokens, denied, cleaning, activated>> /\ Issued' = Issued
    BY KeepsUnchanged, UsersFacts DEF CreateUser, tokenVars, Issued
  <1>3. CASE With(req.address) = {}
    <2>1. PICK a \in Accounts \ created :
            /\ users' = [users EXCEPT ![a] = [address |-> req.address, active |-> FALSE, verified |-> FALSE]]
            /\ created' = created \cup {a}
            /\ request' = [request EXCEPT ![r] =
                 [@ EXCEPT !.step = "mail", !.account = a, !.address = Nothing]]
      BY <1>3 DEF CreateUser
    <2>2. PICK q : q = [req EXCEPT !.step = "mail", !.account = a, !.address = Nothing]
      OBVIOUS
    <2>3. q \in Request
      BY <1>1, <2>2 DEF Request, Steps
    <2>4. Stays
      BY <1>2, <2>1 DEF Stays
    <2>5. /\ q.step = "mail" /\ q.op = req.op /\ q.token = req.token /\ q.row = req.row
          /\ q.account \in created'
      BY <1>1, <2>1, <2>2 DEF Request
    <2>6. Informed(q)'
      BY <1>1, <2>4, <2>5 DEF Informed
    <2>7. request' \in [Requests -> Request \cup {Nothing}] /\ RequestsInformed'
      BY <2>1, <2>2, <2>3, <2>4, <2>6, RequestGoesOn
    <2>8. UsersOK'
      BY <1>1, <1>2, <2>1, UsersFacts DEF UsersOK, VerifiedAreActivated, Exists, User
    <2>9. UsedVerificationsVerified' /\ CredentialsFollowVerification'
      BY <1>2, <2>4, TokensStay
    <2> QED BY <1>2, <2>7, <2>8, <2>9, UsersFacts, TogetherFacts
  <1>4. CASE With(req.address) # {}
    <2>1. request' = [request EXCEPT ![r] = Nothing] /\ UNCHANGED <<users, created>>
      BY <1>4 DEF CreateUser, Finish
    <2>2. Stays
      BY <1>2, <2>1 DEF Stays
    <2>3. request' \in [Requests -> Request \cup {Nothing}] /\ RequestsInformed'
      BY <2>1, <2>2, RequestGoesOn
    <2>4. UsersOK'
      BY <1>2, <2>1, UsersFacts DEF UsersOK, VerifiedAreActivated, Exists
    <2>5. UsedVerificationsVerified' /\ CredentialsFollowVerification'
      BY <1>2, <2>2, TokensStay
    <2> QED BY <1>2, <2>3, <2>4, <2>5, UsersFacts, TogetherFacts
  <1> QED BY <1>3, <1>4

\* A request ends having changed no account.
LEMMA FinishFacts ==
    ASSUME IInv, Records', Keeps, NEW r \in Requests, Finish(r),
           UNCHANGED <<userVars, cleaning>>
    PROVE  /\ Stays /\ UsersOK' /\ cleaning' \in SUBSET Accounts
           /\ request' \in [Requests -> Request \cup {Nothing}] /\ RequestsInformed'
  <1>1. request' = [request EXCEPT ![r] = Nothing] /\ UNCHANGED <<users, created, activated, cleaning>>
    BY DEF Finish, userVars
  <1>2. Stays
    BY <1>1 DEF Stays
  <1>3. request' \in [Requests -> Request \cup {Nothing}] /\ RequestsInformed'
    BY <1>1, <1>2, RequestGoesOn
  <1>4. UsersOK' /\ cleaning' \in SUBSET Accounts
    BY <1>1, UsersFacts DEF UsersOK, VerifiedAreActivated, Exists
  <1> QED BY <1>2, <1>3, <1>4

LEMMA SaveUserFacts == ASSUME IInv, NEW r \in Requests, SaveUser(r) PROVE IInv' /\ Keeps
  <1> DEFINE req == request[r]
  <1>1. /\ req \in Request /\ Informed(req) /\ req.step = "save"
        /\ req.row \in User /\ req.account \in created
        /\ req.row.active = req.row.verified
        /\ req.row.verified => req.account \in activated
    BY AtFacts DEF SaveUser, Informed, Request
  <1>2. Records' /\ Keeps /\ UNCHANGED <<tokens, denied, created, cleaning, activated>> /\ Issued' = Issued
    BY KeepsUnchanged, UsersFacts DEF SaveUser, tokenVars, Issued
  <1>3. Stays
    BY <1>2 DEF Stays
  <1>4. UsedVerificationsVerified' /\ CredentialsFollowVerification'
    BY <1>2, <1>3, TokensStay
  <1>5. UsersOK'
    <2>1. CASE CanSave(req.account, req.row)
      <3>1. users' = [users EXCEPT ![req.account] = req.row]
        BY <2>1 DEF SaveUser
      <3> QED BY <1>1, <1>2, <3>1, RowIsSaved, UsersFacts DEF UsersOK
    <2>2. CASE ~CanSave(req.account, req.row)
      BY <1>2, <2>2, UsersFacts DEF SaveUser, UsersOK, VerifiedAreActivated, Exists
    <2> QED BY <2>1, <2>2
  <1>6. request' \in [Requests -> Request \cup {Nothing}] /\ RequestsInformed'
    <2>1. CASE Finish(r)
      BY <1>3, <2>1, RequestGoesOn DEF Finish
    <2>2. CASE Goto(r, req.op, IF req.op = "reset" THEN "deny" ELSE "mail")
      <3>1. PICK q : q = [req EXCEPT !.op = req.op,
                            !.step = IF req.op = "reset" THEN "deny" ELSE "mail",
                            !.address = Nothing, !.row = Nothing]
        OBVIOUS
      <3>2. q \in Request /\ request' = [request EXCEPT ![r] = q]
        BY <1>1, <2>2, <3>1 DEF Goto, Request, Steps
      <3>3. /\ q.step = (IF req.op = "reset" THEN "deny" ELSE "mail")
            /\ q.row = Nothing /\ q.op = req.op /\ q.token = req.token /\ q.account = req.account
        BY <1>1, <3>1 DEF Request
      <3>4. Informed(q)
        BY <1>1, <3>3 DEF Informed
      <3>5. Informed(q)'
        BY <1>3, <3>4, InformedStays, UsersFacts
      <3> QED BY <1>3, <3>2, <3>5, RequestGoesOn
    <2> QED BY <2>1, <2>2 DEF SaveUser
  <1> QED BY <1>2, <1>4, <1>5, <1>6, UsersFacts, TogetherFacts

LEMMA SendTokenFacts ==
    ASSUME IInv, NEW r \in Requests, NEW t \in Tokens, SendToken(r, t)
    PROVE  IInv' /\ Keeps
  <1> DEFINE req == request[r]
             kind == IF req.op = "request_reset" THEN "reset-password" ELSE "verify-user"
  <1>1. req \in Request /\ Informed(req) /\ req.step = "mail"
    BY AtFacts DEF SendToken
  <1>2. CASE Exists(req.account)
    <2>1. Issue(t, kind, req.account) /\ UNCHANGED <<users, created, activated, cleaning>>
      BY <1>2 DEF SendToken, userVars
    <2>2. req.account \in Accounts /\ kind \in Kinds /\ kind # "refresh"
      BY <1>1, UsersFacts DEF UsersOK, Informed, Kinds
    <2> HIDE DEF kind
    <2>3. /\ Records' /\ Keeps /\ denied' = denied
          /\ Issued' = Issued \cup {t} /\ tokens'[t].kind = kind
      BY <2>1, <2>2, IssueFacts, UsersFacts
    <2>4. Stays
      BY <2>1, <2>3 DEF Stays
    <2>5. UsedVerificationsVerified' /\ CredentialsFollowVerification'
      BY <2>2, <2>3, <2>4, TokensStay
    <2>6. CASE req.op = "social"
      <3>1. PICK q : q = [req EXCEPT !.step = "check", !.token = t]
        OBVIOUS
      <3>2. q \in Request /\ request' = [request EXCEPT ![r] = q]
        BY <1>1, <1>2, <2>6, <3>1 DEF SendToken, Request, Steps
      <3>3. q.step = "check" /\ q.op = "social" /\ q.token = t /\ q.row = req.row /\ q.account = req.account
        BY <1>1, <2>6, <3>1 DEF Request
      <3>4. Informed(q)
        BY <1>1, <3>3, NothingAssumption DEF Informed
      <3>5. Informed(q)'
        BY <2>4, <3>4, InformedStays, UsersFacts
      <3>6. request' \in [Requests -> Request \cup {Nothing}] /\ RequestsInformed'
        BY <2>4, <3>2, <3>5, RequestGoesOn
      <3>7. UsersOK' /\ cleaning' \in SUBSET Accounts
        BY <2>1, UsersFacts DEF UsersOK, VerifiedAreActivated, Exists
      <3> QED BY <2>3, <2>5, <3>6, <3>7, TogetherFacts
    <2>7. CASE req.op # "social"
      <3>1. Finish(r) /\ UNCHANGED <<userVars, cleaning>>
        BY <1>2, <2>7 DEF SendToken
      <3> QED BY <2>3, <2>5, <3>1, FinishFacts, TogetherFacts
    <2> QED BY <2>6, <2>7
  <1>3. CASE ~Exists(req.account)
    <2>1. Finish(r) /\ UNCHANGED tokenVars /\ UNCHANGED <<userVars, cleaning>>
      BY <1>3 DEF SendToken
    <2>2. Records' /\ Keeps /\ UNCHANGED <<tokens, denied>> /\ Issued' = Issued
      BY <2>1, KeepsUnchanged, UsersFacts DEF tokenVars, Issued
    <2>3. Stays
      BY <2>1, <2>2, FinishFacts
    <2>4. UsedVerificationsVerified' /\ CredentialsFollowVerification'
      BY <2>2, <2>3, TokensStay
    <2> QED BY <2>1, <2>2, <2>4, FinishFacts, TogetherFacts
  <1> QED BY <1>2, <1>3

LEMMA CommitVerificationFacts ==
    ASSUME IInv, NEW r \in Requests, NEW t \in Tokens, CommitVerification(r, t)
    PROVE  IInv' /\ Keeps
  <1> DEFINE req == request[r]
             row == [req.row EXCEPT !.active = TRUE, !.verified = TRUE]
  <1>1. /\ req \in Request /\ Informed(req) /\ req.step = "verify"
        /\ req.row \in User /\ req.account \in created
        /\ req.token \in Issued
        /\ tokens[req.token].user = req.account
    BY AtFacts DEF CommitVerification, Informed, Request
  <1>2. PICK a \in Accounts : a = req.account
    BY <1>1, UsersFacts DEF UsersOK
  <1>3. /\ t \notin Issued
        /\ tokens' = [tokens EXCEPT ![t] = NewClaims("refresh", a)]
        /\ outstanding' = WithIssued(WithDenied(req.token), t, "refresh", a)
        /\ denied' = denied \cup {req.token}
        /\ clock' = clock /\ cleaning' = cleaning /\ created' = created
        /\ users' = [users EXCEPT ![a] = row]
        /\ activated' = activated \cup {a}
    BY <1>2 DEF CommitVerification
  <1>4. /\ Records' /\ Keeps
        /\ Issued' = Issued \cup {t}
        /\ tokens'[t].kind = "refresh"
        /\ tokens'[t].user = a
    <2>1. PICK old \in Issued : old = req.token
      BY <1>1
    <2>2. Records /\ t \in Tokens \ Issued
      BY <1>3, UsersFacts
    <2>3. /\ tokens' = [tokens EXCEPT ![t] = NewClaims("refresh", a)]
          /\ outstanding' = WithIssued(WithDenied(old), t, "refresh", a)
          /\ denied' = denied \cup {old}
          /\ clock' = clock
      BY <1>3, <2>1
    <2> QED BY <2>2, <2>3, CommitFacts
  <1>5. Stays
    BY <1>3, <1>4 DEF Stays
  <1>6. UsedVerificationsVerified' /\ CredentialsFollowVerification'
    BY <1>1, <1>2, <1>3, <1>4, <1>5, TokensStay
  <1>7. row \in User /\ row.active = row.verified
    BY <1>1 DEF User
  <1> HIDE DEF row
  <1>8. UsersOK'
    BY <1>1, <1>2, <1>3, <1>7, RowIsSaved, UsersFacts DEF UsersOK
  <1>9. request' \in [Requests -> Request \cup {Nothing}] /\ RequestsInformed'
    BY <1>5, RequestGoesOn DEF CommitVerification, Finish
  <1> QED BY <1>3, <1>4, <1>6, <1>8, <1>9, UsersFacts, TogetherFacts

LEMMA VerifyAtOnceFacts == ASSUME IInv, NEW r \in Requests, VerifyAtOnce(r) PROVE IInv' /\ Keeps
  <1>1. PICK t \in Tokens : ReadVerification(r, t)
    BY AtFacts DEF VerifyAtOnce, Request, Informed
  <1>2. t \in Issued /\ tokens[t].kind = "verify-user" /\ tokens[t].user \in Accounts
    BY <1>1, IssuedHasClaims DEF ReadVerification, Accepted, Decodes, IInv, Records, Claims
  <1> QED BY <1>1, <1>2, ExistsFacts, ReadFacts DEF ReadVerification, Informed, Ops, Steps

LEMMA DenyTokenFacts == ASSUME IInv, NEW r \in Requests, DenyToken(r) PROVE IInv' /\ Keeps
  <1> DEFINE req == request[r]
  <1>1. /\ req \in Request /\ Informed(req) /\ req.step = "deny"
        /\ req.token \in Issued /\ tokens[req.token].kind # "verify-user"
    BY AtFacts DEF DenyToken, Informed
  <1>2. Deny(req.token) /\ UNCHANGED <<users, created, activated, cleaning>>
    BY DEF DenyToken, userVars
  <1>3. Records' /\ Keeps /\ Issued' = Issued /\ tokens' = tokens /\ denied' = denied \cup {req.token}
    BY <1>1, <1>2, DenyFacts, UsersFacts
  <1>4. Stays
    BY <1>2, <1>3 DEF Stays
  <1>5. UsedVerificationsVerified' /\ CredentialsFollowVerification'
    BY <1>1, <1>3, <1>4, TokensStay
  <1>6. CASE req.op = "reset"
    <2>1. PICK q : q = [req EXCEPT !.op = "sign_in", !.step = "credentials", !.token = Nothing]
      OBVIOUS
    <2>2. q \in Request /\ request' = [request EXCEPT ![r] = q]
      BY <1>1, <1>6, <2>1 DEF DenyToken, Request, Steps, Ops
    <2>3. q.step = "credentials" /\ q.op = "sign_in" /\ q.row = req.row /\ q.account = req.account
      BY <1>1, <2>1 DEF Request
    <2>4. Informed(q)
      BY <1>1, <1>6, <2>3 DEF Informed
    <2>5. Informed(q)'
      BY <1>4, <2>4, InformedStays, UsersFacts
    <2>6. request' \in [Requests -> Request \cup {Nothing}] /\ RequestsInformed'
      BY <1>4, <2>2, <2>5, RequestGoesOn
    <2>7. UsersOK' /\ cleaning' \in SUBSET Accounts
      BY <1>2, UsersFacts DEF UsersOK, VerifiedAreActivated, Exists
    <2> QED BY <1>3, <1>5, <2>6, <2>7, TogetherFacts
  <1>7. CASE req.op # "reset"
    <2>1. Finish(r) /\ UNCHANGED <<userVars, cleaning>>
      BY <1>7 DEF DenyToken
    <2> QED BY <1>3, <1>5, <2>1, FinishFacts, TogetherFacts
  <1> QED BY <1>6, <1>7

LEMMA SignInFacts ==
    ASSUME IInv, NEW r \in Requests, NEW t \in Tokens, SignIn(r, t)
    PROVE  IInv' /\ Keeps
  <1> DEFINE req == request[r]
  <1>1. req \in Request /\ req.account \in activated
    BY AtFacts DEF SignIn, Informed
  <1>2. Finish(r) /\ UNCHANGED <<userVars, cleaning>> /\ activated' = activated
    BY DEF SignIn, userVars
  <1>3. CASE Exists(req.account)
    <2>1. Issue(t, "refresh", req.account) /\ req.account \in Accounts /\ "refresh" \in Kinds
      BY <1>1, <1>3, UsersFacts DEF SignIn, UsersOK, Kinds
    <2>2. /\ Records' /\ Keeps /\ denied' = denied
          /\ Issued' = Issued \cup {t} /\ tokens'[t].user = req.account
      BY <2>1, IssueFacts, UsersFacts
    <2>3. UsedVerificationsVerified' /\ CredentialsFollowVerification'
      BY <1>1, <1>2, <2>2, FinishFacts, TokensStay
    <2> QED BY <1>2, <2>2, <2>3, FinishFacts, TogetherFacts
  <1>4. CASE ~Exists(req.account)
    <2>1. UNCHANGED tokenVars
      BY <1>4 DEF SignIn
    <2>2. Records' /\ Keeps /\ UNCHANGED <<tokens, denied>> /\ Issued' = Issued
      BY <2>1, KeepsUnchanged, UsersFacts DEF tokenVars, Issued
    <2>3. UsedVerificationsVerified' /\ CredentialsFollowVerification'
      BY <1>2, <2>2, FinishFacts, TokensStay
    <2> QED BY <1>2, <2>2, <2>3, FinishFacts, TogetherFacts
  <1> QED BY <1>3, <1>4

LEMMA RotateTokenFacts ==
    ASSUME IInv, NEW r \in Requests, NEW t \in Tokens, RotateToken(r, t)
    PROVE  IInv' /\ Keeps
  <1> DEFINE old == request[r].token
  <1>1. old \in Issued /\ tokens[old].kind = "refresh" /\ tokens[old].user \in activated
    BY AtFacts DEF RotateToken, Informed, IInv, CredentialsFollowVerification
  <1>2. /\ Finish(r) /\ UNCHANGED <<userVars, cleaning>> /\ activated' = activated
        /\ Rotate(old, t)
    BY DEF RotateToken, userVars
  <1>3. /\ Records' /\ Keeps
        /\ Issued' = Issued \cup {t}
        /\ tokens'[t].user = tokens[old].user
        /\ denied' = denied \cup {old}
    BY <1>1, <1>2, RotateFacts, UsersFacts
  <1>4. UsedVerificationsVerified' /\ CredentialsFollowVerification'
    BY <1>1, <1>2, <1>3, FinishFacts, TokensStay
  <1> QED BY <1>2, <1>3, <1>4, FinishFacts, TogetherFacts

LEMMA CrashFacts == ASSUME IInv, NEW r \in Requests, Crash(r) PROVE IInv' /\ Keeps
  <1>1. Finish(r) /\ UNCHANGED tokenVars /\ UNCHANGED <<userVars, cleaning>>
    BY DEF Crash
  <1>2. Records' /\ Keeps /\ UNCHANGED <<tokens, denied>> /\ Issued' = Issued
    BY <1>1, KeepsUnchanged, UsersFacts DEF tokenVars, Issued
  <1>3. UsedVerificationsVerified' /\ CredentialsFollowVerification'
    BY <1>1, <1>2, FinishFacts, TokensStay
  <1> QED BY <1>1, <1>2, <1>3, FinishFacts, TogetherFacts

\* Accounts go, with the user of their rows, or nothing but the tokens changes.
LEMMA NoRequestStep ==
    ASSUME IInv, Records', Keeps, Issued' = Issued, denied' \subseteq denied,
           request' = request, UNCHANGED <<created, activated>>,
           cleaning' \in SUBSET Accounts,
           users' \in [Accounts -> User \cup {Nothing}],
           \A a \in Accounts : users'[a] \in {users[a], Nothing}
    PROVE  IInv' /\ Keeps
  <1>1. Stays
    BY DEF Stays
  <1>2. request' \in [Requests -> Request \cup {Nothing}] /\ RequestsInformed'
    BY <1>1, RequestsStay DEF IInv, TypeOK
  <1>3. UsersOK'
    BY UsersFacts DEF UsersOK, VerifiedAreActivated, Exists
  <1>4. UsedVerificationsVerified' /\ CredentialsFollowVerification'
    BY <1>1, TokensStay
  <1> QED BY <1>2, <1>3, <1>4, TogetherFacts

LEMMA DeleteUserFacts == ASSUME IInv, NEW a \in Accounts, DeleteUser(a) PROVE IInv' /\ Keeps
  <1>1. Records' /\ Keeps /\ Issued' = Issued
    BY WithoutUsersFacts, UsersFacts DEF DeleteUser
  <1>2. /\ users' \in [Accounts -> User \cup {Nothing}]
        /\ \A b \in Accounts : users'[b] \in {users[b], Nothing}
    BY UsersFacts DEF DeleteUser, UsersOK
  <1> QED BY <1>1, <1>2, NoRequestStep, UsersFacts DEF DeleteUser

LEMMA PeriodicTaskFacts == ASSUME IInv, PeriodicTask PROVE IInv' /\ Keeps
  <1>1. CASE FlushExpiredTokens /\ UNCHANGED <<userVars, request, cleaning>>
    <2>1. Records' /\ Keeps /\ Issued' = Issued /\ denied' \subseteq denied
      BY <1>1, FlushFacts, UsersFacts
    <2> QED BY <1>1, <2>1, NoRequestStep, UsersFacts DEF userVars, UsersOK
  <1>2. CASE ListExpiredUsers
    <2>1. Records' /\ Keeps /\ Issued' = Issued /\ denied' \subseteq denied
      BY <1>2, KeepsUnchanged, UsersFacts DEF ListExpiredUsers, tokenVars, Issued
    <2>2. cleaning' \in SUBSET Accounts
      BY <1>2 DEF ListExpiredUsers, ExpiredUsers, Expirable
    <2> QED BY <1>2, <2>1, <2>2, NoRequestStep, UsersFacts DEF ListExpiredUsers, userVars, UsersOK
  <1>3. CASE DeleteExpiredUsers
    <2>1. Records' /\ Keeps /\ Issued' = Issued /\ denied' \subseteq denied
      BY <1>3, WithoutUsersFacts, UsersFacts DEF DeleteExpiredUsers
    <2>2. /\ users' \in [Accounts -> User \cup {Nothing}]
          /\ \A a \in Accounts : users'[a] \in {users[a], Nothing}
      BY <1>3, UsersFacts DEF DeleteExpiredUsers, UsersOK
    <2> QED BY <1>3, <2>1, <2>2, NoRequestStep DEF DeleteExpiredUsers
  <1> QED BY <1>1, <1>2, <1>3 DEF PeriodicTask

LEMMA StepInvariant == IInv /\ [Next]_vars => IInv' /\ Keeps
  <1> SUFFICES ASSUME IInv, [Next]_vars PROVE IInv' /\ Keeps
    OBVIOUS
  <1>1. ASSUME NEW r \in Requests, UserEndpoint(r) \/ AuthEndpoint(r) \/ RequestStep(r)
        PROVE  IInv' /\ Keeps
    <2>1. CASE UserEndpoint(r)
      BY <2>1, UserEndpointFacts
    <2>2. CASE AuthEndpoint(r)
      BY <2>2, AuthEndpointFacts
    <2>3. CASE RequestStep(r)
      BY <2>3, CreateUserFacts, SaveUserFacts, VerifyAtOnceFacts, DenyTokenFacts,
         SendTokenFacts, CommitVerificationFacts, SignInFacts, RotateTokenFacts, CrashFacts
         DEF RequestStep
    <2> QED BY <1>1, <2>1, <2>2, <2>3
  <1>2. CASE \E a \in Accounts : DeleteUser(a)
    BY <1>2, DeleteUserFacts
  <1>3. CASE PeriodicTask
    BY <1>3, PeriodicTaskFacts
  <1>4. CASE Tick /\ UNCHANGED <<userVars, request, cleaning>>
    <2>1. Records' /\ Keeps /\ Issued' = Issued /\ denied' \subseteq denied
      BY <1>4, TickFacts, UsersFacts DEF Tick
    <2> QED BY <1>4, <2>1, NoRequestStep, UsersFacts DEF userVars, UsersOK
  <1>5. CASE UNCHANGED vars
    <2>1. Records' /\ Keeps /\ Issued' = Issued /\ denied' \subseteq denied
      BY <1>5, KeepsUnchanged, UsersFacts DEF vars, tokenVars, Issued
    <2> QED BY <1>5, <2>1, NoRequestStep, UsersFacts DEF vars, UsersOK
  <1> QED BY <1>1, <1>2, <1>3, <1>4, <1>5 DEF Next

\* The invariant, of which the others are parts.
THEOREM Invariant == Spec => []IInv
  <1>1. Init => IInv
    BY InitInvariant
  <1>2. IInv /\ [Next]_vars => IInv'
    BY StepInvariant
  <1> QED BY <1>1, <1>2, PTL DEF Spec

\* The types of the accounts, the tokens and the requests.
THEOREM AccountsTypeCorrect == Spec => []TypeOK
  <1>1. IInv => TypeOK
    BY DEF IInv
  <1> QED BY <1>1, Invariant, PTL

\* A verification is used only by being carried out (verify_user_from_token).
THEOREM VerificationsAreCarriedOut == Spec => []UsedVerificationsVerified
  <1>1. IInv => UsedVerificationsVerified
    BY DEF IInv
  <1> QED BY <1>1, Invariant, PTL

\* Credentials are those of accounts that were verified, whatever requests and
\* tasks are in progress (users/services and auth/services).
THEOREM CredentialsAreEarned == Spec => []CredentialsFollowVerification
  <1>1. IInv => CredentialsFollowVerification
    BY DEF IInv
  <1> QED BY <1>1, Invariant, PTL

\* The tokens implement Passes: what is denied and forgotten, or expired, is
\* never of use again (ninja_jwt with the denylist and flushexpiredtokens).
THEOREM TokensImplementPasses == Spec => SpentTokensStaySpent
  <1>1. Init => Pass!Init
    BY DEF Init, TokensInit, Pass!Init, Usable, Decodes, Issued
  <1>2. IInv /\ [Next]_vars => [Pass!Next]_<<Usable, Issued \ Usable>>
    BY StepInvariant, KeepsImplementsPasses DEF IInv
  <1> QED BY <1>1, <1>2, Invariant, PTL DEF Spec, SpentTokensStaySpent, Pass!Spec
=============================================================================
