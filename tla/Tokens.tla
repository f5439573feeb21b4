------------------------------- MODULE Tokens -------------------------------
(***************************************************************************)
(* The signed tokens of the application and the list by which they are     *)
(* denied (src/ninja_jwt). A token is a claim in the hands of a user: what *)
(* it is for, whose it is, until when. The database holds, in the table    *)
(* OutstandingToken, a row for most of them and, in BlacklistedToken, which *)
(* of those rows are denied. A token that a refresh makes has no row until *)
(* it is itself denied, and that row has no user.                          *)
(***************************************************************************)
EXTENDS Naturals

CONSTANTS
    Accounts,   \* identities of user accounts
    Tokens,     \* identities of tokens (the claim jti); each is issued once
    Lifetime,   \* for how long a token of each kind is good
    MaxTime,    \* bound of the clock
    Nobody, NoToken, NoRow

\* Access tokens, which are never recorded nor denied, are not among them: see
\* Authenticated in Accounts.
Kinds == {"verify-user", "reset-password", "refresh"}

ASSUME LifetimeAssumption == Lifetime \in [Kinds -> Nat \ {0}]

ASSUME MaxTimeAssumption == MaxTime \in Nat

VARIABLES
    clock,
    tokens,      \* the claims of every token issued
    outstanding, \* the rows of OutstandingToken
    denied       \* the rows of BlacklistedToken

tokenVars == <<clock, tokens, outstanding, denied>>

Claims == [kind : Kinds, user : Accounts, exp : Nat]

OutstandingRow == [user : Accounts \cup {Nobody}, expires : Nat]

ASSUME AbsenceAssumption == NoToken \notin Claims /\ NoRow \notin OutstandingRow

TokensTypeOK ==
    /\ clock \in Nat
    /\ tokens \in [Tokens -> Claims \cup {NoToken}]
    /\ outstanding \in [Tokens -> OutstandingRow \cup {NoRow}]
    /\ denied \subseteq Tokens

TokensInit ==
    /\ clock = 0
    /\ tokens = [t \in Tokens |-> NoToken]
    /\ outstanding = [t \in Tokens |-> NoRow]
    /\ denied = {}

Issued == {t \in Tokens : tokens[t] # NoToken}

\* check_exp: a token is refused from the very instant it expires.
Expired(t) == tokens[t].exp <= clock

\* The backend decodes what it has signed itself, and only until it expires.
Decodes(t) == t \in Issued /\ ~Expired(t)

\* The token is decoded, is not in the list and is for this purpose.
Accepted(t, kind) ==
    /\ Decodes(t)
    /\ t \notin denied
    /\ tokens[t].kind = kind

NewClaims(kind, a) == [kind |-> kind, user |-> a, exp |-> clock + Lifetime[kind]]

\* for_user: the token is recorded with its user.
WithIssued(rows, t, kind, a) ==
    [rows EXCEPT ![t] = [user |-> a, expires |-> clock + Lifetime[kind]]]

Issue(t, kind, a) ==
    /\ t \notin Issued
    /\ tokens' = [tokens EXCEPT ![t] = NewClaims(kind, a)]
    /\ outstanding' = WithIssued(outstanding, t, kind, a)
    /\ UNCHANGED <<clock, denied>>

MutantWithDenied(t) ==
    IF outstanding[t] = NoRow
    THEN [outstanding EXCEPT ![t] = [user |-> tokens[t].user, expires |-> clock]]
    ELSE outstanding

\* blacklist: get_or_create, with no user for a row that was not there.
WithDenied(t) ==
    IF outstanding[t] = NoRow
    THEN [outstanding EXCEPT ![t] = [user |-> Nobody, expires |-> tokens[t].exp]]
    ELSE outstanding

Deny(t) ==
    /\ outstanding' = WithDenied(t)
    /\ denied' = denied \cup {t}
    /\ UNCHANGED <<clock, tokens>>

\* A refresh denies the token it was given and signs another; only the claims
\* that do not depend on time are kept, and no row is made.
Rotate(t, new) ==
    /\ new \notin Issued
    /\ tokens' = [tokens EXCEPT ![new] = NewClaims("refresh", tokens[t].user)]
    /\ outstanding' = WithDenied(t)
    /\ denied' = denied \cup {t}
    /\ UNCHANGED clock

\* The accounts A are deleted: on_delete=SET_NULL.
WithoutUsers(A) ==
    [t \in Tokens |->
        IF outstanding[t] # NoRow /\ outstanding[t].user \in A
        THEN [outstanding[t] EXCEPT !.user = Nobody] ELSE outstanding[t]]

Flushed == {t \in Tokens : outstanding[t] # NoRow /\ outstanding[t].expires <= clock}

\* The command flushexpiredtokens; the denials of the rows go with them.
FlushExpiredTokens ==
    /\ outstanding' = [t \in Tokens |-> IF t \in Flushed THEN NoRow ELSE outstanding[t]]
    /\ denied' = denied \ Flushed
    /\ UNCHANGED <<clock, tokens>>

Tick ==
    /\ clock < MaxTime
    /\ clock' = clock + 1
    /\ UNCHANGED <<tokens, outstanding, denied>>

-----------------------------------------------------------------------------

Usable == {t \in Tokens : Decodes(t) /\ t \notin denied}

\* Denied tokens are forgotten when they are flushed; they stay spent.
Pass == INSTANCE Passes WITH Pass <- Tokens, usable <- Usable, spent <- Issued \ Usable

\* Whatever is denied, flushed, rotated or expires, in whatever order, a token
\* that could no longer be used can never be used again (ninja_jwt/tokens.py
\* with the denylist and flushexpiredtokens, which forgets denials).
SpentTokensStaySpent == Pass!Spec
=============================================================================
