------------------------------ MODULE Accounts ------------------------------
(***************************************************************************)
(* Sign-up, verification, sign-in, password reset and deletion of user     *)
(* accounts (src/users, src/auth), with the tokens they issue and deny and *)
(* the nightly tasks that flush tokens and clean accounts.                 *)
(*                                                                         *)
(* Requests are cut where the code awaits the database and interleaved. An *)
(* account is written as it was read, every column of it: save() is an     *)
(* UPDATE, or an INSERT if the row is gone. A request can end after any    *)
(* step: an exception, or the server stops.                                *)
(***************************************************************************)
EXTENDS Tokens, FiniteSets

CONSTANTS
    Addresses,  \* email addresses
    Requests,   \* the requests that can be in progress at once
    Nothing

VARIABLES
    users,      \* the rows of the table User
    created,    \* the identities given to an account so far
    request,    \* what each request in progress has read
    cleaning,   \* the accounts a cleaning has listed and not yet deleted
    activated   \* history: the accounts that were ever verified

vars == <<clock, tokens, outstanding, denied,
          users, created, request, cleaning, activated>>

userVars == <<users, created, activated>>

\* is_active, and whether date_verification is set.
User == [address : Addresses, active : BOOLEAN, verified : BOOLEAN]

\* What a request has still to do. Those that only differ in what they have
\* already done are not told apart: "sign_up" also resends the verification,
\* "discard" denies a token on any ground.
Ops == {"sign_up", "social", "request_reset", "verify", "reset",
        "discard", "sign_in", "refresh", "update"}

Steps == {"create", "save", "mail", "check", "verify", "deny", "credentials", "rotate"}

Request == [op : Ops, step : Steps, address : Addresses \cup {Nothing}, account : Accounts \cup {Nobody},
            row : User \cup {Nothing}, token : Tokens \cup {Nothing}]

ASSUME NothingAssumption == Nothing \notin User \cup Request \cup Tokens \cup Addresses

TypeOK ==
    /\ TokensTypeOK
    /\ users \in [Accounts -> User \cup {Nothing}]
    /\ created \subseteq Accounts
    /\ \A a \in Accounts : users[a] # Nothing => a \in created /\ users[a].active = users[a].verified
    /\ request \in [Requests -> Request \cup {Nothing}]
    /\ cleaning \subseteq Accounts
    /\ activated \subseteq Accounts

Exists(a) == users[a] # Nothing

\* get_user by email: an address has at most one account.
With(address) == {a \in Accounts : Exists(a) /\ users[a].address = address}

IsActive(a) == Exists(a) /\ users[a].active

-----------------------------------------------------------------------------
(* The steps that read.                                                    *)

Read(r, op, step, address, a, row, t) ==
    /\ request' = [request EXCEPT ![r] =
         [op |-> op, step |-> step, address |-> address, account |-> a,
          row |-> row, token |-> t]]
    /\ UNCHANGED <<tokenVars, userVars, cleaning>>

Free(r) == request[r] = Nothing

\* create_user: a new account, or another try of one that is not verified. For
\* one that is active nothing is done.
Register(r, op, address) ==
    /\ Free(r)
    /\ \/ /\ With(address) = {}
          /\ Read(r, op, "create", address, Nobody, Nothing, Nothing)
       \/ \E a \in With(address) :
            /\ ~IsActive(a)
            /\ Read(r, op, "save", Nothing, a, users[a], Nothing)

ResendVerification(r, address) ==
    /\ Free(r)
    /\ \E a \in With(address) :
         /\ ~IsActive(a)
         /\ Read(r, "sign_up", "mail", Nothing, a, Nothing, Nothing)

RequestResetPassword(r, address) ==
    /\ Free(r)
    /\ \E a \in With(address) :
         /\ IsActive(a)
         /\ Read(r, "request_reset", "mail", Nothing, a, Nothing, Nothing)

MutantLogin(r, address) ==
    /\ Free(r)
    /\ \E a \in With(address) :
         Read(r, "sign_in", "credentials", Nothing, a, Nothing, Nothing)

\* The password is right, or the provider knows the user, and the account is active.
Login(r, address) ==
    /\ Free(r)
    /\ \E a \in With(address) :
         /\ IsActive(a)
         /\ Read(r, "sign_in", "credentials", Nothing, a, Nothing, Nothing)

\* save_user, create_or_update_user: an address that the provider vouches for needs
\* no mail. A sign-up that waits for the terms to be accepted begins anew here.
SaveSocialUser(r, address, verified) ==
    Register(r, IF verified THEN "social" ELSE "sign_up", address)

\* pre_login, at the end of the sign-in with a provider.
PreLogin(r, address, verified) == Login(r, address) \/ SaveSocialUser(r, address, verified)

\* The transaction of verify_user_from_token, up to its writes: whatever is
\* refused is rolled back.
ReadVerification(r, t) ==
    LET a == tokens[t].user IN
    /\ Accepted(t, "verify-user")
    /\ Exists(a)
    /\ Read(r, "verify", "verify", Nothing, a, users[a], t)

VerifyUser(r, t) == Free(r) /\ ReadVerification(r, t)

\* _get_user_and_reset_password_token, from either endpoint: a token whose
\* account is not active, or is gone, is denied.
DiscardReset(r, t) ==
    /\ Free(r)
    /\ Accepted(t, "reset-password")
    /\ ~IsActive(tokens[t].user)
    /\ Read(r, "discard", "deny", Nothing, Nobody, Nothing, t)

ResetPassword(r, t) ==
    LET a == tokens[t].user IN
    /\ Free(r)
    /\ Accepted(t, "reset-password")
    /\ IsActive(a)
    /\ Read(r, "reset", "save", Nothing, a, users[a], t)

RefreshToken(r, t) ==
    /\ Free(r)
    /\ Accepted(t, "refresh")
    /\ Read(r, "refresh", "rotate", Nothing, Nobody, Nothing, t)

BlacklistToken(r, t) ==
    /\ Free(r)
    /\ Accepted(t, "refresh")
    /\ Read(r, "discard", "deny", Nothing, Nobody, Nothing, t)

\* An access token outlives whatever is denied: anyone active may hold one.
Authenticated(a) == IsActive(a)

UpdateUser(r, a) ==
    /\ Free(r)
    /\ Authenticated(a)
    /\ Read(r, "update", "save", Nothing, a, users[a], Nothing)

-----------------------------------------------------------------------------
(* The steps that write.                                                   *)

At(r, step) == request[r] # Nothing /\ request[r].step = step

Finish(r) == request' = [request EXCEPT ![r] = Nothing]

\* A request goes on, without the row it has written.
Goto(r, op, step) ==
    request' = [request EXCEPT ![r] =
        [@ EXCEPT !.op = op, !.step = step, !.address = Nothing, !.row = Nothing]]

\* The unique address of an account that is inserted, or written again after it
\* was deleted.
CanSave(a, row) == With(row.address) \subseteq {a}

MutantCreateUser(r) ==
    LET req == request[r] IN
    /\ At(r, "create")
    /\ UNCHANGED <<tokenVars, cleaning, activated>>
    /\ IF With(req.address) = {}
       THEN \E a \in Accounts \ created :
              /\ users' = [users EXCEPT ![a] =
                   [address |-> req.address, active |-> TRUE, verified |-> FALSE]]
              /\ created' = created \cup {a}
              /\ request' = [request EXCEPT ![r] = [@ EXCEPT !.step = "mail", !.account = a,
                                                             !.address = Nothing]]
       ELSE Finish(r) /\ UNCHANGED <<users, created>>

CreateUser(r) ==
    LET req == request[r] IN
    /\ At(r, "create")
    /\ UNCHANGED <<tokenVars, cleaning, activated>>
    /\ IF With(req.address) = {}
       THEN \E a \in Accounts \ created :
              /\ users' = [users EXCEPT ![a] =
                   [address |-> req.address, active |-> FALSE, verified |-> FALSE]]
              /\ created' = created \cup {a}
              /\ request' = [request EXCEPT ![r] = [@ EXCEPT !.step = "mail", !.account = a,
                                                             !.address = Nothing]]
       ELSE Finish(r) /\ UNCHANGED <<users, created>>

\* update_user, change_password: the row as it was read.
SaveUser(r) ==
    LET req == request[r] IN
    /\ At(r, "save")
    /\ UNCHANGED <<tokenVars, created, cleaning, activated>>
    /\ IF CanSave(req.account, req.row)
       THEN /\ users' = [users EXCEPT ![req.account] = req.row]
            /\ IF req.op = "update" THEN Finish(r)
               ELSE Goto(r, req.op, IF req.op = "reset" THEN "deny" ELSE "mail")
       ELSE Finish(r) /\ UNCHANGED users

\* A token for the account as it is known to the request, if it is still there,
\* and the mail that holds it. A provider that vouches for the address needs no
\* mail: its token is used at once.
SendToken(r, t) ==
    LET req == request[r] IN
    /\ At(r, "mail")
    /\ UNCHANGED <<userVars, cleaning>>
    /\ IF Exists(req.account)
       THEN /\ Issue(t, IF req.op = "request_reset" THEN "reset-password" ELSE "verify-user",
                     req.account)
            /\ IF req.op = "social"
               THEN request' = [request EXCEPT ![r] = [@ EXCEPT !.step = "check", !.token = t]]
               ELSE Finish(r)
       ELSE Finish(r) /\ UNCHANGED tokenVars

VerifyAtOnce(r) == At(r, "check") /\ ReadVerification(r, request[r].token)

MutantCommitVerification(r, t) ==
    LET req == request[r]
        a == req.account
    IN
    /\ At(r, "verify")
    /\ t \notin Issued
    /\ UNCHANGED <<clock, cleaning, created>>
    /\ Finish(r)
    /\ tokens' = [tokens EXCEPT ![t] = NewClaims("refresh", a)]
    /\ outstanding' = WithIssued(WithDenied(req.token), t, "refresh", a)
    /\ denied' = denied \cup {req.token}
    /\ activated' = activated
    /\ users' = users

\* The transaction of verify_user_from_token: the token is denied, the account
\* is active, its user is signed in; or nothing of it, when the invitation that
\* came with the token cannot be accepted (see Crash).
CommitVerification(r, t) ==
    LET req == request[r]
        a == req.account
    IN
    /\ At(r, "verify")
    /\ CanSave(a, req.row)
    /\ t \notin Issued
    /\ UNCHANGED <<clock, cleaning, created>>
    /\ Finish(r)
    /\ users' = [users EXCEPT ![a] = [req.row EXCEPT !.active = TRUE, !.verified = TRUE]]
    /\ activated' = activated \cup {a}
    /\ tokens' = [tokens EXCEPT ![t] = NewClaims("refresh", a)]
    /\ outstanding' = WithIssued(WithDenied(req.token), t, "refresh", a)
    /\ denied' = denied \cup {req.token}

DenyToken(r) ==
    LET req == request[r] IN
    /\ At(r, "deny")
    /\ Deny(req.token)
    /\ UNCHANGED <<userVars, cleaning>>
    /\ IF req.op = "reset" THEN request' = [request EXCEPT ![r] = [@ EXCEPT !.op = "sign_in", !.step = "credentials",
                                                      !.token = Nothing]]
       ELSE Finish(r)

\* RefreshToken.for_user, for an account found active.
SignIn(r, t) ==
    LET req == request[r] IN
    /\ At(r, "credentials")
    /\ Finish(r)
    /\ UNCHANGED <<userVars, cleaning>>
    /\ IF Exists(req.account) THEN Issue(t, "refresh", req.account)
       ELSE UNCHANGED tokenVars

RotateToken(r, t) ==
    /\ At(r, "rotate")
    /\ Rotate(request[r].token, t)
    /\ Finish(r)
    /\ UNCHANGED <<userVars, cleaning>>

Crash(r) ==
    /\ ~Free(r)
    /\ Finish(r)
    /\ UNCHANGED <<tokenVars, userVars, cleaning>>

\* One transaction; whether it is refused is Membership's matter.
DeleteUser(a) ==
    /\ Authenticated(a)
    /\ users' = [users EXCEPT ![a] = Nothing]
    /\ outstanding' = WithoutUsers({a})
    /\ UNCHANGED <<clock, tokens, denied, created, request, cleaning, activated>>

-----------------------------------------------------------------------------
(* The periodic tasks.                                                     *)

Expirable == {a \in Accounts : Exists(a) /\ ~users[a].active /\ ~users[a].verified}

\* What the recorded tokens list, NULL included.
Holders == {outstanding[t].user : t \in {s \in Tokens : outstanding[s] # NoRow}}

\* NOT (id IN (SELECT user_id ...)) is never true once the list has a NULL.
NotIn(a, list) == Nobody \notin list /\ a \notin list

\* The rows that clean_expired_users selects.
ExpiredUsers == {a \in Expirable : NotIn(a, Holders)}

\* clean_expired_users: the rows are listed, then deleted with what they own.
ListExpiredUsers ==
    /\ cleaning = {}
    /\ cleaning' = ExpiredUsers
    /\ UNCHANGED <<tokenVars, userVars, request>>

DeleteExpiredUsers ==
    /\ cleaning # {}
    /\ cleaning' = {}
    /\ users' = [a \in Accounts |-> IF a \in cleaning THEN Nothing ELSE users[a]]
    /\ outstanding' = WithoutUsers(cleaning)
    /\ UNCHANGED <<clock, tokens, denied, created, request, activated>>

-----------------------------------------------------------------------------

Init ==
    /\ TokensInit
    /\ users = [a \in Accounts |-> Nothing]
    /\ created = {}
    /\ request = [r \in Requests |-> Nothing]
    /\ cleaning = {}
    /\ activated = {}

UserEndpoint(r) ==
    \/ \E address \in Addresses :
         \/ Register(r, "sign_up", address)
         \/ ResendVerification(r, address)
         \/ RequestResetPassword(r, address)
    \/ \E a \in Accounts : UpdateUser(r, a)
    \/ \E t \in Tokens :
         \/ VerifyUser(r, t)
         \/ DiscardReset(r, t)
         \/ ResetPassword(r, t)

AuthEndpoint(r) ==
    \/ \E address \in Addresses :
         Login(r, address) \/ \E verified \in BOOLEAN : PreLogin(r, address, verified)
    \/ \E t \in Tokens : RefreshToken(r, t) \/ BlacklistToken(r, t)

RequestStep(r) ==
    \/ CreateUser(r)
    \/ SaveUser(r)
    \/ VerifyAtOnce(r)
    \/ DenyToken(r)
    \/ \E t \in Tokens :
         SendToken(r, t) \/ CommitVerification(r, t) \/ SignIn(r, t) \/ RotateToken(r, t)
    \/ Crash(r)

PeriodicTask ==
    \/ FlushExpiredTokens /\ UNCHANGED <<userVars, request, cleaning>>
    \/ ListExpiredUsers
    \/ DeleteExpiredUsers

Next ==
    \/ \E r \in Requests : UserEndpoint(r) \/ AuthEndpoint(r) \/ RequestStep(r)
    \/ \E a \in Accounts : DeleteUser(a)
    \/ PeriodicTask
    \/ Tick /\ UNCHANGED <<userVars, request, cleaning>>

Spec == Init /\ [][Next]_vars

-----------------------------------------------------------------------------

\* A verification token is denied only together with the verification of its
\* account, although the two are written to different tables, the transaction
\* may fail in between, and tokens are denied on other grounds elsewhere.
UsedVerificationsVerified ==
    \A t \in denied : tokens[t].kind = "verify-user" => tokens[t].user \in activated

\* Only an account that was verified has credentials, whatever was read of it
\* and however late (login, reset, refresh, sign-in through a provider).
CredentialsFollowVerification ==
    \A t \in Issued : tokens[t].kind = "refresh" => tokens[t].user \in activated

\* Whenever the task runs, it selects every account that was never verified and
\* has no token outstanding (the comment of clean_expired_users).
CleaningIsComplete == \A a \in Expirable : a \notin Holders => a \in ExpiredUsers
=============================================================================
