------------------------------- MODULE Sessions -------------------------------
(***************************************************************************)
(* Signing in (app/features/auth): rotating refresh tokens and single-use  *)
(* reset links, kept in tables so that they can be revoked, and the        *)
(* passwords they depend on.                                               *)
(*                                                                         *)
(* A request is a READ step, in which every check runs and the tokens to   *)
(* revoke are selected, and a COMMIT step: nothing is flushed earlier and  *)
(* no row is locked.  A user without a password has no row yet; an         *)
(* organization is never deactivated.  Token and Link bound the tokens and *)
(* links ever issued.                                                      *)
(***************************************************************************)
CONSTANTS
    User, Password,
    Token,           \* the jtis of refresh tokens
    Link,            \* the jtis of password-reset tokens
    Slot,            \* requests that can be in flight at once
    Endpoints,       \* "staff_password" lets the staff feature set passwords
    InitialPassword, \* the seeded accounts, None where there is no row
    None

ASSUME SessionsAssumption ==
    /\ None \notin User \cup Password \cup Token \cup Link
    /\ InitialPassword \in [User -> Password \cup {None}]

VARIABLES
    accounts,  \* users: is_active and what hashed_password was made from
    tokens,    \* refresh_tokens, with each row's history
    links,     \* password_reset_tokens
    reqs       \* the requests in flight

vars == <<accounts, tokens, links, reqs>>

-----------------------------------------------------------------------------

Account == [active: BOOLEAN, password: Password \cup {None}]

(***************************************************************************)
(* A row of refresh_tokens.  Two fields are history: login, the token that *)
(* the rotations to this one began with, and secret, the password that was *)
(* proved then.                                                            *)
(***************************************************************************)
RefreshToken == [owner: User \cup {None}, revoked: BOOLEAN, expired: BOOLEAN,
                 login: Token \cup {None}, secret: Password \cup {None}]

PasswordResetToken == [owner: User \cup {None}, used: BOOLEAN, expired: BOOLEAN]

Operation == {"idle", "register", "login", "refresh", "logout", "forgot", "reset", "change"}

\* What a session holds between its reads and its commit.
Request == [op: Operation, user: User \cup {None},
            token: Token \cup {None},       \* the refresh token presented
            link: Link \cup {None},         \* the reset link presented
            current: Password \cup {None},  \* the password verified
            new: Password \cup {None},      \* the password to store
            victims: SUBSET Token]          \* the tokens to revoke

Idle == [op |-> "idle", user |-> None, token |-> None, link |-> None,
         current |-> None, new |-> None, victims |-> {}]

TypeOK ==
    /\ accounts \in [User -> Account]
    /\ tokens \in [Token -> RefreshToken]
    /\ links \in [Link -> PasswordResetToken]
    /\ reqs \in [Slot -> Request]

Init ==
    /\ accounts = [u \in User |-> [active |-> InitialPassword[u] # None,
                                   password |-> InitialPassword[u]]]
    /\ tokens = [t \in Token |-> [owner |-> None, revoked |-> FALSE, expired |-> FALSE,
                                  login |-> None, secret |-> None]]
    /\ links = [k \in Link |-> [owner |-> None, used |-> FALSE, expired |-> FALSE]]
    /\ reqs = [s \in Slot |-> Idle]

-----------------------------------------------------------------------------

Busy(s) == reqs[s].op # "idle"

Exists(u) == accounts[u].password # None

\* A primary key that no row has and no request in flight has drawn.
Fresh(u) == ~Exists(u) /\ \A s \in Slot : reqs[s].user # u

Issued(t) == tokens[t].owner # None

Live(t) == Issued(t) /\ ~tokens[t].revoked

Unissued == {t \in Token : ~Issued(t)}

\* Mutant: tokens that were rotated once are left alone.
VictimsAtLogin(u) == {t \in Token : tokens[t].owner = u /\ tokens[t].login = t}

\* Mutant: everybody's tokens are revoked.
VictimsOfAnybody(u) == {t \in Token : Issued(t) /\ ~tokens[t].revoked}

\* revoke_all_user_refresh_tokens: those the transaction can see.
LiveTokensOf(u) == {t \in Token : tokens[t].owner = u /\ ~tokens[t].revoked}

(***************************************************************************)
(* The READ step of every request, once its checks have passed.            *)
(***************************************************************************)
Load(s, request) ==
    /\ ~Busy(s)
    /\ request.op \in Endpoints
    /\ reqs' = [reqs EXCEPT ![s] = request]
    /\ UNCHANGED <<accounts, tokens, links>>

\* register(): anybody, with a new account.
Register(s) ==
    \E u \in User, p \in Password :
        /\ Fresh(u)
        /\ Load(s, [Idle EXCEPT !.op = "register", !.user = u, !.new = p])

\* login(): the password matches and the account is active.
Login(s) ==
    \E u \in User, p \in Password :
        /\ accounts[u].password = p
        /\ accounts[u].active
        /\ Load(s, [Idle EXCEPT !.op = "login", !.user = u, !.current = p])

\* Mutant: the presented token is left alone.
KeptOnRefresh(t) == {}

\* Mutant: the id of the user is taken for the id of the token.
OwnerOnRefresh(t) == {tokens[t].owner}

\* revoke_refresh_token(stored)
RotatedOnRefresh(t) == {t}

\* refresh(): neither revoked nor expired, of an active account.
Refresh(s) ==
    \E t \in Token :
        /\ Live(t) /\ ~tokens[t].expired
        /\ accounts[tokens[t].owner].active
        /\ Load(s, [Idle EXCEPT !.op = "refresh", !.user = tokens[t].owner, !.token = t,
                                !.victims = RotatedOnRefresh(t)])

\* logout(): an invalid token is answered too, with nothing to commit.
Logout(s) ==
    \E t \in Token :
        /\ Live(t) /\ ~tokens[t].expired
        /\ Load(s, [Idle EXCEPT !.op = "logout", !.user = tokens[t].owner, !.token = t,
                                !.victims = {t}])

\* forgot_password(): an active account; anybody may ask.
ForgotPassword(s) ==
    \E u \in User :
        /\ Exists(u) /\ accounts[u].active
        /\ Load(s, [Idle EXCEPT !.op = "forgot", !.user = u])

\* Mutant: a used link is accepted again.
AcceptableTwice(k) == links[k].owner # None /\ ~links[k].expired

\* The stored link is neither used nor expired.
Acceptable(k) == links[k].owner # None /\ ~links[k].used /\ ~links[k].expired

\* reset_password(): whatever the state of the account and the old password.
ResetPassword(s) ==
    \E k \in Link, p \in Password :
        /\ Acceptable(k)
        /\ Load(s, [Idle EXCEPT !.op = "reset", !.user = links[k].owner, !.link = k,
                                !.new = p, !.victims = LiveTokensOf(links[k].owner)])

\* change_password(): somebody signed in who knows the password sets another one.
ChangePassword(s) ==
    \E u \in User, p \in Password :
        /\ Exists(u) /\ accounts[u].active
        /\ \E t \in Token : tokens[t].owner = u
        /\ p # accounts[u].password
        /\ Load(s, [Idle EXCEPT !.op = "change", !.user = u,
                                !.current = accounts[u].password, !.new = p,
                                !.victims = LiveTokensOf(u)])

-----------------------------------------------------------------------------
(* The COMMIT steps.                                                       *)

Done(s, operations) ==
    /\ reqs[s].op \in operations
    /\ reqs' = [reqs EXCEPT ![s] = Idle]

Withdraw(victims) ==
    [t \in Token |-> [tokens[t] EXCEPT !.revoked = @ \/ t \in victims]]

\* The new row: a sign-in starts a history, a rotation continues one.
NewToken(r, t) ==
    [owner |-> r.user, revoked |-> FALSE, expired |-> FALSE,
     login |-> IF r.op = "refresh" THEN tokens[r.token].login ELSE t,
     secret |-> CASE r.op = "refresh"  -> tokens[r.token].secret
                  [] r.op = "login"    -> r.current
                  [] r.op = "register" -> r.new]

\* _issue_tokens with what register, login and refresh commit along with it.
CommitSignIn(s) ==
    LET r == reqs[s] IN
    /\ Done(s, {"register", "login", "refresh"})
    /\ r.op = "register" => ~Exists(r.user)
    /\ \E t \in Unissued : tokens' = [Withdraw(r.victims) EXCEPT ![t] = NewToken(r, t)]
    /\ accounts' = IF r.op = "register"
                   THEN [accounts EXCEPT ![r.user] = [active |-> TRUE, password |-> r.new]]
                   ELSE accounts
    /\ UNCHANGED links

CommitLogout(s) ==
    /\ Done(s, {"logout"})
    /\ tokens' = Withdraw(reqs[s].victims)
    /\ UNCHANGED <<accounts, links>>

CommitLink(s) ==
    /\ Done(s, {"forgot"})
    /\ \E k \in Link :
         /\ links[k].owner = None
         /\ links' = [links EXCEPT ![k].owner = reqs[s].user]
    /\ UNCHANGED <<accounts, tokens>>

\* reset_password and change_password.
CommitPassword(s) ==
    LET r == reqs[s] IN
    /\ Done(s, {"reset", "change"})
    /\ accounts' = [accounts EXCEPT ![r.user].password = r.new]
    /\ tokens' = Withdraw(r.victims)
    /\ links' = [k \in Link |-> [links[k] EXCEPT !.used = @ \/ k = r.link]]

\* The session closes without a commit.
Abort(s) ==
    /\ Busy(s)
    /\ reqs' = [reqs EXCEPT ![s] = Idle]
    /\ UNCHANGED <<accounts, tokens, links>>

-----------------------------------------------------------------------------
(* What goes on meanwhile.                                                 *)

\* expires_at passes.
ExpireToken ==
    /\ \E t \in Token : Issued(t) /\ tokens' = [tokens EXCEPT ![t].expired = TRUE]
    /\ UNCHANGED <<accounts, links, reqs>>

ExpireLink ==
    /\ \E k \in Link : links[k].owner # None /\ links' = [links EXCEPT ![k].expired = TRUE]
    /\ UNCHANGED <<accounts, tokens, reqs>>

\* EmployeeService.create: an administrator adds an account.
StaffCreate ==
    /\ \E u \in User, p \in Password, active \in BOOLEAN :
         /\ Fresh(u)
         /\ accounts' = [accounts EXCEPT ![u] = [active |-> active, password |-> p]]
    /\ UNCHANGED <<tokens, links, reqs>>

\* EmployeeService.set_active, update and delete: tokens are not touched.
StaffSetActive ==
    /\ \E u \in User :
         /\ Exists(u)
         /\ accounts' = [accounts EXCEPT ![u].active = ~@]
    /\ UNCHANGED <<tokens, links, reqs>>

\* EmployeeService.update and seed_admin store a password and do nothing else about it.
StaffSetPassword ==
    /\ "staff_password" \in Endpoints
    /\ \E u \in User, p \in Password :
         /\ Exists(u)
         /\ accounts' = [accounts EXCEPT ![u].password = p]
    /\ UNCHANGED <<tokens, links, reqs>>

Next ==
    \/ \E s \in Slot :
         \/ Register(s) \/ Login(s) \/ Refresh(s) \/ Logout(s)
         \/ ForgotPassword(s) \/ ResetPassword(s) \/ ChangePassword(s)
         \/ CommitSignIn(s) \/ CommitLogout(s) \/ CommitLink(s) \/ CommitPassword(s)
         \/ Abort(s)
    \/ ExpireToken \/ ExpireLink
    \/ StaffCreate \/ StaffSetActive \/ StaffSetPassword

Spec == Init /\ [][Next]_vars

-----------------------------------------------------------------------------
(* The properties.                                                         *)

(***************************************************************************)
(* "Changing or resetting a password revokes all existing refresh tokens": *)
(* a token that can still be rotated goes back, through all its rotations, *)
(* to a proof of the password that is stored now.  It needs login, refresh *)
(* and the revocation to see each other's commits.                         *)
(***************************************************************************)
LiveSessionsKnowPassword ==
    \A t \in Token : Live(t) => tokens[t].secret = accounts[tokens[t].owner].password

(***************************************************************************)
(* "Using one revokes it and issues a new pair": however long a session is *)
(* kept alive, a sign-in leaves one usable refresh token at most.          *)
(***************************************************************************)
OneLivePerLogin ==
    \A t, x \in Token :
        Live(t) /\ Live(x) /\ tokens[t].login = tokens[x].login => t = x

(***************************************************************************)
(* A stored password is replaced only on a proof that is good at that      *)
(* moment: a reset link the same commit uses up, or the password replaced. *)
(***************************************************************************)
Proved(u) ==
    \/ \E k \in Link : links[k].owner = u /\ ~links[k].used /\ links'[k].used
    \/ \E s \in Slot : /\ reqs[s].op = "change" /\ reqs[s].user = u
                       /\ reqs[s].current = accounts[u].password

PasswordChangeProved ==
    [][\A u \in User :
         Exists(u) /\ accounts'[u].password # accounts[u].password => Proved(u)]_vars

(***************************************************************************)
(* However requests interleave, nobody is signed out by what others do: a  *)
(* token is revoked by a request of its owner's, and a refresh or a logout *)
(* revokes only the token it presents.                                     *)
(***************************************************************************)
SignsOut(r, t) ==
    /\ r.user = tokens[t].owner
    /\ \/ r.op \in {"refresh", "logout"} /\ r.token = t
       \/ r.op \in {"reset", "change"}

RevokedByOwner ==
    [][\A t \in Token :
         Live(t) /\ tokens'[t].revoked => \E s \in Slot : SignsOut(reqs[s], t)]_vars

\* What the last property rests on.
VictimsOwned ==
    \A s \in Slot : \A t \in reqs[s].victims : SignsOut(reqs[s], t)

-----------------------------------------------------------------------------
(* With one request in flight, what it read is still so when it commits.   *)

InFlight(r) ==
    /\ r.op = "register" => ~Exists(r.user)
    /\ r.op \notin {"idle", "register"} => Exists(r.user)
    /\ r.op \in {"register", "reset", "change"} => r.new \in Password
    /\ r.op \in {"login", "change"} => r.current = accounts[r.user].password
    /\ r.op = "reset" => links[r.link].owner = r.user /\ ~links[r.link].used
    /\ r.op = "refresh" => /\ Live(r.token) /\ tokens[r.token].owner = r.user
                           /\ r.victims = {r.token}
    /\ r.op \in {"reset", "change"} => r.victims = LiveTokensOf(r.user)

\* The histories of the tokens begin with tokens that were issued to existing accounts.
HistoriesSound ==
    \A t \in Token :
        Issued(t) => Exists(tokens[t].owner) /\ tokens[t].login \in Token \ Unissued

\* The inductive invariant of one request at a time, which the proofs use.
SerialInv ==
    /\ HistoriesSound
    /\ LiveSessionsKnowPassword
    /\ OneLivePerLogin
    /\ \A k \in Link : links[k].owner # None => Exists(links[k].owner)
    /\ \A s \in Slot : InFlight(reqs[s])

=============================================================================
