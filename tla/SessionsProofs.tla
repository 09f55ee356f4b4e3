---------------------------- MODULE SessionsProofs ----------------------------
(***************************************************************************)
(* Theorems about Sessions, for any accounts, passwords, tokens and links. *)
(***************************************************************************)
EXTENDS Sessions, TLAPS

-----------------------------------------------------------------------------
(* However many requests are in flight.                                    *)

\* A request names the rows it is about.
Named(r) ==
    /\ r.op # "idle" => r.user \in User
    /\ r.op = "refresh" => r.token \in Token
    /\ r.op = "reset" => r.link \in Link

\* The inductive invariant of every interleaving.
Inv ==
    /\ TypeOK
    /\ VictimsOwned
    /\ \A s \in Slot : Named(reqs[s])

LEMMA IdleSound == Idle \in Request /\ Named(Idle) /\ Idle.victims = {}
BY DEF Idle, Request, Operation, Named

LEMMA InvInit == Init => Inv
<1> SUFFICES ASSUME Init PROVE Inv
  OBVIOUS
<1>1. TypeOK
  <2>1. accounts \in [User -> Account]
    BY SessionsAssumption DEF Init, Account
  <2>2. tokens \in [Token -> RefreshToken] /\ links \in [Link -> PasswordResetToken]
    BY DEF Init, RefreshToken, PasswordResetToken
  <2>3. QED
    BY <2>1, <2>2, IdleSound DEF Init, TypeOK
<1>2. VictimsOwned
  BY IdleSound DEF Init, VictimsOwned
<1>3. \A s \in Slot : Named(reqs[s])
  BY IdleSound DEF Init
<1>4. QED
  BY <1>1, <1>2, <1>3 DEF Inv

(***************************************************************************)
(* Whatever a request reads, it names its rows and selects tokens of the   *)
(* user it is for.                                                         *)
(***************************************************************************)
Begin(s) ==
    \/ Register(s) \/ Login(s) \/ Refresh(s) \/ Logout(s)
    \/ ForgotPassword(s) \/ ResetPassword(s) \/ ChangePassword(s)

LEMMA BeginLoads ==
    ASSUME TypeOK, NEW s \in Slot, Begin(s)
    PROVE  \E r \in Request :
             Load(s, r) /\ Named(r) /\ \A t \in r.victims : SignsOut(r, t)
<1>1. CASE Register(s)
  <2>1. PICK u \in User, p \in Password :
          /\ Load(s, [Idle EXCEPT !.op = "register", !.user = u, !.new = p])
    BY <1>1 DEF Register
  <2> DEFINE r == [Idle EXCEPT !.op = "register", !.user = u, !.new = p]
  <2>2. r \in Request /\ Named(r) /\ \A t \in r.victims : SignsOut(r, t)
    BY <2>1 DEF Idle, Request, Operation, Named
  <2>3. QED
    BY <2>1, <2>2
<1>2. CASE Login(s)
  <2>1. PICK u \in User, p \in Password :
          /\ Load(s, [Idle EXCEPT !.op = "login", !.user = u, !.current = p])
    BY <1>2 DEF Login
  <2> DEFINE r == [Idle EXCEPT !.op = "login", !.user = u, !.current = p]
  <2>2. r \in Request /\ Named(r) /\ \A t \in r.victims : SignsOut(r, t)
    BY <2>1 DEF Idle, Request, Operation, Named
  <2>3. QED
    BY <2>1, <2>2
<1>3. CASE Refresh(s)
  <2>1. PICK x \in Token :
          /\ Live(x)
          /\ Load(s, [Idle EXCEPT !.op = "refresh", !.user = tokens[x].owner, !.token = x,
                                !.victims = RotatedOnRefresh(x)])
    BY <1>3 DEF Refresh
  <2> DEFINE r == [Idle EXCEPT !.op = "refresh", !.user = tokens[x].owner, !.token = x,
                                !.victims = RotatedOnRefresh(x)]
  <2>2. tokens[x].owner \in User
    BY <2>1 DEF Live, Issued, TypeOK, RefreshToken
  <2>3. r \in Request /\ Named(r) /\ \A t \in r.victims : SignsOut(r, t)
    BY <2>1, <2>2 DEF Idle, Request, Operation, Named, SignsOut, RotatedOnRefresh
  <2>4. QED
    BY <2>1, <2>3
<1>4. CASE Logout(s)
  <2>1. PICK x \in Token :
          /\ Live(x)
          /\ Load(s, [Idle EXCEPT !.op = "logout", !.user = tokens[x].owner, !.token = x,
                                !.victims = {x}])
    BY <1>4 DEF Logout
  <2> DEFINE r == [Idle EXCEPT !.op = "logout", !.user = tokens[x].owner, !.token = x,
                                !.victims = {x}]
  <2>2. tokens[x].owner \in User
    BY <2>1 DEF Live, Issued, TypeOK, RefreshToken
  <2>3. r \in Request /\ Named(r) /\ \A t \in r.victims : SignsOut(r, t)
    BY <2>1, <2>2 DEF Idle, Request, Operation, Named, SignsOut
  <2>4. QED
    BY <2>1, <2>3
<1>5. CASE ForgotPassword(s)
  <2>1. PICK u \in User :
          /\ Load(s, [Idle EXCEPT !.op = "forgot", !.user = u])
    BY <1>5 DEF ForgotPassword
  <2> DEFINE r == [Idle EXCEPT !.op = "forgot", !.user = u]
  <2>2. r \in Request /\ Named(r) /\ \A t \in r.victims : SignsOut(r, t)
    BY <2>1 DEF Idle, Request, Operation, Named
  <2>3. QED
    BY <2>1, <2>2
<1>6. CASE ResetPassword(s)
  <2>1. PICK k \in Link, p \in Password :
          /\ Acceptable(k)
          /\ Load(s, [Idle EXCEPT !.op = "reset", !.user = links[k].owner, !.link = k,
                                !.new = p, !.victims = LiveTokensOf(links[k].owner)])
    BY <1>6 DEF ResetPassword
  <2> DEFINE r == [Idle EXCEPT !.op = "reset", !.user = links[k].owner, !.link = k,
                                !.new = p, !.victims = LiveTokensOf(links[k].owner)]
  <2>2. links[k].owner \in User
    BY <2>1 DEF Acceptable, TypeOK, PasswordResetToken
  <2>3. r \in Request /\ Named(r) /\ \A t \in r.victims : SignsOut(r, t)
    BY <2>1, <2>2 DEF Idle, Request, Operation, Named, SignsOut, LiveTokensOf
  <2>4. QED
    BY <2>1, <2>3
<1>7. CASE ChangePassword(s)
  <2>1. PICK u \in User, p \in Password :
          /\ Load(s, [Idle EXCEPT !.op = "change", !.user = u,
                                !.current = accounts[u].password, !.new = p,
                                !.victims = LiveTokensOf(u)])
    BY <1>7 DEF ChangePassword
  <2> DEFINE r == [Idle EXCEPT !.op = "change", !.user = u,
                                !.current = accounts[u].password, !.new = p,
                                !.victims = LiveTokensOf(u)]
  <2>2. accounts[u].password \in Password \cup {None}
    BY <2>1 DEF TypeOK, Account
  <2>3. r \in Request /\ Named(r) /\ \A t \in r.victims : SignsOut(r, t)
    BY <2>1, <2>2 DEF Idle, Request, Operation, Named, SignsOut, LiveTokensOf
  <2>4. QED
    BY <2>1, <2>3
<1>8. QED
  BY <1>1, <1>2, <1>3, <1>4, <1>5, <1>6, <1>7 DEF Begin

LEMMA BeginKeepsInv ==
    ASSUME Inv, NEW s \in Slot, Begin(s)
    PROVE  Inv'
<1>1. PICK r \in Request :
        Load(s, r) /\ Named(r) /\ \A t \in r.victims : SignsOut(r, t)
  BY BeginLoads DEF Inv
<1>2. TypeOK'
  BY <1>1 DEF Inv, TypeOK, Load
<1>3. \A x \in Slot : reqs'[x] = IF x = s THEN r ELSE reqs[x]
  BY <1>1 DEF Inv, TypeOK, Load
<1>4. VictimsOwned'
  BY <1>1, <1>3 DEF Inv, VictimsOwned, SignsOut, Load
<1>5. \A x \in Slot : Named(reqs'[x])
  BY <1>1, <1>3 DEF Inv
<1>6. QED
  BY <1>2, <1>4, <1>5 DEF Inv, Named

(***************************************************************************)
(* Revoking changes nothing else about a token.                            *)
(***************************************************************************)
LEMMA Withdrawing ==
    ASSUME TypeOK, NEW victims
    PROVE  /\ Withdraw(victims) \in [Token -> RefreshToken]
           /\ \A t \in Token :
                /\ Withdraw(victims)[t].owner = tokens[t].owner
                /\ Withdraw(victims)[t].login = tokens[t].login
                /\ Withdraw(victims)[t].secret = tokens[t].secret
                /\ Withdraw(victims)[t].revoked <=> tokens[t].revoked \/ t \in victims
BY DEF TypeOK, RefreshToken, Withdraw

(***************************************************************************)
(* A step that leaves the owners of the issued tokens alone, and puts at   *)
(* most idle requests in the place of others, keeps what requests know.    *)
(***************************************************************************)
LEMMA RequestsKept ==
    ASSUME Inv, TypeOK',
           \A s \in Slot : reqs'[s] \in {reqs[s], Idle},
           \A t \in Token : Issued(t) => tokens'[t].owner = tokens[t].owner
    PROVE  Inv'
<1>1. \A s \in Slot : Named(reqs'[s])
  BY IdleSound DEF Inv
<1>2. VictimsOwned'
  <2> SUFFICES ASSUME NEW s \in Slot, NEW t \in reqs'[s].victims
               PROVE  SignsOut(reqs[s], t)'
    BY DEF VictimsOwned
  <2>1. reqs'[s] = reqs[s]
    BY IdleSound
  <2>2. SignsOut(reqs[s], t) /\ t \in Token
    BY <2>1 DEF Inv, VictimsOwned, TypeOK, Request
  <2>3. reqs[s].user \in User
    BY <2>2 DEF Inv, SignsOut, Named
  <2>4. Issued(t)
    BY <2>2, <2>3, SessionsAssumption DEF SignsOut, Issued
  <2>5. QED
    BY <2>1, <2>2, <2>4 DEF SignsOut
<1>3. QED
  BY <1>1, <1>2 DEF Inv, Named

LEMMA NewTokenTyped ==
    ASSUME Inv, NEW s \in Slot, reqs[s].op \in {"register", "login", "refresh"},
           NEW t \in Token
    PROVE  NewToken(reqs[s], t) \in RefreshToken /\ NewToken(reqs[s], t).owner \in User
<1> DEFINE r == reqs[s]
<1>1. r \in Request /\ r.user \in User /\ (r.op = "refresh" => r.token \in Token)
  BY DEF Inv, TypeOK, Named
<1>2. r.op = "refresh" => tokens[r.token] \in RefreshToken
  BY <1>1 DEF Inv, TypeOK
<1>3. /\ NewToken(r, t).login \in Token \cup {None}
      /\ NewToken(r, t).secret \in Password \cup {None}
  BY <1>1, <1>2 DEF NewToken, RefreshToken, Request
<1>4. QED
  BY <1>1, <1>3 DEF NewToken, RefreshToken

LEMMA SignInKeepsInv ==
    ASSUME Inv, NEW s \in Slot, CommitSignIn(s)
    PROVE  Inv'
<1> DEFINE r == reqs[s]
<1>1. r \in Request /\ r.user \in User /\ r.op \in {"register", "login", "refresh"}
  BY DEF Inv, TypeOK, Named, CommitSignIn, Done
<1>2. PICK t \in Unissued : tokens' = [Withdraw(r.victims) EXCEPT ![t] = NewToken(r, t)]
  BY DEF CommitSignIn
<1>3. t \in Token /\ ~Issued(t)
  BY DEF Unissued
<1>4. tokens' \in [Token -> RefreshToken]
  BY <1>1, <1>2, <1>3, Withdrawing, NewTokenTyped DEF Inv
<1>5. accounts' \in [User -> Account]
  BY <1>1 DEF CommitSignIn, Inv, TypeOK, Account, Request
<1>6. reqs' = [reqs EXCEPT ![s] = Idle] /\ links' = links
  BY DEF CommitSignIn, Done
<1>7. TypeOK'
  BY <1>4, <1>5, <1>6, IdleSound DEF Inv, TypeOK
<1>8. \A x \in Token : Issued(x) => tokens'[x].owner = tokens[x].owner
  BY <1>2, <1>3, Withdrawing DEF Inv
<1>9. \A x \in Slot : reqs'[x] \in {reqs[x], Idle}
  BY <1>6 DEF Inv, TypeOK
<1>10. QED
  BY <1>7, <1>8, <1>9, RequestsKept

LEMMA PasswordKeepsInv ==
    ASSUME Inv, NEW s \in Slot, CommitPassword(s)
    PROVE  Inv'
<1> DEFINE r == reqs[s]
<1>1. r \in Request /\ r.user \in User
  BY DEF Inv, TypeOK, Named, CommitPassword, Done
<1>2. accounts' \in [User -> Account]
  BY <1>1 DEF CommitPassword, Inv, TypeOK, Account, Request
<1>3. tokens' = Withdraw(r.victims) /\ reqs' = [reqs EXCEPT ![s] = Idle]
  BY DEF CommitPassword, Done
<1>4. links' \in [Link -> PasswordResetToken]
  BY DEF CommitPassword, Inv, TypeOK, PasswordResetToken
<1>5. TypeOK'
  BY <1>2, <1>3, <1>4, IdleSound, Withdrawing DEF Inv, TypeOK
<1>6. \A x \in Token : tokens'[x].owner = tokens[x].owner
  BY <1>3, Withdrawing DEF Inv
<1>7. \A x \in Slot : reqs'[x] \in {reqs[x], Idle}
  BY <1>3 DEF Inv, TypeOK
<1>8. QED
  BY <1>5, <1>6, <1>7, RequestsKept

LEMMA LogoutKeepsInv ==
    ASSUME Inv, NEW s \in Slot, CommitLogout(s)
    PROVE  Inv'
<1>1. /\ tokens' = Withdraw(reqs[s].victims) /\ reqs' = [reqs EXCEPT ![s] = Idle]
      /\ UNCHANGED <<accounts, links>>
  BY DEF CommitLogout, Done
<1>2. TypeOK'
  BY <1>1, IdleSound, Withdrawing DEF Inv, TypeOK
<1>3. \A x \in Token : tokens'[x].owner = tokens[x].owner
  BY <1>1, Withdrawing DEF Inv
<1>4. \A x \in Slot : reqs'[x] \in {reqs[x], Idle}
  BY <1>1 DEF Inv, TypeOK
<1>5. QED
  BY <1>2, <1>3, <1>4, RequestsKept

LEMMA LinkKeepsInv ==
    ASSUME Inv, NEW s \in Slot, CommitLink(s)
    PROVE  Inv'
<1>1. /\ reqs' = [reqs EXCEPT ![s] = Idle]
      /\ UNCHANGED <<accounts, tokens>>
  BY DEF CommitLink, Done
<1>2. reqs[s].user \in User \cup {None}
  BY DEF Inv, TypeOK, Request
<1>3. links' \in [Link -> PasswordResetToken]
  BY <1>2 DEF CommitLink, Inv, TypeOK, PasswordResetToken
<1>4. TypeOK'
  BY <1>1, <1>3, IdleSound DEF Inv, TypeOK
<1>5. \A x \in Slot : reqs'[x] \in {reqs[x], Idle}
  BY <1>1 DEF Inv, TypeOK
<1>6. QED
  BY <1>1, <1>4, <1>5, RequestsKept

LEMMA AbortKeepsInv ==
    ASSUME Inv, NEW s \in Slot, Abort(s)
    PROVE  Inv'
<1>1. TypeOK'
  BY IdleSound DEF Abort, Inv, TypeOK
<1>2. \A x \in Slot : reqs'[x] \in {reqs[x], Idle}
  BY DEF Abort, Inv, TypeOK
<1>3. QED
  BY <1>1, <1>2, RequestsKept DEF Abort

Meanwhile == ExpireToken \/ ExpireLink \/ StaffCreate \/ StaffSetActive \/ StaffSetPassword

LEMMA MeanwhileTyped ==
    ASSUME TypeOK, Meanwhile
    PROVE  /\ TypeOK'
           /\ UNCHANGED reqs
           /\ \A t \in Token : /\ tokens'[t].owner = tokens[t].owner
                               /\ tokens'[t].revoked = tokens[t].revoked
                               /\ tokens'[t].login = tokens[t].login
                               /\ tokens'[t].secret = tokens[t].secret
<1>1. CASE ExpireToken
  <2>1. PICK x \in Token : tokens' = [tokens EXCEPT ![x].expired = TRUE]
    BY <1>1 DEF ExpireToken
  <2>2. tokens' \in [Token -> RefreshToken]
    BY <2>1 DEF TypeOK, RefreshToken
  <2>3. QED
    BY <1>1, <2>1, <2>2 DEF ExpireToken, TypeOK
<1>2. CASE ExpireLink
  BY <1>2 DEF ExpireLink, TypeOK, PasswordResetToken
<1>3. CASE StaffCreate
  BY <1>3 DEF StaffCreate, TypeOK, Account
<1>4. CASE StaffSetActive
  BY <1>4 DEF StaffSetActive, TypeOK, Account
<1>5. CASE StaffSetPassword
  BY <1>5 DEF StaffSetPassword, TypeOK, Account
<1>6. QED
  BY <1>1, <1>2, <1>3, <1>4, <1>5 DEF Meanwhile

LEMMA NextKeepsInv == Inv /\ [Next]_vars => Inv'
<1> SUFFICES ASSUME Inv, [Next]_vars PROVE Inv'
  OBVIOUS
<1>1. ASSUME NEW s \in Slot, Begin(s) PROVE Inv'
  BY <1>1, BeginKeepsInv
<1>2. ASSUME NEW s \in Slot,
             \/ CommitSignIn(s) \/ CommitLogout(s) \/ CommitLink(s)
             \/ CommitPassword(s) \/ Abort(s)
      PROVE  Inv'
  BY <1>2, SignInKeepsInv, LogoutKeepsInv, LinkKeepsInv, PasswordKeepsInv, AbortKeepsInv
<1>3. CASE Meanwhile
  BY <1>3, MeanwhileTyped, RequestsKept DEF Inv
<1>4. CASE UNCHANGED vars
  <2>1. TypeOK'
    BY <1>4 DEF vars, Inv, TypeOK
  <2>2. QED
    BY <1>4, <2>1, RequestsKept DEF vars
<1>5. QED
  BY <1>1, <1>2, <1>3, <1>4 DEF Next, Begin, Meanwhile

(***************************************************************************)
(* Every execution keeps it, whatever the requests and their interleaving. *)
(***************************************************************************)
THEOREM Invariance == Spec => []Inv
BY InvInit, NextKeepsInv, PTL DEF Spec

(***************************************************************************)
(* The tables of tokens and links, and the sessions at work on them, stay  *)
(* well typed in every interleaving.                                       *)
(***************************************************************************)
THEOREM SessionsTypeCorrect == Spec => []TypeOK
<1>1. Inv => TypeOK
  BY DEF Inv
<1>2. QED
  BY <1>1, Invariance, PTL

(***************************************************************************)
(* Nobody's tokens are revoked but by a request of their owner's, however  *)
(* requests interleave: revoke_all_user_refresh_tokens selects by user,    *)
(* and refresh and logout take the one token they were given.              *)
(***************************************************************************)
THEOREM OwnersSignOut == Spec => RevokedByOwner
<1>1. ASSUME Inv, Next
      PROVE  \A t \in Token :
               Live(t) /\ tokens'[t].revoked => \E s \in Slot : SignsOut(reqs[s], t)
  <2> SUFFICES ASSUME NEW t \in Token, Live(t), tokens'[t].revoked
               PROVE  \E s \in Slot : SignsOut(reqs[s], t)
    OBVIOUS
  <2>1. ASSUME NEW s \in Slot, t \in reqs[s].victims
        PROVE  \E x \in Slot : SignsOut(reqs[x], t)
    BY <1>1, <2>1 DEF Inv, VictimsOwned
  <2>2. ASSUME tokens' = tokens PROVE FALSE
    BY <2>2 DEF Live
  <2>3. ASSUME NEW s \in Slot, tokens' = Withdraw(reqs[s].victims)
        PROVE  \E x \in Slot : SignsOut(reqs[x], t)
    BY <1>1, <2>1, <2>3, Withdrawing DEF Inv, Live
  <2>4. ASSUME NEW s \in Slot, CommitSignIn(s)
        PROVE  \E x \in Slot : SignsOut(reqs[x], t)
    <3>1. PICK x \in Unissued :
            tokens' = [Withdraw(reqs[s].victims) EXCEPT ![x] = NewToken(reqs[s], x)]
      BY <2>4 DEF CommitSignIn
    <3>2. t # x
      BY <3>1 DEF Unissued, Live
    <3>3. tokens'[t].revoked <=> tokens[t].revoked \/ t \in reqs[s].victims
      BY <1>1, <3>1, <3>2, Withdrawing DEF Inv
    <3>4. QED
      BY <2>1, <3>3 DEF Live
  <2>5. CASE Meanwhile
    BY <1>1, <2>5, MeanwhileTyped DEF Inv, Live
  <2>6. ASSUME NEW s \in Slot, Begin(s)
        PROVE  tokens' = tokens
    BY <1>1, <2>6, BeginLoads DEF Load, Inv
  <2>7. QED
    BY <1>1, <2>2, <2>3, <2>4, <2>5, <2>6
       DEF Next, Begin, Meanwhile, CommitLogout, CommitLink, CommitPassword, Abort
<1>2. Inv /\ [Next]_vars =>
        [\A t \in Token :
           Live(t) /\ tokens'[t].revoked => \E s \in Slot : SignsOut(reqs[s], t)]_vars
  BY <1>1
<1>3. QED
  BY <1>2, Invariance, PTL DEF Spec, RevokedByOwner

-----------------------------------------------------------------------------
(* One request at a time, while the staff feature sets no passwords.       *)

OneRequest == \A s, x \in Slot : s = x

LEMMA BeginSerial ==
    ASSUME Inv, SerialInv, OneRequest, NEW s \in Slot, Begin(s)
    PROVE  SerialInv'
<1>1. PICK r \in Request : Load(s, r)
  BY BeginLoads DEF Inv
<1>2. UNCHANGED <<accounts, tokens, links>> /\ reqs'[s] = r
  BY <1>1 DEF Load, Inv, TypeOK
<1>3. ASSUME NEW t \in Token, Issued(t)
      PROVE  Exists(tokens[t].owner)
  BY <1>3 DEF SerialInv, HistoriesSound
<1>4. InFlight(reqs'[s])
  <2>1. CASE Register(s)
    <3>1. PICK u \in User, p \in Password :
            Fresh(u) /\ Load(s, [Idle EXCEPT !.op = "register", !.user = u, !.new = p])
      BY <2>1 DEF Register
    <3>2. reqs'[s] = [Idle EXCEPT !.op = "register", !.user = u, !.new = p]
      BY <3>1 DEF Load, Inv, TypeOK
    <3>3. QED
      BY <3>1, <3>2 DEF InFlight, Idle, Fresh
  <2>2. CASE Login(s)
    <3>1. PICK u \in User, p \in Password :
            /\ accounts[u].password = p
            /\ Load(s, [Idle EXCEPT !.op = "login", !.user = u, !.current = p])
      BY <2>2 DEF Login
    <3>2. reqs'[s] = [Idle EXCEPT !.op = "login", !.user = u, !.current = p]
      BY <3>1 DEF Load, Inv, TypeOK
    <3>3. QED
      BY <3>1, <3>2, SessionsAssumption DEF InFlight, Idle, Exists
  <2>3. CASE Refresh(s)
    <3>1. PICK x \in Token :
            /\ Live(x)
            /\ Load(s, [Idle EXCEPT !.op = "refresh", !.user = tokens[x].owner, !.token = x,
                                    !.victims = RotatedOnRefresh(x)])
      BY <2>3 DEF Refresh
    <3>2. reqs'[s] = [Idle EXCEPT !.op = "refresh", !.user = tokens[x].owner, !.token = x,
                                  !.victims = {x}]
      BY <3>1 DEF Load, Inv, TypeOK, RotatedOnRefresh
    <3>3. Exists(tokens[x].owner)
      BY <1>3, <3>1 DEF Live
    <3>4. QED
      BY <3>1, <3>2, <3>3 DEF InFlight, Idle
  <2>4. CASE Logout(s)
    <3>1. PICK x \in Token :
            /\ Live(x)
            /\ Load(s, [Idle EXCEPT !.op = "logout", !.user = tokens[x].owner, !.token = x,
                                    !.victims = {x}])
      BY <2>4 DEF Logout
    <3>2. reqs'[s] = [Idle EXCEPT !.op = "logout", !.user = tokens[x].owner, !.token = x,
                                  !.victims = {x}]
      BY <3>1 DEF Load, Inv, TypeOK
    <3>3. Exists(tokens[x].owner)
      BY <1>3, <3>1 DEF Live
    <3>4. QED
      BY <3>1, <3>2, <3>3 DEF InFlight, Idle
  <2>5. CASE ForgotPassword(s)
    <3>1. PICK u \in User :
            Exists(u) /\ Load(s, [Idle EXCEPT !.op = "forgot", !.user = u])
      BY <2>5 DEF ForgotPassword
    <3>2. reqs'[s] = [Idle EXCEPT !.op = "forgot", !.user = u]
      BY <3>1 DEF Load, Inv, TypeOK
    <3>3. QED
      BY <3>1, <3>2 DEF InFlight, Idle
  <2>6. CASE ResetPassword(s)
    <3>1. PICK k \in Link, p \in Password :
            /\ Acceptable(k)
            /\ Load(s, [Idle EXCEPT !.op = "reset", !.user = links[k].owner, !.link = k,
                                    !.new = p, !.victims = LiveTokensOf(links[k].owner)])
      BY <2>6 DEF ResetPassword
    <3>2. reqs'[s] = [Idle EXCEPT !.op = "reset", !.user = links[k].owner, !.link = k,
                                  !.new = p, !.victims = LiveTokensOf(links[k].owner)]
      BY <3>1 DEF Load, Inv, TypeOK
    <3>3. Exists(links[k].owner)
      BY <3>1 DEF SerialInv, Acceptable
    <3>4. QED
      BY <3>1, <3>2, <3>3 DEF InFlight, Idle, Acceptable
  <2>7. CASE ChangePassword(s)
    <3>1. PICK u \in User, p \in Password :
            /\ Exists(u)
            /\ Load(s, [Idle EXCEPT !.op = "change", !.user = u,
                                    !.current = accounts[u].password, !.new = p,
                                    !.victims = LiveTokensOf(u)])
      BY <2>7 DEF ChangePassword
    <3>2. reqs'[s] = [Idle EXCEPT !.op = "change", !.user = u,
                                  !.current = accounts[u].password, !.new = p,
                                  !.victims = LiveTokensOf(u)]
      BY <3>1 DEF Load, Inv, TypeOK
    <3>3. QED
      BY <3>1, <3>2 DEF InFlight, Idle
  <2>8. QED
    BY <2>1, <2>2, <2>3, <2>4, <2>5, <2>6, <2>7 DEF Begin
<1>5. \A x \in Slot : InFlight(reqs'[x])
  BY <1>4 DEF OneRequest
<1>6. QED
  BY <1>2, <1>5 DEF SerialInv, HistoriesSound, LiveSessionsKnowPassword, OneLivePerLogin,
                    InFlight, Issued, Live, Unissued, Exists, LiveTokensOf

LEMMA IdleInFlight == InFlight(Idle) /\ InFlight(Idle)'
BY DEF InFlight, Idle

LEMMA SignInSerial ==
    ASSUME Inv, SerialInv, OneRequest, NEW s \in Slot, CommitSignIn(s)
    PROVE  SerialInv'
<1> DEFINE r == reqs[s]
<1>1. r \in Request /\ r.user \in User /\ r.op \in {"register", "login", "refresh"}
  BY DEF Inv, TypeOK, Named, CommitSignIn, Done
<1>2. PICK t \in Unissued : tokens' = [Withdraw(r.victims) EXCEPT ![t] = NewToken(r, t)]
  BY DEF CommitSignIn
<1>3. t \in Token /\ ~Issued(t)
  BY DEF Unissued
<1>4. InFlight(r)
  BY DEF SerialInv
<1>5. \A x \in Token \ {t} :
        /\ tokens'[x].owner = tokens[x].owner
        /\ tokens'[x].login = tokens[x].login
        /\ tokens'[x].secret = tokens[x].secret
        /\ tokens'[x].revoked <=> tokens[x].revoked \/ x \in r.victims
  BY <1>2, <1>3, Withdrawing DEF Inv
<1>6. tokens'[t] = NewToken(r, t)
  BY <1>2, <1>3, Withdrawing DEF Inv
<1>7. r.op = "refresh" => /\ r.token \in Token \ {t}
                          /\ Live(r.token) /\ tokens[r.token].owner = r.user
                          /\ r.victims = {r.token}
  BY <1>3, <1>4 DEF InFlight, Inv, Named, Live
<1>8. /\ tokens'[t].owner = r.user /\ ~tokens'[t].revoked
      /\ tokens'[t].login = IF r.op = "refresh" THEN tokens[r.token].login ELSE t
  BY <1>6 DEF NewToken
<1>9. /\ accounts'[r.user].password # None
      /\ \A u \in User : Exists(u) => accounts'[u].password = accounts[u].password
  <2>1. CASE r.op = "register"
    <3>1. accounts' = [accounts EXCEPT ![r.user] = [active |-> TRUE, password |-> r.new]]
      BY <2>1 DEF CommitSignIn
    <3>2. ~Exists(r.user) /\ r.new \in Password
      BY <1>4, <2>1 DEF InFlight
    <3>3. QED
      BY <1>1, <3>1, <3>2, SessionsAssumption DEF Exists, Inv, TypeOK
  <2>2. CASE r.op # "register"
    BY <1>1, <1>4, <2>2 DEF CommitSignIn, InFlight, Exists
  <2>3. QED
    BY <2>1, <2>2
<1>10. tokens'[t].secret = accounts'[r.user].password
  <2>1. CASE r.op = "register"
    BY <1>1, <1>6, <2>1 DEF CommitSignIn, NewToken, Inv, TypeOK
  <2>2. CASE r.op = "login"
    BY <1>4, <1>6, <2>2 DEF CommitSignIn, NewToken, InFlight
  <2>3. CASE r.op = "refresh"
    BY <1>6, <1>7, <2>3 DEF CommitSignIn, NewToken, SerialInv, LiveSessionsKnowPassword
  <2>4. QED
    BY <1>1, <2>1, <2>2, <2>3
<1>11. \A x \in Token : Issued(x) => x # t /\ tokens[x].owner \in User /\ Exists(tokens[x].owner)
  BY <1>3 DEF SerialInv, HistoriesSound, Inv, TypeOK, RefreshToken, Issued
<1>12. HistoriesSound'
  <2>1. ASSUME NEW x \in Token, Issued(x)
        PROVE  Issued(x)' /\ Exists(tokens[x].owner)'
    BY <1>5, <1>9, <1>11, <2>1 DEF Issued, Exists
  <2>2. Issued(t)'
    BY <1>1, <1>8, SessionsAssumption DEF Issued
  <2>3. ASSUME NEW x \in Token, Issued(x)
        PROVE  tokens[x].login \in Token /\ tokens'[tokens[x].login].owner # None
    BY <2>1, <2>3 DEF SerialInv, HistoriesSound, Unissued, Issued
  <2>4. tokens'[t].login \in Token /\ tokens'[tokens'[t].login].owner # None
    BY <1>3, <1>7, <1>8, <2>2, <2>3 DEF Live, Issued
  <2>5. \A x \in Token : Issued(x)' => x = t \/ Issued(x)
    BY <1>5 DEF Issued
  <2>6. ASSUME NEW x \in Token, Issued(x)'
        PROVE  /\ accounts'[tokens'[x].owner].password # None
               /\ tokens'[x].login \in Token /\ tokens'[tokens'[x].login].owner # None
    <3>1. CASE x = t
      BY <1>8, <1>9, <2>4, <3>1
    <3>2. CASE x # t
      BY <1>5, <2>1, <2>3, <2>5, <2>6, <3>2 DEF Exists
    <3>3. QED
      BY <3>1, <3>2
  <2>7. QED
    BY <2>6 DEF HistoriesSound, Unissued, Issued, Exists
<1>13. LiveSessionsKnowPassword'
  <2> SUFFICES ASSUME NEW x \in Token, Live(x)'
               PROVE  tokens'[x].secret = accounts'[tokens'[x].owner].password
    BY DEF LiveSessionsKnowPassword
  <2>1. CASE x = t
    BY <1>8, <1>10, <2>1
  <2>2. CASE x # t
    BY <1>5, <1>9, <1>11, <2>2 DEF Live, Issued, SerialInv, LiveSessionsKnowPassword
  <2>3. QED
    BY <2>1, <2>2
<1>14. OneLivePerLogin'
  <2>1. ASSUME NEW x \in Token \ {t}, Live(x)'
        PROVE  Live(x) /\ x \notin r.victims /\ tokens'[x].login = tokens[x].login
    BY <1>5, <2>1 DEF Live, Issued
  <2>2. ASSUME NEW x \in Token \ {t}, Live(x)'
        PROVE  tokens'[x].login # tokens'[t].login
    <3>1. CASE r.op = "refresh"
      BY <1>7, <1>8, <2>1, <2>2, <3>1 DEF SerialInv, OneLivePerLogin
    <3>2. CASE r.op # "refresh"
      BY <1>3, <1>8, <2>1, <2>2, <3>2 DEF SerialInv, HistoriesSound, Unissued, Live
    <3>3. QED
      BY <3>1, <3>2
  <2>3. ASSUME NEW x \in Token \ {t}, NEW y \in Token \ {t}, Live(x)', Live(y)',
               tokens'[x].login = tokens'[y].login
        PROVE  x = y
    BY <2>1, <2>3 DEF SerialInv, OneLivePerLogin
  <2>4. QED
    BY <2>2, <2>3 DEF OneLivePerLogin
<1>15. \A k \in Link : (links[k].owner # None => Exists(links[k].owner))'
  BY <1>9 DEF CommitSignIn, SerialInv, Inv, TypeOK, PasswordResetToken, Exists
<1>16. \A x \in Slot : InFlight(reqs[x])'
  BY IdleInFlight DEF CommitSignIn, Done, OneRequest, Inv, TypeOK
<1>17. QED
  BY <1>12, <1>13, <1>14, <1>15, <1>16 DEF SerialInv

LEMMA PasswordSerial ==
    ASSUME Inv, SerialInv, OneRequest, NEW s \in Slot, CommitPassword(s)
    PROVE  SerialInv'
<1> DEFINE r == reqs[s]
<1>1. r \in Request /\ r.user \in User /\ r.op \in {"reset", "change"}
  BY DEF Inv, TypeOK, Named, CommitPassword, Done
<1>2. r.new \in Password /\ r.victims = LiveTokensOf(r.user)
  BY <1>1 DEF SerialInv, InFlight
<1>3. \A x \in Token :
        /\ tokens'[x].owner = tokens[x].owner
        /\ tokens'[x].login = tokens[x].login
        /\ tokens'[x].secret = tokens[x].secret
        /\ tokens'[x].revoked <=> tokens[x].revoked \/ x \in r.victims
  BY Withdrawing DEF CommitPassword, Inv
<1>4. \A u \in User :
        accounts'[u].password = IF u = r.user THEN r.new ELSE accounts[u].password
  BY <1>1 DEF CommitPassword, Inv, TypeOK, Account
<1>5. \A u \in User : Exists(u) => Exists(u)'
  BY <1>2, <1>4, SessionsAssumption DEF Exists
<1>6. \A x \in Token : Issued(x) => tokens[x].owner \in User
  BY DEF Issued, Inv, TypeOK, RefreshToken
<1>7. HistoriesSound'
  BY <1>3, <1>5, <1>6 DEF SerialInv, HistoriesSound, Issued, Unissued
<1>8. \A x \in Token : Live(x)' => Live(x) /\ tokens[x].owner # r.user
  BY <1>2, <1>3 DEF Live, Issued, LiveTokensOf
<1>9. LiveSessionsKnowPassword'
  BY <1>3, <1>4, <1>6, <1>8 DEF SerialInv, LiveSessionsKnowPassword, Live
<1>10. OneLivePerLogin'
  BY <1>3, <1>8 DEF SerialInv, OneLivePerLogin
<1>11. \A k \in Link : (links[k].owner # None => Exists(links[k].owner))'
  BY <1>5 DEF CommitPassword, SerialInv, Inv, TypeOK, PasswordResetToken
<1>12. \A x \in Slot : InFlight(reqs[x])'
  BY IdleInFlight DEF CommitPassword, Done, OneRequest, Inv, TypeOK
<1>13. QED
  BY <1>7, <1>9, <1>10, <1>11, <1>12 DEF SerialInv

LEMMA OtherCommitsSerial ==
    ASSUME Inv, SerialInv, OneRequest, NEW s \in Slot,
           CommitLogout(s) \/ CommitLink(s) \/ Abort(s)
    PROVE  SerialInv'
<1>1. accounts' = accounts /\ reqs' = [reqs EXCEPT ![s] = Idle]
  BY DEF CommitLogout, CommitLink, Abort, Done
<1>2. \A x \in Token :
        /\ tokens'[x].owner = tokens[x].owner
        /\ tokens'[x].login = tokens[x].login
        /\ tokens'[x].secret = tokens[x].secret
        /\ tokens[x].revoked => tokens'[x].revoked
  BY Withdrawing DEF CommitLogout, CommitLink, Abort, Inv
<1>3. HistoriesSound' /\ LiveSessionsKnowPassword' /\ OneLivePerLogin'
  BY <1>1, <1>2 DEF SerialInv, HistoriesSound, LiveSessionsKnowPassword, OneLivePerLogin,
                    Live, Issued, Unissued, Exists
<1>4. \A k \in Link : (links[k].owner # None => Exists(links[k].owner))'
  <2>1. CASE CommitLink(s)
    <3>1. PICK k \in Link : links' = [links EXCEPT ![k].owner = reqs[s].user]
      BY <2>1 DEF CommitLink
    <3>2. reqs[s].op = "forgot"
      BY <2>1 DEF CommitLink, Done
    <3>3. Exists(reqs[s].user)
      BY <3>2 DEF SerialInv, InFlight
    <3>4. \A x \in Link : links'[x].owner \in {links[x].owner, reqs[s].user}
      BY <3>1 DEF Inv, TypeOK, PasswordResetToken
    <3>5. QED
      BY <1>1, <3>3, <3>4 DEF SerialInv, Exists
  <2>2. CASE CommitLogout(s) \/ Abort(s)
    BY <2>2 DEF CommitLogout, Abort, SerialInv, Exists
  <2>3. QED
    BY <2>1, <2>2
<1>5. \A x \in Slot : InFlight(reqs[x])'
  BY <1>1, IdleInFlight DEF OneRequest, Inv, TypeOK
<1>6. QED
  BY <1>1, <1>3, <1>4, <1>5 DEF SerialInv, Exists

(***************************************************************************)
(* What others do to the accounts is no surprise to the request in flight. *)
(***************************************************************************)
LEMMA AccountsKept ==
    ASSUME Inv, Meanwhile, ~StaffSetPassword
    PROVE  /\ \A u \in User : Exists(u) => accounts'[u].password = accounts[u].password
           /\ \A s \in Slot : reqs[s].user \in User =>
                accounts'[reqs[s].user].password = accounts[reqs[s].user].password
           /\ \A k \in Link : /\ links'[k].owner = links[k].owner
                              /\ links'[k].used = links[k].used
<1>1. CASE ExpireToken
  BY <1>1 DEF ExpireToken
<1>2. CASE ExpireLink
  BY <1>2 DEF ExpireLink, Inv, TypeOK, PasswordResetToken
<1>3. CASE StaffCreate
  BY <1>3 DEF StaffCreate, Fresh, Inv, TypeOK
<1>4. CASE StaffSetActive
  BY <1>4 DEF StaffSetActive, Inv, TypeOK, Account
<1>5. QED
  BY <1>1, <1>2, <1>3, <1>4 DEF Meanwhile

LEMMA MeanwhileSerial ==
    ASSUME Inv, SerialInv, Meanwhile, ~StaffSetPassword
    PROVE  SerialInv'
<1>1. /\ UNCHANGED reqs
      /\ \A t \in Token : /\ tokens'[t].owner = tokens[t].owner
                          /\ tokens'[t].revoked = tokens[t].revoked
                          /\ tokens'[t].login = tokens[t].login
                          /\ tokens'[t].secret = tokens[t].secret
  BY MeanwhileTyped DEF Inv
<1>2. \A t \in Token : Issued(t) => tokens[t].owner \in User
  BY DEF Issued, Inv, TypeOK, RefreshToken
<1>3. \A k \in Link : links[k].owner # None => links[k].owner \in User
  BY DEF Inv, TypeOK, PasswordResetToken
<1>4. HistoriesSound' /\ LiveSessionsKnowPassword' /\ OneLivePerLogin'
  BY <1>1, <1>2, AccountsKept
     DEF SerialInv, HistoriesSound, LiveSessionsKnowPassword, OneLivePerLogin,
         Live, Issued, Unissued, Exists
<1>5. \A k \in Link : (links[k].owner # None => Exists(links[k].owner))'
  BY <1>3, AccountsKept DEF SerialInv, Exists
<1>6. ASSUME NEW s \in Slot
      PROVE  InFlight(reqs[s])'
  <2> DEFINE r == reqs[s]
  <2>1. InFlight(r) /\ Named(r)
    BY DEF SerialInv, Inv
  <2>2. \A u : LiveTokensOf(u)' = LiveTokensOf(u)
    BY <1>1 DEF LiveTokensOf
  <2>3. r.op # "idle" => accounts'[r.user].password = accounts[r.user].password
    BY <2>1, AccountsKept DEF Named
  <2>4. InFlight(r)'
    BY <1>1, <2>1, <2>2, <2>3, AccountsKept DEF InFlight, Named, Exists, Live, Issued
  <2>5. QED
    BY <1>1, <2>4
<1>7. QED
  BY <1>4, <1>5, <1>6 DEF SerialInv

(***************************************************************************)
(* With one request at a time and no password set by staff, the invariant  *)
(* behind the serial theorems holds of every execution.                    *)
(***************************************************************************)
THEOREM SerialInvariance ==
    ASSUME OneRequest, "staff_password" \notin Endpoints
    PROVE  Spec => []SerialInv
<1>1. Init => SerialInv
  <2> SUFFICES ASSUME Init PROVE SerialInv
    OBVIOUS
  <2>1. \A t \in Token : ~Issued(t)
    BY DEF Init, Issued
  <2>2. \A s \in Slot : InFlight(reqs[s])
    BY IdleInFlight DEF Init
  <2>3. QED
    BY <2>1, <2>2 DEF Init, SerialInv, HistoriesSound, LiveSessionsKnowPassword,
                      OneLivePerLogin, Live
<1>2. Inv /\ SerialInv /\ [Next]_vars => SerialInv'
  <2> SUFFICES ASSUME Inv, SerialInv, [Next]_vars PROVE SerialInv'
    OBVIOUS
  <2>1. ASSUME NEW s \in Slot,
               \/ Begin(s) \/ CommitSignIn(s) \/ CommitLogout(s) \/ CommitLink(s)
               \/ CommitPassword(s) \/ Abort(s)
        PROVE  SerialInv'
    BY <2>1, BeginSerial, SignInSerial, PasswordSerial, OtherCommitsSerial
  <2>2. ~StaffSetPassword
    BY DEF StaffSetPassword
  <2>3. CASE Meanwhile
    BY <2>2, <2>3, MeanwhileSerial
  <2>4. CASE UNCHANGED vars
    BY <2>4 DEF vars, SerialInv, HistoriesSound, LiveSessionsKnowPassword, OneLivePerLogin,
                InFlight, Live, Issued, Unissued, Exists, LiveTokensOf
  <2>5. QED
    BY <2>1, <2>3, <2>4 DEF Next, Begin, Meanwhile
<1>3. QED
  BY <1>1, <1>2, Invariance, PTL DEF Spec

(***************************************************************************)
(* With one request at a time, a usable refresh token goes back to the     *)
(* password its owner has now: changing it signs every session out.        *)
(***************************************************************************)
THEOREM SerialSessions ==
    ASSUME OneRequest, "staff_password" \notin Endpoints
    PROVE  Spec => []LiveSessionsKnowPassword
<1>1. SerialInv => LiveSessionsKnowPassword
  BY DEF SerialInv
<1>2. QED
  BY <1>1, SerialInvariance, PTL

(***************************************************************************)
(* With one request at a time, a sign-in leaves one usable refresh token   *)
(* at most: the rotation revokes the one it was shown.                     *)
(***************************************************************************)
THEOREM SerialRotation ==
    ASSUME OneRequest, "staff_password" \notin Endpoints
    PROVE  Spec => []OneLivePerLogin
<1>1. SerialInv => OneLivePerLogin
  BY DEF SerialInv
<1>2. QED
  BY <1>1, SerialInvariance, PTL

(***************************************************************************)
(* And every replaced password was proved: by a reset link that had not    *)
(* been used, or by the password that is replaced.                         *)
(***************************************************************************)
THEOREM SerialPasswordChanges ==
    ASSUME OneRequest, "staff_password" \notin Endpoints
    PROVE  Spec => PasswordChangeProved
<1>1. ASSUME Inv, SerialInv, Next, NEW u \in User,
             Exists(u), accounts'[u].password # accounts[u].password
      PROVE  Proved(u)
  <2>1. ASSUME NEW s \in Slot, CommitPassword(s)
        PROVE  Proved(u)
    <3> DEFINE r == reqs[s]
    <3>1. r.user = u
      BY <1>1, <2>1 DEF CommitPassword, Inv, TypeOK, Account
    <3>2. CASE r.op = "reset"
      <4>1. r.link \in Link /\ links[r.link].owner = u /\ ~links[r.link].used
        BY <1>1, <3>1, <3>2 DEF Inv, Named, SerialInv, InFlight
      <4>2. links'[r.link].used
        BY <1>1, <2>1, <4>1 DEF CommitPassword, Inv, TypeOK, PasswordResetToken
      <4>3. QED
        BY <4>1, <4>2 DEF Proved
    <3>3. CASE r.op = "change"
      BY <1>1, <3>1, <3>3 DEF SerialInv, InFlight, Proved
    <3>4. QED
      BY <2>1, <3>2, <3>3 DEF CommitPassword, Done
  <2>2. ASSUME NEW s \in Slot, CommitSignIn(s)
        PROVE  FALSE
    BY <1>1, <2>2 DEF CommitSignIn, Inv, TypeOK
  <2>3. ASSUME NEW s \in Slot, Begin(s)
        PROVE  FALSE
    BY <1>1, <2>3, BeginLoads DEF Load, Inv
  <2>4. CASE Meanwhile
    BY <1>1, <2>4, AccountsKept DEF StaffSetPassword
  <2>5. QED
    BY <1>1, <2>1, <2>2, <2>3, <2>4
       DEF Next, Begin, Meanwhile, CommitLogout, CommitLink, Abort
<1>2. Inv /\ SerialInv /\ [Next]_vars =>
        [\A u \in User :
           Exists(u) /\ accounts'[u].password # accounts[u].password => Proved(u)]_vars
  BY <1>1
<1>3. QED
  BY <1>2, Invariance, SerialInvariance, PTL DEF Spec, PasswordChangeProved

=============================================================================
