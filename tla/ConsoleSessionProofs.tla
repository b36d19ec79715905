------------------------ MODULE ConsoleSessionProofs ------------------------
(***************************************************************************)
(* Proofs about ConsoleSession for any number of users, logins, requests,  *)
(* threads, faults and password changes.                                   *)
(***************************************************************************)
EXTENDS ConsoleSession, FiniteSetTheorems, TLAPS

-----------------------------------------------------------------------------
(* Types                                                                   *)

\* Every step leaves the rows of users alone but these.
WritesUsers ==
  \/ \E l \in Logins : SetLockedUntil(l) \/ Unlock(l)
  \/ \E r \in Requests : CreateUser(r) \/ UpdateUser(r) \/ UpdatePartly(r) \/ RoleLine(r)
                           \/ ResetPassword(r)
  \/ \E u \in Users : SetPassword(u)

LEMMA UsersUntouched ==
  ASSUME Next, ~WritesUsers
  PROVE  UNCHANGED <<userVars, roleLine>>
<1>1. ASSUME NEW l \in Logins, Login(l) PROVE UNCHANGED <<userVars, roleLine>>
  BY <1>1 DEF WritesUsers, Login, Begin, UnknownUser, ShutOut, ReadUser, Verify,
     RecordAttempt, CountAttempts, ClearAttempts, CreateSession, LoginFault, ghostVars
<1>2. ASSUME NEW r \in Requests, Handler(r) PROVE UNCHANGED <<userVars, roleLine>>
  <2>1. ASSUME NEW s \in open, NEW ask \in Asks, Extract(r, s, ask)
        PROVE  UNCHANGED <<userVars, roleLine>>
    BY <2>1 DEF Extract, ghostVars
  <2>2. CASE Refuse(r) \/ Logout(r) \/ Snapshot(r)
    BY <2>2 DEF Refuse, Logout, Snapshot, ghostVars
  <2>3. CASE SweepSessions(r) \/ RotateCsrf(r) \/ RequestFault(r)
    BY <2>3 DEF SweepSessions, RotateCsrf, RequestFault, ghostVars
  <2> QED BY <1>2, <2>1, <2>2, <2>3 DEF WritesUsers, Handler
<1>3. ASSUME NEW s \in open, Browse(s) \/ Expire(s) PROVE UNCHANGED <<userVars, roleLine>>
  BY <1>3 DEF Browse, Expire, ghostVars
<1>4. PruneSessions \/ PruneAttempts \/ Tick \/ Crash => UNCHANGED <<userVars, roleLine>>
  BY DEF PruneSessions, PruneAttempts, Tick, Crash, ghostVars
<1> QED BY <1>1, <1>2, <1>3, <1>4 DEF Next, WritesUsers

\* The transaction of a new password.
LEMMA NewPasswordType ==
  ASSUME UserTypes, NEW u \in exists, NewPassword(u)
  PROVE  password' \in [Users -> 0..MaxPassword]
<1>1. password[u] \in 0..MaxPassword /\ MaxPassword \in Nat
  BY ConstantsAssumption DEF UserTypes
<1>2. password[u] + 1 \in 0..MaxPassword
  BY <1>1 DEF NewPassword
<1> QED BY <1>2 DEF UserTypes, NewPassword

LEMMA UserStep ==
  ASSUME TypeOK, [Next]_vars PROVE UserTypes'
<1> USE DEF TypeOK
<1>1. ASSUME NEW l \in Logins, SetLockedUntil(l) PROVE UserTypes'
  <2>1. now + Lockout \in Int
    BY ConstantsAssumption DEF CounterTypes
  <2> QED BY <1>1, <2>1 DEF SetLockedUntil, UserTypes, ghostVars
<1>2. ASSUME NEW l \in Logins, Unlock(l) PROVE UserTypes'
  <2>1. Null \in Int
    BY DEF Null
  <2> QED BY <1>2, <2>1 DEF Unlock, UserTypes, ghostVars
<1>3. ASSUME NEW r \in Requests PROVE request[r].patch.role \in Roles \cup {Keep}
                                       /\ request[r].patch.disabled \in {"yes", "no", Keep}
                                       /\ request[r].target \in Users
  BY DEF RequestTypes, RequestType, Patch
<1>4. ASSUME NEW r \in Requests, CreateUser(r) PROVE UserTypes'
  BY <1>3, <1>4 DEF CreateUser, UserTypes
<1>5. ASSUME NEW r \in Requests, UpdateUser(r) PROVE UserTypes'
  BY <1>3, <1>5 DEF UpdateUser, Written, UserTypes, ghostVars
<1>6. ASSUME NEW r \in Requests, UpdatePartly(r) PROVE UserTypes'
  BY <1>3, <1>6 DEF UpdatePartly, Written, UserTypes, ghostVars
<1>7. ASSUME NEW r \in Requests, RoleLine(r) PROVE UserTypes'
  <2>1. request[r].patch.role \in Roles
    BY <1>3, <1>7 DEF RoleLine, RequestTypes
  <2> QED BY <1>7, <2>1 DEF RoleLine, UserTypes, userVars
<1>8. ASSUME NEW r \in Requests, ResetPassword(r) PROVE UserTypes'
  BY <1>8, NewPasswordType DEF ResetPassword, UserTypes
<1>9. ASSUME NEW u \in Users, SetPassword(u) PROVE UserTypes'
  BY <1>9, NewPasswordType DEF SetPassword, UserTypes
<1>10. CASE UNCHANGED <<userVars, roleLine>>
  BY <1>10 DEF userVars, UserTypes
<1>11. UNCHANGED vars => UNCHANGED <<userVars, roleLine>>
  BY DEF vars, ghostVars
<1> QED BY <1>1, <1>2, <1>4, <1>5, <1>6, <1>7, <1>8, <1>9, <1>10, <1>11, UsersUntouched
        DEF WritesUsers

\* A step of one login from one place to another, with what it carries.
Moves(l, step) ==
  /\ login[l].at # "in"
  /\ login' = [login EXCEPT ![l].at = step]
  /\ UNCHANGED <<password, open, overlapped>>

\* Steps of a login that only move it on.
LEMMA MoveSteps ==
  ASSUME NEW l \in Logins, Login(l),
         ~(\E t \in Tries : Begin(l, t)), ~ReadUser(l), ~CreateSession(l)
  PROVE  \E step \in {"verify", "record", "count", "lock", "clear", "unlock", "create",
                      "done"} :
           Moves(l, step) /\ (step # "done" => HasRead(l))
<1>1. CASE UnknownUser(l) \/ ShutOut(l)
  BY <1>1 DEF UnknownUser, ShutOut, LoginTo, Moves, userVars, sessionVars, ghostVars
<1>2. CASE Verify(l)
  BY <1>2 DEF Verify, LoginTo, Moves, HasRead, userVars, sessionVars, ghostVars
<1>3. CASE RecordAttempt(l) \/ CountAttempts(l) \/ SetLockedUntil(l)
  BY <1>3 DEF RecordAttempt, CountAttempts, SetLockedUntil, LoginTo, Moves, HasRead,
     userVars, sessionVars, ghostVars
<1>4. CASE ClearAttempts(l) \/ Unlock(l)
  BY <1>4 DEF ClearAttempts, Unlock, LoginTo, Moves, HasRead, userVars, sessionVars,
     ghostVars
<1>5. CASE LoginFault(l)
  BY <1>5 DEF LoginFault, AfterFault, LoginTo, Moves, HasRead, userVars, sessionVars,
     ghostVars
<1> QED BY <1>1, <1>2, <1>3, <1>4, <1>5 DEF Login

\* What a step of a login leaves alone.
LoginLeaves(l) ==
  /\ now' = now /\ threads' = threads /\ request' = request
  /\ overlapped' = overlapped /\ roleLine' = roleLine
  /\ role' = role /\ exists' = exists /\ csrf' = csrf
  /\ faults' = faults \/ (faults < MaxFaults /\ faults' = faults + 1)
  /\ open' \subseteq open \cup {l}
  /\ CreateSession(l) \/ (expires' = expires /\ seen' = seen)
  /\ SetLockedUntil(l) \/ Unlock(l) \/ lockedUntil' = lockedUntil
  /\ UnknownUser(l) \/ RecordAttempt(l) \/ ClearAttempts(l) \/ failedAt' = failedAt

LEMMA LoginFrame ==
  ASSUME NEW l \in Logins, Login(l) PROVE LoginLeaves(l)
<1> USE DEF LoginLeaves, userVars, sessionVars, ghostVars
<1>1. ASSUME NEW t \in Tries, Begin(l, t) PROVE LoginLeaves(l)
  BY <1>1 DEF Begin
<1>2. CASE UnknownUser(l)
  BY <1>2 DEF UnknownUser
<1>3. CASE ShutOut(l)
  BY <1>3 DEF ShutOut
<1>4. CASE ReadUser(l)
  BY <1>4 DEF ReadUser
<1>5. CASE Verify(l)
  BY <1>5 DEF Verify
<1>6. CASE RecordAttempt(l)
  BY <1>6 DEF RecordAttempt
<1>7. CASE CountAttempts(l)
  BY <1>7 DEF CountAttempts
<1>8. CASE SetLockedUntil(l)
  BY <1>8 DEF SetLockedUntil
<1>9. CASE ClearAttempts(l)
  BY <1>9 DEF ClearAttempts
<1>10. CASE Unlock(l)
  BY <1>10 DEF Unlock
<1>11. CASE CreateSession(l)
  BY <1>11 DEF CreateSession
<1>12. CASE LoginFault(l)
  BY <1>12 DEF LoginFault
<1> HIDE DEF LoginLeaves
<1> QED BY <1>1, <1>2, <1>3, <1>4, <1>5, <1>6, <1>7, <1>8, <1>9, <1>10, <1>11, <1>12
        DEF Login

\* What a step of a console handler leaves alone.
HandlerLeaves(r) ==
  /\ now' = now /\ threads' = threads /\ login' = login /\ failedAt' = failedAt
  /\ lockedUntil' = lockedUntil
  /\ open' \subseteq open /\ exists \subseteq exists'
  /\ faults' = faults \/ (faults < MaxFaults /\ faults' = faults + 1)
  /\ RotateCsrf(r) \/ csrf' = csrf
  /\ \/ \E s \in open : \E ask \in Asks : Extract(r, s, ask)
     \/ RotateCsrf(r)
     \/ expires' = expires /\ seen' = seen
  /\ ResetPassword(r) \/ (password' = password /\ overlapped' = overlapped)

LEMMA HandlerFrame ==
  ASSUME NEW r \in Requests, Handler(r) PROVE HandlerLeaves(r)
<1> USE DEF HandlerLeaves, userVars, sessionVars, ghostVars
<1>1. ASSUME NEW s \in open, NEW ask \in Asks, Extract(r, s, ask) PROVE HandlerLeaves(r)
  BY <1>1 DEF Extract
<1>2. CASE Refuse(r)
  BY <1>2 DEF Refuse
<1>3. CASE Logout(r)
  BY <1>3 DEF Logout
<1>4. CASE CreateUser(r)
  BY <1>4 DEF CreateUser
<1>5. CASE Snapshot(r)
  BY <1>5 DEF Snapshot
<1>6. CASE UpdateUser(r)
  BY <1>6 DEF UpdateUser
<1>7. CASE UpdatePartly(r)
  BY <1>7 DEF UpdatePartly
<1>8. CASE SweepSessions(r)
  BY <1>8 DEF SweepSessions
<1>9. CASE RoleLine(r)
  BY <1>9 DEF RoleLine
<1>10. CASE ResetPassword(r)
  BY <1>10 DEF ResetPassword, NewPassword
<1>11. CASE RotateCsrf(r)
  BY <1>11 DEF RotateCsrf
<1>12. CASE RequestFault(r)
  BY <1>12 DEF RequestFault
<1> HIDE DEF HandlerLeaves
<1> QED BY <1>1, <1>2, <1>3, <1>4, <1>5, <1>6, <1>7, <1>8, <1>9, <1>10, <1>11, <1>12
        DEF Handler

\* What the steps of requests, of the sweep task, of the clock and of the
\* command-line tool do to logins and their sessions.
LEMMA LoginsUntouched ==
  ASSUME Next, ~(\E l \in Logins : Login(l)), ~Crash
  PROVE  login' = login /\ open' \subseteq open
<1>1. ASSUME NEW r \in Requests, Handler(r) PROVE login' = login /\ open' \subseteq open
  BY <1>1, HandlerFrame DEF HandlerLeaves
<1>2. ASSUME NEW s \in open, Browse(s) \/ Expire(s) PROVE login' = login /\ open' \subseteq open
  BY <1>2 DEF Browse, Expire
<1>3. ASSUME NEW u \in Users, SetPassword(u) PROVE login' = login /\ open' \subseteq open
  BY <1>3 DEF SetPassword, NewPassword
<1>4. PruneSessions \/ PruneAttempts \/ Tick => login' = login /\ open' \subseteq open
  BY DEF PruneSessions, PruneAttempts, Tick, sessionVars
<1> QED BY <1>1, <1>2, <1>3, <1>4 DEF Next

\* A login keeps its type, and its session stays that of a login that is in.
LEMMA LoginRecordStep ==
  ASSUME TypeOK, [Next]_vars
  PROVE  /\ login' \in [Logins -> LoginType]
         /\ open' \in SUBSET {l \in Logins : login'[l].at = "in"}
<1> USE DEF TypeOK, LoginTypes, SessionTypes
<1> DEFINE Goal == /\ login' \in [Logins -> LoginType]
                   /\ open' \in SUBSET {l \in Logins : login'[l].at = "in"}
<1>1. ASSUME NEW l \in Logins, NEW t \in Tries, Begin(l, t) PROVE Goal
  <2>1. t.user \in Users /\ t.guess \in Null..MaxPassword
    BY ConstantsAssumption DEF Try
  <2>2. open' = open /\ login[l].at = "idle"
    BY <1>1 DEF Begin, sessionVars
  <2>3. \E step \in {"read", "done"} :
          login' = [login EXCEPT ![l].user = t.user, ![l].guess = t.guess,
                                 ![l].from = t.from, ![l].at = step]
    BY <1>1 DEF Begin
  <2> QED BY <2>1, <2>2, <2>3 DEF LoginType
<1>2. ASSUME NEW l \in Logins, ReadUser(l) PROVE Goal
  <2> DEFINE u == login[l].user
  <2>1. u \in Users /\ password[u] \in 0..MaxPassword /\ role[u] \in Roles
    BY <1>2 DEF LoginType, UserTypes
  <2>2. password[u] \in Null..MaxPassword
    BY <2>1, ConstantsAssumption DEF Null
  <2>3. open' = open /\ login[l].at = "read"
    BY <1>2 DEF ReadUser, sessionVars
  <2> DEFINE new == [login[l] EXCEPT !.at = "verify", !.hash = password[u],
                                     !.role = role[u]]
  <2>4. login' = [login EXCEPT ![l] = new]
    BY <1>2 DEF ReadUser
  <2>5. login' \in [Logins -> LoginType]
    <3>1. login[l] \in LoginType
      OBVIOUS
    <3> HIDE DEF u
    <3>2. new \in LoginType
      BY <2>1, <2>2, <3>1 DEF LoginType
    <3> HIDE DEF new
    <3> QED BY <2>4, <3>2
  <2>6. \A k \in Logins : k # l => login'[k] = login[k]
    BY <2>4
  <2> QED BY <2>3, <2>5, <2>6
<1>3. ASSUME NEW l \in Logins, CreateSession(l) PROVE Goal
  BY <1>3 DEF CreateSession, LoginTo, LoginType
<1>4. ASSUME NEW l \in Logins, Login(l), ~(\E t \in Tries : Begin(l, t)), ~ReadUser(l),
             ~CreateSession(l)
      PROVE  Goal
  <2>1. PICK step \in {"verify", "record", "count", "lock", "clear", "unlock", "create",
                       "done"} : Moves(l, step)
    BY <1>4, MoveSteps
  <2> DEFINE new == [login[l] EXCEPT !.at = step]
  <2>2. open' = open /\ login[l].at # "in" /\ login' = [login EXCEPT ![l] = new]
    BY <2>1 DEF Moves
  <2>3. login[l] \in LoginType
    OBVIOUS
  <2>4. new \in LoginType
    BY <2>3 DEF LoginType
  <2> HIDE DEF new
  <2>5. login' \in [Logins -> LoginType] /\ \A k \in Logins : k # l => login'[k] = login[k]
    BY <2>2, <2>4
  <2> QED BY <2>2, <2>5
<1>5. CASE Crash
  <2>1. login' = [l \in Logins |-> IF login[l].at \in {"idle", "in"} THEN login[l]
                                   ELSE [login[l] EXCEPT !.at = "done"]]
    BY <1>5 DEF Crash
  <2>2. open' = open
    BY <1>5 DEF Crash, sessionVars
  <2>3. ASSUME NEW l \in Logins PROVE [login[l] EXCEPT !.at = "done"] \in LoginType
    <3>1. login[l] \in LoginType
      OBVIOUS
    <3> QED BY <3>1 DEF LoginType
  <2> QED BY <2>1, <2>2, <2>3
<1>6. CASE login' = login /\ open' \subseteq open
  BY <1>6
<1>7. UNCHANGED vars => login' = login /\ open' \subseteq open
  BY DEF vars, sessionVars
<1> QED BY <1>1, <1>2, <1>3, <1>4, <1>5, <1>6, <1>7, LoginsUntouched

\* So do the rows of login_attempts and the columns of user_sessions.
LEMMA RowStep ==
  ASSUME TypeOK, [Next]_vars
  PROVE  /\ failedAt' \in [Logins -> Null..MaxClock]
         /\ overlapped' \in SUBSET Logins
         /\ expires' \in [Logins -> Nat] /\ seen' \in [Logins -> 0..MaxClock]
         /\ csrf' \in [Logins -> Nat]
<1> DEFINE Attempts == failedAt' \in [Logins -> Null..MaxClock]
           Columns == /\ expires' \in [Logins -> Nat] /\ seen' \in [Logins -> 0..MaxClock]
                      /\ csrf' \in [Logins -> Nat]
           Passed == overlapped' \in SUBSET Logins
<1>1. now \in Null..MaxClock /\ Null \in Null..MaxClock /\ now + SessionTTL \in Nat
      /\ now \in 0..MaxClock
  BY ConstantsAssumption DEF TypeOK, CounterTypes, Null
<1>2. Attempts
  <2>1. ASSUME NEW l \in Logins, UnknownUser(l) \/ RecordAttempt(l) PROVE Attempts
    BY <1>1, <2>1 DEF UnknownUser, RecordAttempt, TypeOK, LoginTypes
  <2>2. ASSUME NEW l \in Logins, ClearAttempts(l) PROVE Attempts
    BY <1>1, <2>2 DEF ClearAttempts, TypeOK, LoginTypes
  <2>3. CASE PruneAttempts
    BY <1>1, <2>3 DEF PruneAttempts, TypeOK, LoginTypes
  <2>4. CASE failedAt' = failedAt
    BY <2>4 DEF TypeOK, LoginTypes
  <2>5. ASSUME NEW l \in Logins, Login(l), ~UnknownUser(l), ~RecordAttempt(l), ~ClearAttempts(l)
        PROVE  failedAt' = failedAt
    BY <2>5, LoginFrame DEF LoginLeaves
  <2>6. ASSUME NEW r \in Requests, Handler(r) PROVE failedAt' = failedAt
    BY <2>6, HandlerFrame DEF HandlerLeaves
  <2>7. ASSUME NEW s \in open, Browse(s) \/ Expire(s) PROVE failedAt' = failedAt
    BY <2>7 DEF Browse, Expire
  <2>8. (\E u \in Users : SetPassword(u)) \/ PruneSessions \/ Tick \/ Crash \/ UNCHANGED vars
          => failedAt' = failedAt
    BY DEF SetPassword, PruneSessions, Tick, Crash, vars
  <2> QED BY <2>1, <2>2, <2>3, <2>4, <2>5, <2>6, <2>7, <2>8 DEF Next
<1>3. Columns
  <2> USE DEF TypeOK, SessionTypes
  <2>1. ASSUME NEW l \in Logins, CreateSession(l) PROVE Columns
    BY <1>1, <2>1 DEF CreateSession
  <2>2. ASSUME NEW s \in open, Browse(s) PROVE Columns
    BY <1>1, <2>2 DEF Browse
  <2>3. ASSUME NEW r \in Requests, NEW s \in open, NEW ask \in Asks, Extract(r, s, ask)
        PROVE  Columns
    BY <1>1, <2>3 DEF Extract
  <2>4. ASSUME NEW r \in Requests, RotateCsrf(r) PROVE Columns
    <3>1. request[r].on \in Logins /\ csrf[request[r].on] + 1 \in Nat
      BY DEF RequestTypes, RequestType
    <3> QED BY <2>4, <3>1 DEF RotateCsrf
  <2>5. CASE UNCHANGED <<expires, seen, csrf>>
    BY <2>5
  <2>6. ASSUME NEW l \in Logins, Login(l), ~CreateSession(l)
        PROVE  UNCHANGED <<expires, seen, csrf>>
    BY <2>6, LoginFrame DEF LoginLeaves
  <2>7. ASSUME NEW r \in Requests, Handler(r), ~RotateCsrf(r),
               ~(\E s \in open : \E ask \in Asks : Extract(r, s, ask))
        PROVE  UNCHANGED <<expires, seen, csrf>>
    BY <2>7, HandlerFrame DEF HandlerLeaves
  <2>8. (\E s \in open : Expire(s)) \/ (\E u \in Users : SetPassword(u)) \/ PruneSessions
        \/ PruneAttempts \/ Tick \/ Crash \/ UNCHANGED vars => UNCHANGED <<expires, seen, csrf>>
    BY DEF Expire, SetPassword, PruneSessions, PruneAttempts, Tick, Crash, vars, sessionVars
  <2> QED BY <2>1, <2>2, <2>3, <2>4, <2>5, <2>6, <2>7, <2>8 DEF Next
<1>4. Passed
  <2>1. CASE \E u \in Users : NewPassword(u)
    BY <2>1 DEF NewPassword, InFlight, TypeOK, LoginTypes
  <2>2. CASE overlapped' = overlapped
    BY <2>2 DEF TypeOK, LoginTypes
  <2>3. ASSUME NEW l \in Logins, Login(l) PROVE overlapped' = overlapped
    BY <2>3, LoginFrame DEF LoginLeaves
  <2>4. ASSUME NEW r \in Requests, ResetPassword(r) PROVE \E u \in Users : NewPassword(u)
    BY <2>4 DEF ResetPassword, TypeOK, UserTypes
  <2>5. ASSUME NEW r \in Requests, Handler(r), ~ResetPassword(r)
        PROVE  overlapped' = overlapped
    BY <2>5, HandlerFrame DEF HandlerLeaves
  <2>6. ASSUME NEW u \in Users, SetPassword(u) PROVE NewPassword(u)
    BY <2>6 DEF SetPassword
  <2>7. ASSUME NEW s \in open, Browse(s) \/ Expire(s) PROVE overlapped' = overlapped
    BY <2>7 DEF Browse, Expire, ghostVars
  <2>8. PruneSessions \/ PruneAttempts \/ Tick \/ Crash \/ UNCHANGED vars
          => overlapped' = overlapped
    BY DEF PruneSessions, PruneAttempts, Tick, Crash, vars, ghostVars
  <2> QED BY <2>1, <2>2, <2>3, <2>4, <2>5, <2>6, <2>7, <2>8 DEF Next
<1> QED BY <1>2, <1>3, <1>4

\* Requests and counters.
LEMMA RequestStep ==
  ASSUME TypeOK, [Next]_vars PROVE RequestTypes'
<1> USE DEF TypeOK
<1>1. ASSUME NEW r \in Requests, NEW s \in open, NEW ask \in Asks, Extract(r, s, ask)
      PROVE  RequestTypes'
  <2>1. ask.op \in {"logout", "create", "update", "reset"} /\ ask.target \in Users
        /\ ask.patch \in Patch
    BY ConstantsAssumption DEF Ask
  <2>2. s \in Logins /\ login[s].user \in Users /\ csrf[s] \in Nat
    BY DEF SessionTypes, LoginTypes, LoginType
  <2>3. (IF ask.op = "logout" THEN login[s].user ELSE ask.target) \in Users
    BY <2>1, <2>2
  <2> DEFINE tgt == IF ask.op = "logout" THEN login[s].user ELSE ask.target
  <2> DEFINE new == [request[r] EXCEPT !.at = "body", !.on = s, !.op = ask.op,
                       !.target = tgt, !.patch = ask.patch, !.token = csrf[s]]
  <2>4. request' = [request EXCEPT ![r] = new]
    BY <1>1 DEF Extract
  <2> HIDE DEF tgt
  <2>5. new \in RequestType /\ new.at = "body"
    <3>1. tgt \in Users
      BY <2>3 DEF tgt
    <3>2. request[r] \in RequestType
      BY DEF RequestTypes
    <3> QED BY <2>1, <2>2, <3>1, <3>2 DEF RequestType
  <2> HIDE DEF new
  <2>6. request' \in [Requests -> RequestType]
    BY <2>4, <2>5 DEF RequestTypes
  <2>7. \A q \in Requests : q # r => request'[q] = request[q]
    BY <2>4 DEF RequestTypes
  <2>8. request'[r].at = "body"
    BY <2>4, <2>5 DEF RequestTypes
  <2> QED BY <2>6, <2>7, <2>8 DEF RequestTypes
<1>2. ASSUME NEW r \in Requests, Snapshot(r) PROVE RequestTypes'
  <2>1. role[request[r].target] \in Roles
    BY DEF UserTypes, RequestTypes, RequestType
  <2> DEFINE b == IF request[r].target \in exists THEN role[request[r].target] ELSE Keep
             new == [request[r] EXCEPT !.at = "update", !.before = b]
  <2>2. b \in Roles \cup {Keep}
    BY <2>1
  <2>3. request' = [request EXCEPT ![r] = new]
    BY <1>2 DEF Snapshot, RequestTypes
  <2> HIDE DEF b
  <2>4. new \in RequestType /\ new.at = "update"
    BY <2>2 DEF RequestTypes, RequestType
  <2> HIDE DEF new
  <2>5. request' \in [Requests -> RequestType]
    BY <2>3, <2>4 DEF RequestTypes
  <2>6. \A q \in Requests : request'[q] = IF q = r THEN new ELSE request[q]
    BY <2>3 DEF RequestTypes
  <2> QED BY <2>4, <2>5, <2>6 DEF RequestTypes
<1>3. ASSUME NEW r \in Requests, NEW step \in {"update", "rotate", "ok", "done"}, RequestTo(r, step)
      PROVE  RequestTypes'
  BY <1>3 DEF RequestTo, RequestTypes, RequestType
<1>4. ASSUME NEW r \in Requests, request[r].at = "sweep", RequestTo(r, "line")
      PROVE  RequestTypes'
  BY <1>4 DEF RequestTo, RequestTypes, RequestType
<1>5. ASSUME NEW r \in Requests, UpdateUser(r) PROVE RequestTypes'
  BY <1>5 DEF UpdateUser, RoleChanged, RequestTo, RequestTypes, RequestType
<1>6. ASSUME NEW r \in Requests, Handler(r), ~Snapshot(r), ~UpdateUser(r),
             ~(\E s \in open : \E ask \in Asks : Extract(r, s, ask))
      PROVE  \/ \E step \in {"update", "rotate", "ok", "done"} : RequestTo(r, step)
             \/ request[r].at = "sweep" /\ RequestTo(r, "line")
  BY <1>6 DEF Handler, Refuse, Logout, CreateUser, UpdatePartly, SweepSessions, RoleLine,
     ResetPassword, RotateCsrf, RequestFault, AfterRequestFault
<1>7. CASE Crash
  BY <1>7 DEF Crash, RequestTypes, RequestType
<1>8. CASE request' = request
  BY <1>8 DEF RequestTypes
<1>9. ASSUME NEW l \in Logins, Login(l) PROVE request' = request
  BY <1>9, LoginFrame DEF LoginLeaves
<1>10. ASSUME NEW s \in open, Browse(s) \/ Expire(s) PROVE request' = request
  BY <1>10 DEF Browse, Expire
<1>11. (\E u \in Users : SetPassword(u)) \/ PruneSessions \/ PruneAttempts \/ Tick
       \/ UNCHANGED vars => request' = request
  BY DEF SetPassword, PruneSessions, PruneAttempts, Tick, vars
<1> QED BY <1>1, <1>2, <1>3, <1>4, <1>5, <1>6, <1>7, <1>8, <1>9, <1>10, <1>11 DEF Next

LEMMA CounterStep ==
  ASSUME CounterTypes, [Next]_vars PROVE CounterTypes'
<1> USE DEF CounterTypes
<1>0. MaxClock \in Nat /\ MaxFaults \in Nat
  BY ConstantsAssumption
<1> DEFINE More == faults < MaxFaults /\ faults' = faults + 1 /\ UNCHANGED <<threads, now>>
<1>1. CASE UNCHANGED <<threads, now, faults>>
  BY <1>1
<1>2. CASE More
  BY <1>0, <1>2
<1>3. CASE Tick
  BY <1>0, <1>3 DEF Tick
<1>4. ASSUME NEW l \in Logins, Login(l) PROVE More \/ UNCHANGED <<threads, now, faults>>
  BY <1>4, LoginFrame DEF LoginLeaves
<1>5. ASSUME NEW r \in Requests, Handler(r) PROVE More \/ UNCHANGED <<threads, now, faults>>
  BY <1>5, HandlerFrame DEF HandlerLeaves
<1>6. ASSUME NEW s \in open, Browse(s) \/ Expire(s) PROVE UNCHANGED <<threads, now, faults>>
  BY <1>6 DEF Browse, Expire
<1>7. (\E u \in Users : SetPassword(u)) \/ PruneSessions \/ PruneAttempts \/ Crash
      \/ UNCHANGED vars => More \/ UNCHANGED <<threads, now, faults>>
  BY DEF SetPassword, PruneSessions, PruneAttempts, Crash, vars
<1> HIDE DEF More
<1> QED BY <1>1, <1>2, <1>3, <1>4, <1>5, <1>6, <1>7 DEF Next

\* Every variable keeps its type, and a row of user_sessions belongs to a
\* login that was answered with success, for any number of logins, requests
\* and threads.
THEOREM TypeCorrect == Spec => []TypeOK
<1>1. Init => TypeOK
  <2> SUFFICES ASSUME Init PROVE TypeOK
    OBVIOUS
  <2>0. MaxPassword \in Nat /\ MaxClock \in Nat /\ MaxFaults \in Nat /\ SessionTTL \in Nat
    BY ConstantsAssumption
  <2>1. UserTypes
    BY <2>0, ConstantsAssumption DEF Init, UserTypes, Roles, Null
  <2>2. PICK mix \in Mixes :
       /\ login = [l \in Logins |->
            IF l \in DOMAIN SignedIn
            THEN [at |-> "in", user |-> SignedIn[l], guess |-> 0, from |-> NoAddress,
                  hash |-> 0, role |-> "admin"]
            ELSE [at |-> IF l \in mix THEN "idle" ELSE "done",
                  user |-> CHOOSE u \in Users : TRUE, guess |-> Null,
                  from |-> NoAddress, hash |-> Null, role |-> "user"]]
       /\ request = [r \in Requests |->
            [at |-> IF r \in mix THEN "idle" ELSE "done",
             on |-> CHOOSE l \in Logins : TRUE, op |-> "logout",
             target |-> CHOOSE u \in Users : TRUE,
             patch |-> [role |-> Keep, disabled |-> Keep], token |-> 0, before |-> Keep]]
    BY DEF Init
  <2>3. (CHOOSE u \in Users : TRUE) \in Users /\ (CHOOSE l \in Logins : TRUE) \in Logins
    BY ConstantsAssumption
  <2>4. 0 \in Null..MaxPassword /\ Null \in Null..MaxPassword /\ Null \in Null..MaxClock
    BY <2>0 DEF Null
  <2>5. login \in [Logins -> LoginType]
    BY <2>2, <2>3, <2>4, ConstantsAssumption DEF LoginType, Roles
  <2>6. LoginTypes
    BY <2>4, <2>5 DEF Init, LoginTypes
  <2>7. SessionTypes
    BY <2>0, <2>2, ConstantsAssumption DEF Init, SessionTypes
  <2>8. RequestTypes
    BY <2>2, <2>3 DEF RequestTypes, RequestType, Patch, Roles
  <2>9. CounterTypes
    BY <2>0 DEF Init, CounterTypes
  <2> QED BY <2>1, <2>6, <2>7, <2>8, <2>9 DEF TypeOK
<1>2. TypeOK /\ [Next]_vars => TypeOK'
  <2> SUFFICES ASSUME TypeOK, [Next]_vars PROVE TypeOK'
    OBVIOUS
  <2>1. LoginTypes' /\ SessionTypes'
    BY LoginRecordStep, RowStep DEF LoginTypes, SessionTypes
  <2>2. UserTypes' /\ RequestTypes' /\ CounterTypes'
    BY UserStep, RequestStep, CounterStep DEF TypeOK
  <2> QED BY <2>1, <2>2 DEF TypeOK
<1> QED BY <1>1, <1>2, PTL DEF Spec

-----------------------------------------------------------------------------
(* Password changes and sessions                                           *)

\* The invariant of the argument.
PasswordInv == HashCurrent /\ OldPasswordOnlyInFlight

\* Logins that stay what they are, and sessions that may only be deleted.
LEMMA AsideKeeps ==
  ASSUME PasswordInv, UNCHANGED <<login, password, overlapped>>, open' \subseteq open
  PROVE  PasswordInv'
BY DEF PasswordInv, HashCurrent, OldPasswordOnlyInFlight, HasRead

\* Steps of requests, of the sweep task and of the clock.
LEMMA AsideSteps ==
  ASSUME Next, ~(\E l \in Logins : Login(l)), ~Crash,
         ~(\E r \in Requests : ResetPassword(r)), ~(\E u \in Users : SetPassword(u))
  PROVE  UNCHANGED <<password, overlapped>>
<1>1. ASSUME NEW r \in Requests, Handler(r), ~ResetPassword(r)
      PROVE  UNCHANGED <<password, overlapped>>
  BY <1>1, HandlerFrame DEF HandlerLeaves
<1>2. ASSUME NEW s \in open, Browse(s) \/ Expire(s) PROVE UNCHANGED <<password, overlapped>>
  BY <1>2 DEF Browse, Expire, userVars, ghostVars
<1>3. PruneSessions \/ PruneAttempts \/ Tick => UNCHANGED <<password, overlapped>>
  BY DEF PruneSessions, PruneAttempts, Tick, userVars, ghostVars
<1> QED BY <1>1, <1>2, <1>3 DEF Next

\* A login that moves on keeps the hash it has read.
LEMMA MoveKeeps ==
  ASSUME TypeOK, PasswordInv, NEW l \in Logins,
         NEW step \in {"verify", "record", "count", "lock", "clear", "unlock", "create",
                       "done"},
         Moves(l, step), step # "done" => HasRead(l)
  PROVE  PasswordInv'
<1>1. ASSUME NEW k \in Logins
      PROVE  /\ login'[k].hash = login[k].hash /\ login'[k].user = login[k].user
             /\ HasRead(k)' => HasRead(k)
  BY DEF TypeOK, LoginTypes, LoginType, Moves, HasRead
<1>2. HashCurrent'
  BY <1>1 DEF PasswordInv, HashCurrent, Moves
<1>3. OldPasswordOnlyInFlight'
  BY <1>1 DEF PasswordInv, TypeOK, SessionTypes, OldPasswordOnlyInFlight, Moves
<1> QED BY <1>2, <1>3 DEF PasswordInv

\* A new password: the logins that have read the old one are overtaken, the
\* sessions of the user are gone.
LEMMA NewPasswordKeeps ==
  ASSUME TypeOK, PasswordInv, NEW u \in exists, NewPassword(u), login' = login
  PROVE  PasswordInv'
<1>1. HashCurrent'
  BY DEF TypeOK, UserTypes, PasswordInv, HashCurrent, NewPassword, InFlight, HasRead
<1>2. OldPasswordOnlyInFlight'
  BY DEF TypeOK, UserTypes, SessionTypes, PasswordInv, OldPasswordOnlyInFlight, NewPassword,
     SessionsOf
<1> QED BY <1>1, <1>2 DEF PasswordInv

LEMMA PasswordStep ==
  ASSUME TypeOK, PasswordInv, [Next]_vars PROVE PasswordInv'
<1> USE DEF TypeOK, LoginTypes, SessionTypes
<1>1. ASSUME NEW l \in Logins, NEW t \in Tries, Begin(l, t) PROVE PasswordInv'
  <2>1. UNCHANGED <<password, open, overlapped>> /\ login[l].at = "idle"
    BY <1>1 DEF Begin, userVars, sessionVars, ghostVars
  <2>2. \E step \in {"read", "done"} :
          login' = [login EXCEPT ![l].user = t.user, ![l].guess = t.guess,
                                 ![l].from = t.from, ![l].at = step]
    BY <1>1 DEF Begin
  <2>3. HashCurrent'
    BY <2>1, <2>2 DEF PasswordInv, LoginType, HashCurrent, HasRead
  <2>4. OldPasswordOnlyInFlight'
    BY <2>1, <2>2 DEF PasswordInv, OldPasswordOnlyInFlight
  <2> QED BY <2>3, <2>4 DEF PasswordInv
<1>2. ASSUME NEW l \in Logins, ReadUser(l) PROVE PasswordInv'
  <2>1. UNCHANGED <<password, open, overlapped>> /\ login[l].at = "read"
    BY <1>2 DEF ReadUser, userVars, sessionVars, ghostVars
  <2>2. login' = [login EXCEPT ![l].at = "verify", ![l].hash = password[login[l].user],
                               ![l].role = role[login[l].user]]
    BY <1>2 DEF ReadUser
  <2>3. HashCurrent'
    BY <2>1, <2>2 DEF PasswordInv, LoginType, HashCurrent, HasRead
  <2>4. OldPasswordOnlyInFlight'
    BY <2>1, <2>2 DEF PasswordInv, OldPasswordOnlyInFlight
  <2> QED BY <2>3, <2>4 DEF PasswordInv
<1>3. ASSUME NEW l \in Logins, CreateSession(l) PROVE PasswordInv'
  <2>1. UNCHANGED <<password, overlapped>> /\ login[l].at = "create"
    BY <1>3 DEF CreateSession, userVars, ghostVars
  <2>2. login' = [login EXCEPT ![l].at = "in"] /\ open' = open \cup {l}
    BY <1>3 DEF CreateSession, LoginTo
  <2>3. ASSUME NEW k \in Logins
        PROVE  /\ login'[k].hash = login[k].hash /\ login'[k].user = login[k].user
               /\ HasRead(k)' => HasRead(k)
    BY <2>2 DEF LoginType, HasRead
  <2>4. HashCurrent'
    BY <2>1, <2>3 DEF PasswordInv, HashCurrent
  <2>5. login[l].hash = password[login[l].user] \/ l \in overlapped
    BY <2>1 DEF PasswordInv, HashCurrent, HasRead
  <2>6. OldPasswordOnlyInFlight'
    BY <2>1, <2>2, <2>3, <2>5 DEF PasswordInv, OldPasswordOnlyInFlight
  <2> QED BY <2>4, <2>6 DEF PasswordInv
<1>4. ASSUME NEW l \in Logins, Login(l), ~(\E t \in Tries : Begin(l, t)), ~ReadUser(l),
             ~CreateSession(l)
      PROVE  PasswordInv'
  BY <1>4, MoveSteps, MoveKeeps
<1>5. ASSUME NEW r \in Requests, ResetPassword(r) PROVE PasswordInv'
  BY <1>5, NewPasswordKeeps DEF ResetPassword
<1>6. ASSUME NEW u \in Users, SetPassword(u) PROVE PasswordInv'
  BY <1>6, NewPasswordKeeps DEF SetPassword
<1>7. CASE Crash
  <2>1. UNCHANGED <<password, open, overlapped>>
    BY <1>7 DEF Crash, userVars, sessionVars, ghostVars
  <2>2. login' = [l \in Logins |->
          IF login[l].at \in {"idle", "in"} THEN login[l]
          ELSE [login[l] EXCEPT !.at = "done"]]
    BY <1>7 DEF Crash
  <2>3. ASSUME NEW k \in Logins
        PROVE  /\ login'[k].hash = login[k].hash /\ login'[k].user = login[k].user
               /\ HasRead(k)' => HasRead(k)
    BY <2>2 DEF LoginType, HasRead
  <2>4. HashCurrent'
    BY <2>1, <2>3 DEF PasswordInv, HashCurrent
  <2>5. OldPasswordOnlyInFlight'
    BY <2>1, <2>3 DEF PasswordInv, OldPasswordOnlyInFlight
  <2> QED BY <2>4, <2>5 DEF PasswordInv
<1>8. CASE UNCHANGED vars
  BY <1>8, AsideKeeps DEF vars, userVars, sessionVars, ghostVars
<1>9. CASE Next /\ ~(\E l \in Logins : Login(l)) /\ ~(\E r \in Requests : ResetPassword(r))
           /\ ~(\E u \in Users : SetPassword(u)) /\ ~Crash
  BY <1>9, AsideSteps, LoginsUntouched, AsideKeeps
<1>10. ASSUME NEW l \in Logins, Login(l) PROVE PasswordInv'
  BY <1>1, <1>2, <1>3, <1>4, <1>10
<1> QED BY <1>5, <1>6, <1>7, <1>8, <1>9, <1>10

\* For any number of logins, threads and password changes: a session that was
\* opened with a replaced password is the session of a login that was under
\* way when the password was replaced.
THEOREM ResetEndsSessions == Spec => []OldPasswordOnlyInFlight
<1>1. Init => PasswordInv
  <2> SUFFICES ASSUME Init PROVE PasswordInv
    OBVIOUS
  <2>1. \A l \in Logins : ~HasRead(l)
    BY DEF Init, HasRead
  <2>2. \A l \in DOMAIN SignedIn : login[l].hash = 0 /\ login[l].user \in Users
    BY ConstantsAssumption DEF Init
  <2>3. OldPasswordOnlyInFlight
    BY <2>2 DEF Init, OldPasswordOnlyInFlight
  <2> QED BY <2>1, <2>3 DEF PasswordInv, HashCurrent
<1>2. TypeOK /\ PasswordInv /\ [Next]_vars => PasswordInv'
  BY PasswordStep
<1>3. PasswordInv => OldPasswordOnlyInFlight
  BY DEF PasswordInv
<1> QED BY <1>1, <1>2, <1>3, TypeCorrect, PTL DEF Spec

-----------------------------------------------------------------------------
(* CSRF tokens                                                             *)

\* A step of a login concerns that login only; one that is not the first is
\* the step of a login that keeps a thread.
LEMMA LoginAlone ==
  ASSUME TypeOK, NEW l \in Logins, Login(l)
  PROVE  /\ \A k \in Logins : k # l => login'[k] = login[k]
         /\ request' = request
         /\ login[l].at # "in" /\ login[l].at # "done"
         /\ login[l].at = "idle" => FreeThread
<1> USE DEF TypeOK, LoginTypes
<1>1. ASSUME NEW t \in Tries, Begin(l, t)
      PROVE  /\ \A k \in Logins : k # l => login'[k] = login[k]
             /\ request' = request /\ login[l].at = "idle" /\ FreeThread
  BY <1>1 DEF Begin
<1>2. UnknownUser(l) \/ ShutOut(l) \/ ReadUser(l) \/ Verify(l) \/ RecordAttempt(l)
        \/ CountAttempts(l)
        => /\ \A k \in Logins : k # l => login'[k] = login[k]
           /\ request' = request /\ login[l].at \notin {"idle", "in", "done"}
  BY DEF UnknownUser, ShutOut, ReadUser, Verify, RecordAttempt, CountAttempts, LoginTo
<1>3. SetLockedUntil(l) \/ ClearAttempts(l) \/ Unlock(l) \/ CreateSession(l) \/ LoginFault(l)
        => /\ \A k \in Logins : k # l => login'[k] = login[k]
           /\ request' = request /\ login[l].at \notin {"idle", "in", "done"}
  BY DEF SetLockedUntil, ClearAttempts, Unlock, CreateSession, LoginFault, LoginTo
<1> QED BY <1>1, <1>2, <1>3 DEF Login

\* The steps of a handler between the extractor and its answer.
Keeps(a, b) == a.on = b.on /\ a.op = b.op /\ a.target = b.target /\ a.patch = b.patch
                 /\ a.token = b.token

LEMMA HandlerAlone ==
  ASSUME TypeOK, NEW r \in Requests, Handler(r)
  PROVE  /\ \A q \in Requests : q # r => request'[q] = request[q]
         /\ login' = login
<1> USE DEF TypeOK, RequestTypes
<1>1. ASSUME NEW s \in open, NEW ask \in Asks, Extract(r, s, ask)
      PROVE  (\A q \in Requests : q # r => request'[q] = request[q]) /\ login' = login
  BY <1>1 DEF Extract
<1>2. Refuse(r) \/ Logout(r) \/ CreateUser(r) \/ Snapshot(r) \/ UpdateUser(r) \/ UpdatePartly(r)
        => (\A q \in Requests : q # r => request'[q] = request[q]) /\ login' = login
  BY DEF Refuse, Logout, CreateUser, Snapshot, UpdateUser, UpdatePartly, RequestTo
<1>3. SweepSessions(r) \/ RoleLine(r) \/ ResetPassword(r) \/ RotateCsrf(r) \/ RequestFault(r)
        => (\A q \in Requests : q # r => request'[q] = request[q]) /\ login' = login
  BY DEF SweepSessions, RoleLine, ResetPassword, RotateCsrf, RequestFault, RequestTo
<1> QED BY <1>1, <1>2, <1>3 DEF Handler

\* Where a handler may go from where it is, and with what.
LEMMA HandlerMoves ==
  ASSUME TypeOK, NEW r \in Requests, Handler(r),
         ~(\E s \in open : \E ask \in Asks : Extract(r, s, ask))
  PROVE  /\ Keeps(request'[r], request[r])
         /\ request[r].at \notin {"idle", "ok", "done"}
         /\ request'[r].at = "ok" => RotateCsrf(r)
         /\ request'[r].at = "update" => FreeThread
         /\ request'[r].at \in {"sweep", "line", "rotate"} /\ request[r].at = "body" =>
              FreeThread
<1> USE DEF TypeOK, RequestTypes, RequestType, Keeps
<1>1. CASE Refuse(r) \/ Logout(r) \/ CreateUser(r)
  BY <1>1 DEF Refuse, Logout, CreateUser, Handles, RequestTo
<1>2. CASE Snapshot(r)
  BY <1>2 DEF Snapshot, Handles
<1>3. CASE UpdateUser(r) \/ UpdatePartly(r)
  BY <1>3 DEF UpdateUser, UpdatePartly, RequestTo
<1>4. CASE SweepSessions(r) \/ RoleLine(r) \/ ResetPassword(r) \/ RotateCsrf(r)
  BY <1>4 DEF SweepSessions, RoleLine, ResetPassword, RotateCsrf, Handles, RequestTo
<1>5. CASE RequestFault(r)
  BY <1>5 DEF RequestFault, AfterRequestFault, RequestTo
<1> QED BY <1>1, <1>2, <1>3, <1>4, <1>5 DEF Handler

\* The invariant of the argument: a request was let in on a session that is
\* there or gone for good, with a token no newer than the stored one.
TokenInv ==
  \A r \in Requests : request[r].at \notin {"idle", "done"} =>
    /\ login[request[r].on].at = "in"
    /\ request[r].token <= csrf[request[r].on]
    /\ request[r].at = "ok" /\ request[r].on \in open =>
         request[r].token < csrf[request[r].on]

\* Only rotate_csrf writes a token.
LEMMA TokenKept ==
  ASSUME [Next]_vars, ~(\E r \in Requests : RotateCsrf(r))
  PROVE  csrf' = csrf
<1>1. ASSUME NEW l \in Logins, Login(l) PROVE csrf' = csrf
  BY <1>1, LoginFrame DEF LoginLeaves
<1>2. ASSUME NEW r \in Requests, Handler(r), ~RotateCsrf(r) PROVE csrf' = csrf
  BY <1>2, HandlerFrame DEF HandlerLeaves
<1>3. (\E s \in open : Browse(s) \/ Expire(s)) \/ (\E u \in Users : SetPassword(u))
      \/ PruneSessions \/ PruneAttempts \/ Tick \/ Crash \/ UNCHANGED vars => csrf' = csrf
  BY DEF Browse, Expire, SetPassword, PruneSessions, PruneAttempts, Tick, Crash, vars,
     sessionVars
<1> QED BY <1>1, <1>2, <1>3 DEF Next

\* The steps that are neither a login's, nor a request's, nor a crash.
LEMMA RequestsUntouched ==
  ASSUME [Next]_vars, ~(\E l \in Logins : Login(l)), ~(\E r \in Requests : Handler(r)), ~Crash
  PROVE  request' = request /\ login' = login /\ open' \subseteq open
<1>1. ASSUME NEW s \in open, Browse(s) \/ Expire(s)
      PROVE  request' = request /\ login' = login /\ open' \subseteq open
  BY <1>1 DEF Browse, Expire
<1>2. ASSUME NEW u \in Users, SetPassword(u)
      PROVE  request' = request /\ login' = login /\ open' \subseteq open
  BY <1>2 DEF SetPassword, NewPassword
<1>3. PruneSessions \/ PruneAttempts \/ Tick \/ UNCHANGED vars
        => request' = request /\ login' = login /\ open' \subseteq open
  BY DEF PruneSessions, PruneAttempts, Tick, vars, sessionVars
<1> QED BY <1>1, <1>2, <1>3 DEF Next

\* A row of user_sessions appears only for the login that asked for it.
LEMMA SessionsGrow ==
  ASSUME NEW l \in Logins, Login(l) PROVE open' \subseteq open \cup {l}
BY LoginFrame DEF LoginLeaves

LEMMA TokenNext ==
  ASSUME TypeOK, TokenInv, [Next]_vars PROVE TokenInv'
<1> DEFINE Fresh(q) ==
      request[q].at \notin {"idle", "done"} =>
        /\ login[request[q].on].at = "in"
        /\ request[q].token <= csrf[request[q].on]
        /\ request[q].at = "ok" /\ request[q].on \in open =>
             request[q].token < csrf[request[q].on]
<1>0. SUFFICES ASSUME NEW q \in Requests PROVE Fresh(q)'
  BY DEF TokenInv
<1>q. Fresh(q) /\ request[q].on \in Logins /\ request[q].token \in Nat
  BY DEF TokenInv, TypeOK, RequestTypes, RequestType
<1>1. ASSUME NEW l \in Logins, Login(l) PROVE Fresh(q)'
  <2>1. csrf' = csrf
    BY <1>1, LoginFrame DEF LoginLeaves
  <2> QED BY <1>1, <1>q, <2>1, LoginAlone, SessionsGrow
<1>2. ASSUME NEW s \in open, NEW ask \in Asks, Extract(q, s, ask) PROVE Fresh(q)'
  <2>1. s \in Logins /\ login[s].at = "in" /\ csrf[s] \in Nat
    BY DEF TypeOK, SessionTypes
  <2>2. /\ request'[q].at = "body" /\ request'[q].on = s /\ request'[q].token = csrf[s]
        /\ login' = login /\ csrf' = csrf
    BY <1>2 DEF Extract, TypeOK, RequestTypes, RequestType
  <2> QED BY <2>1, <2>2
<1>3. ASSUME NEW r \in Requests, RotateCsrf(r) PROVE Fresh(q)'
  <2>1. request[r].on \in Logins /\ csrf[request[r].on] \in Nat
    BY DEF TypeOK, RequestTypes, RequestType, SessionTypes
  <2>2. csrf' = [csrf EXCEPT ![request[r].on] = IF request[r].on \in open THEN @ + 1 ELSE @]
        /\ login' = login /\ open' = open /\ request[r].at = "rotate"
        /\ request' = [request EXCEPT ![r].at = "ok"]
    BY <1>3 DEF RotateCsrf, RequestTo
  <2>3. \A s \in Logins : csrf[s] \in Nat /\ csrf'[s] \in Nat /\ csrf[s] <= csrf'[s]
    BY <2>1, <2>2 DEF TypeOK, SessionTypes
  <2>4. CASE q = r
    <3>1. request'[q].on = request[q].on /\ request'[q].token = request[q].token
      BY <2>2, <2>4 DEF TypeOK, RequestTypes, RequestType
    <3>2. request[q].on \in open => csrf'[request[q].on] = csrf[request[q].on] + 1
      BY <2>1, <2>2, <2>4 DEF TypeOK, SessionTypes
    <3> QED BY <1>q, <2>1, <2>2, <2>3, <2>4, <3>1, <3>2
  <2>5. CASE q # r
    <3>1. request'[q] = request[q]
      BY <2>2, <2>5 DEF TypeOK, RequestTypes
    <3>2. LET s == request[q].on IN
          csrf[s] \in Nat /\ csrf'[s] \in Nat /\ csrf[s] <= csrf'[s]
      BY <1>q, <2>3
    <3>3. ASSUME request[q].at \notin {"idle", "done"}
          PROVE  request[q].token <= csrf'[request[q].on]
      BY <1>q, <3>2, <3>3
    <3>4. ASSUME request[q].at = "ok", request[q].on \in open
          PROVE  request[q].token < csrf'[request[q].on]
      BY <1>q, <3>2, <3>4
    <3>5. login' = login /\ open' = open
      BY <2>2
    <3> QED BY <1>q, <3>1, <3>3, <3>4, <3>5
  <2> QED BY <2>4, <2>5
<1>4. ASSUME NEW r \in Requests, Handler(r), ~(\E x \in Requests : RotateCsrf(x)),
             ~(\E s \in open : \E ask \in Asks : Extract(q, s, ask))
      PROVE  Fresh(q)'
  <2>1. csrf' = csrf
    BY <1>4, TokenKept DEF Next
  <2>2. open' \subseteq open
    BY <1>4, HandlerFrame DEF HandlerLeaves
  <2>3. login' = login /\ (q # r => request'[q] = request[q])
    BY <1>4, HandlerAlone
  <2>4. q = r => /\ Keeps(request'[q], request[q]) /\ request'[q].at # "ok"
                 /\ request[q].at \notin {"idle", "done"}
    BY <1>4, HandlerMoves
  <2> QED BY <1>q, <2>1, <2>2, <2>3, <2>4 DEF Keeps
<1>5. CASE Crash
  <2>1. UNCHANGED <<csrf, open>>
    BY <1>5 DEF Crash, sessionVars
  <2>2. request'[q].at \notin {"idle", "done"} => request'[q] = request[q]
    BY <1>5 DEF Crash, TypeOK, RequestTypes, RequestType
  <2>3. login[request[q].on].at = "in" => login'[request[q].on].at = "in"
    BY <1>5, <1>q DEF Crash
  <2> QED BY <1>q, <2>1, <2>2, <2>3
<1>6. CASE ~(\E l \in Logins : Login(l)) /\ ~(\E r \in Requests : Handler(r)) /\ ~Crash
  <2>1. csrf' = csrf
    BY <1>6, TokenKept DEF Handler
  <2> QED BY <1>6, <1>q, <2>1, RequestsUntouched
<1> HIDE DEF Fresh
<1> QED BY <1>1, <1>2, <1>3, <1>4, <1>5, <1>6

\* However many mutations of a session were let in with one CSRF token: once
\* one of them has been answered, the token is not the stored one any more.
THEOREM TokenRotates == Spec => []TokenSpent
<1>1. Init => TokenInv
  BY DEF Init, TokenInv
<1>2. TypeOK /\ TokenInv /\ [Next]_vars => TokenInv'
  BY TokenNext
<1>3. TypeOK /\ TokenInv => TokenSpent
  BY DEF TokenInv, TokenSpent, TypeOK, RequestTypes, RequestType, SessionTypes
<1> QED BY <1>1, <1>2, <1>3, TypeCorrect, PTL DEF Spec

-----------------------------------------------------------------------------
(* Threads, and what handlers can count on when there is one               *)

\* A step takes at most one thread, and only a free one.
LEMMA ThreadStep ==
  ASSUME TypeOK, [Next]_vars
  PROVE  Busy' \subseteq Busy \/ (FreeThread /\ \E x : Busy' \subseteq Busy \cup {x})
<1>1. ASSUME NEW l \in Logins, Login(l)
      PROVE  Busy' \subseteq Busy \/ (FreeThread /\ \E x : Busy' \subseteq Busy \cup {x})
  <2>1. Busy' \subseteq Busy \cup {l}
    BY <1>1, LoginAlone DEF Busy
  <2>2. FreeThread \/ l \in Busy
    BY <1>1, LoginAlone DEF Busy
  <2> QED BY <2>1, <2>2
<1>2. ASSUME NEW r \in Requests, Handler(r)
      PROVE  Busy' \subseteq Busy \/ (FreeThread /\ \E x : Busy' \subseteq Busy \cup {x})
  <2>1. Busy' \subseteq Busy \cup {r}
    BY <1>2, HandlerAlone DEF Busy
  <2>2. CASE \E s \in open : \E ask \in Asks : Extract(r, s, ask)
    <3>1. FreeThread
      BY <2>2 DEF Extract
    <3> QED BY <2>1, <3>1
  <2>3. CASE ~(\E s \in open : \E ask \in Asks : Extract(r, s, ask))
    <3>1. /\ request[r].at \notin {"idle", "ok", "done"}
          /\ request'[r].at = "update" => FreeThread
          /\ request'[r].at \in {"sweep", "line", "rotate"} /\ request[r].at = "body" =>
               FreeThread
      BY <1>2, <2>3, HandlerMoves
    <3>2. CASE request[r].at = "body"
      <4>1. CASE request'[r].at \in {"update", "sweep", "line", "rotate"}
        BY <2>1, <3>1, <3>2, <4>1
      <4>2. CASE request'[r].at \notin {"update", "sweep", "line", "rotate"}
        <5>1. Busy' \subseteq Busy
          BY <1>2, <4>2, HandlerAlone DEF Busy
        <5> QED BY <5>1
      <4> QED BY <4>1, <4>2
    <3>3. CASE request[r].at # "body"
      <4>1. r \in Busy
        BY <3>1, <3>3 DEF Busy, TypeOK, RequestTypes, RequestType
      <4> QED BY <2>1, <4>1
    <3> QED BY <3>2, <3>3
  <2> QED BY <2>2, <2>3
<1>3. CASE Crash
  <2>1. \A l \in Logins : login'[l].at \in {"idle", "in", "done"}
    BY <1>3 DEF Crash, TypeOK, LoginTypes, LoginType
  <2>2. \A r \in Requests : request'[r].at \in {"idle", "ok", "done"}
    BY <1>3 DEF Crash, TypeOK, RequestTypes, RequestType
  <2>3. Busy' = {}
    BY <2>1, <2>2 DEF Busy
  <2> QED BY <2>3
<1>4. CASE ~(\E l \in Logins : Login(l)) /\ ~(\E r \in Requests : Handler(r)) /\ ~Crash
  <2>1. request' = request /\ login' = login
    BY <1>4, RequestsUntouched
  <2>2. Busy' = Busy
    BY <2>1 DEF Busy
  <2> QED BY <2>2
<1> QED BY <1>1, <1>2, <1>3, <1>4

\* The threads of the console are enough for what is under way.
ThreadsSuffice == Cardinality(Busy) <= threads

LEMMA BusyFinite == IsFiniteSet(Busy) /\ Cardinality(Busy) \in Nat
<1>1. IsFiniteSet(Logins \cup Requests)
  BY FS_Union, ConstantsAssumption
<1>2. Busy \subseteq Logins \cup Requests
  BY DEF Busy
<1> QED BY <1>1, <1>2, FS_Subset, FS_CardinalityType

LEMMA CountersStep ==
  ASSUME TypeOK, [Next]_vars
  PROVE  threads' = threads /\ (faults' = faults \/ faults' = faults + 1)
<1>1. ASSUME NEW l \in Logins, Login(l)
      PROVE  threads' = threads /\ (faults' = faults \/ faults' = faults + 1)
  BY <1>1, LoginFrame DEF LoginLeaves
<1>2. ASSUME NEW r \in Requests, Handler(r)
      PROVE  threads' = threads /\ (faults' = faults \/ faults' = faults + 1)
  BY <1>2, HandlerFrame DEF HandlerLeaves
<1>3. (\E s \in open : Browse(s) \/ Expire(s)) \/ (\E u \in Users : SetPassword(u))
      \/ PruneSessions \/ PruneAttempts \/ Tick \/ Crash \/ UNCHANGED vars
        => threads' = threads /\ (faults' = faults \/ faults' = faults + 1)
  BY DEF Browse, Expire, SetPassword, PruneSessions, PruneAttempts, Tick, Crash, vars
<1> QED BY <1>1, <1>2, <1>3 DEF Next

LEMMA ThreadsNext ==
  ASSUME TypeOK, ThreadsSuffice, [Next]_vars PROVE ThreadsSuffice'
<1>1. threads \in Nat /\ threads' = threads
  BY CountersStep, ConstantsAssumption DEF TypeOK, CounterTypes
<1>2. CASE Busy' \subseteq Busy
  <2>1. Cardinality(Busy') <= Cardinality(Busy) /\ Cardinality(Busy') \in Nat
    BY <1>2, BusyFinite, FS_Subset, FS_CardinalityType
  <2> QED BY <1>1, <2>1, BusyFinite DEF ThreadsSuffice
<1>3. ASSUME FreeThread, NEW x, Busy' \subseteq Busy \cup {x} PROVE ThreadsSuffice'
  <2>1. /\ IsFiniteSet(Busy \cup {x})
        /\ Cardinality(Busy \cup {x}) \in {Cardinality(Busy), Cardinality(Busy) + 1}
    BY BusyFinite, FS_AddElement
  <2>2. Cardinality(Busy') <= Cardinality(Busy \cup {x}) /\ Cardinality(Busy') \in Nat
    BY <1>3, <2>1, FS_Subset, FS_CardinalityType
  <2> QED BY <1>1, <1>3, <2>1, <2>2, BusyFinite DEF ThreadsSuffice, FreeThread
<1> QED BY <1>2, <1>3, ThreadStep

LEMMA ThreadsInvariant == Spec => []ThreadsSuffice
<1>1. Init => ThreadsSuffice
  <2> SUFFICES ASSUME Init PROVE ThreadsSuffice
    OBVIOUS
  <2>1. \A l \in Logins : login[l].at \in {"idle", "in", "done"}
    BY DEF Init
  <2>2. \A r \in Requests : request[r].at \in {"idle", "done"}
    BY DEF Init
  <2>3. Busy = {}
    BY <2>1, <2>2 DEF Busy
  <2>4. threads \in Nat
    BY ConstantsAssumption DEF Init
  <2> QED BY <2>3, <2>4, FS_EmptySet DEF ThreadsSuffice
<1>2. TypeOK /\ ThreadsSuffice /\ [Next]_vars => ThreadsSuffice'
  BY ThreadsNext
<1> QED BY <1>1, <1>2, TypeCorrect, PTL DEF Spec

\* With one thread, whoever keeps it is alone, and a free thread means that
\* nobody is under way.
LEMMA OneThread ==
  ASSUME threads = 1, ThreadsSuffice
  PROVE  /\ \A x, y \in Busy : x = y
         /\ FreeThread => Busy = {}
<1>1. Cardinality(Busy) \in Nat /\ Cardinality(Busy) <= 1
  BY BusyFinite DEF ThreadsSuffice
<1>2. ASSUME NEW x \in Busy, NEW y \in Busy, x # y PROVE FALSE
  <2>1. Cardinality({x}) = 1 /\ IsFiniteSet({x})
    BY FS_Singleton
  <2>2. Cardinality({x} \cup {y}) = 2
    BY <1>2, <2>1, FS_AddElement
  <2>3. {x} \cup {y} \subseteq Busy
    OBVIOUS
  <2>4. Cardinality({x} \cup {y}) <= Cardinality(Busy)
    BY <2>3, BusyFinite, FS_Subset
  <2> QED BY <1>1, <2>2, <2>4
<1>3. ASSUME FreeThread PROVE Busy = {}
  <2>1. Cardinality(Busy) = 0
    BY <1>1, <1>3 DEF FreeThread
  <2> QED BY <2>1, BusyFinite, FS_EmptySet
<1> QED BY <1>2, <1>3

-----------------------------------------------------------------------------
(* Changes of a role                                                       *)

\* A login that has read its row, or whose session is open, is that of a user
\* with a row.
UsersKnown == \A l \in Logins : l \in open \/ HasRead(l) => login[l].user \in exists

\* A role differs from its last audit line only while the handler that changed
\* it is on its way to the line; a session has an older role only until that
\* handler has swept it; a login has read the role it will answer with; and
\* what the handler has read of the row still holds when it writes.
LineFollows ==
  \A u \in Users : roleLine[u] = role[u] \/
    \E r \in Requests : request[r].target = u /\ request[r].at \in {"sweep", "line"}

SweepFollows ==
  \A l \in open : login[l].role = role[login[l].user] \/
    \E r \in Requests : request[r].target = login[l].user /\ request[r].at = "sweep"

ReadCurrent == \A l \in Logins : HasRead(l) => login[l].role = role[login[l].user]

SnapshotCurrent ==
  \A r \in Requests :
    LET u == request[r].target IN
    /\ request[r].at = "update" =>
         request[r].before = IF u \in exists THEN role[u] ELSE Keep
    /\ request[r].at \in {"sweep", "line"} => request[r].patch.role = role[u]

Undisturbed == threads = 1 /\ faults = 0

RoleInv == LineFollows /\ SweepFollows /\ ReadCurrent /\ SnapshotCurrent

\* Steps of logins.
LEMMA LoginKeepsRoles ==
  ASSUME NEW l \in Logins, Login(l)
  PROVE  UNCHANGED <<role, roleLine, exists>>
BY LoginFrame DEF LoginLeaves

\* A login that has read its row carries on what it read; the row is read with
\* the role it has, and the session is that of a login that has read its row.
LEMMA LoginReads ==
  ASSUME TypeOK, NEW l \in Logins, Login(l)
  PROVE  /\ HasRead(l)' => \/ HasRead(l) /\ login'[l].user = login[l].user
                                /\ login'[l].role = login[l].role
                           \/ /\ login'[l].user \in exists
                              /\ login'[l].role = role[login'[l].user]
         /\ l \in open' => HasRead(l) /\ login'[l].user = login[l].user
                             /\ login'[l].role = login[l].role
<1> USE DEF TypeOK, LoginTypes, LoginType
<1>0. l \notin open
  BY LoginAlone DEF SessionTypes
<1>1. ASSUME NEW t \in Tries, Begin(l, t) PROVE l \notin open' /\ ~HasRead(l)'
  <2>1. open' = open /\ login'[l].at \in {"read", "done"}
    BY <1>1 DEF Begin, sessionVars
  <2> QED BY <1>0, <2>1 DEF HasRead
<1>2. ASSUME ReadUser(l)
      PROVE  /\ l \notin open' /\ login'[l].user \in exists
             /\ login'[l].role = role[login'[l].user]
  <2>1. open' = open
    BY <1>2 DEF ReadUser, sessionVars
  <2>2. /\ login[l].user \in exists
        /\ login' = [login EXCEPT ![l].at = "verify", ![l].hash = password[login[l].user],
                                  ![l].role = role[login[l].user]]
    BY <1>2 DEF ReadUser
  <2>3. login'[l].user = login[l].user /\ login'[l].role = role[login[l].user]
    BY <2>2
  <2> QED BY <1>0, <2>1, <2>2, <2>3
<1>3. ASSUME CreateSession(l)
      PROVE  /\ HasRead(l) /\ login'[l].user = login[l].user /\ login'[l].role = login[l].role
  BY <1>3 DEF CreateSession, LoginTo, HasRead
<1>4. ASSUME ~(\E t \in Tries : Begin(l, t)), ~ReadUser(l), ~CreateSession(l)
      PROVE  /\ l \notin open' /\ login'[l].user = login[l].user
             /\ login'[l].role = login[l].role /\ (HasRead(l)' => HasRead(l))
  <2>1. PICK step \in {"verify", "record", "count", "lock", "clear", "unlock", "create",
                       "done"} : Moves(l, step) /\ (step # "done" => HasRead(l))
    BY <1>4, MoveSteps
  <2>2. login'[l] = [login[l] EXCEPT !.at = step] /\ open' = open
    BY <2>1 DEF Moves
  <2>3. HasRead(l)' => HasRead(l)
    BY <2>1, <2>2 DEF HasRead
  <2> QED BY <1>0, <2>2, <2>3
<1> HIDE DEF TypeOK, LoginTypes, LoginType
<1> QED BY <1>1, <1>2, <1>3, <1>4

LEMMA KnownNext ==
  ASSUME TypeOK, UsersKnown, [Next]_vars PROVE UsersKnown'
<1>1. exists \subseteq exists'
  <2>1. ASSUME NEW r \in Requests, Handler(r) PROVE exists \subseteq exists'
    <3>1. ASSUME NEW s \in open, NEW ask \in Asks, Extract(r, s, ask)
          PROVE  exists \subseteq exists'
      BY <3>1 DEF Extract, userVars
    <3>2. CASE Refuse(r) \/ Logout(r) \/ CreateUser(r) \/ Snapshot(r)
      BY <3>2 DEF Refuse, Logout, CreateUser, Snapshot, userVars
    <3>3. CASE UpdateUser(r) \/ UpdatePartly(r) \/ SweepSessions(r)
      BY <3>3 DEF UpdateUser, UpdatePartly, SweepSessions, userVars
    <3>4. CASE RoleLine(r) \/ ResetPassword(r) \/ RotateCsrf(r) \/ RequestFault(r)
      BY <3>4 DEF RoleLine, ResetPassword, RotateCsrf, RequestFault, userVars
    <3> QED BY <2>1, <3>1, <3>2, <3>3, <3>4 DEF Handler
  <2>2. (\E s \in open : Browse(s) \/ Expire(s)) \/ (\E u \in Users : SetPassword(u))
        \/ PruneSessions \/ PruneAttempts \/ Tick \/ Crash \/ UNCHANGED vars
          => exists \subseteq exists'
    BY DEF Browse, Expire, SetPassword, PruneSessions, PruneAttempts, Tick, Crash, vars,
       userVars
  <2> QED BY <2>1, <2>2, LoginKeepsRoles DEF Next
<1>2. ASSUME NEW l \in Logins, Login(l) PROVE UsersKnown'
  <2>1. login[l].user \in exists \/ ~HasRead(l)
    BY DEF UsersKnown
  <2>2. \A k \in Logins : k # l => login'[k] = login[k]
    BY <1>2, LoginAlone
  <2>3. l \in open' \/ HasRead(l)' => login'[l].user \in exists
    BY <1>2, <2>1, LoginReads
  <2>4. \A k \in Logins : k # l => (k \in open' => k \in open) /\ (HasRead(k)' => HasRead(k))
    BY <1>2, <2>2, SessionsGrow DEF HasRead
  <2> QED BY <1>1, <2>2, <2>3, <2>4 DEF UsersKnown
<1>3. CASE Crash
  <2>1. open' = open
    BY <1>3 DEF Crash, sessionVars
  <2>2. \A l \in Logins : login'[l].user = login[l].user /\ (HasRead(l)' => HasRead(l))
    BY <1>3 DEF Crash, HasRead, TypeOK, LoginTypes, LoginType
  <2> QED BY <1>1, <2>1, <2>2 DEF UsersKnown
<1>4. CASE login' = login /\ open' \subseteq open
  <2>1. \A l \in Logins : HasRead(l)' = HasRead(l)
    BY <1>4 DEF HasRead
  <2> QED BY <1>1, <1>4, <2>1 DEF UsersKnown
<1>5. UNCHANGED vars => login' = login /\ open' \subseteq open
  BY DEF vars, sessionVars
<1> QED BY <1>2, <1>3, <1>4, <1>5, LoginsUntouched

\* Steps that write no role and start or end no sweep leave the picture alone.
LEMMA RolesAside ==
  ASSUME RoleInv, UNCHANGED <<role, roleLine, exists, login>>, open' \subseteq open,
         \A r \in Requests :
           \/ request'[r] = request[r]
           \/ /\ request[r].at \notin {"update", "sweep", "line"}
              /\ request'[r].at \notin {"update", "sweep", "line"}
  PROVE  RoleInv'
<1>1. LineFollows'
  BY DEF RoleInv, LineFollows
<1>2. SweepFollows'
  BY DEF RoleInv, SweepFollows
<1>3. ReadCurrent'
  BY DEF RoleInv, ReadCurrent, HasRead
<1>4. SnapshotCurrent'
  BY DEF RoleInv, SnapshotCurrent
<1> QED BY <1>1, <1>2, <1>3, <1>4 DEF RoleInv

\* The steps of a login: nobody else keeps a thread.
LEMMA RoleLogin ==
  ASSUME TypeOK, RoleInv, NEW l \in Logins, Login(l) PROVE RoleInv'
<1>1. UNCHANGED <<role, roleLine, exists, request>>
  BY LoginAlone, LoginKeepsRoles
<1>2. \A k \in Logins : k # l => login'[k] = login[k] /\ (k \in open' => k \in open)
  BY LoginAlone, SessionsGrow
<1>3. \A k \in Logins : k # l => (HasRead(k)' => HasRead(k))
  BY <1>2 DEF HasRead
<1>4. HasRead(l) => login[l].role = role[login[l].user]
  BY DEF RoleInv, ReadCurrent
<1>5. HasRead(l)' \/ l \in open' => login'[l].role = role[login'[l].user]
  BY <1>4, LoginReads
<1>6. LineFollows' /\ SnapshotCurrent'
  BY <1>1 DEF RoleInv, LineFollows, SnapshotCurrent
<1>7. ReadCurrent'
  BY <1>1, <1>2, <1>3, <1>5 DEF RoleInv, ReadCurrent
<1>8. SweepFollows'
  <2>1. SUFFICES ASSUME NEW k \in open',
                        login'[k].role # role[login'[k].user]
                 PROVE  \E r \in Requests : request[r].target = login'[k].user
                                              /\ request[r].at = "sweep"
    BY <1>1 DEF SweepFollows
  <2>2. k # l
    BY <1>5, <2>1
  <2>3. k \in open /\ login'[k] = login[k]
    BY <1>2, <2>1, <2>2, SessionsGrow DEF TypeOK, SessionTypes
  <2> QED BY <2>1, <2>3 DEF RoleInv, SweepFollows
<1> QED BY <1>6, <1>7, <1>8 DEF RoleInv

\* A thread that is free, or kept by a handler, is kept by nobody else.
LEMMA Alone ==
  ASSUME TypeOK, threads = 1, ThreadsSuffice, NEW r \in Requests,
         FreeThread \/ request[r].at \in {"update", "sweep", "line"}
  PROVE  /\ \A l \in Logins : ~HasRead(l)
         /\ \A q \in Requests : q # r => request[q].at \notin {"update", "sweep", "line"}
<1>1. \A x \in Busy : x = r
  BY OneThread DEF Busy
<1>2. \A l \in Logins : HasRead(l) => l \in Busy /\ l # r
  BY ConstantsAssumption DEF HasRead, Busy
<1>3. \A q \in Requests : request[q].at \in {"update", "sweep", "line"} => q \in Busy
  BY DEF Busy
<1> QED BY <1>1, <1>2, <1>3

\* POST /api/users: the new row has no session and no login under way.
LEMMA RoleCreate ==
  ASSUME TypeOK, threads = 1, ThreadsSuffice, UsersKnown, RoleInv,
         NEW r \in Requests, CreateUser(r)
  PROVE  RoleInv'
<1> DEFINE u == request[r].target
<1>1. /\ FreeThread /\ request[r].at = "body" /\ u \notin exists /\ u \in Users
      /\ login' = login /\ open' = open
      /\ role' = [role EXCEPT ![u] = request[r].patch.role]
      /\ roleLine' = [roleLine EXCEPT ![u] = request[r].patch.role]
  BY DEF CreateUser, Handles, TypeOK, RequestTypes, RequestType, sessionVars
<1>2. /\ \A q \in Requests : q # r => request'[q] = request[q]
      /\ request'[r].at = "rotate"
  BY DEF CreateUser, RequestTo, TypeOK, RequestTypes
<1>3. FreeThread => /\ \A l \in Logins : ~HasRead(l)
                    /\ \A q \in Requests : q # r => request[q].at \notin {"update", "sweep", "line"}
  BY Alone
<1>4. \A q \in Requests : request'[q].at \notin {"update", "sweep", "line"}
                            /\ request[q].at \notin {"update", "sweep", "line"}
  BY <1>1, <1>2, <1>3
<1> HIDE DEF u
<1>5. \A v \in Users : roleLine'[v] = role'[v] /\ (v # u => role'[v] = role[v])
  BY <1>1, <1>4 DEF RoleInv, LineFollows, TypeOK, UserTypes
<1>6. LineFollows' /\ SnapshotCurrent'
  BY <1>4, <1>5 DEF LineFollows, SnapshotCurrent
<1>7. \A l \in open : login[l].user # u /\ login[l].user \in Users
  BY <1>1 DEF UsersKnown, TypeOK, SessionTypes, UserTypes
<1>8. \A l \in open : login[l].role = role[login[l].user]
  BY <1>4 DEF RoleInv, SweepFollows
<1>9. SweepFollows'
  BY <1>1, <1>5, <1>7, <1>8 DEF SweepFollows
<1>10. ReadCurrent'
  BY <1>1, <1>3 DEF ReadCurrent, HasRead
<1> QED BY <1>6, <1>9, <1>10 DEF RoleInv

\* PUT /api/users/:id reads the row.
LEMMA RoleSnapshot ==
  ASSUME TypeOK, threads = 1, ThreadsSuffice, RoleInv, NEW r \in Requests, Snapshot(r)
  PROVE  RoleInv'
<1> DEFINE u == request[r].target
           b == IF u \in exists THEN role[u] ELSE Keep
<1>1. /\ FreeThread /\ request[r].at = "body" /\ UNCHANGED <<role, roleLine, exists, login, open>>
      /\ request' = [request EXCEPT ![r].at = "update", ![r].before = b]
  BY DEF Snapshot, Handles, userVars, sessionVars, ghostVars
<1>2. \A q \in Requests : q # r => request'[q] = request[q]
                                     /\ request[q].at \notin {"update", "sweep", "line"}
  BY <1>1, Alone DEF TypeOK, RequestTypes
<1> HIDE DEF b
<1>3. request'[r].at = "update" /\ request'[r].before = b /\ request'[r].target = u
  BY <1>1 DEF TypeOK, RequestTypes, RequestType
<1>4. SnapshotCurrent'
  <2>1. \A q \in Requests : q # r => request'[q].at \notin {"update", "sweep", "line"}
    BY <1>2
  <2>2. request'[r].before =
          IF request'[r].target \in exists' THEN role'[request'[r].target] ELSE Keep
    BY <1>1, <1>3 DEF b
  <2> QED BY <1>3, <2>1, <2>2 DEF SnapshotCurrent
<1>5. LineFollows'
  BY <1>1, <1>2 DEF RoleInv, LineFollows
<1>6. SweepFollows'
  BY <1>1, <1>2 DEF RoleInv, SweepFollows
<1>7. ReadCurrent'
  BY <1>1 DEF RoleInv, ReadCurrent, HasRead
<1> QED BY <1>4, <1>5, <1>6, <1>7 DEF RoleInv

\* ... and writes it: a role that is written differs from the row that was read
\* exactly when the handler goes on to the sweep.
LEMMA RoleUpdate ==
  ASSUME TypeOK, threads = 1, ThreadsSuffice, RoleInv, NEW r \in Requests, UpdateUser(r)
  PROVE  RoleInv'
<1> DEFINE u == request[r].target
           p == request[r].patch
<1>1. /\ request[r].at = "update" /\ UNCHANGED <<roleLine, exists, login, open>>
      /\ role' = Written(role, u, p.role)
      /\ request' = [request EXCEPT ![r].at = IF RoleChanged(r) THEN "sweep" ELSE "rotate"]
  BY DEF UpdateUser, RequestTo, sessionVars, ghostVars
<1>2. u \in Users /\ p.role \in Roles \cup {Keep}
      /\ request[r].before = IF u \in exists THEN role[u] ELSE Keep
  BY <1>1 DEF TypeOK, RequestTypes, RequestType, Patch, RoleInv, SnapshotCurrent
<1>3. /\ \A l \in Logins : ~HasRead(l)
      /\ \A q \in Requests : q # r => request[q].at \notin {"update", "sweep", "line"}
  BY <1>1, Alone
<1>4. \A q \in Requests : q # r => request'[q] = request[q]
  BY <1>1 DEF TypeOK, RequestTypes
<1>5. request'[r].target = u /\ request'[r].patch = p
      /\ request'[r].at = IF RoleChanged(r) THEN "sweep" ELSE "rotate"
  BY <1>1 DEF TypeOK, RequestTypes, RequestType
<1>6. role \in [Users -> Roles] /\ Keep \notin Roles
  BY DEF TypeOK, UserTypes, Roles, Keep
<1>7. RoleChanged(r) => role'[u] = p.role
  BY <1>1, <1>2, <1>6 DEF RoleChanged, Written
<1>8. ~RoleChanged(r) => role' = role
  <2>1. CASE p.role = Keep
    BY <1>1, <2>1 DEF Written
  <2>2. CASE u \notin exists
    BY <1>1, <2>2 DEF Written
  <2>3. CASE p.role = role[u]
    BY <1>1, <1>2, <1>6, <2>3 DEF Written
  <2> HIDE DEF u, p
  <2>4. ~RoleChanged(r) => p.role = Keep \/ u \notin exists \/ p.role = role[u]
    BY <1>2, <1>6 DEF RoleChanged, p
  <2> QED BY <2>1, <2>2, <2>3, <2>4
<1>9. \A v \in Users : v # u => role'[v] = role[v]
  BY <1>1, <1>6 DEF Written
<1>10. \A v \in Users : roleLine[v] = role[v]
  BY <1>1, <1>3 DEF RoleInv, LineFollows
<1>11. \A l \in open : login[l].role = role[login[l].user] /\ login[l].user \in Users
  BY <1>1, <1>3 DEF RoleInv, SweepFollows, TypeOK, LoginTypes, LoginType, SessionTypes
<1> HIDE DEF u, p
<1>12. LineFollows'
  <2>1. SUFFICES ASSUME NEW v \in Users, roleLine[v] # role'[v]
                 PROVE  request'[r].target = v /\ request'[r].at = "sweep"
    BY <1>1 DEF LineFollows
  <2> QED BY <1>5, <1>8, <1>9, <1>10, <2>1
<1>13. SweepFollows'
  <2>1. SUFFICES ASSUME NEW l \in open, login[l].role # role'[login[l].user]
                 PROVE  request'[r].target = login[l].user /\ request'[r].at = "sweep"
    BY <1>1 DEF SweepFollows
  <2> QED BY <1>5, <1>8, <1>9, <1>11, <2>1
<1>14. ReadCurrent'
  BY <1>1, <1>3 DEF ReadCurrent, HasRead
<1>15. SnapshotCurrent'
  <2>1. \A q \in Requests : q # r => request'[q].at \notin {"update", "sweep", "line"}
    BY <1>3, <1>4
  <2>2. request'[r].at # "update"
    BY <1>5
  <2>3. request'[r].at \in {"sweep", "line"} =>
          request'[r].patch.role = role'[request'[r].target]
    BY <1>5, <1>7 DEF p
  <2> QED BY <2>1, <2>2, <2>3 DEF SnapshotCurrent
<1> QED BY <1>12, <1>13, <1>14, <1>15 DEF RoleInv

\* The sessions are swept before the line is written.
LEMMA RoleSweep ==
  ASSUME TypeOK, threads = 1, ThreadsSuffice, RoleInv, NEW r \in Requests,
         SweepSessions(r) \/ RoleLine(r)
  PROVE  RoleInv'
<1> DEFINE u == request[r].target
<1>1. /\ request[r].at \in {"sweep", "line"} /\ UNCHANGED <<role, exists, login>>
      /\ request' = [request EXCEPT ![r].at =
                       IF request[r].at = "sweep" THEN "line" ELSE "rotate"]
      /\ open' = IF request[r].at = "sweep" THEN open \ SessionsOf(u) ELSE open
      /\ roleLine' = IF request[r].at = "sweep" THEN roleLine
                     ELSE [roleLine EXCEPT ![u] = request[r].patch.role]
  BY DEF SweepSessions, RoleLine, RequestTo, userVars, sessionVars, ghostVars
<1>2. u \in Users /\ request[r].patch.role = role[u]
  BY <1>1 DEF TypeOK, RequestTypes, RequestType, RoleInv, SnapshotCurrent
<1>3. /\ \A l \in Logins : ~HasRead(l)
      /\ \A q \in Requests : q # r => request[q].at \notin {"update", "sweep", "line"}
  BY <1>1, Alone
<1>4. \A q \in Requests : q # r => request'[q] = request[q]
  BY <1>1 DEF TypeOK, RequestTypes
<1>5. request'[r].target = u /\ request'[r].patch = request[r].patch
      /\ request'[r].at = IF request[r].at = "sweep" THEN "line" ELSE "rotate"
  BY <1>1 DEF TypeOK, RequestTypes, RequestType
<1> HIDE DEF u
<1>6. \A v \in Users : v # u => roleLine[v] = role[v] /\ roleLine'[v] = roleLine[v]
  BY <1>1, <1>3 DEF RoleInv, LineFollows, TypeOK, UserTypes, u
<1>7. request[r].at = "line" => roleLine'[u] = role[u]
  BY <1>1, <1>2 DEF TypeOK, UserTypes
<1>8. LineFollows'
  <2>1. SUFFICES ASSUME NEW v \in Users, roleLine'[v] # role[v]
                 PROVE  request'[r].target = v /\ request'[r].at = "line"
    BY <1>1 DEF LineFollows
  <2> QED BY <1>1, <1>5, <1>6, <1>7, <2>1
<1>9. SweepFollows'
  <2>1. \A l \in open' : l \in open /\ login[l].role = role[login[l].user]
    BY <1>1, <1>3 DEF RoleInv, SweepFollows, SessionsOf, u
  <2> QED BY <1>1, <2>1 DEF SweepFollows
<1>10. ReadCurrent'
  BY <1>1, <1>3 DEF ReadCurrent, HasRead
<1>11. SnapshotCurrent'
  <2>1. \A q \in Requests : q # r => request'[q].at \notin {"update", "sweep", "line"}
    BY <1>3, <1>4
  <2>2. request'[r].at # "update" /\ request'[r].patch.role = role'[request'[r].target]
    BY <1>1, <1>2, <1>5
  <2> QED BY <2>1, <2>2 DEF SnapshotCurrent
<1> QED BY <1>8, <1>9, <1>10, <1>11 DEF RoleInv

LEMMA RoleHandler ==
  ASSUME TypeOK, Undisturbed, Undisturbed', ThreadsSuffice, UsersKnown, RoleInv,
         NEW r \in Requests, Handler(r)
  PROVE  RoleInv'
<1>0. threads = 1 /\ faults' # faults + 1
  BY DEF Undisturbed
<1>1. ~UpdatePartly(r) /\ ~RequestFault(r)
  BY <1>0 DEF UpdatePartly, RequestFault
<1>2. ASSUME NEW s \in open, NEW ask \in Asks, Extract(r, s, ask) PROVE RoleInv'
  <2>1. /\ UNCHANGED <<role, roleLine, exists, login, open>>
        /\ request[r].at = "idle" /\ request'[r].at = "body"
    BY <1>2 DEF Extract, TypeOK, RequestTypes, userVars, ghostVars
  <2> QED BY <1>2, <2>1, RolesAside, HandlerAlone
<1>3. ASSUME Refuse(r) \/ Logout(r) \/ ResetPassword(r) \/ RotateCsrf(r) PROVE RoleInv'
  <2>1. UNCHANGED <<role, roleLine, exists, login>> /\ open' \subseteq open
    BY <1>3 DEF Refuse, Logout, ResetPassword, NewPassword, RotateCsrf, userVars,
       sessionVars, ghostVars
  <2>2. request[r].at \in {"body", "rotate"} /\ request'[r].at \in {"done", "rotate", "ok"}
    BY <1>3 DEF Refuse, Logout, ResetPassword, RotateCsrf, Handles, RequestTo, TypeOK,
       RequestTypes, RequestType
  <2> QED BY <2>1, <2>2, RolesAside, HandlerAlone
<1> QED BY <1>0, <1>1, <1>2, <1>3, RoleCreate, RoleSnapshot, RoleUpdate, RoleSweep DEF Handler

LEMMA RoleNext ==
  ASSUME TypeOK, Undisturbed, Undisturbed', ThreadsSuffice, UsersKnown, RoleInv, [Next]_vars
  PROVE  RoleInv'
<1>1. ~Crash
  BY DEF Crash, Undisturbed
<1>2. CASE ~(\E l \in Logins : Login(l)) /\ ~(\E r \in Requests : Handler(r))
  <2>1. request' = request /\ login' = login /\ open' \subseteq open
    BY <1>1, <1>2, RequestsUntouched
  <2>2. UNCHANGED <<role, roleLine, exists>>
    BY <1>1, <1>2 DEF Next, Browse, Expire, SetPassword, PruneSessions, PruneAttempts, Tick,
       vars, userVars, ghostVars
  <2> QED BY <2>1, <2>2, RolesAside
<1> QED BY <1>2, RoleLogin, RoleHandler

\* The invariant of both theorems.
RotationInv == UsersKnown /\ (Undisturbed => RoleInv)

LEMMA RotationInvariant == Spec => []RotationInv
<1>1. Init => RotationInv
  <2> SUFFICES ASSUME Init PROVE RotationInv
    OBVIOUS
  <2>1. \A l \in Logins : ~HasRead(l)
    BY DEF Init, HasRead
  <2>2. \A r \in Requests : request[r].at \in {"idle", "done"}
    BY DEF Init
  <2>3. open = DOMAIN SignedIn /\ roleLine = role
    BY DEF Init
  <2>4. \A l \in DOMAIN SignedIn : /\ login[l].role = "admin" /\ login[l].user \in Admins
                                   /\ login[l].user \in exists
                                   /\ role[login[l].user] = "admin"
    BY ConstantsAssumption DEF Init
  <2>5. UsersKnown
    BY <2>1, <2>3, <2>4 DEF UsersKnown
  <2>6. RoleInv
    BY <2>1, <2>2, <2>3, <2>4 DEF RoleInv, LineFollows, SweepFollows, ReadCurrent,
       SnapshotCurrent
  <2> QED BY <2>5, <2>6 DEF RotationInv
<1>2. TypeOK /\ ThreadsSuffice /\ RotationInv /\ [Next]_vars => RotationInv'
  <2> SUFFICES ASSUME TypeOK, ThreadsSuffice, RotationInv, [Next]_vars PROVE RotationInv'
    OBVIOUS
  <2>1. Undisturbed' => Undisturbed
    BY CountersStep DEF Undisturbed, TypeOK, CounterTypes
  <2> QED BY <2>1, KnownNext, RoleNext DEF RotationInv
<1> QED BY <1>1, <1>2, TypeCorrect, ThreadsInvariant, PTL DEF Spec

\* On one thread and without failing writes: whatever update requests follow
\* each other on whatever users, the last user_role_change or creation line of
\* a user names the role the row has, as soon as no update of it is under way.
THEOREM RoleLinesComplete == Spec => []RoleChangesAudited
<1>1. RotationInv => RoleChangesAudited
  BY DEF RotationInv, Undisturbed, RoleInv, LineFollows, RoleChangesAudited, Settled
<1> QED BY <1>1, RotationInvariant, PTL

\* Under the same conditions no session outlives the role it was opened with.
THEOREM SessionsRotate == Spec => []RotatedOnRoleChange
<1>1. RotationInv => RotatedOnRoleChange
  BY DEF RotationInv, Undisturbed, RoleInv, SweepFollows, RotatedOnRoleChange, Settled
<1> QED BY <1>1, RotationInvariant, PTL

-----------------------------------------------------------------------------
(* The lockout                                                             *)

\* Logins of the user whose guess is being verified or recorded, and logins
\* that have recorded it and will count and lock.
Trying(u) == {l \in Logins : login[l].user = u /\ login[l].at \in {"verify", "record"}}
Pending(u) == {l \in Logins : login[l].user = u /\ login[l].at \in {"count", "lock"}}

\* Guesses that will still count when the lock ends; all of them when there is
\* no lock.
Outlasting(u) == {l \in Guesses(u) : failedAt[l] + Lockout > lockedUntil[u]}

\* What a login has read and recorded where it is.
AttemptsInv ==
  \A l \in Logins :
    /\ failedAt[l] <= now
    /\ login[l].at \in {"idle", "read"} => login[l].hash = Null /\ failedAt[l] = Null
    /\ HasRead(l) => login[l].hash # Null
    /\ login[l].at \in {"clear", "unlock", "create"} => login[l].guess = login[l].hash

\* The locks that faults may have cost.
Lost == threads * faults

\* A guess beyond the limit that outlasts the lock is one whose login is about
\* to set the lock again, or was kept from it; and there is a thread for every
\* guess that is on its way.
LockInv ==
  \A u \in Users : OnlyWrong(u) =>
    /\ Cardinality(Outlasting(u)) < MaxAttempts + Cardinality(Pending(u)) + Lost
    /\ Cardinality(Guesses(u)) + Cardinality(Trying(u)) < MaxAttempts + threads + Lost

\* Only these steps change the rows of login_attempts.
LEMMA AttemptsKept ==
  ASSUME Next, ~PruneAttempts,
         ~(\E l \in Logins : UnknownUser(l) \/ RecordAttempt(l) \/ ClearAttempts(l))
  PROVE  failedAt' = failedAt
<1>1. ASSUME NEW l \in Logins, Login(l), ~UnknownUser(l), ~RecordAttempt(l), ~ClearAttempts(l)
      PROVE  failedAt' = failedAt
  BY <1>1, LoginFrame DEF LoginLeaves
<1>2. ASSUME NEW r \in Requests, Handler(r) PROVE failedAt' = failedAt
  BY <1>2, HandlerFrame DEF HandlerLeaves
<1>3. (\E s \in open : Browse(s) \/ Expire(s)) \/ (\E u \in Users : SetPassword(u))
      \/ PruneSessions \/ Tick \/ Crash => failedAt' = failedAt
  BY DEF Browse, Expire, SetPassword, PruneSessions, Tick, Crash
<1> QED BY <1>1, <1>2, <1>3 DEF Next

\* The clock never goes back, and only logins touch a lock.
LEMMA ClockStep ==
  ASSUME TypeOK, [Next]_vars
  PROVE  /\ now <= now'
         /\ ~(\E l \in Logins : SetLockedUntil(l) \/ Unlock(l)) => lockedUntil' = lockedUntil
         /\ (\E l \in Logins : Login(l)) => now' = now
<1>1. now \in Nat
  BY DEF TypeOK, CounterTypes
<1>2. ASSUME NEW l \in Logins, Login(l)
      PROVE  /\ now' = now
             /\ ~SetLockedUntil(l) /\ ~Unlock(l) => lockedUntil' = lockedUntil
  BY <1>2, LoginFrame DEF LoginLeaves
<1>3. ASSUME NEW r \in Requests, Handler(r) PROVE now' = now /\ lockedUntil' = lockedUntil
  BY <1>3, HandlerFrame DEF HandlerLeaves
<1>4. (\E s \in open : Browse(s) \/ Expire(s)) \/ (\E u \in Users : SetPassword(u))
      \/ PruneSessions \/ PruneAttempts \/ Crash \/ UNCHANGED vars
        => now' = now /\ lockedUntil' = lockedUntil
  BY DEF Browse, Expire, SetPassword, PruneSessions, PruneAttempts, Crash, vars, userVars
<1>5. Tick => now' = now + 1 /\ lockedUntil' = lockedUntil
  BY DEF Tick, userVars
<1> QED BY <1>1, <1>2, <1>3, <1>4, <1>5 DEF Next

\* A login that keeps its user and its hash, and whose row stays or goes, is a
\* guess only if it was one.
LEMMA GuessFades ==
  ASSUME TypeOK, NEW u \in Users, NEW k \in Logins, now <= now', now' \in Nat,
         login'[k].user = login[k].user, login'[k].hash = login[k].hash,
         failedAt'[k] = failedAt[k] \/ failedAt'[k] = Null
  PROVE  k \in Guesses(u)' => k \in Guesses(u) /\ failedAt'[k] = failedAt[k]
<1>1. failedAt[k] \in Int /\ now \in Nat /\ Lockout \in Nat
  BY ConstantsAssumption DEF TypeOK, LoginTypes, CounterTypes, Null
<1>2. k \in Guesses(u)' => /\ login'[k].user = u /\ login'[k].hash # Null
                           /\ failedAt'[k] # Null /\ failedAt'[k] > now' - Lockout
  BY DEF Guesses, FailuresOf, Recent
<1>3. login[k].user = u /\ login[k].hash # Null /\ failedAt[k] # Null
      /\ failedAt[k] > now - Lockout => k \in Guesses(u)
  BY DEF Guesses, FailuresOf, Recent
<1> QED BY <1>1, <1>2, <1>3

\* A step of a login after the first keeps the name and the guess, and after
\* the row was read the hash.
LEMMA LoginCarries ==
  ASSUME TypeOK, NEW l \in Logins, Login(l), ~(\E t \in Tries : Begin(l, t))
  PROVE  /\ login'[l].user = login[l].user /\ login'[l].guess = login[l].guess
         /\ ~ReadUser(l) => login'[l].hash = login[l].hash
         /\ login'[l].at \notin {"idle", "read"}
<1> USE DEF TypeOK, LoginTypes, LoginType
<1>1. CASE ReadUser(l)
  <2>1. login' = [login EXCEPT ![l].at = "verify", ![l].hash = password[login[l].user],
                               ![l].role = role[login[l].user]]
    BY <1>1 DEF ReadUser
  <2>2. login'[l].user = login[l].user /\ login'[l].guess = login[l].guess
        /\ login'[l].at = "verify"
    BY <2>1
  <2> QED BY <1>1, <2>2
<1>2. CASE CreateSession(l)
  BY <1>2 DEF CreateSession, LoginTo
<1>3. CASE ~ReadUser(l) /\ ~CreateSession(l)
  <2>1. PICK step \in {"verify", "record", "count", "lock", "clear", "unlock", "create",
                       "done"} : Moves(l, step)
    BY <1>3, MoveSteps
  <2> QED BY <2>1 DEF Moves
<1> QED BY <1>1, <1>2, <1>3

LEMMA AttemptsNext ==
  ASSUME TypeOK, AttemptsInv, [Next]_vars PROVE AttemptsInv'
<1> DEFINE Fits(k) ==
      /\ failedAt[k] <= now
      /\ login[k].at \in {"idle", "read"} => login[k].hash = Null /\ failedAt[k] = Null
      /\ HasRead(k) => login[k].hash # Null
      /\ login[k].at \in {"clear", "unlock", "create"} => login[k].guess = login[k].hash
<1>0. SUFFICES ASSUME NEW k \in Logins PROVE Fits(k)'
  BY DEF AttemptsInv
<1>k. Fits(k) /\ now \in Nat /\ now' \in Nat /\ now <= now' /\ failedAt[k] \in Int
      /\ Null <= now' /\ Null \in Int
  <2>1. Fits(k)
    BY DEF AttemptsInv
  <2>2. now \in Nat /\ now' \in Nat /\ now <= now'
    BY CounterStep, ClockStep DEF TypeOK, CounterTypes
  <2>3. failedAt[k] \in Int /\ Null \in Int
    BY ConstantsAssumption DEF TypeOK, LoginTypes, Null
  <2> QED BY <2>1, <2>2, <2>3 DEF Null
<1>1. ASSUME login'[k] = login[k], failedAt'[k] = failedAt[k] \/ failedAt'[k] = Null
      PROVE  Fits(k)'
  BY <1>1, <1>k DEF HasRead
<1>2. ASSUME NEW t \in Tries, Begin(k, t) PROVE Fits(k)'
  <2>1. login'[k].at \in {"read", "done"} /\ login'[k].hash = login[k].hash
        /\ failedAt' = failedAt /\ login[k].at = "idle"
    BY <1>2 DEF Begin, TypeOK, LoginTypes, LoginType
  <2> QED BY <1>k, <2>1 DEF HasRead
<1>3. ASSUME ReadUser(k) PROVE Fits(k)'
  <2>1. login[k].user \in Users /\ password[login[k].user] \in Nat
    BY DEF TypeOK, LoginTypes, LoginType, UserTypes
  <2>2. login'[k].at = "verify" /\ login'[k].hash = password[login[k].user]
        /\ failedAt' = failedAt
    BY <1>3 DEF ReadUser, TypeOK, LoginTypes, LoginType
  <2> QED BY <1>k, <2>1, <2>2 DEF HasRead, Null
<1>4. ASSUME Login(k), ~(\E t \in Tries : Begin(k, t)), ~ReadUser(k) PROVE Fits(k)'
  <2>1. /\ login'[k].guess = login[k].guess /\ login'[k].hash = login[k].hash
        /\ login'[k].at \notin {"idle", "read"} /\ now' = now
    BY <1>4, LoginCarries, ClockStep
  <2>2. failedAt'[k] \in {failedAt[k], Null, now}
    <3>1. failedAt \in [Logins -> Null..MaxClock]
      BY DEF TypeOK, LoginTypes
    <3>2. CASE UnknownUser(k) \/ RecordAttempt(k) \/ ClearAttempts(k)
      BY <3>1, <3>2 DEF UnknownUser, RecordAttempt, ClearAttempts
    <3>3. CASE ShutOut(k) \/ Verify(k) \/ CountAttempts(k) \/ SetLockedUntil(k)
      BY <3>3 DEF ShutOut, Verify, CountAttempts, SetLockedUntil
    <3>4. CASE Unlock(k) \/ CreateSession(k) \/ LoginFault(k)
      BY <3>4 DEF Unlock, CreateSession, LoginFault
    <3> QED BY <1>4, <3>2, <3>3, <3>4 DEF Login
  <2>3. HasRead(k)' => HasRead(k)
    <3>1. CASE CreateSession(k)
      BY <3>1 DEF CreateSession, HasRead
    <3>2. CASE ~CreateSession(k)
      <4>1. PICK step \in {"verify", "record", "count", "lock", "clear", "unlock", "create",
                           "done"} : Moves(k, step) /\ (step # "done" => HasRead(k))
        BY <1>4, <3>2, MoveSteps
      <4>2. login'[k].at = step
        BY <4>1 DEF Moves, TypeOK, LoginTypes, LoginType
      <4> QED BY <4>1, <4>2 DEF HasRead
    <3> QED BY <3>1, <3>2
  <2>4. login'[k].at \in {"clear", "unlock", "create"} =>
          login[k].at \in {"clear", "unlock", "create"} \/ login[k].guess = login[k].hash
    BY <1>4 DEF Login, UnknownUser, ShutOut, Verify, RecordAttempt, CountAttempts,
       SetLockedUntil, ClearAttempts, Unlock, CreateSession, LoginFault, LoginTo, AfterFault,
       TypeOK, LoginTypes, LoginType
  <2> QED BY <1>k, <2>1, <2>2, <2>3, <2>4
<1>5. CASE Crash
  <2>1. /\ login'[k].guess = login[k].guess /\ login'[k].hash = login[k].hash
        /\ login'[k].at \in {login[k].at, "done"}
    BY <1>5 DEF Crash, TypeOK, LoginTypes, LoginType
  <2>2. failedAt' = failedAt
    BY <1>5 DEF Crash
  <2> QED BY <1>k, <2>1, <2>2 DEF HasRead
<1>6. ASSUME NEW l \in Logins, Login(l), l # k PROVE Fits(k)'
  <2>1. failedAt'[k] \in {failedAt[k], Null}
    BY <1>6 DEF Login, Begin, UnknownUser, ShutOut, ReadUser, Verify, RecordAttempt,
       CountAttempts, SetLockedUntil, ClearAttempts, Unlock, CreateSession, LoginFault,
       TypeOK, LoginTypes
  <2>2. login'[k] = login[k]
    BY <1>6, LoginAlone
  <2> QED BY <1>1, <2>1, <2>2
<1>7. CASE Next /\ ~(\E l \in Logins : Login(l)) /\ ~Crash
  <2>1. failedAt'[k] \in {failedAt[k], Null}
    <3>1. CASE PruneAttempts
      BY <3>1 DEF PruneAttempts
    <3>2. CASE ~PruneAttempts
      BY <1>7, <3>2, AttemptsKept DEF Login
    <3> QED BY <3>1, <3>2
  <2> QED BY <1>1, <1>7, <2>1, LoginsUntouched
<1>8. CASE UNCHANGED vars
  BY <1>1, <1>8 DEF vars
<1> HIDE DEF Fits
<1> QED BY <1>2, <1>3, <1>4, <1>5, <1>6, <1>7, <1>8

\* No guess at the user's password is gained.
Shrinks(u) ==
  /\ Guesses(u)' \subseteq Guesses(u)
  /\ Trying(u)' \subseteq Trying(u)
  /\ Outlasting(u)' \subseteq Outlasting(u)

LEMMA ShrinkStep ==
  ASSUME TypeOK, NEW u \in Users, now <= now', now' \in Nat,
         lockedUntil'[u] = lockedUntil[u],
         \A k \in Logins :
           \/ login'[k].user # u
           \/ login'[k].hash = Null /\ login'[k].at \notin {"verify", "record"}
           \/ /\ login'[k].user = login[k].user /\ login'[k].hash = login[k].hash
              /\ failedAt'[k] = failedAt[k] \/ failedAt'[k] = Null
              /\ login'[k].at \in {"verify", "record"} => login[k].at \in {"verify", "record"}
  PROVE  Shrinks(u)
<1>1. ASSUME NEW k \in Logins, k \in Guesses(u)'
      PROVE  k \in Guesses(u) /\ failedAt'[k] = failedAt[k]
  <2>1. login'[k].user = u /\ login'[k].hash # Null
    BY <1>1 DEF Guesses, FailuresOf
  <2> QED BY <1>1, <2>1, GuessFades
<1>2. Guesses(u)' \subseteq Logins
  BY DEF Guesses, FailuresOf
<1>3. Trying(u)' \subseteq Trying(u)
  <2>1. SUFFICES ASSUME NEW k \in Logins, login'[k].user = u,
                        login'[k].at \in {"verify", "record"}
                 PROVE  login[k].user = u /\ login[k].at \in {"verify", "record"}
    BY DEF Trying
  <2> QED BY <2>1
<1>4. ASSUME NEW k \in Outlasting(u)' PROVE k \in Outlasting(u)
  <2>1. k \in Guesses(u)' /\ failedAt'[k] + Lockout > lockedUntil'[u]
    BY <1>4 DEF Outlasting
  <2>2. k \in Guesses(u) /\ failedAt'[k] = failedAt[k]
    BY <1>1, <1>2, <2>1
  <2> QED BY <2>1, <2>2 DEF Outlasting
<1> QED BY <1>1, <1>2, <1>3, <1>4 DEF Shrinks

\* What a step may do to the guesses at a password, as long as all are wrong.
Reading(u, l) ==
  /\ login[l].user = u /\ login[l].at = "read" /\ ~Locked(u)
  /\ Guesses(u)' \subseteq Guesses(u) /\ Outlasting(u)' \subseteq Outlasting(u)
  /\ Trying(u)' \subseteq Trying(u) \cup {l} /\ Pending(u) \subseteq Pending(u)'

Recording(u, l) ==
  /\ l \in Trying(u)
  /\ Guesses(u)' \subseteq Guesses(u) \cup {l}
  /\ Outlasting(u)' \subseteq Outlasting(u) \cup {l}
  /\ Trying(u)' \subseteq Trying(u) \ {l} /\ Pending(u) \cup {l} \subseteq Pending(u)'

LEMMA ReadingStep ==
  ASSUME TypeOK, AttemptsInv, NEW l \in Logins, ReadUser(l), NEW u \in Users, login[l].user = u
  PROVE  Reading(u, l)
<1>1. /\ login[l].at = "read" /\ ~Locked(u) /\ UNCHANGED <<now, failedAt, lockedUntil>>
      /\ login' = [login EXCEPT ![l].at = "verify", ![l].hash = password[u],
                                ![l].role = role[u]]
  BY DEF ReadUser, userVars
<1>2. \A k \in Logins : k # l => login'[k] = login[k]
  BY <1>1 DEF TypeOK, LoginTypes
<1>3. login'[l].at = "verify" /\ failedAt[l] = Null
  BY <1>1 DEF TypeOK, LoginTypes, LoginType, AttemptsInv
<1>4. Guesses(u)' \subseteq Guesses(u)
  BY <1>1, <1>2, <1>3 DEF Guesses, FailuresOf, Recent
<1>5. Outlasting(u)' \subseteq Outlasting(u)
  BY <1>1, <1>4 DEF Outlasting
<1>6. Trying(u)' \subseteq Trying(u) \cup {l}
  BY <1>2 DEF Trying
<1>7. Pending(u) \subseteq Pending(u)'
  BY <1>1, <1>2 DEF Pending
<1> QED BY <1>1, <1>4, <1>5, <1>6, <1>7 DEF Reading

LEMMA RecordingStep ==
  ASSUME TypeOK, NEW l \in Logins, RecordAttempt(l), NEW u \in Users, login[l].user = u
  PROVE  Recording(u, l)
<1>1. /\ login[l].at = "record" /\ UNCHANGED <<now, lockedUntil>>
      /\ login' = [login EXCEPT ![l].at = "count"]
      /\ failedAt' = [failedAt EXCEPT ![l] = now]
  BY DEF RecordAttempt, LoginTo, userVars
<1>2. \A k \in Logins : k # l => login'[k] = login[k] /\ failedAt'[k] = failedAt[k]
  BY <1>1 DEF TypeOK, LoginTypes
<1>3. login'[l].at = "count" /\ login'[l].user = u
  BY <1>1 DEF TypeOK, LoginTypes, LoginType
<1>4. Guesses(u)' \subseteq Guesses(u) \cup {l}
  BY <1>1, <1>2 DEF Guesses, FailuresOf, Recent
<1>5. Outlasting(u)' \subseteq Outlasting(u) \cup {l}
  BY <1>1, <1>2, <1>4 DEF Outlasting
<1>6. Trying(u)' \subseteq Trying(u) \ {l} /\ l \in Trying(u)
  BY <1>1, <1>2, <1>3 DEF Trying
<1>7. Pending(u) \cup {l} \subseteq Pending(u)'
  BY <1>1, <1>2, <1>3 DEF Pending
<1> QED BY <1>4, <1>5, <1>6, <1>7 DEF Recording

LockCase(u) ==
  \/ Shrinks(u) /\ Pending(u) \subseteq Pending(u)' /\ faults' = faults
  \/ Shrinks(u) /\ faults' = faults + 1
  \/ Shrinks(u) /\ Cardinality(Guesses(u)) < MaxAttempts /\ faults' = faults
  \/ /\ Guesses(u)' \subseteq Guesses(u) /\ Trying(u)' \subseteq Trying(u)
     /\ Outlasting(u)' = {} /\ faults' = faults
  \/ \E l \in Logins : Reading(u, l) /\ faults' = faults
  \/ \E l \in Logins : Recording(u, l) /\ faults' = faults

\* The lock is set: every guess so far is older than its end less the window.
LEMMA LockingStep ==
  ASSUME TypeOK, AttemptsInv, NEW l \in Logins, SetLockedUntil(l), NEW u \in Users,
         login[l].user = u
  PROVE  LockCase(u)
<1>1. /\ login[l].at = "lock" /\ UNCHANGED <<now, failedAt, faults>>
      /\ login' = [login EXCEPT ![l].at = "done"]
      /\ lockedUntil' = [lockedUntil EXCEPT ![u] = now + Lockout]
  BY DEF SetLockedUntil, LoginTo
<1>2. \A k \in Logins : login'[k].user = login[k].user /\ login'[k].hash = login[k].hash
                          /\ login'[k].at \in {login[k].at, "done"}
  BY <1>1 DEF TypeOK, LoginTypes, LoginType
<1>3. Guesses(u)' \subseteq Guesses(u)
  BY <1>1, <1>2 DEF Guesses, FailuresOf, Recent
<1>4. Trying(u)' \subseteq Trying(u)
  BY <1>2 DEF Trying
<1>5. lockedUntil'[u] = now + Lockout
  BY <1>1 DEF TypeOK, UserTypes
<1>6. \A k \in Logins : failedAt[k] <= now /\ failedAt[k] \in Int /\ now \in Int /\ Lockout \in Int
  BY ConstantsAssumption DEF AttemptsInv, TypeOK, LoginTypes, CounterTypes, Null
<1>7. \A k \in Logins : ~(failedAt'[k] + Lockout > lockedUntil'[u])
  BY <1>1, <1>5, <1>6
<1>8. Outlasting(u)' = {}
  BY <1>7 DEF Outlasting, Guesses, FailuresOf
<1> QED BY <1>1, <1>3, <1>4, <1>8 DEF LockCase

\* The count: a login that does not go on to the lock has seen fewer failures
\* than the limit.
LEMMA CountingStep ==
  ASSUME TypeOK, NEW l \in Logins, CountAttempts(l), NEW u \in Users, login[l].user = u,
         Shrinks(u)
  PROVE  LockCase(u)
<1>1. /\ login[l].at = "count" /\ faults' = faults
      /\ login' = [login EXCEPT ![l].at = IF Cardinality(FailuresOf(u)) >= MaxAttempts
                                          THEN "lock" ELSE "done"]
  BY DEF CountAttempts, LoginTo
<1>2. CASE Cardinality(FailuresOf(u)) >= MaxAttempts
  <2>1. \A k \in Logins : /\ login'[k].user = login[k].user
                          /\ login'[k].at = login[k].at \/ login'[k].at = "lock"
    BY <1>1, <1>2 DEF TypeOK, LoginTypes, LoginType
  <2>2. Pending(u) \subseteq Pending(u)'
    BY <2>1 DEF Pending
  <2> QED BY <1>1, <2>2 DEF LockCase
<1>3. CASE ~(Cardinality(FailuresOf(u)) >= MaxAttempts)
  <2>1. IsFiniteSet(FailuresOf(u))
    BY FS_Subset, ConstantsAssumption DEF FailuresOf
  <2>2. Guesses(u) \subseteq FailuresOf(u)
    BY DEF Guesses
  <2>3. Cardinality(Guesses(u)) <= Cardinality(FailuresOf(u)) /\ IsFiniteSet(Guesses(u))
    BY <2>1, <2>2, FS_Subset
  <2>4. Cardinality(Guesses(u)) \in Nat /\ Cardinality(FailuresOf(u)) \in Nat
        /\ MaxAttempts \in Nat
    BY <2>1, <2>3, FS_CardinalityType, ConstantsAssumption
  <2>5. Cardinality(Guesses(u)) < MaxAttempts
    BY <1>3, <2>3, <2>4
  <2> QED BY <1>1, <2>5 DEF LockCase
<1> QED BY <1>2, <1>3

\* The steps of a login.
LEMMA LockLogin ==
  ASSUME TypeOK, AttemptsInv, NEW u \in Users, OnlyWrong(u), NEW l \in Logins, Login(l),
         now' = now, lockedUntil'[u] = lockedUntil[u] \/ SetLockedUntil(l) \/ Unlock(l)
  PROVE  LockCase(u)
<1> USE DEF TypeOK, LoginTypes, LoginType
<1>0. /\ now <= now' /\ now' \in Nat /\ u \in Users
      /\ \A k \in Logins : k # l => login'[k] = login[k]
  BY LoginAlone DEF CounterTypes
<1>1. ASSUME NEW t \in Tries, Begin(l, t) PROVE LockCase(u)
  <2>1. /\ login[l].at = "idle" /\ login'[l].at \in {"read", "done"}
        /\ login'[l].hash = login[l].hash /\ failedAt' = failedAt /\ lockedUntil' = lockedUntil
        /\ faults' = faults \/ faults' = faults + 1
    BY <1>1 DEF Begin, userVars
  <2>2. login[l].hash = Null
    BY <2>1 DEF AttemptsInv
  <2>3. Shrinks(u)
    BY <1>0, <2>1, <2>2, ShrinkStep
  <2>4. Pending(u) \subseteq Pending(u)'
    BY <1>0, <2>1 DEF Pending
  <2> QED BY <2>1, <2>3, <2>4 DEF LockCase
<1>2. ASSUME UnknownUser(l) \/ ShutOut(l) PROVE LockCase(u)
  <2>1. /\ login[l].at = "read" /\ login'[l].at = "done"
        /\ login'[l].hash = login[l].hash /\ lockedUntil' = lockedUntil /\ faults' = faults
        /\ \A k \in Logins : k # l => failedAt'[k] = failedAt[k]
    BY <1>2 DEF UnknownUser, ShutOut, LoginTo, userVars
  <2>2. login[l].hash = Null
    BY <2>1 DEF AttemptsInv
  <2>3. Shrinks(u)
    BY <1>0, <2>1, <2>2, ShrinkStep
  <2>4. Pending(u) \subseteq Pending(u)'
    BY <1>0, <2>1 DEF Pending
  <2> QED BY <2>1, <2>3, <2>4 DEF LockCase
\* Another user's login.
<1>3. ASSUME ~(\E t \in Tries : Begin(l, t)), login[l].user # u PROVE LockCase(u)
  <2>1. login'[l].user # u
    BY <1>3, LoginCarries
  <2>2. \A k \in Logins : k # l => failedAt'[k] \in {failedAt[k], Null}
    BY LoginFrame DEF LoginLeaves, UnknownUser, RecordAttempt, ClearAttempts
  <2>3. lockedUntil'[u] = lockedUntil[u]
    BY <1>3 DEF SetLockedUntil, Unlock, UserTypes
  <2>4. Shrinks(u)
    BY <1>0, <2>1, <2>2, <2>3, ShrinkStep
  <2>5. Pending(u) \subseteq Pending(u)'
    BY <1>0, <1>3 DEF Pending
  <2>6. faults' = faults \/ faults' = faults + 1
    BY LoginFrame DEF LoginLeaves
  <2> QED BY <2>4, <2>5, <2>6 DEF LockCase
\* The steps that only move a login of the user on.
<1>4. ASSUME login[l].user = u, Verify(l) \/ CountAttempts(l) \/ CreateSession(l) \/ LoginFault(l)
      PROVE  Shrinks(u)
  <2>1. UNCHANGED <<failedAt, lockedUntil>>
    BY <1>4 DEF Verify, CountAttempts, CreateSession, LoginFault, userVars
  <2>2. /\ login'[l].user = login[l].user /\ login'[l].hash = login[l].hash
        /\ login'[l].at \in {"verify", "record"} => login[l].at \in {"verify", "record"}
    BY <1>4 DEF Verify, CountAttempts, CreateSession, LoginFault, LoginTo, AfterFault
  <2> QED BY <1>0, <2>1, <2>2, ShrinkStep
<1>5. ASSUME login[l].user = u, Verify(l) \/ CreateSession(l) PROVE LockCase(u)
  <2>1. faults' = faults /\ login[l].at \notin {"count", "lock"}
    BY <1>5 DEF Verify, CreateSession
  <2>2. Pending(u) \subseteq Pending(u)'
    BY <1>0, <2>1 DEF Pending
  <2> QED BY <1>4, <1>5, <2>1, <2>2 DEF LockCase
<1>6. ASSUME login[l].user = u, LoginFault(l) PROVE LockCase(u)
  BY <1>4, <1>6 DEF LoginFault, LockCase
<1>7. ASSUME login[l].user = u, CountAttempts(l) PROVE LockCase(u)
  BY <1>4, <1>7, CountingStep
\* No right password, so nothing is cleared or unlocked.
<1>8. login[l].user = u => ~ClearAttempts(l) /\ ~Unlock(l)
  BY DEF ClearAttempts, Unlock, AttemptsInv, HasRead, OnlyWrong
<1>9. ASSUME login[l].user = u, ReadUser(l) PROVE LockCase(u)
  BY <1>9, ReadingStep DEF ReadUser, LockCase
<1>10. ASSUME login[l].user = u, RecordAttempt(l) PROVE LockCase(u)
  BY <1>10, RecordingStep DEF RecordAttempt, LockCase
<1>11. ASSUME login[l].user = u, SetLockedUntil(l) PROVE LockCase(u)
  BY <1>11, LockingStep
<1> QED BY <1>1, <1>2, <1>3, <1>5, <1>6, <1>7, <1>8, <1>9, <1>10, <1>11 DEF Login

\* A right password that was read stays on record.
LEMMA WrongBefore ==
  ASSUME TypeOK, AttemptsInv, [Next]_vars, NEW u \in Users, OnlyWrong(u)'
  PROVE  OnlyWrong(u)
<1> SUFFICES ASSUME NEW k \in Logins, login[k].user = u, login[k].hash # Null
             PROVE  login[k].guess # login[k].hash
  BY DEF OnlyWrong
<1>1. ASSUME login'[k].user = login[k].user, login'[k].hash = login[k].hash,
             login'[k].guess = login[k].guess
      PROVE  login[k].guess # login[k].hash
  BY <1>1 DEF OnlyWrong
<1>2. ASSUME NEW l \in Logins, Login(l), l # k PROVE login'[k] = login[k]
  BY <1>2, LoginAlone
<1>3. ASSUME Login(k)
      PROVE  login'[k].user = login[k].user /\ login'[k].hash = login[k].hash
               /\ login'[k].guess = login[k].guess
  <2>1. login[k].at # "idle" /\ login[k].at # "read"
    BY DEF AttemptsInv
  <2>2. ~(\E t \in Tries : Begin(k, t)) /\ ~ReadUser(k)
    BY <2>1 DEF Begin, ReadUser
  <2> QED BY <1>3, <2>2, LoginCarries
<1>4. ASSUME Crash
      PROVE  login'[k].user = login[k].user /\ login'[k].hash = login[k].hash
               /\ login'[k].guess = login[k].guess
  BY <1>4 DEF Crash, TypeOK, LoginTypes, LoginType
<1>5. UNCHANGED vars => login' = login
  BY DEF vars
<1> QED BY <1>1, <1>2, <1>3, <1>4, <1>5, LoginsUntouched

LEMMA LockCases ==
  ASSUME TypeOK, AttemptsInv, [Next]_vars, NEW u \in Users, OnlyWrong(u)
  PROVE  LockCase(u)
<1>0. now <= now' /\ now' \in Nat
  BY ClockStep, CounterStep DEF TypeOK, CounterTypes
<1>1. ASSUME NEW l \in Logins, Login(l) PROVE LockCase(u)
  <2>1. now' = now
    BY <1>1, ClockStep
  <2>2. lockedUntil'[u] = lockedUntil[u] \/ SetLockedUntil(l) \/ Unlock(l)
    BY <1>1, LoginFrame DEF LoginLeaves
  <2> QED BY <1>1, <2>1, <2>2, LockLogin
<1>2. CASE Crash
  <2>1. UNCHANGED <<failedAt, lockedUntil>> /\ faults' = faults + 1
    BY <1>2 DEF Crash, userVars
  <2>2. \A k \in Logins :
          /\ login'[k].user = login[k].user /\ login'[k].hash = login[k].hash
          /\ login'[k].at \in {login[k].at, "done"}
    BY <1>2 DEF Crash, TypeOK, LoginTypes, LoginType
  <2>3. Shrinks(u)
    BY <1>0, <2>1, <2>2, ShrinkStep
  <2> QED BY <2>1, <2>3 DEF LockCase
<1>3. CASE ~(\E l \in Logins : Login(l)) /\ ~Crash
  <2>1. login' = login
    BY <1>3, LoginsUntouched DEF vars
  <2>2. \A k \in Logins : failedAt'[k] = failedAt[k] \/ failedAt'[k] = Null
    <3>1. CASE PruneAttempts
      BY <3>1 DEF PruneAttempts
    <3>2. CASE Next /\ ~PruneAttempts
      BY <1>3, <3>2, AttemptsKept DEF Login
    <3>3. CASE UNCHANGED vars
      BY <3>3 DEF vars
    <3> QED BY <3>1, <3>2, <3>3
  <2>3. lockedUntil' = lockedUntil
    BY <1>3, ClockStep DEF Login
  <2>4. Shrinks(u)
    BY <1>0, <2>1, <2>2, <2>3, ShrinkStep
  <2>5. Pending(u)' = Pending(u)
    BY <2>1 DEF Pending
  <2> QED BY <2>4, <2>5, CountersStep DEF LockCase
<1> QED BY <1>1, <1>2, <1>3

\* Counting.
LEMMA SetSizes ==
  ASSUME NEW u
  PROVE  /\ IsFiniteSet(Guesses(u)) /\ IsFiniteSet(Outlasting(u))
         /\ IsFiniteSet(Trying(u)) /\ IsFiniteSet(Pending(u))
         /\ Cardinality(Guesses(u)) \in Nat /\ Cardinality(Outlasting(u)) \in Nat
         /\ Cardinality(Trying(u)) \in Nat /\ Cardinality(Pending(u)) \in Nat
         /\ Cardinality(Outlasting(u)) <= Cardinality(Guesses(u))
<1>1. /\ Guesses(u) \subseteq Logins /\ Outlasting(u) \subseteq Guesses(u)
      /\ Trying(u) \subseteq Logins /\ Pending(u) \subseteq Logins
  BY DEF Guesses, FailuresOf, Outlasting, Trying, Pending
<1>2. IsFiniteSet(Logins)
  BY ConstantsAssumption
<1>3. IsFiniteSet(Guesses(u)) /\ IsFiniteSet(Trying(u)) /\ IsFiniteSet(Pending(u))
  BY <1>1, <1>2, FS_Subset
<1>4. IsFiniteSet(Outlasting(u)) /\ Cardinality(Outlasting(u)) <= Cardinality(Guesses(u))
  BY <1>1, <1>3, FS_Subset
<1> QED BY <1>3, <1>4, FS_CardinalityType

\* A login under way keeps a thread.
LEMMA TryingKeepsThreads ==
  ASSUME ThreadsSuffice, threads \in Nat, NEW u
  PROVE  /\ Cardinality(Pending(u)) <= threads
         /\ \A l \in Logins : login[l].user = u /\ login[l].at = "read" =>
              Cardinality(Pending(u)) + Cardinality(Trying(u)) < threads
<1>1. Pending(u) \cup Trying(u) \subseteq Busy /\ Pending(u) \cap Trying(u) = {}
  BY DEF Pending, Trying, Busy
<1> DEFINE S == Pending(u) \cup Trying(u)
<1>2. IsFiniteSet(S) /\ Cardinality(S) = Cardinality(Pending(u)) + Cardinality(Trying(u))
  <2>1. Cardinality(Pending(u) \cap Trying(u)) = 0
    BY <1>1, FS_EmptySet
  <2>2. /\ IsFiniteSet(S)
        /\ Cardinality(S) = Cardinality(Pending(u)) + Cardinality(Trying(u))
                              - Cardinality(Pending(u) \cap Trying(u))
    BY SetSizes, FS_Union
  <2> QED BY <2>1, <2>2, SetSizes
<1>3. Cardinality(S) <= Cardinality(Busy) /\ Cardinality(S) \in Nat
  BY <1>1, <1>2, BusyFinite, FS_Subset, FS_CardinalityType
<1>4. ASSUME NEW l \in Logins, login[l].user = u, login[l].at = "read"
      PROVE  Cardinality(S) < threads
  <2>1. l \notin S /\ S \cup {l} \subseteq Busy
    BY <1>1, <1>4 DEF Pending, Trying, Busy
  <2> HIDE DEF S
  <2>2. Cardinality(S \cup {l}) = Cardinality(S) + 1
    BY <1>2, <2>1, FS_AddElement
  <2>3. Cardinality(S \cup {l}) <= Cardinality(Busy)
    BY <2>1, BusyFinite, FS_Subset
  <2> QED BY <1>3, <2>2, <2>3, BusyFinite DEF ThreadsSuffice
<1> HIDE DEF S
<1>5. Cardinality(Pending(u)) <= threads
  BY <1>2, <1>3, SetSizes, BusyFinite DEF ThreadsSuffice
<1> QED BY <1>2, <1>4, <1>5

LEMMA LostStep ==
  ASSUME TypeOK, [Next]_vars
  PROVE  /\ threads \in Nat /\ threads >= 1 /\ Lost \in Nat /\ threads' = threads
         /\ faults' = faults => Lost' = Lost
         /\ faults' = faults + 1 => Lost' = Lost + threads
<1>1. threads \in Nat /\ threads >= 1 /\ faults \in Nat /\ threads' = threads
  BY CountersStep, ConstantsAssumption DEF TypeOK, CounterTypes
<1>2. Lost \in Nat
  BY <1>1 DEF Lost
<1>3. faults' = faults + 1 => Lost' = Lost + threads
  BY <1>1 DEF Lost
<1> QED BY <1>1, <1>2, <1>3 DEF Lost

LEMMA LockNext ==
  ASSUME TypeOK, ThreadsSuffice, AttemptsInv, LockInv, [Next]_vars PROVE LockInv'
<1>0. SUFFICES ASSUME NEW u \in Users, OnlyWrong(u)'
               PROVE  /\ Cardinality(Outlasting(u)') < MaxAttempts + Cardinality(Pending(u)') + Lost'
                      /\ Cardinality(Guesses(u)') + Cardinality(Trying(u)')
                           < MaxAttempts + threads + Lost'
  BY LostStep DEF LockInv
<1> DEFINE g == Cardinality(Guesses(u))  g1 == Cardinality(Guesses(u)')
           w == Cardinality(Trying(u))   w1 == Cardinality(Trying(u)')
           o == Cardinality(Outlasting(u))  o1 == Cardinality(Outlasting(u)')
           p == Cardinality(Pending(u))  p1 == Cardinality(Pending(u)')
<1>1. OnlyWrong(u)
  BY <1>0, WrongBefore
<1>2. o < MaxAttempts + p + Lost /\ g + w < MaxAttempts + threads + Lost
  BY <1>1 DEF LockInv
<1>3. /\ g \in Nat /\ w \in Nat /\ o \in Nat /\ p \in Nat /\ o <= g
      /\ g1 \in Nat /\ w1 \in Nat /\ o1 \in Nat /\ p1 \in Nat
  <2>1. /\ IsFiniteSet(Guesses(u)') /\ IsFiniteSet(Outlasting(u)')
        /\ IsFiniteSet(Trying(u)') /\ IsFiniteSet(Pending(u)')
    <3>1. /\ Guesses(u)' \subseteq Logins /\ Outlasting(u)' \subseteq Logins
          /\ Trying(u)' \subseteq Logins /\ Pending(u)' \subseteq Logins
      BY DEF Guesses, FailuresOf, Outlasting, Trying, Pending
    <3> QED BY <3>1, FS_Subset, ConstantsAssumption
  <2> QED BY <2>1, SetSizes, FS_CardinalityType
<1>4. /\ threads \in Nat /\ threads >= 1 /\ Lost \in Nat /\ MaxAttempts \in Nat /\ MaxAttempts >= 1
      /\ p <= threads
  BY LostStep, TryingKeepsThreads, ConstantsAssumption
<1> DEFINE Goal == o1 < MaxAttempts + p1 + Lost' /\ g1 + w1 < MaxAttempts + threads + Lost'
<1>5. ASSUME Shrinks(u) PROVE g1 <= g /\ w1 <= w /\ o1 <= o
  BY <1>5, SetSizes, FS_Subset DEF Shrinks
<1>6. Pending(u)' \subseteq Logins
  BY DEF Pending
<1>7. ASSUME Pending(u) \subseteq Pending(u)' PROVE p <= p1
  <2>1. IsFiniteSet(Pending(u)')
    BY <1>6, FS_Subset, ConstantsAssumption
  <2> QED BY <1>7, <2>1, FS_Subset
<1>8. CASE Shrinks(u) /\ Pending(u) \subseteq Pending(u)' /\ faults' = faults
  <2>1. Lost' = Lost /\ g1 <= g /\ w1 <= w /\ o1 <= o /\ p <= p1
    BY <1>5, <1>7, <1>8, LostStep
  <2> HIDE DEF g, g1, w, w1, o, o1, p, p1
  <2>2. Goal
    BY <1>2, <1>3, <1>4, <2>1
  <2> QED BY <2>2 DEF g1, w1, o1, p1
<1>9. CASE Shrinks(u) /\ faults' = faults + 1
  <2>1. Lost' = Lost + threads /\ g1 <= g /\ w1 <= w /\ o1 <= o
    BY <1>5, <1>9, LostStep
  <2> HIDE DEF g, g1, w, w1, o, o1, p, p1
  <2>2. Goal
    BY <1>2, <1>3, <1>4, <2>1
  <2> QED BY <2>2 DEF g1, w1, o1, p1
<1>10. CASE Shrinks(u) /\ g < MaxAttempts /\ faults' = faults
  <2>1. Lost' = Lost /\ g1 <= g /\ w1 <= w /\ o1 <= o
    BY <1>5, <1>10, LostStep
  <2> HIDE DEF g, g1, w, w1, o, o1, p, p1
  <2>2. Goal
    BY <1>2, <1>3, <1>4, <1>10, <2>1
  <2> QED BY <2>2 DEF g1, w1, o1, p1
<1>11. CASE /\ Guesses(u)' \subseteq Guesses(u) /\ Trying(u)' \subseteq Trying(u)
            /\ Outlasting(u)' = {} /\ faults' = faults
  <2>1. Lost' = Lost /\ g1 <= g /\ w1 <= w /\ o1 = 0
    BY <1>11, SetSizes, FS_Subset, FS_EmptySet, LostStep
  <2> HIDE DEF g, g1, w, w1, o, o1, p, p1
  <2>2. Goal
    BY <1>2, <1>3, <1>4, <2>1
  <2> QED BY <2>2 DEF g1, w1, o1, p1
<1>12. ASSUME NEW l \in Logins, Reading(u, l), faults' = faults PROVE Goal
  <2>1. Lost' = Lost /\ g1 <= g /\ o1 <= o /\ p <= p1
    BY <1>7, <1>12, SetSizes, FS_Subset, LostStep DEF Reading
  <2>2. w1 <= w + 1
    <3>1. /\ IsFiniteSet(Trying(u) \cup {l})
          /\ Cardinality(Trying(u) \cup {l}) \in {w, w + 1}
      BY SetSizes, FS_AddElement
    <3>2. w1 <= Cardinality(Trying(u) \cup {l})
      BY <1>12, <3>1, FS_Subset DEF Reading
    <3> HIDE DEF w, w1
    <3> QED BY <1>3, <3>1, <3>2
  \* Without a lock every guess that counts outlasts it.
  <2>3. g <= o
    <3>1. now >= lockedUntil[u]
      BY <1>12 DEF Reading, Locked, TypeOK, CounterTypes, UserTypes
    <3>2. \A k \in Guesses(u) : failedAt[k] + Lockout > lockedUntil[u]
      <4>1. now \in Int /\ lockedUntil[u] \in Int /\ Lockout \in Int
        BY ConstantsAssumption DEF TypeOK, CounterTypes, UserTypes
      <4>2. \A k \in Guesses(u) : failedAt[k] \in Int /\ failedAt[k] > now - Lockout
        BY ConstantsAssumption DEF TypeOK, LoginTypes, Null, Guesses, FailuresOf, Recent
      <4> QED BY <3>1, <4>1, <4>2
    <3>3. Outlasting(u) = Guesses(u)
      BY <3>2 DEF Outlasting
    <3> QED BY <3>3, SetSizes
  <2>4. p + w < threads
    BY <1>4, <1>12, TryingKeepsThreads DEF Reading
  <2> HIDE DEF g, g1, w, w1, o, o1, p, p1
  <2> QED BY <1>2, <1>3, <1>4, <2>1, <2>2, <2>3, <2>4
<1>13. ASSUME NEW l \in Logins, Recording(u, l), faults' = faults PROVE Goal
  <2>1. Lost' = Lost
    BY <1>13, LostStep
  <2>2. g1 <= g + 1
    <3>1. /\ IsFiniteSet(Guesses(u) \cup {l})
          /\ Cardinality(Guesses(u) \cup {l}) \in {g, g + 1}
      BY SetSizes, FS_AddElement
    <3>2. g1 <= Cardinality(Guesses(u) \cup {l})
      BY <1>13, <3>1, FS_Subset DEF Recording
    <3> HIDE DEF g, g1
    <3> QED BY <1>3, <3>1, <3>2
  <2>3. o1 <= o + 1
    <3>1. /\ IsFiniteSet(Outlasting(u) \cup {l})
          /\ Cardinality(Outlasting(u) \cup {l}) \in {o, o + 1}
      BY SetSizes, FS_AddElement
    <3>2. o1 <= Cardinality(Outlasting(u) \cup {l})
      BY <1>13, <3>1, FS_Subset DEF Recording
    <3> HIDE DEF o, o1
    <3> QED BY <1>3, <3>1, <3>2
  <2>4. w1 <= w - 1
    <3>1. IsFiniteSet(Trying(u) \ {l}) /\ Cardinality(Trying(u) \ {l}) = w - 1
      BY <1>13, SetSizes, FS_RemoveElement DEF Recording
    <3>2. w1 <= Cardinality(Trying(u) \ {l})
      BY <1>13, <3>1, FS_Subset DEF Recording
    <3> QED BY <3>1, <3>2
  <2>5. p + 1 <= p1
    <3>1. l \notin Pending(u)
      BY <1>13 DEF Recording, Trying, Pending
    <3>2. IsFiniteSet(Pending(u) \cup {l}) /\ Cardinality(Pending(u) \cup {l}) = p + 1
      BY <3>1, SetSizes, FS_AddElement
    <3>3. IsFiniteSet(Pending(u)')
      BY <1>6, FS_Subset, ConstantsAssumption
    <3>4. Cardinality(Pending(u) \cup {l}) <= p1
      BY <1>13, <3>3, FS_Subset DEF Recording
    <3> QED BY <3>2, <3>4
  <2> HIDE DEF g, g1, w, w1, o, o1, p, p1
  <2> QED BY <1>2, <1>3, <1>4, <2>1, <2>2, <2>3, <2>4, <2>5
<1> HIDE DEF Shrinks
<1> QED BY <1>1, <1>8, <1>9, <1>10, <1>11, <1>12, <1>13, LockCases DEF LockCase

\* For any number of logins, threads and faults: as long as nobody has given
\* the right password of a user, the guesses at it that are within the lockout
\* window are fewer than the limit, plus one for every thread, plus one for
\* every thread and fault.
THEOREM LockoutHolds == Spec => []GuessesBounded
<1>1. Init => AttemptsInv /\ LockInv
  <2> SUFFICES ASSUME Init PROVE AttemptsInv /\ LockInv
    OBVIOUS
  <2>1. failedAt = [l \in Logins |-> Null] /\ now = 0 /\ faults = 0 /\ threads \in Nat \ {0}
    BY ConstantsAssumption DEF Init
  <2>2. \A l \in Logins : /\ login[l].at \in {"idle", "in", "done"}
                          /\ login[l].at = "idle" => login[l].hash = Null
    BY DEF Init
  <2>3. AttemptsInv
    BY <2>1, <2>2 DEF AttemptsInv, HasRead, Null
  <2>4. \A u \in Users : Guesses(u) = {} /\ Outlasting(u) = {} /\ Trying(u) = {}
                           /\ Pending(u) = {}
    BY <2>1, <2>2 DEF Guesses, FailuresOf, Recent, Outlasting, Trying, Pending
  <2>5. Lost = 0 /\ MaxAttempts \in Nat \ {0}
    BY <2>1, ConstantsAssumption DEF Lost
  <2>6. LockInv
    BY <2>1, <2>4, <2>5, FS_EmptySet DEF LockInv
  <2> QED BY <2>3, <2>6
<1>2. TypeOK /\ ThreadsSuffice /\ AttemptsInv /\ LockInv /\ [Next]_vars
        => AttemptsInv' /\ LockInv'
  BY AttemptsNext, LockNext
<1>3. TypeOK /\ LockInv => GuessesBounded
  <2> SUFFICES ASSUME TypeOK, LockInv, NEW u \in exists, OnlyWrong(u)
               PROVE  Cardinality(Guesses(u)) < MaxAttempts + threads * (1 + faults)
    BY DEF GuessesBounded
  <2>1. Cardinality(Guesses(u)) + Cardinality(Trying(u)) < MaxAttempts + threads + Lost
    BY DEF LockInv, TypeOK, UserTypes
  <2>2. threads \in Nat /\ faults \in Nat /\ MaxAttempts \in Nat
    BY ConstantsAssumption DEF TypeOK, CounterTypes
  <2>3. threads * (1 + faults) = threads + Lost /\ Lost \in Nat
    BY <2>2 DEF Lost
  <2>4. Cardinality(Guesses(u)) \in Nat /\ Cardinality(Trying(u)) \in Nat
    BY SetSizes
  <2> QED BY <2>1, <2>2, <2>3, <2>4
<1> QED BY <1>1, <1>2, <1>3, TypeCorrect, ThreadsInvariant, PTL DEF Spec
=============================================================================
