--------------------------- MODULE ConsoleSession ---------------------------
(***************************************************************************)
(* Who is signed in to the console: password logins with their lockout,    *)
(* sessions with their expiry, idle timeout and CSRF token, and the        *)
(* operations on users (create, update, password reset, logout), with the  *)
(* sweep task and nanoguard-admin set-password beside them.                *)
(* Sources: src/src/console/{auth,db,handlers,mod}.rs,                     *)
(* src/src/bin/nanoguard-admin.rs.                                         *)
(*                                                                         *)
(* Granularity.  A step is one with_conn, which holds the connection's     *)
(* mutex.  api_login has no await and keeps a thread of the console until  *)
(* it answers; a request on a session is checked first, then its body is   *)
(* awaited, then its handler keeps a thread.  Other threads, and the       *)
(* command-line tool, may write the database between any two steps.        *)
(***************************************************************************)
EXTENDS Integers, FiniteSets

CONSTANTS
  Users,         \* usernames
  Admins,        \* the administrators at the start
  Logins,        \* requests POST /api/login; a session is named after its login
  SignedIn,      \* for logins made before the start, whose they are
  NoAddress,     \* x-forwarded-for is absent
  Tries,         \* what a login may send
  Requests,      \* requests on a session that change something
  Asks,          \* what a request may ask for
  ThreadCounts,  \* worker threads the console may have
  MaxAttempts,   \* [console].max_login_attempts
  Lockout,       \* [console].lockout_duration_minutes
  SessionTTL,    \* [console].session_ttl_hours
  IdleTimeout,   \* [console].session_idle_timeout_hours
  Mixes,         \* bound on the logins and requests that come together
  MaxClock,      \* bound on the clock
  MaxPassword,   \* bound on the passwords of a user
  MaxFaults      \* bound on failed writes and crashes

Roles == {"user", "admin"}

\* A field of an update that is absent.
Keep == "keep"

Patch == [role : Roles \cup {Keep}, disabled : {"yes", "no", Keep}]

\* The target and the fields only matter where the operation has them.
Ask == [op : {"logout", "create", "update", "reset"}, target : Users, patch : Patch]

\* NULL: no lock, no failed attempt, a password that is nobody's.
Null == -1

Try(address) == [user : Users, guess : Null..MaxPassword, from : address]

ASSUME ConstantsAssumption ==
  /\ IsFiniteSet(Logins) /\ IsFiniteSet(Requests)
  /\ Users # {} /\ Logins # {} /\ Logins \cap Requests = {}
  /\ Admins \subseteq Users
  /\ DOMAIN SignedIn \subseteq Logins
  /\ \A l \in DOMAIN SignedIn : SignedIn[l] \in Admins
  /\ \A t \in Tries : t \in Try({t.from})
  /\ Asks \subseteq Ask
  /\ Mixes \subseteq SUBSET (Logins \cup Requests)
  /\ ThreadCounts \subseteq Nat \ {0}
  /\ MaxAttempts \in Nat \ {0} /\ Lockout \in Nat \ {0}
  /\ SessionTTL \in Nat /\ IdleTimeout \in Nat
  /\ MaxClock \in Nat /\ MaxPassword \in Nat /\ MaxFaults \in Nat

VARIABLES
  threads,      \* worker threads of the console
  now,          \* the clock
  exists,       \* rows of users, and their columns:
  role, disabled, lockedUntil,
  password,     \* password_hash, as the number of the password
  login,        \* where each login is, what it sent and what it has read
  failedAt,     \* its row of login_attempts, if any
  open,         \* rows of user_sessions, and their columns:
  expires, seen, csrf,
  request,      \* where each request is, what it asks and what it has read
  roleLine,     \* the role in the last audit line about each user's role
  overlapped,   \* logins that had read a password when it was replaced
  faults

userVars == <<exists, role, disabled, lockedUntil, password>>
sessionVars == <<open, expires, seen, csrf>>
ghostVars == <<roleLine, overlapped>>
vars == <<threads, now, userVars, login, failedAt, sessionVars, request, ghostVars, faults>>

\* The administrators have signed in; the others of the mix are to come.
Init ==
  /\ threads \in ThreadCounts
  /\ now = 0
  /\ exists \in {Admins, Users}
  /\ role = [u \in Users |-> IF u \in Admins THEN "admin" ELSE "user"]
  /\ disabled = [u \in Users |-> "no"]
  /\ lockedUntil = [u \in Users |-> Null]
  /\ password = [u \in Users |-> 0]
  /\ \E mix \in Mixes :
       /\ login = [l \in Logins |->
            IF l \in DOMAIN SignedIn
            THEN [at |-> "in", user |-> SignedIn[l], guess |-> 0, from |-> NoAddress,
                  hash |-> 0, role |-> "admin"]
            ELSE [at |-> IF l \in mix THEN "idle" ELSE "done",
                  user |-> CHOOSE u \in Users : TRUE, guess |-> Null,
                  from |-> NoAddress, hash |-> Null, role |-> "user"]]
       /\ request = [r \in Requests |->
            [at |-> IF r \in mix THEN "idle" ELSE "done",
             on |-> CHOOSE l \in Logins : TRUE, op |-> "logout",
             target |-> CHOOSE u \in Users : TRUE,
             patch |-> [role |-> Keep, disabled |-> Keep], token |-> 0, before |-> Keep]]
  /\ failedAt = [l \in Logins |-> Null]
  /\ open = DOMAIN SignedIn
  /\ expires = [l \in Logins |-> SessionTTL]
  /\ seen = [l \in Logins |-> 0]
  /\ csrf = [l \in Logins |-> 0]
  /\ roleLine = role
  /\ overlapped = {}
  /\ faults = 0

-----------------------------------------------------------------------------
(* Threads, rows and counts                                                *)

Busy ==
  {l \in Logins : login[l].at \notin {"idle", "in", "done"}} \cup
  {r \in Requests : request[r].at \in {"update", "sweep", "line", "rotate"}}

FreeThread == Cardinality(Busy) < threads

Recent(l) == failedAt[l] # Null /\ failedAt[l] > now - Lockout

\* count_recent_login_attempts
FailuresOf(u) == {l \in Logins : login[l].user = u /\ Recent(l)}

\* count_recent_login_attempts_by_ip
FailuresFrom(a) == {l \in Logins : login[l].from = a /\ Recent(l)}

SessionsOf(u) == {l \in open : login[l].user = u}

-----------------------------------------------------------------------------
(* POST /api/login                                                         *)

LoginTo(l, step) == login' = [login EXCEPT ![l].at = step]

\* The rate limit of an address.
Limited(a) == a # NoAddress /\ Cardinality(FailuresFrom(a)) >= MaxAttempts

\* The limit ends the login with 429, unless the count fails: then it is 0.
Begin(l, t) ==
  /\ login[l].at = "idle"
  /\ FreeThread
  /\ \E step \in {"read", "done"} :
       /\ login' = [login EXCEPT ![l].user = t.user, ![l].guess = t.guess,
                                 ![l].from = t.from, ![l].at = step]
       /\ step = "done" => Limited(t.from)
       /\ IF step = "read" /\ Limited(t.from)
          THEN faults < MaxFaults /\ faults' = faults + 1
          ELSE faults' = faults
  /\ UNCHANGED <<threads, now, userVars, failedAt, sessionVars, request, ghostVars>>

\* A name that is not there counts as a failure and locks nothing.
UnknownUser(l) ==
  /\ login[l].at = "read"
  /\ login[l].user \notin exists
  /\ LoginTo(l, "done")
  /\ failedAt' = [failedAt EXCEPT ![l] = now]
  /\ UNCHANGED <<threads, now, userVars, sessionVars, request, ghostVars, faults>>

\* Seeded fault: the lock is not looked at.
MutLocked(u) == FALSE

Locked(u) == now < lockedUntil[u]

ShutOut(l) ==
  /\ login[l].at = "read"
  /\ login[l].user \in exists
  /\ Locked(login[l].user) \/ disabled[login[l].user] = "yes"
  /\ LoginTo(l, "done")
  /\ UNCHANGED <<threads, now, userVars, failedAt, sessionVars, request, ghostVars, faults>>

\* The row is read: the password to verify and the role to answer with.
ReadUser(l) ==
  LET u == login[l].user IN
  /\ login[l].at = "read"
  /\ u \in exists
  /\ ~Locked(u) /\ disabled[u] = "no"
  /\ login' = [login EXCEPT ![l].at = "verify", ![l].hash = password[u],
                ![l].role = role[u]]
  /\ UNCHANGED <<threads, now, userVars, failedAt, sessionVars, request, ghostVars, faults>>

\* verify_password, against the row that was read.
Verify(l) ==
  /\ login[l].at = "verify"
  /\ LoginTo(l, IF login[l].guess = login[l].hash THEN "clear" ELSE "record")
  /\ UNCHANGED <<threads, now, userVars, failedAt, sessionVars, request, ghostVars, faults>>

RecordAttempt(l) ==
  /\ login[l].at = "record"
  /\ LoginTo(l, "count")
  /\ failedAt' = [failedAt EXCEPT ![l] = now]
  /\ UNCHANGED <<threads, now, userVars, sessionVars, request, ghostVars, faults>>

CountAttempts(l) ==
  /\ login[l].at = "count"
  /\ LoginTo(l, IF Cardinality(FailuresOf(login[l].user)) >= MaxAttempts
                THEN "lock" ELSE "done")
  /\ UNCHANGED <<threads, now, userVars, failedAt, sessionVars, request, ghostVars, faults>>

SetLockedUntil(l) ==
  /\ login[l].at = "lock"
  /\ LoginTo(l, "done")
  /\ lockedUntil' = [lockedUntil EXCEPT ![login[l].user] = now + Lockout]
  /\ UNCHANGED <<threads, now, exists, role, disabled, password, failedAt, sessionVars,
                 request, ghostVars, faults>>

\* The right password: the failures of the name are forgotten,
ClearAttempts(l) ==
  /\ login[l].at = "clear"
  /\ LoginTo(l, "unlock")
  /\ failedAt' = [k \in Logins |-> IF login[k].user = login[l].user THEN Null
                                   ELSE failedAt[k]]
  /\ UNCHANGED <<threads, now, userVars, sessionVars, request, ghostVars, faults>>

\* its lock is lifted, even one that has been set since,
Unlock(l) ==
  /\ login[l].at = "unlock"
  /\ LoginTo(l, "create")
  /\ lockedUntil' = [lockedUntil EXCEPT ![login[l].user] = Null]
  /\ UNCHANGED <<threads, now, exists, role, disabled, password, failedAt, sessionVars,
                 request, ghostVars, faults>>

\* Seeded fault: the row is written although the login is refused.
MutCreateSession(l) ==
  /\ login[l].at = "create"
  /\ LoginTo(l, "done")
  /\ open' = open \cup {l}
  /\ expires' = [expires EXCEPT ![l] = now + SessionTTL]
  /\ seen' = [seen EXCEPT ![l] = now]
  /\ UNCHANGED <<threads, now, userVars, failedAt, csrf, request, ghostVars, faults>>

\* and a session is opened, whatever has become of the user by now.
CreateSession(l) ==
  /\ login[l].at = "create"
  /\ LoginTo(l, "in")
  /\ open' = open \cup {l}
  /\ expires' = [expires EXCEPT ![l] = now + SessionTTL]
  /\ seen' = [seen EXCEPT ![l] = now]
  /\ UNCHANGED <<threads, now, userVars, failedAt, csrf, request, ghostVars, faults>>

\* What api_login does when a statement fails: the reads and the insert of the
\* session end it, the other results are dropped.
AfterFault(step) ==
  CASE step = "record" -> "count"
    [] step = "clear"  -> "unlock"
    [] step = "unlock" -> "create"
    [] OTHER           -> "done"

LoginFault(l) ==
  /\ faults < MaxFaults
  /\ login[l].at \in {"read", "record", "count", "lock", "clear", "unlock", "create"}
  /\ LoginTo(l, AfterFault(login[l].at))
  /\ faults' = faults + 1
  /\ UNCHANGED <<threads, now, userVars, failedAt, sessionVars, request, ghostVars>>

-----------------------------------------------------------------------------
(* Requests on a session                                                   *)

\* Neither past expires_at nor idle for too long.
Valid(s) == now <= expires[s] /\ seen[s] >= now - IdleTimeout

\* CurrentUser, and every refusal of MutatingUser after the row was found.
Browse(s) ==
  /\ s \in open
  /\ FreeThread
  /\ Valid(s)
  /\ seen' = [seen EXCEPT ![s] = now]
  /\ UNCHANGED <<threads, now, userVars, login, failedAt, open, expires, csrf, request,
                 ghostVars, faults>>

\* Either extractor deletes a row that is past its time.
Expire(s) ==
  /\ s \in open
  /\ FreeThread
  /\ ~Valid(s)
  /\ open' = open \ {s}
  /\ UNCHANGED <<threads, now, userVars, login, failedAt, expires, seen, csrf, request,
                 ghostVars, faults>>

\* MutatingUser accepts: the row is valid, the user enabled, the header equal
\* to the stored token.  What the handler asks of the role, it asks of the
\* row that was read here.
Extract(r, s, ask) ==
  LET me == login[s].user IN
  /\ request[r].at = "idle"
  /\ s \in open
  /\ FreeThread
  /\ Valid(s)
  /\ disabled[me] = "no"
  /\ ask.op = "logout" \/ role[me] = "admin"
  /\ seen' = [seen EXCEPT ![s] = now]
  /\ request' = [request EXCEPT ![r].at = "body", ![r].on = s, ![r].op = ask.op,
       ![r].target = IF ask.op = "logout" THEN me ELSE ask.target,
       ![r].patch = ask.patch, ![r].token = csrf[s]]
  /\ UNCHANGED <<threads, now, userVars, login, failedAt, open, expires, csrf, ghostVars,
                 faults>>

RequestTo(r, step) == request' = [request EXCEPT ![r].at = step]

Handles(r, op) == request[r].at = "body" /\ request[r].op = op /\ FreeThread

\* A body that does not parse, a weak password, 404 or 409.
Refuse(r) ==
  /\ request[r].at = "body"
  /\ RequestTo(r, "done")
  /\ UNCHANGED <<threads, now, userVars, login, failedAt, sessionVars, ghostVars, faults>>

\* POST /api/logout ends every session of the user.
Logout(r) ==
  /\ Handles(r, "logout")
  /\ RequestTo(r, "rotate")
  /\ open' = open \ SessionsOf(request[r].target)
  /\ UNCHANGED <<threads, now, userVars, login, failedAt, expires, seen, csrf, ghostVars,
                 faults>>

\* POST /api/users, with its audit line.
CreateUser(r) ==
  LET u == request[r].target IN
  /\ Handles(r, "create")
  /\ u \notin exists
  /\ request[r].patch.role # Keep
  /\ RequestTo(r, "rotate")
  /\ exists' = exists \cup {u}
  /\ role' = [role EXCEPT ![u] = request[r].patch.role]
  /\ roleLine' = [roleLine EXCEPT ![u] = request[r].patch.role]
  /\ UNCHANGED <<threads, now, disabled, lockedUntil, password, login, failedAt,
                 sessionVars, overlapped, faults>>

\* PUT /api/users/:id: the target is read first, for the audit line,
Snapshot(r) ==
  LET u == request[r].target IN
  /\ Handles(r, "update")
  /\ request' = [request EXCEPT ![r].at = "update",
                                ![r].before = IF u \in exists THEN role[u] ELSE Keep]
  /\ UNCHANGED <<threads, now, userVars, login, failedAt, sessionVars, ghostVars, faults>>

\* and the role counts as changed when it differs from a row that was read.
RoleChanged(r) ==
  Keep \notin {request[r].patch.role, request[r].before}
    /\ request[r].patch.role # request[r].before

\* One UPDATE of a column: none when the field is absent or there is no row.
Written(column, u, field) ==
  IF field # Keep /\ u \in exists THEN [column EXCEPT ![u] = field] ELSE column

UpdateUser(r) ==
  LET u == request[r].target
      p == request[r].patch IN
  /\ request[r].at = "update"
  /\ RequestTo(r, IF RoleChanged(r) THEN "sweep" ELSE "rotate")
  /\ role' = Written(role, u, p.role)
  /\ disabled' = Written(disabled, u, p.disabled)
  /\ UNCHANGED <<threads, now, exists, lockedUntil, password, login, failedAt, sessionVars,
                 ghostVars, faults>>

\* A later field fails: the fields before it are written, the answer is 500.
UpdatePartly(r) ==
  LET u == request[r].target
      p == request[r].patch IN
  /\ faults < MaxFaults
  /\ request[r].at = "update"
  /\ RequestTo(r, "done")
  /\ role' = Written(role, u, p.role)
  /\ disabled' \in {disabled, Written(disabled, u, p.disabled)}
  /\ faults' = faults + 1
  /\ UNCHANGED <<threads, now, exists, lockedUntil, password, login, failedAt,
                 sessionVars, ghostVars>>

\* Seeded fault: the sessions stay when a role changes.
MutSweepSessions(r) ==
  /\ request[r].at = "sweep"
  /\ RequestTo(r, "line")
  /\ UNCHANGED <<threads, now, userVars, login, failedAt, sessionVars, ghostVars, faults>>

\* "Session rotation on privilege escalation".
SweepSessions(r) ==
  /\ request[r].at = "sweep"
  /\ RequestTo(r, "line")
  /\ open' = open \ SessionsOf(request[r].target)
  /\ UNCHANGED <<threads, now, userVars, login, failedAt, expires, seen, csrf, ghostVars,
                 faults>>

\* Seeded fault: the line carries the role from before.
MutRoleLine(r) ==
  /\ request[r].at = "line"
  /\ RequestTo(r, "rotate")
  /\ roleLine' = [roleLine EXCEPT ![request[r].target] = request[r].before]
  /\ UNCHANGED <<threads, now, userVars, login, failedAt, sessionVars, overlapped, faults>>

\* The user_role_change line.
RoleLine(r) ==
  /\ request[r].at = "line"
  /\ RequestTo(r, "rotate")
  /\ roleLine' = [roleLine EXCEPT ![request[r].target] = request[r].patch.role]
  /\ UNCHANGED <<threads, now, userVars, login, failedAt, sessionVars, overlapped, faults>>

\* A login that has read the user's row and not answered yet.
HasRead(l) ==
  login[l].at \in {"verify", "record", "count", "lock", "clear", "unlock", "create"}

InFlight(u) == {l \in Logins : login[l].user = u /\ HasRead(l)}

\* Seeded fault: the sessions of the user are left alone.
MutNewPassword(u) ==
  /\ password[u] < MaxPassword
  /\ password' = [password EXCEPT ![u] = @ + 1]
  /\ open' = open
  /\ overlapped' = overlapped \cup InFlight(u)

\* One transaction: the new hash is written and the sessions are deleted.
NewPassword(u) ==
  /\ password[u] < MaxPassword
  /\ password' = [password EXCEPT ![u] = @ + 1]
  /\ open' = open \ SessionsOf(u)
  /\ overlapped' = overlapped \cup InFlight(u)

\* POST /api/users/:id/reset-password
ResetPassword(r) ==
  /\ Handles(r, "reset")
  /\ request[r].target \in exists
  /\ RequestTo(r, "rotate")
  /\ NewPassword(request[r].target)
  /\ UNCHANGED <<threads, now, exists, role, disabled, lockedUntil, login, failedAt,
                 expires, seen, csrf, roleLine, faults>>

\* nanoguard-admin set-password, in a process of its own.
SetPassword(u) ==
  /\ u \in exists
  /\ NewPassword(u)
  /\ UNCHANGED <<threads, now, exists, role, disabled, lockedUntil, login, failedAt,
                 expires, seen, csrf, request, roleLine, faults>>

\* Seeded fault: the token is kept.
MutRotateCsrf(r) ==
  /\ request[r].at = "rotate"
  /\ RequestTo(r, "ok")
  /\ UNCHANGED <<threads, now, userVars, login, failedAt, sessionVars, ghostVars, faults>>

\* rotate_csrf, at the end of every handler; no row, no new token.
RotateCsrf(r) ==
  LET s == request[r].on IN
  /\ request[r].at = "rotate"
  /\ RequestTo(r, "ok")
  /\ csrf' = [csrf EXCEPT ![s] = IF s \in open THEN @ + 1 ELSE @]
  /\ UNCHANGED <<threads, now, userVars, login, failedAt, open, expires, seen, ghostVars,
                 faults>>

\* A statement fails.  The logout, the update without its snapshot and the
\* audit line go on; the rest is a 500, or a token that stays.
AfterRequestFault(at, op) ==
  CASE at = "sweep"                  -> "line"
    [] at = "body" /\ op = "logout" -> "rotate"
    [] at = "body" /\ op = "update" -> "update"
    [] OTHER                         -> "done"

RequestFault(r) ==
  /\ faults < MaxFaults
  /\ request[r].at \in {"body", "update", "sweep", "rotate"}
  /\ request[r].at = "body" => FreeThread
  /\ RequestTo(r, AfterRequestFault(request[r].at, request[r].op))
  /\ faults' = faults + 1
  /\ UNCHANGED <<threads, now, userVars, login, failedAt, sessionVars, ghostVars>>

-----------------------------------------------------------------------------
(* The sweep task, the clock and crashes                                   *)

PruneSessions ==
  /\ open' = {s \in open : Valid(s)}
  /\ UNCHANGED <<threads, now, userVars, login, failedAt, expires, seen, csrf, request,
                 ghostVars, faults>>

PruneAttempts ==
  /\ failedAt' = [l \in Logins |-> IF failedAt[l] < now - 2 * Lockout THEN Null
                                   ELSE failedAt[l]]
  /\ UNCHANGED <<threads, now, userVars, login, sessionVars, request, ghostVars, faults>>

Tick ==
  /\ now < MaxClock
  /\ now' = now + 1
  /\ UNCHANGED <<threads, userVars, login, failedAt, sessionVars, request, ghostVars, faults>>

\* The console dies and is started again with the same session_secret.
Crash ==
  /\ faults < MaxFaults
  /\ faults' = faults + 1
  /\ login' = [l \in Logins |->
       IF login[l].at \in {"idle", "in"} THEN login[l] ELSE [login[l] EXCEPT !.at = "done"]]
  /\ request' = [r \in Requests |->
       IF request[r].at \in {"idle", "ok"} THEN request[r]
       ELSE [request[r] EXCEPT !.at = "done"]]
  /\ UNCHANGED <<threads, now, userVars, failedAt, sessionVars, ghostVars>>

-----------------------------------------------------------------------------

Login(l) ==
  \/ \E t \in Tries : Begin(l, t)
  \/ UnknownUser(l)
  \/ ShutOut(l)
  \/ ReadUser(l)
  \/ Verify(l)
  \/ RecordAttempt(l)
  \/ CountAttempts(l)
  \/ SetLockedUntil(l)
  \/ ClearAttempts(l)
  \/ Unlock(l)
  \/ CreateSession(l)
  \/ LoginFault(l)

Handler(r) ==
  \/ \E s \in open : \E ask \in Asks : Extract(r, s, ask)
  \/ Refuse(r)
  \/ Logout(r)
  \/ CreateUser(r)
  \/ Snapshot(r)
  \/ UpdateUser(r)
  \/ UpdatePartly(r)
  \/ SweepSessions(r)
  \/ RoleLine(r)
  \/ ResetPassword(r)
  \/ RotateCsrf(r)
  \/ RequestFault(r)

Next ==
  \/ \E l \in Logins : Login(l)
  \/ \E r \in Requests : Handler(r)
  \/ \E s \in open : Browse(s) \/ Expire(s)
  \/ \E u \in Users : SetPassword(u)
  \/ PruneSessions
  \/ PruneAttempts
  \/ Tick
  \/ Crash

Spec == Init /\ [][Next]_vars

-----------------------------------------------------------------------------
(* Properties                                                              *)

LoginType ==
  [at : {"idle", "read", "verify", "record", "count", "lock", "clear", "unlock",
         "create", "in", "done"},
   user : Users, guess : Null..MaxPassword,
   from : {NoAddress} \cup {t.from : t \in Tries},
   hash : Null..MaxPassword, role : Roles]

RequestType ==
  [at : {"idle", "body", "update", "sweep", "line", "rotate", "ok", "done"},
   on : Logins, op : {"logout", "create", "update", "reset"}, target : Users,
   patch : Patch, token : Nat, before : Roles \cup {Keep}]

UserTypes ==
  /\ exists \in SUBSET Users
  /\ role \in [Users -> Roles]
  /\ roleLine \in [Users -> Roles]
  /\ disabled \in [Users -> {"yes", "no"}]
  /\ lockedUntil \in [Users -> Int]
  /\ password \in [Users -> 0..MaxPassword]

LoginTypes ==
  /\ login \in [Logins -> LoginType]
  /\ failedAt \in [Logins -> Null..MaxClock]
  /\ overlapped \in SUBSET Logins

\* A row of user_sessions belongs to a login that has succeeded.
SessionTypes ==
  /\ open \in SUBSET {l \in Logins : login[l].at = "in"}
  /\ expires \in [Logins -> Nat]
  /\ seen \in [Logins -> 0..MaxClock]
  /\ csrf \in [Logins -> Nat]

RequestTypes ==
  /\ request \in [Requests -> RequestType]
  /\ \A r \in Requests :
       request[r].at \in {"sweep", "line"} => request[r].patch.role # Keep

CounterTypes ==
  /\ threads \in ThreadCounts
  /\ now \in 0..MaxClock
  /\ faults \in 0..MaxFaults

TypeOK == UserTypes /\ LoginTypes /\ SessionTypes /\ RequestTypes /\ CounterTypes

\* "The invariant the transaction protects": a session that was opened with a
\* password that has been replaced since is the session of a login that had
\* read the old hash when the new one was committed, never an earlier one.
OldPasswordOnlyInFlight ==
  \A l \in open : login[l].hash # password[login[l].user] => l \in overlapped

\* What makes that inductive: a login on its way to a session either holds the
\* current hash or is known to have been overtaken.
HashCurrent ==
  \A l \in Logins :
    HasRead(l) => login[l].hash = password[login[l].user] \/ l \in overlapped

\* Wrong guesses at the user's password that still count.
Guesses(u) == {l \in FailuresOf(u) : login[l].hash # Null}

\* No login of the user has had the right password so far.
OnlyWrong(u) ==
  \A l \in Logins :
    login[l].user = u /\ login[l].hash # Null => login[l].guess # login[l].hash

\* The lockout, with its races: as long as nobody has given the right password
\* of the user, the guesses at it within the window stay below the limit plus
\* one for every thread, and as many again for every fault: a crash ends every
\* login that was about to set the lock, and restarts the threads.
GuessesBounded ==
  \A u \in exists :
    OnlyWrong(u) => Cardinality(Guesses(u)) < MaxAttempts + threads * (1 + faults)

\* No update of the user is under way.
Settled(u) ==
  \A r \in Requests :
    request[r].target = u => request[r].at \notin {"update", "sweep", "line"}

\* "Every privilege escalation/de-escalation" has its line, when handlers do
\* not overlap and no write fails.
RoleChangesAudited ==
  threads = 1 /\ faults = 0 =>
    \A u \in Users : Settled(u) => roleLine[u] = role[u]

\* A session never outlives the role it was opened with, under the same
\* conditions.
RotatedOnRoleChange ==
  threads = 1 /\ faults = 0 =>
    \A l \in open : Settled(login[l].user) => login[l].role = role[login[l].user]

\* A CSRF token that a mutation has used up is refused from then on, also when
\* several mutations of the session were accepted with it.
TokenSpent ==
  \A r \in Requests :
    request[r].at = "ok" /\ request[r].on \in open =>
      csrf[request[r].on] > request[r].token

=============================================================================
