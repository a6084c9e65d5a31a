---------------------------- MODULE AuthSessions ----------------------------
(***************************************************************************)
(* Accounts, roles, teams and refresh sessions of the auth service, under  *)
(* concurrent requests.                                                    *)
(*                                                                         *)
(* PostgreSQL runs the transactions at READ COMMITTED and no request       *)
(* locks what it reads, so a request is a step that reads, followed by one *)
(* step per flush or commit that writes.  A write waits for the row locks  *)
(* of others; only the flush of a refresh leaves a lock behind that other  *)
(* requests can meet (RowLocked), the other writes are flushed and         *)
(* committed in one step.                                                  *)
(*                                                                         *)
(* The login's rate limit, its 429 included, is that of RateLimit and is   *)
(* left out here.                                                          *)
(*                                                                         *)
(* A request that its first reads refuse (401, 403, 404, 409, a logout of  *)
(* a revoked session) changes nothing and is no step here.                 *)
(***************************************************************************)
EXTENDS Integers, Sequences, FiniteSets

CONSTANTS
  Worker,       \* threads of the server's pool: each runs one request at a time
  User,         \* accounts, by normalized email
  NoUser,       \* no account
  Team,         \* teams, by name
  NoTeam,       \* no team
  RoleRequests, \* sets of roles that admins ask for; a list of blanks asks for none
  AccessTtl,    \* access_token_expire_minutes, in steps of the clock
  RefreshTtl,   \* refresh_token_expire_days, in steps of the clock
  MaxSessions,  \* bound: refresh sessions
  MaxGrants,    \* bound: requests that write roles
  MaxTeamGrants,\* bound: those and the ones that write memberships, once there is a team
  MaxTime       \* bound: the clock

RoleCode == {"user", "teamlead", "admin"}

ASSUME AuthAssumption ==
  /\ IsFiniteSet(Worker)
  /\ NoUser \notin User
  /\ NoTeam \notin Team
  /\ RoleRequests \subseteq SUBSET RoleCode
  /\ {AccessTtl, RefreshTtl, MaxSessions, MaxGrants, MaxTeamGrants, MaxTime} \subseteq Nat

VARIABLES
  now,       \* the clock
  users,     \* table users
  userRoles, \* table user_roles: the rows of each user
  teams,     \* table teams
  members,   \* table team_memberships: the rows of each user
  grants,    \* numbers the requests that wrote user_roles or added a team membership
  sessions,  \* table refresh_token_sessions, in the order of the commits, with
             \*   what the access token issued beside each claims
  req,       \* per worker: the request in progress
  adminAt,   \* history: the times at which each user held the role admin
  recorded   \* audit_log: per user and team, memberships recorded as added less those
             \*   recorded as removed

teamVars == <<teams, members, recorded>>
vars == <<now, users, userRoles, grants, sessions, req, adminAt, teamVars>>

UserRole == [code : RoleCode, grant : Nat]

Membership == [team : Team, grant : Nat]

Session ==
  [user : User, parent : Nat, roles : SUBSET RoleCode,
   iat : Nat, revoked : BOOLEAN, given : BOOLEAN]

Step ==
  {"idle", "register", "create", "replace", "reply",
   "revoke", "issue", "commit", "respond", "logout", "join", "leave"}

Request ==
  [at : Step, user : User \cup {NoUser}, sid : Nat, codes : SUBSET RoleCode,
   rows : SUBSET UserRole, time : Nat, seen : SUBSET User, team : Team \cup {NoTeam},
   teams : SUBSET Team, member : Nat]

\* Every variable has its type: the tables satisfy their column types and the
\* requests in progress carry values of the right kind.
TypeOK ==
  /\ now \in Nat
  /\ users \in SUBSET User
  /\ userRoles \in [User -> SUBSET UserRole]
  /\ teams \in SUBSET Team
  /\ members \in [User -> SUBSET Membership]
  /\ grants \in Nat
  /\ sessions \in Seq(Session)
  /\ req \in [Worker -> Request]
  /\ adminAt \in [User -> SUBSET Nat]
  /\ recorded \in [User \X Team -> Int]

Idle ==
  [at |-> "idle", user |-> NoUser, sid |-> 0, codes |-> {}, rows |-> {},
   time |-> 0, seen |-> {}, team |-> NoTeam, teams |-> {}, member |-> 0]

Init ==
  /\ now = 0
  /\ users = {}
  /\ userRoles = [u \in User |-> {}]
  /\ teams = {}
  /\ members = [u \in User |-> {}]
  /\ grants = 0
  /\ sessions = <<>>
  /\ req = [w \in Worker |-> Idle]
  /\ adminAt = [u \in User |-> {}]
  /\ recorded = [ut \in User \X Team |-> 0]

-----------------------------------------------------------------------------
GetUserRoleCodes(u) == {r.code : r \in userRoles[u]}

\* The history variable, in a step that writes roles or moves the clock.
SeeAdmins ==
  adminAt' = [u \in User |->
    IF "admin" \in {r.code : r \in userRoles'[u]} THEN adminAt[u] \cup {now'} ELSE adminAt[u]]

Begin(w, r) == req[w].at = "idle" /\ req' = [req EXCEPT ![w] = r]

Goto(w, step) == req' = [req EXCEPT ![w].at = step]

End(w) == req' = [req EXCEPT ![w] = Idle]

\* The bounds leave room for what the requests in progress may still write.
RoomForSession ==
  Len(sessions)
    + Cardinality({w \in Worker : req[w].at \in {"register", "revoke", "issue", "commit"}})
    < MaxSessions

Room(limit) ==
  grants + Cardinality({w \in Worker : req[w].at \in {"register", "create", "replace", "join"}})
    < limit

RoomForGrant == Room(IF teams = {} THEN MaxGrants ELSE MaxTeamGrants)

-----------------------------------------------------------------------------
(* Tokens.                                                                 *)

\* The client presents the access token issued with session s.
TokenValid(s) == sessions[s].given /\ now < sessions[s].iat + AccessTtl

PrincipalRoles(s) ==
  IF sessions[s].roles = {} THEN GetUserRoleCodes(sessions[s].user) ELSE sessions[s].roles

RequireAdmin(s) == TokenValid(s) /\ "admin" \in PrincipalRoles(s)

\* Wrong variant: the session is looked up and its expiry checked, but not revoked_at.
RefreshActive_NotRevoked(s) == now < sessions[s].iat + RefreshTtl

RefreshActive(s) == ~sessions[s].revoked /\ now < sessions[s].iat + RefreshTtl

\* Wrong variant: the transaction that revoked a session never ends.
RowLocked_Kept(s) == sessions[s].revoked

\* The row of session s is locked by a refresh between its flush and its commit.
RowLocked(s) == \E w \in Worker : req[w].at \in {"issue", "commit"} /\ req[w].sid = s

\* Wrong variant: a refresh copies the roles of the token it renews.
ClaimedRoles_Copied(w) ==
  IF req[w].sid = 0 THEN GetUserRoleCodes(req[w].user) ELSE sessions[req[w].sid].roles

ClaimedRoles(w) == GetUserRoleCodes(req[w].user)

\* Wrong variant: the row is written without its default for revoked_at.
NewSession_NoDefault(w) ==
  [user |-> req[w].user, parent |-> req[w].sid, roles |-> req[w].codes,
   iat |-> req[w].time, given |-> FALSE]

NewSession(w) ==
  [user |-> req[w].user, parent |-> req[w].sid, roles |-> req[w].codes,
   iat |-> req[w].time, revoked |-> FALSE, given |-> FALSE]

\* Both tokens are made from the roles as they are now.
IssueTokens(w) ==
  /\ req[w].at = "issue"
  /\ req' = [req EXCEPT ![w].at = "commit", ![w].codes = ClaimedRoles(w), ![w].time = now]
  /\ UNCHANGED <<now, users, userRoles, grants, sessions, adminAt, teamVars>>

\* The new session is committed, with the revocation of the one it replaces.
CommitSession(w) ==
  /\ req[w].at = "commit"
  /\ sessions' =
       Append([s \in DOMAIN sessions |->
                 [sessions[s] EXCEPT !.revoked = @ \/ s = req[w].sid]],
              NewSession(w))
  /\ req' = [req EXCEPT ![w].at = "respond", ![w].sid = Len(sessions) + 1]
  /\ UNCHANGED <<now, users, userRoles, grants, adminAt, teamVars>>

\* The audit row is committed and the response leaves: the client has the tokens.
Respond(w) ==
  /\ req[w].at = "respond"
  /\ sessions' = [sessions EXCEPT ![req[w].sid].given = TRUE]
  /\ End(w)
  /\ UNCHANGED <<now, users, userRoles, grants, adminAt, teamVars>>

-----------------------------------------------------------------------------
(* Login, refresh and logout.                                              *)

Login(w, u) ==
  /\ RoomForSession
  /\ u \in users
  /\ Begin(w, [Idle EXCEPT !.at = "issue", !.user = u])
  /\ UNCHANGED <<now, users, userRoles, grants, sessions, adminAt, teamVars>>

RefreshRead(w, s) ==
  /\ RoomForSession
  /\ sessions[s].given
  /\ RefreshActive(s)
  /\ Begin(w, [Idle EXCEPT !.at = "revoke", !.user = sessions[s].user, !.sid = s])
  /\ UNCHANGED <<now, users, userRoles, grants, sessions, adminAt, teamVars>>

\* The UPDATE names the row by its id only: it succeeds on a row that another
\* request has revoked since it was read.
RefreshRevoke(w) ==
  /\ req[w].at = "revoke"
  /\ ~RowLocked(req[w].sid)
  /\ Goto(w, "issue")
  /\ UNCHANGED <<now, users, userRoles, grants, sessions, adminAt, teamVars>>

LogoutRead(w, s) ==
  /\ sessions[s].given
  /\ RefreshActive(s)
  /\ Begin(w, [Idle EXCEPT !.at = "logout", !.sid = s])
  /\ UNCHANGED <<now, users, userRoles, grants, sessions, adminAt, teamVars>>

LogoutCommit(w) ==
  /\ req[w].at = "logout"
  /\ ~RowLocked(req[w].sid)
  /\ sessions' = [sessions EXCEPT ![req[w].sid].revoked = TRUE]
  /\ End(w)
  /\ UNCHANGED <<now, users, userRoles, grants, adminAt, teamVars>>

-----------------------------------------------------------------------------
(* Accounts and roles.                                                     *)

RegisterRead(w, u) ==
  /\ RoomForSession
  /\ RoomForGrant
  /\ u \notin users
  /\ Begin(w, [Idle EXCEPT !.at = "register", !.user = u, !.seen = users])
  /\ UNCHANGED <<now, users, userRoles, grants, sessions, adminAt, teamVars>>

IsFirstUser(w) == req[w].seen = {}

\* audit_log: "team.member_added", or "user.created" with its teams.
RecordAdded(u, ts) ==
  recorded' = [ut \in User \X Team |->
    IF ut \in {u} \X ts THEN recorded[ut] + 1 ELSE recorded[ut]]

AddUser(u, codes, ts) ==
  /\ UNCHANGED <<now, teams>>
  /\ users' = users \cup {u}
  /\ grants' = grants + 1
  /\ userRoles' = [userRoles EXCEPT ![u] = {[code |-> c, grant |-> grants + 1] : c \in codes}]
  /\ members' = [members EXCEPT ![u] = {[team |-> t, grant |-> grants + 1] : t \in ts}]
  /\ RecordAdded(u, ts)
  /\ SeeAdmins

\* Another request has taken the email since: the unique constraint fails the
\* flush and the client gets an error.
FailOnEmail(w) ==
  /\ req[w].at \in {"register", "create"}
  /\ req[w].user \in users
  /\ End(w)
  /\ UNCHANGED <<now, users, userRoles, grants, sessions, adminAt, teamVars>>

RegisterCommit(w) ==
  /\ req[w].at = "register"
  /\ req[w].user \notin users
  /\ AddUser(req[w].user, IF IsFirstUser(w) THEN {"user", "admin"} ELSE {"user"}, {})
  /\ Goto(w, "issue")
  /\ UNCHANGED sessions

EnsureTeamsExist(ts) == ts \subseteq teams

CreateUserRead(w, s, u, codes, ts) ==
  /\ RoomForGrant
  /\ RequireAdmin(s)
  /\ u \notin users
  /\ EnsureTeamsExist(ts)
  /\ Begin(w, [Idle EXCEPT !.at = "create", !.user = u, !.sid = s, !.codes = codes, !.time = now,
                           !.teams = ts])
  /\ UNCHANGED <<now, users, userRoles, grants, sessions, adminAt, teamVars>>

CreateUserCommit(w) ==
  /\ req[w].at = "create"
  /\ req[w].user \notin users
  /\ AddUser(req[w].user, req[w].codes, req[w].teams)
  /\ End(w)
  /\ UNCHANGED sessions

ReplaceRolesRead(w, s, u, codes) ==
  /\ RoomForGrant
  /\ RequireAdmin(s)
  /\ u \in users
  /\ Begin(w, [Idle EXCEPT !.at = "replace", !.user = u, !.sid = s, !.codes = codes,
                           !.time = now, !.rows = userRoles[u]])
  /\ UNCHANGED <<now, users, userRoles, grants, sessions, adminAt, teamVars>>

\* Wrong variant: the old rows are not deleted.
OthersRows_All(w) == userRoles[req[w].user]

\* Rows of the user that the request did not read, so does not delete.  Of the
\* rows it read, those already gone are deleted a second time without an error.
OthersRows(w) == userRoles[req[w].user] \ req[w].rows

ReplaceRolesCommit(w) ==
  /\ req[w].at = "replace"
  /\ {r.code : r \in OthersRows(w)} \cap req[w].codes = {}
  /\ grants' = grants + 1
  /\ userRoles' = [userRoles EXCEPT ![req[w].user] =
       OthersRows(w) \cup {[code |-> c, grant |-> grants + 1] : c \in req[w].codes}]
  /\ UNCHANGED <<now, users, sessions, teamVars>>
  /\ SeeAdmins
  /\ req' = [req EXCEPT ![w] = [Idle EXCEPT !.at = "reply", !.user = req[w].user]]

\* Unique constraint on user and role: the request fails and is rolled back.
FailOnRole(w) ==
  /\ req[w].at = "replace"
  /\ {r.code : r \in OthersRows(w)} \cap req[w].codes # {}
  /\ End(w)
  /\ UNCHANGED <<now, users, userRoles, grants, sessions, adminAt, teamVars>>

\* The response shows the roles as they are now.
ReplaceRolesReply(w) ==
  /\ req[w].at = "reply"
  /\ End(w)
  /\ UNCHANGED <<now, users, userRoles, grants, sessions, adminAt, teamVars>>

-----------------------------------------------------------------------------
(* Teams and their members.                                                *)

\* The names are unique: of two requests with one name, the second finds the team
\* or fails on the constraint, and writes nothing.
CreateTeam(s, t) ==
  /\ Room(MaxTeamGrants)
  /\ RequireAdmin(s)
  /\ t \notin teams
  /\ teams' = teams \cup {t}
  /\ UNCHANGED <<now, users, userRoles, grants, sessions, req, adminAt, members, recorded>>

Memberships(u, t) == {m \in members[u] : m.team = t}

AddTeamMemberRead(w, s, u, t) ==
  /\ RoomForGrant
  /\ RequireAdmin(s)
  /\ t \in teams
  /\ u \in users
  /\ Memberships(u, t) = {}
  /\ Begin(w, [Idle EXCEPT !.at = "join", !.user = u, !.team = t])
  /\ UNCHANGED <<now, users, userRoles, grants, sessions, adminAt, teamVars>>

\* Wrong variant: memberships have no unique constraint.
AlreadyMember_Never(w) == FALSE

\* uq_team_memberships_user_team fails the flush: the user has joined since.
AlreadyMember(w) == Memberships(req[w].user, req[w].team) # {}

AddTeamMemberCommit(w) ==
  LET u == req[w].user
      t == req[w].team IN
  /\ req[w].at = "join"
  /\ IF AlreadyMember(w)
       THEN UNCHANGED <<grants, members, recorded>>
       ELSE /\ grants' = grants + 1
            /\ members' = [members EXCEPT ![u] = @ \cup {[team |-> t, grant |-> grants + 1]}]
            /\ RecordAdded(u, {t})
  /\ End(w)
  /\ UNCHANGED <<now, users, userRoles, sessions, adminAt, teams>>

RemoveTeamMemberRead(w, s, u, t) ==
  /\ RequireAdmin(s)
  /\ \E m \in Memberships(u, t) :
       Begin(w, [Idle EXCEPT !.at = "leave", !.user = u, !.team = t, !.member = m.grant])
  /\ UNCHANGED <<now, users, userRoles, grants, sessions, adminAt, teamVars>>

\* The DELETE is by the id that was read.  It is recorded also when that row is
\* gone, which is only a warning.
RemoveTeamMemberCommit(w) ==
  LET u == req[w].user
      t == req[w].team IN
  /\ req[w].at = "leave"
  /\ members' = [members EXCEPT ![u] = {m \in @ : m.team # t \/ m.grant # req[w].member}]
  /\ recorded' = [recorded EXCEPT ![<<u, t>>] = @ - 1]
  /\ End(w)
  /\ UNCHANGED <<now, users, userRoles, grants, sessions, adminAt, teams>>

-----------------------------------------------------------------------------
\* The request is cut off, by an error or with the whole server: its open
\* transaction is rolled back, and no response is sent.
Abort(w) ==
  /\ req[w].at # "idle"
  /\ End(w)
  /\ UNCHANGED <<now, users, userRoles, grants, sessions, adminAt, teamVars>>

Tick ==
  /\ now < MaxTime
  /\ now' = now + 1
  /\ UNCHANGED <<users, userRoles, grants, sessions, req, teamVars>>
  /\ SeeAdmins

\* What a request in progress does next.
Continue(w) ==
  \/ RefreshRevoke(w) \/ IssueTokens(w) \/ CommitSession(w) \/ Respond(w)
  \/ LogoutCommit(w)
  \/ RegisterCommit(w) \/ CreateUserCommit(w) \/ FailOnEmail(w)
  \/ ReplaceRolesCommit(w) \/ FailOnRole(w) \/ ReplaceRolesReply(w)
  \/ AddTeamMemberCommit(w) \/ RemoveTeamMemberCommit(w)

Next ==
  \/ \E w \in Worker :
       \/ Continue(w)
       \/ Abort(w)
       \/ \E u \in User : RegisterRead(w, u) \/ Login(w, u)
       \/ \E s \in DOMAIN sessions :
            \/ RefreshRead(w, s)
            \/ LogoutRead(w, s)
            \/ \E u \in User, codes \in RoleRequests :
                 \/ ReplaceRolesRead(w, s, u, codes)
                 \/ \E ts \in SUBSET teams : CreateUserRead(w, s, u, codes, ts)
            \/ \E t \in Team : CreateTeam(s, t)
            \/ \E u \in User, t \in Team :
                 AddTeamMemberRead(w, s, u, t) \/ RemoveTeamMemberRead(w, s, u, t)
  \/ Tick

Spec == Init /\ [][Next]_vars

\* A thread of the pool keeps running while the server is up, and PostgreSQL
\* grants a row lock to those who wait for it in their order, so nobody is
\* passed over for ever.
FairSpec ==
  /\ Spec
  /\ \A w \in Worker :
       WF_vars(Continue(w)) /\ SF_vars(RefreshRevoke(w)) /\ SF_vars(LogoutCommit(w))

-----------------------------------------------------------------------------
Children(s) == {t \in DOMAIN sessions : sessions[t].parent = s}

Refreshing(s) ==
  {w \in Worker : req[w].at \in {"revoke", "issue", "commit"} /\ req[w].sid = s}

\* One refresh token yields at most as many sessions as requests can be in
\* progress at once: whatever the races of refresh_user_tokens, the rotation
\* cannot be used to collect sessions without limit.
RotationBounded ==
  \A s \in DOMAIN sessions :
    Cardinality(Children(s)) + Cardinality(Refreshing(s)) <= Cardinality(Worker)

\* Once a session is revoked, by a refresh or a logout, and no refresh of it is
\* still in progress, it stays revoked and no session is derived from it again.
Spent(s) == sessions[s].revoked /\ Refreshing(s) = {}

RevokedStaysUnused ==
  [][\A s \in DOMAIN sessions :
       Spent(s) => Spent(s)' /\ Children(s)' = Children(s)]_vars

\* set_user_roles deletes the rows it read and inserts its own, none at all when
\* the request asks for no role.  Replacements that overlap may leave the union of
\* what they asked for, and one that asks for no role the roles of the others, but
\* an account never has roles of more requests than run at once: no role of an
\* older request comes back or stays behind.
RolesOfLatestRequests ==
  \A u \in User :
    /\ userRoles[u] # {} => u \in users
    /\ Cardinality({r.grant : r \in userRoles[u]}) <= Cardinality(Worker)

\* A user becomes admin either by a registration that began when there was no
\* account, or by the request of someone who held the role within AccessTtl
\* before the request was admitted: tokens outlive a demotion by that much and
\* no refresh prolongs it.
HeldAdmin(u, time) == \E t \in adminAt[u] : t <= time /\ time < t + AccessTtl

AdminsComeFromAdmins ==
  [][\A u \in User :
       "admin" \in GetUserRoleCodes(u)' \ GetUserRoleCodes(u) =>
         \E w \in Worker :
           /\ req[w].user = u
           /\ \/ req[w].at = "register" /\ req[w].seen = {}
              \/ /\ req[w].at \in {"create", "replace"}
                 /\ HeldAdmin(sessions[req[w].sid].user, req[w].time)]_vars

\* A user is in a team at most once, and every membership that has ended is
\* recorded as removed, whoever adds and removes the same member at once.  (More
\* removals than that may be recorded: the loser of two records one as well.)
EndedMembershipsRecorded ==
  \A u \in User, t \in Team :
    LET rows == Cardinality(Memberships(u, t)) IN
    /\ rows <= 1
    /\ recorded[<<u, t>>] <= rows

\* Every request ends, also those that wait for the row of a session that
\* several refreshes and logouts contend for.
EveryRequestEnds == \A w \in Worker : req[w].at # "idle" ~> req[w].at = "idle"
=============================================================================
