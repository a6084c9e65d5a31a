------------------------- MODULE AuthSessionsProofs -------------------------
(***************************************************************************)
(* Theorems about AuthSessions, for every number of workers, accounts and  *)
(* teams, every lifetime of tokens and whatever the bounds.                *)
(***************************************************************************)
EXTENDS AuthSessions, FiniteSetTheorems, TLAPS

-----------------------------------------------------------------------------
(* Type correctness *)

\* What a request in progress has read is still there: accounts and sessions are
\* never deleted.
Sound(r, accounts, ids) ==
  /\ r.at \notin {"idle", "logout"} => r.user \in User
  /\ r.at \in {"replace", "join"} => r.user \in accounts
  /\ r.at \in {"join", "leave"} => r.team \in Team
  /\ r.at \in {"revoke", "logout", "respond", "create", "replace"} => r.sid \in ids
  /\ r.at = "register" => r.sid = 0
  /\ r.at \in {"issue", "commit"} => r.sid \in ids \cup {0}

RequestInv == \A w \in Worker : Sound(req[w], users, DOMAIN sessions)

TypeInv == TypeOK /\ RequestInv

LEMMA IdleType == Idle \in Request /\ Idle.at = "idle"
  BY DEF Idle, Request, Step

\* A request that moves on keeps what the others have read.
LEMMA RequestMoves ==
  ASSUME TypeInv, NEW w \in Worker, NEW r \in Request, req' = [req EXCEPT ![w] = r],
         users \subseteq users', DOMAIN sessions \subseteq DOMAIN sessions',
         Sound(r, users', DOMAIN sessions')
  PROVE  req' \in [Worker -> Request] /\ RequestInv'
<1>1. req \in [Worker -> Request]
  BY DEF TypeInv, TypeOK
<1>2. req' \in [Worker -> Request]
  BY <1>1
<1>3. ASSUME NEW v \in Worker PROVE Sound(req'[v], users', DOMAIN sessions')
  <2>1. CASE v = w
    BY <1>1, <2>1
  <2>2. CASE v # w
    <3>1. Sound(req[v], users, DOMAIN sessions) /\ req'[v] = req[v]
      BY <1>1, <2>2 DEF TypeInv, RequestInv
    <3> QED
      BY <3>1 DEF Sound
  <2> QED
    BY <2>1, <2>2
<1> QED
  BY <1>2, <1>3 DEF RequestInv

LEMMA RequestOnly ==
  ASSUME TypeInv, NEW w \in Worker, NEW r \in Request, req' = [req EXCEPT ![w] = r],
         UNCHANGED <<now, users, userRoles, grants, sessions, adminAt, teamVars>>,
         Sound(r, users, DOMAIN sessions)
  PROVE  TypeInv'
<1>1. req' \in [Worker -> Request] /\ RequestInv'
  BY RequestMoves
<1> QED
  BY <1>1 DEF TypeInv, TypeOK, teamVars

LEMMA GotoType ==
  ASSUME TypeOK, NEW w \in Worker, NEW step \in Step
  PROVE  /\ [req[w] EXCEPT !.at = step] \in Request
         /\ [req[w] EXCEPT !.at = step].at = step
         /\ [req[w] EXCEPT !.at = step].user = req[w].user
         /\ [req[w] EXCEPT !.at = step].sid = req[w].sid
         /\ [req[w] EXCEPT !.at = step].team = req[w].team
  BY DEF TypeOK, Request

\* A request that ends, or is cut off.
LEMMA EndType ==
  ASSUME TypeInv, NEW w \in Worker, End(w),
         users \subseteq users', DOMAIN sessions \subseteq DOMAIN sessions'
  PROVE  req' \in [Worker -> Request] /\ RequestInv'
<1>1. Sound(Idle, users', DOMAIN sessions')
  BY IdleType DEF Sound
<1> QED
  BY <1>1, IdleType, RequestMoves DEF End

LEMMA EndOnlyType ==
  ASSUME TypeInv, NEW w \in Worker, End(w),
         UNCHANGED <<now, users, userRoles, grants, sessions, adminAt, teamVars>>
  PROVE  TypeInv'
<1>1. req' \in [Worker -> Request] /\ RequestInv'
  BY EndType
<1> QED
  BY <1>1 DEF TypeInv, TypeOK, teamVars

LEMMA SeeAdminsType ==
  ASSUME TypeOK, SeeAdmins, now' \in Nat PROVE adminAt' \in [User -> SUBSET Nat]
  BY DEF TypeOK, SeeAdmins

LEMMA RolesType ==
  ASSUME TypeInv, NEW codes \in SUBSET RoleCode
  PROVE  {[code |-> c, grant |-> grants + 1] : c \in codes} \in SUBSET UserRole
  BY DEF TypeInv, TypeOK, UserRole

LEMMA UserRoleCodesType == TypeOK => \A u \in User : GetUserRoleCodes(u) \in SUBSET RoleCode
  BY DEF TypeOK, GetUserRoleCodes, UserRole

LEMMA AddUserType ==
  ASSUME TypeInv, NEW u \in User, NEW codes \in SUBSET RoleCode, NEW ts \in SUBSET Team,
         AddUser(u, codes, ts), UNCHANGED sessions,
         req' \in [Worker -> Request], RequestInv'
  PROVE  TypeInv'
<1>1. grants + 1 \in Nat /\ now' \in Nat
  BY DEF TypeInv, TypeOK, AddUser
<1>2. userRoles' \in [User -> SUBSET UserRole]
  BY RolesType DEF TypeInv, TypeOK, AddUser
<1>3. {[team |-> t, grant |-> grants + 1] : t \in ts} \in SUBSET Membership
  BY <1>1 DEF Membership
<1>4. members' \in [User -> SUBSET Membership]
  BY <1>3 DEF TypeInv, TypeOK, AddUser
<1>5. recorded' \in [User \X Team -> Int]
  BY DEF TypeInv, TypeOK, AddUser, RecordAdded
<1>6. adminAt' \in [User -> SUBSET Nat]
  BY <1>1, SeeAdminsType DEF TypeInv, AddUser
<1> QED
  BY <1>1, <1>2, <1>4, <1>5, <1>6 DEF TypeInv, TypeOK, AddUser

LEMMA TypeInit == Init => TypeInv
  BY IdleType DEF Init, TypeInv, TypeOK, RequestInv, Sound

LEMMA SessionsType ==
  ASSUME TypeInv
  PROVE  /\ DOMAIN sessions \subseteq Nat /\ 0 \notin DOMAIN sessions
         /\ \A s \in DOMAIN sessions : sessions[s] \in Session /\ sessions[s].user \in User
         /\ Len(sessions) \in Nat /\ DOMAIN sessions = 1..Len(sessions)
<1>1. sessions \in Seq(Session)
  BY DEF TypeInv, TypeOK
<1>2. Len(sessions) \in Nat /\ DOMAIN sessions = 1..Len(sessions)
  BY <1>1
<1>3. \A s \in DOMAIN sessions : sessions[s] \in Session
  BY <1>1, <1>2
<1>4. \A s \in DOMAIN sessions : sessions[s].user \in User
  BY <1>3 DEF Session
<1> QED
  BY <1>2, <1>3, <1>4

\* The requests that begin and change nothing yet.
BeginStep(w) ==
  \/ \E u \in User : RegisterRead(w, u) \/ Login(w, u)
  \/ \E s \in DOMAIN sessions :
       \/ RefreshRead(w, s)
       \/ LogoutRead(w, s)
       \/ \E u \in User, codes \in RoleRequests :
            \/ ReplaceRolesRead(w, s, u, codes)
            \/ \E ts \in SUBSET teams : CreateUserRead(w, s, u, codes, ts)
       \/ \E u \in User, t \in Team :
            AddTeamMemberRead(w, s, u, t) \/ RemoveTeamMemberRead(w, s, u, t)

LEMMA BeginStepType ==
  ASSUME TypeInv, NEW w \in Worker, BeginStep(w) PROVE TypeInv'
<1> USE AuthAssumption
<1>1. ASSUME NEW r \in Request, Begin(w, r), Sound(r, users, DOMAIN sessions),
             UNCHANGED <<now, users, userRoles, grants, sessions, adminAt, teamVars>>
      PROVE  TypeInv'
  BY <1>1, RequestOnly DEF Begin
<1>2. /\ users \in SUBSET User /\ now \in Nat /\ teams \in SUBSET Team
      /\ \A u \in User : userRoles[u] \in SUBSET UserRole /\ members[u] \in SUBSET Membership
  BY DEF TypeInv, TypeOK
<1>3. ASSUME NEW u \in User, RegisterRead(w, u) PROVE TypeInv'
  <2> DEFINE r == [Idle EXCEPT !.at = "register", !.user = u, !.seen = users]
  <2>1. r \in Request
    BY <1>2 DEF Idle, Request, Step
  <2>2. r.at = "register" /\ r.user = u /\ r.sid = 0
    BY DEF Idle
  <2>3. Sound(r, users, DOMAIN sessions)
    BY <2>2 DEF Sound
  <2> HIDE DEF r
  <2>4. Begin(w, r)
    BY <1>3 DEF RegisterRead, r
  <2> QED
    BY <1>1, <1>3, <2>1, <2>3, <2>4 DEF RegisterRead
<1>4. ASSUME NEW u \in User, Login(w, u) PROVE TypeInv'
  <2> DEFINE r == [Idle EXCEPT !.at = "issue", !.user = u]
  <2>1. r \in Request
    BY DEF Idle, Request, Step
  <2>2. r.at = "issue" /\ r.user = u /\ r.sid = 0
    BY DEF Idle
  <2>3. Sound(r, users, DOMAIN sessions)
    BY <2>2 DEF Sound
  <2> HIDE DEF r
  <2>4. Begin(w, r)
    BY <1>4 DEF Login, r
  <2> QED
    BY <1>1, <1>4, <2>1, <2>3, <2>4 DEF Login
<1>5. ASSUME NEW s \in DOMAIN sessions, RefreshRead(w, s) PROVE TypeInv'
  <2> DEFINE r == [Idle EXCEPT !.at = "revoke", !.user = sessions[s].user, !.sid = s]
  <2>1. r \in Request
    BY SessionsType DEF Idle, Request, Step
  <2>2. r.at = "revoke" /\ r.user = sessions[s].user /\ r.sid = s
    BY DEF Idle
  <2>3. Sound(r, users, DOMAIN sessions)
    BY <2>2, SessionsType DEF Sound
  <2> HIDE DEF r
  <2>4. Begin(w, r)
    BY <1>5 DEF RefreshRead, r
  <2> QED
    BY <1>1, <1>5, <2>1, <2>3, <2>4 DEF RefreshRead
<1>6. ASSUME NEW s \in DOMAIN sessions, LogoutRead(w, s) PROVE TypeInv'
  <2> DEFINE r == [Idle EXCEPT !.at = "logout", !.sid = s]
  <2>1. r \in Request
    BY SessionsType DEF Idle, Request, Step
  <2>2. r.at = "logout" /\ r.sid = s
    BY DEF Idle
  <2>3. Sound(r, users, DOMAIN sessions)
    BY <2>2 DEF Sound
  <2> HIDE DEF r
  <2>4. Begin(w, r)
    BY <1>6 DEF LogoutRead, r
  <2> QED
    BY <1>1, <1>6, <2>1, <2>3, <2>4 DEF LogoutRead
<1>7. ASSUME NEW s \in DOMAIN sessions, NEW u \in User, NEW codes \in RoleRequests,
             ReplaceRolesRead(w, s, u, codes)
      PROVE  TypeInv'
  <2> DEFINE r == [Idle EXCEPT !.at = "replace", !.user = u, !.sid = s, !.codes = codes,
                               !.time = now, !.rows = userRoles[u]]
  <2>1. r \in Request
    BY <1>2, SessionsType DEF Idle, Request, Step
  <2>2. r.at = "replace" /\ r.user = u /\ r.sid = s /\ u \in users
    BY <1>7 DEF Idle, ReplaceRolesRead
  <2>3. Sound(r, users, DOMAIN sessions)
    BY <2>2 DEF Sound
  <2> HIDE DEF r
  <2>4. Begin(w, r)
    BY <1>7 DEF ReplaceRolesRead, r
  <2> QED
    BY <1>1, <1>7, <2>1, <2>3, <2>4 DEF ReplaceRolesRead
<1>8. ASSUME NEW s \in DOMAIN sessions, NEW u \in User, NEW codes \in RoleRequests,
             NEW ts \in SUBSET teams, CreateUserRead(w, s, u, codes, ts)
      PROVE  TypeInv'
  <2> DEFINE r == [Idle EXCEPT !.at = "create", !.user = u, !.sid = s, !.codes = codes,
                               !.time = now, !.teams = ts]
  <2>1. r \in Request
    BY <1>2, SessionsType DEF Idle, Request, Step
  <2>2. r.at = "create" /\ r.user = u /\ r.sid = s
    BY DEF Idle
  <2>3. Sound(r, users, DOMAIN sessions)
    BY <2>2 DEF Sound
  <2> HIDE DEF r
  <2>4. Begin(w, r)
    BY <1>8 DEF CreateUserRead, r
  <2> QED
    BY <1>1, <1>8, <2>1, <2>3, <2>4 DEF CreateUserRead
<1>9. ASSUME NEW s \in DOMAIN sessions, NEW u \in User, NEW t \in Team,
             AddTeamMemberRead(w, s, u, t)
      PROVE  TypeInv'
  <2> DEFINE r == [Idle EXCEPT !.at = "join", !.user = u, !.team = t]
  <2>1. r \in Request
    BY DEF Idle, Request, Step
  <2>2. r.at = "join" /\ r.user = u /\ r.team = t /\ u \in users
    BY <1>9 DEF Idle, AddTeamMemberRead
  <2>3. Sound(r, users, DOMAIN sessions)
    BY <2>2 DEF Sound
  <2> HIDE DEF r
  <2>4. Begin(w, r)
    BY <1>9 DEF AddTeamMemberRead, r
  <2> QED
    BY <1>1, <1>9, <2>1, <2>3, <2>4 DEF AddTeamMemberRead
<1>10. ASSUME NEW s \in DOMAIN sessions, NEW u \in User, NEW t \in Team,
              RemoveTeamMemberRead(w, s, u, t)
       PROVE  TypeInv'
  <2>1. PICK m \in Memberships(u, t) :
          Begin(w, [Idle EXCEPT !.at = "leave", !.user = u, !.team = t, !.member = m.grant])
    BY <1>10 DEF RemoveTeamMemberRead
  <2>2. m.grant \in Nat
    BY <1>2, <2>1 DEF Memberships, Membership
  <2> DEFINE r == [Idle EXCEPT !.at = "leave", !.user = u, !.team = t, !.member = m.grant]
  <2>3. r \in Request
    BY <2>2 DEF Idle, Request, Step
  <2>4. r.at = "leave" /\ r.user = u /\ r.team = t
    BY DEF Idle
  <2>5. Sound(r, users, DOMAIN sessions)
    BY <2>4 DEF Sound
  <2>6. Begin(w, r)
    BY <2>1
  <2> HIDE DEF r
  <2> QED
    BY <1>1, <1>10, <2>3, <2>5, <2>6 DEF RemoveTeamMemberRead
<1> QED
  BY <1>3, <1>4, <1>5, <1>6, <1>7, <1>8, <1>9, <1>10 DEF BeginStep

\* The commit of a refresh or a login leaves every session in its place.
LEMMA CommitSessionEffect ==
  ASSUME TypeInv, NEW w \in Worker, CommitSession(w)
  PROVE  /\ sessions' \in Seq(Session)
         /\ Len(sessions') = Len(sessions) + 1
         /\ DOMAIN sessions' = DOMAIN sessions \cup {Len(sessions) + 1}
         /\ \A s \in DOMAIN sessions :
              sessions'[s] = [sessions[s] EXCEPT !.revoked = @ \/ s = req[w].sid]
         /\ sessions'[Len(sessions) + 1] = NewSession(w)
         /\ NewSession(w) \in Session
<1> DEFINE old == [s \in DOMAIN sessions |->
                     [sessions[s] EXCEPT !.revoked = @ \/ s = req[w].sid]]
<1>0. Len(sessions) \in Nat /\ DOMAIN sessions = 1..Len(sessions)
  BY SessionsType
<1>1. \A s \in DOMAIN sessions : old[s] \in Session
  BY SessionsType DEF Session
<1>2. old \in Seq(Session) /\ Len(old) = Len(sessions)
  BY <1>0, <1>1
<1>3. NewSession(w) \in Session
  <2>1. req[w] \in Request /\ req[w].user \in User
    BY DEF TypeInv, TypeOK, RequestInv, Sound, CommitSession
  <2> QED
    BY <2>1 DEF NewSession, Request, Session
<1>4. sessions' = Append(old, NewSession(w))
  BY DEF CommitSession
<1>5. \A s \in DOMAIN sessions :
        old[s] = [sessions[s] EXCEPT !.revoked = @ \/ s = req[w].sid]
  OBVIOUS
<1> HIDE DEF old
<1>6. /\ sessions' \in Seq(Session)
      /\ Len(sessions') = Len(sessions) + 1
      /\ sessions'[Len(sessions) + 1] = NewSession(w)
      /\ \A s \in 1..Len(sessions) : sessions'[s] = old[s]
  BY <1>0, <1>2, <1>3, <1>4
<1>7. DOMAIN sessions' = 1..(Len(sessions) + 1)
  BY <1>6
<1> QED
  BY <1>0, <1>3, <1>5, <1>6, <1>7

LEMMA SessionStepType ==
  ASSUME TypeInv, NEW w \in Worker,
         CommitSession(w) \/ Respond(w) \/ LogoutCommit(w)
  PROVE  TypeInv'
<1>1. CASE CommitSession(w)
  <2> DEFINE r == [req[w] EXCEPT !.at = "respond", !.sid = Len(sessions) + 1]
  <2>1. r \in Request /\ r.at = "respond" /\ r.sid = Len(sessions) + 1 /\ r.user = req[w].user
    <3>1. req[w] \in Request /\ Len(sessions) + 1 \in Nat
      BY SessionsType DEF TypeInv, TypeOK
    <3> QED
      BY <3>1 DEF Request, Step
  <2>2. req[w].user \in User
    BY <1>1 DEF TypeInv, RequestInv, Sound, CommitSession
  <2>3. req' = [req EXCEPT ![w] = r] /\ UNCHANGED users
    BY <1>1 DEF CommitSession
  <2>4. r.sid \in DOMAIN sessions' /\ DOMAIN sessions \subseteq DOMAIN sessions'
    BY <1>1, <2>1, CommitSessionEffect
  <2> HIDE DEF r
  <2>5. Sound(r, users', DOMAIN sessions')
    BY <2>1, <2>2, <2>4 DEF Sound
  <2>6. req' \in [Worker -> Request] /\ RequestInv'
    BY <2>1, <2>3, <2>4, <2>5, RequestMoves
  <2>7. sessions' \in Seq(Session)
    BY <1>1, CommitSessionEffect
  <2> QED
    BY <1>1, <2>6, <2>7 DEF CommitSession, TypeInv, TypeOK, teamVars
<1>2. ASSUME DOMAIN sessions' = DOMAIN sessions, sessions' = [i \in DOMAIN sessions |-> sessions'[i]],
             \A i \in DOMAIN sessions : sessions'[i] \in Session,
             End(w), UNCHANGED <<now, users, userRoles, grants, adminAt, teamVars>>
      PROVE  TypeInv'
  <2>1. sessions' \in Seq(Session)
    BY <1>2, SessionsType
  <2>2. req' \in [Worker -> Request] /\ RequestInv'
    BY <1>2, EndType
  <2> QED
    BY <1>2, <2>1, <2>2 DEF TypeInv, TypeOK, teamVars
<1>3. CASE Respond(w)
  <2>1. sessions' = [sessions EXCEPT ![req[w].sid].given = TRUE]
    BY <1>3 DEF Respond
  <2>2. \A i \in DOMAIN sessions : [sessions[i] EXCEPT !.given = TRUE] \in Session
    BY SessionsType DEF Session
  <2>3. \A i \in DOMAIN sessions : sessions'[i] \in Session
    BY <2>1, <2>2, SessionsType
  <2>4. DOMAIN sessions' = DOMAIN sessions /\ sessions' = [i \in DOMAIN sessions |-> sessions'[i]]
    BY <2>1
  <2> QED
    BY <1>2, <1>3, <2>3, <2>4 DEF Respond
<1>4. CASE LogoutCommit(w)
  <2>1. sessions' = [sessions EXCEPT ![req[w].sid].revoked = TRUE]
    BY <1>4 DEF LogoutCommit
  <2>2. \A i \in DOMAIN sessions : [sessions[i] EXCEPT !.revoked = TRUE] \in Session
    BY SessionsType DEF Session
  <2>3. \A i \in DOMAIN sessions : sessions'[i] \in Session
    BY <2>1, <2>2, SessionsType
  <2>4. DOMAIN sessions' = DOMAIN sessions /\ sessions' = [i \in DOMAIN sessions |-> sessions'[i]]
    BY <2>1
  <2> QED
    BY <1>2, <1>4, <2>3, <2>4 DEF LogoutCommit
<1> QED
  BY <1>1, <1>3, <1>4

\* Steps of a request that keep its user and its session, and write no table.
LEMMA RequestStepType ==
  ASSUME TypeInv, NEW w \in Worker,
         \/ RefreshRevoke(w) \/ IssueTokens(w) \/ Abort(w)
         \/ FailOnEmail(w) \/ FailOnRole(w) \/ ReplaceRolesReply(w)
  PROVE  TypeInv'
<1>0. req[w] \in Request /\ Sound(req[w], users, DOMAIN sessions)
  BY DEF TypeInv, TypeOK, RequestInv
<1>1. CASE RefreshRevoke(w)
  <2> DEFINE r == [req[w] EXCEPT !.at = "issue"]
  <2>1. r \in Request /\ r.at = "issue" /\ r.sid = req[w].sid /\ r.user = req[w].user
    BY <1>0 DEF Request, Step
  <2>2. req' = [req EXCEPT ![w] = r]
    BY <1>1 DEF RefreshRevoke, Goto
  <2> HIDE DEF r
  <2>3. Sound(r, users, DOMAIN sessions)
    BY <1>0, <1>1, <2>1 DEF RefreshRevoke, Sound
  <2> QED
    BY <1>1, <2>1, <2>2, <2>3, RequestOnly DEF RefreshRevoke
<1>2. CASE IssueTokens(w)
  <2> DEFINE r == [req[w] EXCEPT !.at = "commit", !.codes = ClaimedRoles(w), !.time = now]
  <2>1. req[w].user \in User /\ now \in Nat
    BY <1>0, <1>2 DEF IssueTokens, Sound, TypeInv, TypeOK
  <2>2. ClaimedRoles(w) \in SUBSET RoleCode
    BY <2>1, UserRoleCodesType DEF TypeInv, ClaimedRoles
  <2>3. r \in Request /\ r.at = "commit" /\ r.sid = req[w].sid /\ r.user = req[w].user
    BY <1>0, <2>1, <2>2 DEF Request, Step
  <2>4. req' = [req EXCEPT ![w] = r]
    BY <1>2 DEF IssueTokens
  <2> HIDE DEF r
  <2>5. Sound(r, users, DOMAIN sessions)
    BY <1>0, <1>2, <2>3 DEF IssueTokens, Sound
  <2> QED
    BY <1>2, <2>3, <2>4, <2>5, RequestOnly DEF IssueTokens
<1>3. CASE Abort(w) \/ FailOnEmail(w) \/ FailOnRole(w) \/ ReplaceRolesReply(w)
  BY <1>3, EndOnlyType DEF Abort, FailOnEmail, FailOnRole, ReplaceRolesReply
<1> QED
  BY <1>1, <1>2, <1>3

\* What is left of a replacement of roles after its commit is its response.
LEMMA ReplyFollows ==
  ASSUME TypeInv, NEW w \in Worker, ReplaceRolesCommit(w)
  PROVE  req'[w].at = "reply"
BY DEF TypeInv, TypeOK, ReplaceRolesCommit, Idle

\* A request that goes on to issue tokens, which asks for nothing but a user.
LEMMA GotoSound ==
  ASSUME TypeInv, NEW w \in Worker, Goto(w, "issue"),
         users \subseteq users', UNCHANGED sessions, req[w].user \in User,
         req[w].sid \in DOMAIN sessions \cup {0}
  PROVE  req' \in [Worker -> Request] /\ RequestInv'
<1> DEFINE r == [req[w] EXCEPT !.at = "issue"]
<1>1. r \in Request /\ r.at = "issue" /\ r.user = req[w].user /\ r.sid = req[w].sid
  BY DEF TypeInv, TypeOK, Request, Step
<1>2. req' = [req EXCEPT ![w] = r]
  BY DEF Goto
<1> HIDE DEF r
<1>3. Sound(r, users', DOMAIN sessions')
  BY <1>1 DEF Sound
<1> QED
  BY <1>1, <1>2, <1>3, RequestMoves

LEMMA AccountStepType ==
  ASSUME TypeInv, NEW w \in Worker,
         RegisterCommit(w) \/ CreateUserCommit(w) \/ ReplaceRolesCommit(w)
  PROVE  TypeInv'
<1>0. req[w] \in Request /\ Sound(req[w], users, DOMAIN sessions)
  BY DEF TypeInv, TypeOK, RequestInv
<1>1. CASE RegisterCommit(w)
  <2>1. PICK codes \in SUBSET RoleCode : AddUser(req[w].user, codes, {})
    BY <1>1 DEF RegisterCommit, RoleCode
  <2>2. req[w].user \in User /\ users \subseteq users'
    BY <1>0, <1>1, <2>1 DEF RegisterCommit, Sound, AddUser
  <2>3. req[w].sid \in DOMAIN sessions \cup {0}
    BY <1>0, <1>1 DEF RegisterCommit, Sound
  <2>4. req' \in [Worker -> Request] /\ RequestInv'
    BY <1>1, <2>2, <2>3, GotoSound DEF RegisterCommit
  <2> QED
    BY <1>1, <2>1, <2>2, <2>4, AddUserType DEF RegisterCommit
<1>2. CASE CreateUserCommit(w)
  <2>1. req[w].user \in User /\ users \subseteq users'
    BY <1>0, <1>2 DEF CreateUserCommit, Sound, AddUser
  <2>2. req' \in [Worker -> Request] /\ RequestInv'
    BY <1>2, <2>1, EndType DEF CreateUserCommit
  <2>3. req[w].codes \in SUBSET RoleCode /\ req[w].teams \in SUBSET Team
    BY <1>0 DEF Request
  <2> QED
    BY <1>2, <2>1, <2>2, <2>3, AddUserType DEF CreateUserCommit
<1>3. CASE ReplaceRolesCommit(w)
  <2>1. req[w].user \in User /\ req[w].codes \in SUBSET RoleCode
    BY <1>0, <1>3 DEF ReplaceRolesCommit, Sound, Request
  <2>2. req' \in [Worker -> Request] /\ RequestInv'
    <3> DEFINE r == [Idle EXCEPT !.at = "reply", !.user = req[w].user]
    <3>1. r \in Request /\ r.at = "reply" /\ r.user \in User
      BY <2>1, IdleType DEF Request, Step, Idle
    <3>2. req' = [req EXCEPT ![w] = r] /\ UNCHANGED <<users, sessions>>
      BY <1>3 DEF ReplaceRolesCommit
    <3> HIDE DEF r
    <3>3. Sound(r, users', DOMAIN sessions')
      BY <3>1 DEF Sound
    <3> QED
      BY <3>1, <3>2, <3>3, RequestMoves
  <2>3. OthersRows(w) \in SUBSET UserRole
    BY <2>1 DEF TypeInv, TypeOK, OthersRows
  <2>4. {[code |-> c, grant |-> grants + 1] : c \in req[w].codes} \in SUBSET UserRole
    BY <2>1, RolesType
  <2>5. userRoles' \in [User -> SUBSET UserRole]
    BY <1>3, <2>3, <2>4 DEF ReplaceRolesCommit, TypeInv, TypeOK
  <2>6. adminAt' \in [User -> SUBSET Nat]
    BY <1>3, SeeAdminsType DEF ReplaceRolesCommit, TypeInv, TypeOK
  <2>7. grants' \in Nat
    BY <1>3 DEF ReplaceRolesCommit, TypeInv, TypeOK
  <2> QED
    BY <1>3, <2>2, <2>5, <2>6, <2>7 DEF ReplaceRolesCommit, TypeInv, TypeOK, teamVars
<1> QED
  BY <1>1, <1>2, <1>3

LEMMA TeamStepType ==
  ASSUME TypeInv, NEW w \in Worker, AddTeamMemberCommit(w) \/ RemoveTeamMemberCommit(w)
  PROVE  TypeInv'
<1>0. /\ req' \in [Worker -> Request] /\ RequestInv'
      /\ req[w].user \in User /\ req[w].team \in Team
  BY EndType DEF AddTeamMemberCommit, RemoveTeamMemberCommit, TypeInv, RequestInv, Sound
<1>1. CASE AddTeamMemberCommit(w)
  <2>1. [team |-> req[w].team, grant |-> grants + 1] \in Membership /\ grants + 1 \in Nat
    BY <1>0 DEF TypeInv, TypeOK, Membership
  <2>2. members' \in [User -> SUBSET Membership] /\ grants' \in Nat
    BY <1>1, <2>1 DEF AddTeamMemberCommit, TypeInv, TypeOK
  <2>3. recorded' \in [User \X Team -> Int]
    BY <1>1 DEF AddTeamMemberCommit, TypeInv, TypeOK, RecordAdded
  <2> QED
    BY <1>0, <1>1, <2>2, <2>3 DEF AddTeamMemberCommit, TypeInv, TypeOK
<1>2. CASE RemoveTeamMemberCommit(w)
  <2>1. members' \in [User -> SUBSET Membership]
    BY <1>2 DEF RemoveTeamMemberCommit, TypeInv, TypeOK
  <2>2. recorded[<<req[w].user, req[w].team>>] - 1 \in Int
    BY <1>0 DEF TypeInv, TypeOK
  <2>3. recorded' \in [User \X Team -> Int]
    BY <1>2, <2>2 DEF RemoveTeamMemberCommit, TypeInv, TypeOK
  <2> QED
    BY <1>0, <1>2, <2>1, <2>3 DEF RemoveTeamMemberCommit, TypeInv, TypeOK
<1> QED
  BY <1>1, <1>2

LEMMA CreateTeamType ==
  ASSUME TypeInv, NEW s, NEW t \in Team, CreateTeam(s, t) PROVE TypeInv'
  BY DEF CreateTeam, TypeInv, TypeOK, RequestInv

LEMMA TickType == ASSUME TypeInv, Tick PROVE TypeInv'
<1>1. now' \in Nat
  BY DEF Tick, TypeInv, TypeOK
<1>2. adminAt' \in [User -> SUBSET Nat]
  BY <1>1, SeeAdminsType DEF Tick, TypeInv
<1> QED
  BY <1>1, <1>2 DEF Tick, TypeInv, TypeOK, RequestInv, teamVars

\* The steps of a request in progress, by the tables they write.
AccountStep(w) == RegisterCommit(w) \/ CreateUserCommit(w) \/ ReplaceRolesCommit(w)

SessionStep(w) == CommitSession(w) \/ Respond(w) \/ LogoutCommit(w)

TeamStep(w) == AddTeamMemberCommit(w) \/ RemoveTeamMemberCommit(w)

RequestStep(w) ==
  \/ RefreshRevoke(w) \/ IssueTokens(w) \/ Abort(w)
  \/ FailOnEmail(w) \/ FailOnRole(w) \/ ReplaceRolesReply(w)

LEMMA NextSteps ==
  ASSUME [Next]_vars
  PROVE  \/ \E w \in Worker : \/ BeginStep(w) \/ RequestStep(w) \/ SessionStep(w)
                              \/ AccountStep(w) \/ TeamStep(w)
         \/ \E s \in DOMAIN sessions, t \in Team : CreateTeam(s, t)
         \/ Tick
         \/ UNCHANGED vars
  BY DEF Next, Continue, BeginStep, RequestStep, SessionStep, AccountStep, TeamStep

LEMMA TypeStep == TypeInv /\ [Next]_vars => TypeInv'
<1> SUFFICES ASSUME TypeInv, [Next]_vars PROVE TypeInv'
  OBVIOUS
<1>1. CASE UNCHANGED vars
  BY <1>1 DEF vars, teamVars, TypeInv, TypeOK, RequestInv
<1> QED
  BY <1>1, NextSteps, BeginStepType, RequestStepType, SessionStepType, AccountStepType,
     TeamStepType, CreateTeamType, TickType
     DEF RequestStep, SessionStep, AccountStep, TeamStep

\* Every table satisfies its column types and every request in progress carries
\* values of the right kind, of accounts, sessions and teams that exist.
THEOREM TypeCorrect == Spec => []TypeOK
<1>1. TypeInv => TypeOK
  BY DEF TypeInv
<1> QED
  BY <1>1, TypeInit, TypeStep, PTL DEF Spec

-----------------------------------------------------------------------------
(* Memberships *)

\* What makes EndedMembershipsRecorded inductive: only an account has memberships,
\* so that those it is created with meet no others.  The number of rows is said
\* without Cardinality, which asks for a finite set.
RowsRecorded(rows, n) ==
  \/ rows = {} /\ n <= 0
  \/ (\E m : rows = {m}) /\ n <= 1

MemberInv ==
  \A u \in User :
    /\ u \notin users => members[u] = {}
    /\ \A t \in Team : RowsRecorded(Memberships(u, t), recorded[<<u, t>>])

LEMMA NoRowRecorded == \A n \in Int : RowsRecorded({}, n) <=> n <= 0
  BY DEF RowsRecorded

LEMMA OneRowRecorded == \A m : \A n \in Int : n <= 0 => RowsRecorded({m}, n + 1)
<1> SUFFICES ASSUME NEW m, NEW n \in Int, n <= 0 PROVE RowsRecorded({m}, n + 1)
  OBVIOUS
<1>1. n + 1 <= 1
  OBVIOUS
<1>2. \E x : {m} = {x}
  OBVIOUS
<1> QED
  BY <1>1, <1>2 DEF RowsRecorded

LEMMA FewerRowsRecorded ==
  ASSUME NEW rows, NEW fewer \in SUBSET rows, NEW n \in Int, RowsRecorded(rows, n)
  PROVE  RowsRecorded(fewer, n - 1)
<1>1. n - 1 <= 0 /\ n - 1 <= 1
  BY DEF RowsRecorded
<1>2. rows = {} \/ \E m : rows = {m}
  BY DEF RowsRecorded
<1>3. fewer = {} \/ \E m : fewer = {m}
  BY <1>2
<1> QED
  BY <1>1, <1>3 DEF RowsRecorded

LEMMA MemberInit == Init => MemberInv
  BY NoRowRecorded DEF Init, MemberInv, Memberships

\* The accounts that a step does not name are as they were.
LEMMA MemberFrame ==
  ASSUME TypeInv, MemberInv, users \subseteq users', NEW u \in User,
         \A v \in User \ {u} :
           members'[v] = members[v] /\ \A t \in Team : recorded'[<<v, t>>] = recorded[<<v, t>>],
         u \in users',
         \A t \in Team :
           RowsRecorded(Memberships(u, t)', recorded'[<<u, t>>])
  PROVE  MemberInv'
<1> SUFFICES ASSUME NEW v \in User, v # u
             PROVE  /\ v \notin users' => members'[v] = {}
                    /\ \A t \in Team :
                         RowsRecorded(Memberships(v, t)', recorded'[<<v, t>>])
  BY DEF MemberInv
<1>1. members'[v] = members[v] /\ \A t \in Team : recorded'[<<v, t>>] = recorded[<<v, t>>]
  OBVIOUS
<1>2. \A t \in Team : Memberships(v, t)' = Memberships(v, t)
  BY <1>1 DEF Memberships
<1> QED
  BY <1>1, <1>2 DEF MemberInv

LEMMA AddUserMembers ==
  ASSUME TypeInv, MemberInv, NEW u \in User \ users, NEW codes, NEW ts \in SUBSET Team,
         AddUser(u, codes, ts)
  PROVE  MemberInv'
<1>1. users \subseteq users' /\ u \in users'
  BY DEF AddUser
<1>2. ASSUME NEW v \in User \ {u}
      PROVE  members'[v] = members[v] /\ \A t \in Team : recorded'[<<v, t>>] = recorded[<<v, t>>]
  BY DEF AddUser, RecordAdded, TypeInv, TypeOK
<1>3. members'[u] = {[team |-> t, grant |-> grants + 1] : t \in ts}
  BY DEF AddUser, TypeInv, TypeOK
<1>4. ASSUME NEW t \in Team
      PROVE  RowsRecorded(Memberships(u, t)', recorded'[<<u, t>>])
  <2>1. Memberships(u, t) = {} /\ recorded[<<u, t>>] \in Int
        /\ RowsRecorded(Memberships(u, t), recorded[<<u, t>>])
    BY DEF MemberInv, Memberships, TypeInv, TypeOK
  <2>2. CASE t \in ts
    <3>1. Memberships(u, t)' = {[team |-> t, grant |-> grants + 1]}
      BY <1>3, <2>2 DEF Memberships
    <3>2. recorded'[<<u, t>>] = recorded[<<u, t>>] + 1
      BY <2>2 DEF AddUser, RecordAdded
    <3> QED
      BY <2>1, <3>1, <3>2, NoRowRecorded, OneRowRecorded
  <2>3. CASE t \notin ts
    <3>1. Memberships(u, t)' = {}
      BY <1>3, <2>3 DEF Memberships
    <3>2. recorded'[<<u, t>>] = recorded[<<u, t>>]
      BY <2>3 DEF AddUser, RecordAdded
    <3> QED
      BY <2>1, <3>1, <3>2
  <2> QED
    BY <2>2, <2>3
<1> QED
  BY <1>1, <1>2, <1>4, MemberFrame

LEMMA JoinMembers ==
  ASSUME TypeInv, MemberInv, NEW w \in Worker, AddTeamMemberCommit(w) PROVE MemberInv'
<1>0. req[w].user \in User /\ req[w].user \in users /\ req[w].team \in Team /\ users' = users
  BY DEF AddTeamMemberCommit, TypeInv, RequestInv, Sound
<1>1. PICK u \in User, joined \in Team, row \in {[team |-> req[w].team, grant |-> grants + 1]} :
        u = req[w].user /\ u \in users /\ joined = req[w].team
        /\ row = [team |-> joined, grant |-> grants + 1]
  BY <1>0
<1>2. CASE AlreadyMember(w)
  <2>1. UNCHANGED <<members, users, recorded>>
    BY <1>0, <1>2 DEF AddTeamMemberCommit
  <2> QED
    BY <2>1 DEF MemberInv, Memberships
<1>3. CASE ~AlreadyMember(w)
  <2>1. Memberships(u, joined) = {} /\ recorded[<<u, joined>>] \in Int
        /\ RowsRecorded(Memberships(u, joined), recorded[<<u, joined>>])
    BY <1>1, <1>3 DEF AlreadyMember, MemberInv, TypeInv, TypeOK
  <2>2. members' = [members EXCEPT ![u] = @ \cup {row}] /\ RecordAdded(u, {joined})
    BY <1>1, <1>3 DEF AddTeamMemberCommit
  <2>3. members'[u] = members[u] \cup {row}
    BY <1>1, <2>2 DEF TypeInv, TypeOK
  <2>4. ASSUME NEW t \in Team
        PROVE  RowsRecorded(Memberships(u, t)', recorded'[<<u, t>>])
    <3>1. CASE t = joined
      <4>1. Memberships(u, t)' = {row}
        BY <1>1, <2>1, <2>3, <3>1 DEF Memberships
      <4>2. recorded'[<<u, t>>] = recorded[<<u, t>>] + 1
        BY <1>1, <2>2, <3>1 DEF RecordAdded
      <4> QED
        BY <2>1, <3>1, <4>1, <4>2, NoRowRecorded, OneRowRecorded
    <3>2. CASE t # joined
      <4>1. Memberships(u, t)' = Memberships(u, t)
        BY <1>1, <2>3, <3>2 DEF Memberships
      <4>2. recorded'[<<u, t>>] = recorded[<<u, t>>]
        BY <1>1, <2>2, <3>2 DEF RecordAdded
      <4> QED
        BY <1>1, <4>1, <4>2 DEF MemberInv
    <3> QED
      BY <3>1, <3>2
  <2>5. ASSUME NEW v \in User \ {u}
        PROVE  members'[v] = members[v] /\ \A t \in Team : recorded'[<<v, t>>] = recorded[<<v, t>>]
    BY <2>2 DEF RecordAdded, TypeInv, TypeOK
  <2> QED
    BY <1>0, <1>1, <2>4, <2>5, MemberFrame
<1> QED
  BY <1>2, <1>3

LEMMA LeaveMembers ==
  ASSUME TypeInv, MemberInv, NEW w \in Worker, RemoveTeamMemberCommit(w) PROVE MemberInv'
<1> DEFINE u == req[w].user
           left == req[w].team
<1>1. u \in User /\ left \in Team /\ users' = users
  BY DEF RemoveTeamMemberCommit, TypeInv, RequestInv, Sound
<1>2. members'[u] \subseteq members[u] /\ \A m \in members[u] : m.team # left => m \in members'[u]
  BY <1>1 DEF RemoveTeamMemberCommit, TypeInv, TypeOK
<1>3. \A v \in User \ {u} : members'[v] = members[v]
  BY DEF RemoveTeamMemberCommit, TypeInv, TypeOK
<1>4. /\ recorded'[<<u, left>>] = recorded[<<u, left>>] - 1 /\ recorded[<<u, left>>] \in Int
      /\ \A v \in User, t \in Team : v # u \/ t # left => recorded'[<<v, t>>] = recorded[<<v, t>>]
  BY <1>1 DEF RemoveTeamMemberCommit, TypeInv, TypeOK
<1> HIDE DEF u, left
<1>5. ASSUME NEW v \in User, NEW t \in Team
      PROVE  RowsRecorded(Memberships(v, t)', recorded'[<<v, t>>])
  <2>1. CASE v = u /\ t = left
    <3>1. Memberships(v, t)' \subseteq Memberships(v, t)
      BY <1>2, <2>1 DEF Memberships
    <3>2. recorded'[<<v, t>>] = recorded[<<v, t>>] - 1 /\ recorded[<<v, t>>] \in Int
      BY <1>4, <2>1
    <3>3. RowsRecorded(Memberships(v, t), recorded[<<v, t>>])
      BY DEF MemberInv
    <3> QED
      BY <3>1, <3>2, <3>3, FewerRowsRecorded
  <2>2. CASE v # u \/ t # left
    <3>1. Memberships(v, t)' = Memberships(v, t)
      BY <1>2, <1>3, <2>2 DEF Memberships
    <3>2. recorded'[<<v, t>>] = recorded[<<v, t>>]
      BY <1>4, <2>2
    <3> QED
      BY <3>1, <3>2 DEF MemberInv
  <2> QED
    BY <2>1, <2>2
<1>6. ASSUME NEW v \in User, v \notin users' PROVE members'[v] = {}
  BY <1>1, <1>2, <1>3, <1>6 DEF MemberInv
<1> QED
  BY <1>5, <1>6 DEF MemberInv

LEMMA MemberStep == TypeInv /\ MemberInv /\ [Next]_vars => MemberInv'
<1> SUFFICES ASSUME TypeInv, MemberInv, [Next]_vars PROVE MemberInv'
  OBVIOUS
<1>1. ASSUME UNCHANGED <<users, members, recorded>> PROVE MemberInv'
  <2>1. \A u \in User, t \in Team : Memberships(u, t)' = Memberships(u, t)
    BY <1>1 DEF Memberships
  <2> QED
    BY <1>1, <2>1 DEF MemberInv
<1>2. ASSUME NEW w \in Worker, BeginStep(w) PROVE MemberInv'
  BY <1>1, <1>2 DEF BeginStep, RegisterRead, Login, RefreshRead, LogoutRead, ReplaceRolesRead,
                    CreateUserRead, AddTeamMemberRead, RemoveTeamMemberRead, teamVars
<1>3. ASSUME NEW w \in Worker, RequestStep(w) PROVE MemberInv'
  BY <1>1, <1>3 DEF RequestStep, RefreshRevoke, IssueTokens, Abort, FailOnEmail, FailOnRole,
                    ReplaceRolesReply, teamVars
<1>4. ASSUME NEW w \in Worker, SessionStep(w) PROVE MemberInv'
  BY <1>1, <1>4 DEF SessionStep, CommitSession, Respond, LogoutCommit, teamVars
<1>5. ASSUME NEW w \in Worker, AccountStep(w) PROVE MemberInv'
  <2>1. CASE RegisterCommit(w)
    <3>1. req[w].user \in User \ users
      BY <2>1 DEF RegisterCommit, TypeInv, RequestInv, Sound
    <3> QED
      BY <2>1, <3>1, AddUserMembers DEF RegisterCommit
  <2>2. CASE CreateUserCommit(w)
    <3>1. req[w].user \in User \ users /\ req[w].teams \in SUBSET Team
      BY <2>2 DEF CreateUserCommit, TypeInv, TypeOK, RequestInv, Sound, Request
    <3> QED
      BY <2>2, <3>1, AddUserMembers DEF CreateUserCommit
  <2>3. CASE ReplaceRolesCommit(w)
    BY <1>1, <2>3 DEF ReplaceRolesCommit, teamVars
  <2> QED
    BY <1>5, <2>1, <2>2, <2>3 DEF AccountStep
<1>6. ASSUME NEW w \in Worker, TeamStep(w) PROVE MemberInv'
  BY <1>6, JoinMembers, LeaveMembers DEF TeamStep
<1>7. ASSUME NEW s, NEW t, CreateTeam(s, t) PROVE MemberInv'
  BY <1>1, <1>7 DEF CreateTeam
<1>8. CASE Tick
  BY <1>1, <1>8 DEF Tick, teamVars
<1>9. CASE UNCHANGED vars
  BY <1>1, <1>9 DEF vars, teamVars
<1> QED
  BY <1>2, <1>3, <1>4, <1>5, <1>6, <1>7, <1>8, <1>9, NextSteps

\* A user is in a team at most once and every membership that has ended is
\* recorded as removed, however many admins add and remove the same members and
\* create accounts in these teams at once.
THEOREM MembershipsRecorded == Spec => []EndedMembershipsRecorded
<1>1. ASSUME TypeInv, MemberInv PROVE EndedMembershipsRecorded
  <2> SUFFICES ASSUME NEW u \in User, NEW t \in Team
               PROVE  /\ Cardinality(Memberships(u, t)) <= 1
                      /\ recorded[<<u, t>>] <= Cardinality(Memberships(u, t))
    BY DEF EndedMembershipsRecorded
  <2>1. RowsRecorded(Memberships(u, t), recorded[<<u, t>>]) /\ recorded[<<u, t>>] \in Int
    BY <1>1 DEF MemberInv, TypeInv, TypeOK
  <2>2. Cardinality({}) = 0 /\ \A m : Cardinality({m}) = 1
    BY FS_EmptySet, FS_Singleton
  <2>3. CASE Memberships(u, t) = {}
    BY <2>1, <2>2, <2>3, NoRowRecorded
  <2>4. CASE Memberships(u, t) # {}
    <3>1. (\E m : Memberships(u, t) = {m}) /\ recorded[<<u, t>>] <= 1
      BY <2>1, <2>4 DEF RowsRecorded
    <3>2. Cardinality(Memberships(u, t)) = 1
      BY <2>2, <3>1
    <3> QED
      BY <2>1, <3>1, <3>2
  <2> QED
    BY <2>3, <2>4
<1> QED
  BY <1>1, TypeInit, TypeStep, MemberInit, MemberStep, PTL DEF Spec

-----------------------------------------------------------------------------
(* Sessions *)

LEMMA RevokedSession ==
  ASSUME NEW c \in Session, NEW b \in BOOLEAN
  PROVE  LET d == [c EXCEPT !.revoked = b] IN
         /\ d.user = c.user /\ d.parent = c.parent /\ d.roles = c.roles /\ d.iat = c.iat
         /\ d.revoked = b
  BY DEF Session

\* A step leaves every session in its place with what it was made from; a
\* revocation stays, and the only new session is that of the request that commits.
LEMMA SessionsKept ==
  ASSUME TypeInv, [Next]_vars
  PROVE  /\ DOMAIN sessions \subseteq DOMAIN sessions'
         /\ \A s \in DOMAIN sessions :
              /\ sessions'[s].user = sessions[s].user
              /\ sessions'[s].parent = sessions[s].parent
              /\ sessions'[s].roles = sessions[s].roles
              /\ sessions'[s].iat = sessions[s].iat
              /\ sessions[s].revoked => sessions'[s].revoked
         /\ DOMAIN sessions' # DOMAIN sessions => \E w \in Worker : CommitSession(w)
<1>0. \A s \in DOMAIN sessions : sessions[s] \in Session
  BY SessionsType
<1>1. ASSUME NEW w \in Worker, CommitSession(w)
      PROVE  /\ DOMAIN sessions \subseteq DOMAIN sessions'
             /\ \A s \in DOMAIN sessions :
                  /\ sessions'[s].user = sessions[s].user
                  /\ sessions'[s].parent = sessions[s].parent
                  /\ sessions'[s].roles = sessions[s].roles
                  /\ sessions'[s].iat = sessions[s].iat
                  /\ sessions[s].revoked => sessions'[s].revoked
  <2>1. DOMAIN sessions \subseteq DOMAIN sessions'
    BY <1>1, CommitSessionEffect
  <2>2. ASSUME NEW s \in DOMAIN sessions
        PROVE  /\ sessions'[s].user = sessions[s].user
               /\ sessions'[s].parent = sessions[s].parent
               /\ sessions'[s].roles = sessions[s].roles
               /\ sessions'[s].iat = sessions[s].iat
               /\ sessions[s].revoked => sessions'[s].revoked
    <3>1. PICK b \in BOOLEAN : b = (sessions[s].revoked \/ s = req[w].sid)
      OBVIOUS
    <3>2. sessions'[s] = [sessions[s] EXCEPT !.revoked = b]
      BY <1>1, <3>1, CommitSessionEffect
    <3>3. sessions[s] \in Session
      BY <1>0
    <3>4. /\ sessions'[s].user = sessions[s].user /\ sessions'[s].parent = sessions[s].parent
          /\ sessions'[s].roles = sessions[s].roles /\ sessions'[s].iat = sessions[s].iat
          /\ sessions'[s].revoked = b
      BY <3>2, <3>3, RevokedSession
    <3> QED
      BY <3>1, <3>4
  <2> QED
    BY <2>1, <2>2
<1>2. ASSUME NEW w \in Worker, Respond(w) \/ LogoutCommit(w)
      PROVE  /\ DOMAIN sessions' = DOMAIN sessions
             /\ \A s \in DOMAIN sessions :
                  /\ sessions'[s].user = sessions[s].user
                  /\ sessions'[s].parent = sessions[s].parent
                  /\ sessions'[s].roles = sessions[s].roles
                  /\ sessions'[s].iat = sessions[s].iat
                  /\ sessions[s].revoked => sessions'[s].revoked
  <2>1. \/ sessions' = [sessions EXCEPT ![req[w].sid].given = TRUE]
        \/ sessions' = [sessions EXCEPT ![req[w].sid].revoked = TRUE]
    BY <1>2 DEF Respond, LogoutCommit
  <2> QED
    BY <1>0, <2>1 DEF Session
<1>3. ASSUME ~\E w \in Worker : SessionStep(w) PROVE sessions' = sessions
  <2>1. ASSUME NEW w \in Worker, BeginStep(w) PROVE sessions' = sessions
    BY <2>1 DEF BeginStep, RegisterRead, Login, RefreshRead, LogoutRead, ReplaceRolesRead,
                CreateUserRead, AddTeamMemberRead, RemoveTeamMemberRead
  <2>2. ASSUME NEW w \in Worker, RequestStep(w) \/ AccountStep(w) \/ TeamStep(w)
        PROVE  sessions' = sessions
    BY <2>2 DEF RequestStep, RefreshRevoke, IssueTokens, Abort, FailOnEmail, FailOnRole,
                ReplaceRolesReply, AccountStep, RegisterCommit, CreateUserCommit,
                ReplaceRolesCommit, TeamStep, AddTeamMemberCommit, RemoveTeamMemberCommit
  <2> QED
    BY <1>3, <2>1, <2>2, NextSteps DEF CreateTeam, Tick, vars
<1>4. CASE \E w \in Worker : SessionStep(w)
  BY <1>1, <1>2, <1>4 DEF SessionStep
<1>5. CASE ~\E w \in Worker : SessionStep(w)
  BY <1>3, <1>5
<1> QED
  BY <1>4, <1>5

\* A step is of one request: the others stay where they are.
LEMMA OtherRequests ==
  ASSUME TypeInv, NEW v \in Worker, NEW w \in Worker, v # w,
         BeginStep(v) \/ RequestStep(v) \/ SessionStep(v) \/ AccountStep(v) \/ TeamStep(v)
  PROVE  req'[w] = req[w]
<1>0. req \in [Worker -> Request]
  BY DEF TypeInv, TypeOK
<1>1. CASE BeginStep(v)
  BY <1>0, <1>1 DEF BeginStep, RegisterRead, Login, RefreshRead, LogoutRead, ReplaceRolesRead,
                    CreateUserRead, AddTeamMemberRead, RemoveTeamMemberRead, Begin
<1>2. CASE RequestStep(v)
  BY <1>0, <1>2 DEF RequestStep, RefreshRevoke, IssueTokens, Abort, FailOnEmail, FailOnRole,
                    ReplaceRolesReply, Goto, End
<1>3. CASE SessionStep(v)
  BY <1>0, <1>3 DEF SessionStep, CommitSession, Respond, LogoutCommit, End
<1>4. CASE AccountStep(v)
  BY <1>0, <1>4 DEF AccountStep, RegisterCommit, CreateUserCommit, ReplaceRolesCommit, Goto, End
<1>5. CASE TeamStep(v)
  BY <1>0, <1>5 DEF TeamStep, AddTeamMemberCommit, RemoveTeamMemberCommit, End
<1> QED
  BY <1>1, <1>2, <1>3, <1>4, <1>5

\* Whoever starts to refresh a session has just read that it is active.
LEMMA RefresherIsNew ==
  ASSUME TypeInv, [Next]_vars, NEW s \in DOMAIN sessions, NEW w \in Worker,
         w \in Refreshing(s)', w \notin Refreshing(s)
  PROVE  ~sessions[s].revoked
<1>0. /\ req \in [Worker -> Request] /\ req[w] \in Request
      /\ Sound(req[w], users, DOMAIN sessions) /\ s # 0
  BY SessionsType DEF TypeInv, TypeOK, RequestInv
<1>1. /\ req'[w].at \in {"revoke", "issue", "commit"} /\ req'[w].sid = s
      /\ ~(req[w].at \in {"revoke", "issue", "commit"} /\ req[w].sid = s)
  BY DEF Refreshing
<1>2. req'[w] # req[w]
  BY <1>1
<1>3. CASE BeginStep(w)
  <2>1. ASSUME NEW r, Begin(w, r), r.at \notin {"revoke", "issue", "commit"} \/ r.sid = 0
        PROVE  FALSE
    BY <1>0, <1>1, <2>1 DEF Begin
  <2>2. ASSUME NEW u \in User, RegisterRead(w, u) \/ Login(w, u) PROVE FALSE
    BY <2>1, <2>2 DEF RegisterRead, Login, Idle
  <2>3. ASSUME NEW i \in DOMAIN sessions, NEW u, NEW codes, NEW ts, NEW t,
               \/ LogoutRead(w, i) \/ ReplaceRolesRead(w, i, u, codes)
               \/ CreateUserRead(w, i, u, codes, ts)
               \/ AddTeamMemberRead(w, i, u, t) \/ RemoveTeamMemberRead(w, i, u, t)
        PROVE  FALSE
    BY <2>1, <2>3 DEF LogoutRead, ReplaceRolesRead, CreateUserRead, AddTeamMemberRead,
                      RemoveTeamMemberRead, Idle
  <2>4. PICK i \in DOMAIN sessions : RefreshRead(w, i)
    BY <1>3, <2>2, <2>3 DEF BeginStep
  <2>5. req'[w].sid = i
    BY <1>0, <2>4 DEF RefreshRead, Begin, Idle
  <2> QED
    BY <1>1, <2>4, <2>5 DEF RefreshRead, RefreshActive
<1>4. CASE RequestStep(w)
  <2>1. CASE RefreshRevoke(w)
    BY <1>0, <1>1, <2>1 DEF RefreshRevoke, Goto, Request
  <2>2. CASE IssueTokens(w)
    BY <1>0, <1>1, <2>2 DEF IssueTokens, Request
  <2>3. CASE End(w)
    BY <1>0, <1>1, <2>3, IdleType DEF End
  <2> QED
    BY <1>4, <2>1, <2>2, <2>3 DEF RequestStep, Abort, FailOnEmail, FailOnRole, ReplaceRolesReply
<1>5. CASE SessionStep(w)
  <2>1. CASE CommitSession(w)
    BY <1>0, <1>1, <2>1 DEF CommitSession, Request
  <2>2. CASE End(w)
    BY <1>0, <1>1, <2>2, IdleType DEF End
  <2> QED
    BY <1>5, <2>1, <2>2 DEF SessionStep, Respond, LogoutCommit
<1>6. CASE AccountStep(w)
  <2>1. CASE RegisterCommit(w)
    BY <1>0, <1>1, <2>1 DEF RegisterCommit, Goto, Request, Sound
  <2>2. CASE ReplaceRolesCommit(w)
    BY <1>0, <1>1, <2>2 DEF ReplaceRolesCommit, Idle
  <2>3. CASE End(w)
    BY <1>0, <1>1, <2>3, IdleType DEF End
  <2> QED
    BY <1>6, <2>1, <2>2, <2>3 DEF AccountStep, CreateUserCommit
<1>7. CASE TeamStep(w)
  BY <1>0, <1>1, <1>7, IdleType DEF TeamStep, AddTeamMemberCommit, RemoveTeamMemberCommit, End
<1> QED
  BY <1>2, <1>3, <1>4, <1>5, <1>6, <1>7, NextSteps, OtherRequests DEF CreateTeam, Tick, vars

\* A commit is the end of a refresh, and its only effect on who descends from
\* which session.
LEMMA CommitEndsRefresh ==
  ASSUME TypeInv, NEW w \in Worker, CommitSession(w)
  PROVE  /\ \A s : w \notin Refreshing(s)'
         /\ w \in Refreshing(req[w].sid)
<1>1. req'[w].at = "respond"
  BY DEF TypeInv, TypeOK, Request, CommitSession
<1> QED
  BY <1>1 DEF Refreshing, CommitSession

LEMMA ChildrenBorn ==
  ASSUME TypeInv, NEW w \in Worker, CommitSession(w)
  PROVE  /\ \A s : s = req[w].sid => Children(s)' = Children(s) \cup {Len(sessions) + 1}
         /\ \A s : s # req[w].sid => Children(s)' = Children(s)
<1>1. /\ DOMAIN sessions' = DOMAIN sessions \cup {Len(sessions) + 1}
      /\ sessions'[Len(sessions) + 1].parent = req[w].sid
      /\ Len(sessions) + 1 \notin DOMAIN sessions
  <2>1. Len(sessions) + 1 \notin DOMAIN sessions
    BY SessionsType
  <2>2. NewSession(w).parent = req[w].sid
    BY DEF NewSession
  <2> QED
    BY <2>1, <2>2, CommitSessionEffect
<1>2. \A s \in DOMAIN sessions : sessions'[s].parent = sessions[s].parent
  BY SessionsKept DEF Next, Continue
<1> QED
  BY <1>1, <1>2 DEF Children

LEMMA ChildrenKept ==
  ASSUME TypeInv, [Next]_vars, NEW s, \A w \in Worker : CommitSession(w) => req[w].sid # s
  PROVE  Children(s)' = Children(s)
<1>1. CASE \E w \in Worker : CommitSession(w)
  BY <1>1, ChildrenBorn
<1>2. CASE ~\E w \in Worker : CommitSession(w)
  <2>1. DOMAIN sessions' = DOMAIN sessions
        /\ \A t \in DOMAIN sessions : sessions'[t].parent = sessions[t].parent
    BY <1>2, SessionsKept
  <2> QED
    BY <2>1 DEF Children
<1> QED
  BY <1>1, <1>2

\* Once a session is revoked and no refresh of it is in progress, it stays so and
\* no session is derived from it again: RefreshRead is the only way in, and it
\* has to read the session unrevoked.
THEOREM SpentStaysSpent == Spec => RevokedStaysUnused
<1>1. ASSUME TypeInv, [Next]_vars, NEW s \in DOMAIN sessions, Spent(s)
      PROVE  Spent(s)' /\ Children(s)' = Children(s)
  <2>1. sessions[s].revoked /\ Refreshing(s) = {}
    BY <1>1 DEF Spent
  <2>2. sessions'[s].revoked
    BY <1>1, <2>1, SessionsKept
  <2>3. Refreshing(s)' \subseteq Worker
    BY DEF Refreshing
  <2>4. Refreshing(s)' = {}
    BY <1>1, <2>1, <2>3, RefresherIsNew
  <2>5. Children(s)' = Children(s)
    BY <1>1, <2>1, ChildrenKept, CommitEndsRefresh
  <2> QED
    BY <2>2, <2>4, <2>5 DEF Spent
<1>2. TypeInv /\ [Next]_vars =>
        [\A s \in DOMAIN sessions : Spent(s) => Spent(s)' /\ Children(s)' = Children(s)]_vars
  BY <1>1
<1> QED
  BY <1>2, TypeInit, TypeStep, PTL DEF Spec, RevokedStaysUnused

\* What makes RotationBounded inductive: a refresh begins only with a session that
\* has no children, since the commit that gives it the first one revokes it.  From
\* then on a commit turns one refresh in progress into one child.
RotationInv ==
  /\ \A t \in DOMAIN sessions : sessions[t].parent \in DOMAIN sessions \cup {0}
  /\ \A s \in DOMAIN sessions : sessions[s].revoked \/ Children(s) = {}
  /\ RotationBounded

LEMMA RotationInit == Init => RotationInv
  BY DEF Init, RotationInv, RotationBounded

LEMMA RefreshingFinite ==
  \A s : /\ IsFiniteSet(Refreshing(s)) /\ Cardinality(Refreshing(s)) \in Nat
         /\ Cardinality(Worker) \in Nat
         /\ Cardinality(Refreshing(s)) <= Cardinality(Worker)
<1> SUFFICES ASSUME NEW s
             PROVE  /\ IsFiniteSet(Refreshing(s)) /\ Cardinality(Refreshing(s)) \in Nat
                    /\ Cardinality(Worker) \in Nat
                    /\ Cardinality(Refreshing(s)) <= Cardinality(Worker)
  OBVIOUS
<1>1. Refreshing(s) \subseteq Worker
  BY DEF Refreshing
<1> QED
  BY <1>1, FS_Subset, FS_CardinalityType, AuthAssumption

LEMMA ChildrenFinite ==
  ASSUME TypeInv, NEW s PROVE IsFiniteSet(Children(s)) /\ Cardinality(Children(s)) \in Nat
<1>1. Len(sessions) \in Nat /\ DOMAIN sessions = 1..Len(sessions)
  BY SessionsType
<1>2. IsFiniteSet(1..Len(sessions))
  BY <1>1, FS_Interval
<1>3. Children(s) \subseteq 1..Len(sessions)
  BY <1>1 DEF Children
<1> QED
  BY <1>2, <1>3, FS_Subset, FS_CardinalityType

LEMMA RotationStep == TypeInv /\ RotationInv /\ [Next]_vars => RotationInv'
<1> SUFFICES ASSUME TypeInv, RotationInv, [Next]_vars PROVE RotationInv'
  OBVIOUS
<1>0. ASSUME NEW s
      PROVE  /\ Cardinality(Refreshing(s)') \in Nat /\ Cardinality(Worker) \in Nat
             /\ Cardinality(Refreshing(s)') <= Cardinality(Worker)
  <2>1. Refreshing(s)' \subseteq Worker
    BY DEF Refreshing
  <2> QED
    BY <2>1, FS_Subset, FS_CardinalityType, AuthAssumption
<1>1. ASSUME NEW t \in DOMAIN sessions' PROVE sessions'[t].parent \in DOMAIN sessions \cup {0}
  <2>1. CASE t \in DOMAIN sessions
    BY <2>1, SessionsKept DEF RotationInv
  <2>2. CASE t \notin DOMAIN sessions
    <3>1. PICK w \in Worker : CommitSession(w)
      BY <1>1, <2>2, SessionsKept
    <3>2. t = Len(sessions) + 1
      BY <1>1, <2>2, <3>1, CommitSessionEffect
    <3>3. sessions'[t].parent = req[w].sid
      <4>1. NewSession(w).parent = req[w].sid
        BY DEF NewSession
      <4>2. sessions'[t] = NewSession(w)
        BY <3>1, <3>2, CommitSessionEffect
      <4> QED
        BY <4>1, <4>2
    <3>4. req[w].sid \in DOMAIN sessions \cup {0}
      BY <3>1 DEF CommitSession, TypeInv, RequestInv, Sound
    <3> QED
      BY <3>3, <3>4
  <2> QED
    BY <2>1, <2>2
<1>2. DOMAIN sessions \subseteq DOMAIN sessions'
  BY SessionsKept
<1>3. ASSUME NEW s \in DOMAIN sessions', Children(s)' # {} PROVE s \in DOMAIN sessions
  <2>1. PICK t \in DOMAIN sessions' : sessions'[t].parent = s
    BY <1>3 DEF Children
  <2>2. s \in DOMAIN sessions \cup {0}
    BY <1>1, <2>1
  <2>3. s # 0
    <3>1. TypeInv' => 0 \notin DOMAIN sessions'
      BY DEF TypeInv, TypeOK
    <3> QED
      BY <3>1, TypeStep
  <2> QED
    BY <2>2, <2>3
\* The commit of a refresh of s.
<1>4. ASSUME NEW s \in DOMAIN sessions, NEW w \in Worker, CommitSession(w), req[w].sid = s
      PROVE  /\ sessions'[s].revoked
             /\ Cardinality(Children(s)') + Cardinality(Refreshing(s)') <= Cardinality(Worker)
  <2>1. sessions'[s].revoked
    <3>1. sessions'[s] = [sessions[s] EXCEPT !.revoked = TRUE]
      BY <1>4, CommitSessionEffect
    <3> QED
      BY <3>1, SessionsType, RevokedSession
  <2> DEFINE C == Children(s)
             R == Refreshing(s)
             n == Len(sessions) + 1
  <2>2. Children(s)' = C \cup {n}
    BY <1>4, ChildrenBorn
  <2>3. Cardinality(Children(s)') = Cardinality(C) + 1
    <3>1. n \notin C
      BY SessionsType DEF Children
    <3> QED
      BY <2>2, <3>1, ChildrenFinite, FS_AddElement
  <2>4. Refreshing(s)' \subseteq R \ {w}
    <3>1. SessionStep(w)
      BY <1>4 DEF SessionStep
    <3>2. \A v \in Worker : v # w => req'[v] = req[v]
      BY <3>1, OtherRequests
    <3>3. w \notin Refreshing(s)'
      BY <1>4, CommitEndsRefresh
    <3> QED
      BY <3>2, <3>3 DEF Refreshing
  <2>5. w \in R
    BY <1>4, CommitEndsRefresh
  <2>6. Cardinality(R \ {w}) = Cardinality(R) - 1 /\ IsFiniteSet(R \ {w})
    BY <2>5, RefreshingFinite, FS_RemoveElement
  <2>7. Cardinality(Refreshing(s)') <= Cardinality(R) - 1
    BY <2>4, <2>6, FS_Subset
  <2>8. Cardinality(C) + Cardinality(R) <= Cardinality(Worker)
    BY DEF RotationInv, RotationBounded
  <2>9. Cardinality(C) \in Nat /\ Cardinality(R) \in Nat
    BY ChildrenFinite, RefreshingFinite
  <2> HIDE DEF C, R
  <2> QED
    BY <1>0, <2>1, <2>3, <2>7, <2>8, <2>9
\* Any other step.
<1>5. ASSUME NEW s \in DOMAIN sessions, ~\E w \in Worker : CommitSession(w) /\ req[w].sid = s,
             Children(s)' # {}
      PROVE  /\ sessions'[s].revoked
             /\ Cardinality(Children(s)') + Cardinality(Refreshing(s)') <= Cardinality(Worker)
  <2> DEFINE C == Children(s)
             R == Refreshing(s)
  <2>1. Children(s)' = C
    BY <1>5, ChildrenKept
  <2>2. sessions[s].revoked
    BY <1>5, <2>1 DEF RotationInv
  <2>3. Refreshing(s)' \subseteq R
    <3>1. Refreshing(s)' \subseteq Worker
      BY DEF Refreshing
    <3> QED
      BY <2>2, <3>1, RefresherIsNew
  <2>4. Cardinality(Refreshing(s)') <= Cardinality(R)
    BY <2>3, RefreshingFinite, FS_Subset
  <2>5. Cardinality(C) + Cardinality(R) <= Cardinality(Worker)
    BY DEF RotationInv, RotationBounded
  <2>6. Cardinality(C) \in Nat /\ Cardinality(R) \in Nat
    BY ChildrenFinite, RefreshingFinite
  <2>7. sessions'[s].revoked
    BY <2>2, SessionsKept
  <2> HIDE DEF C, R
  <2> QED
    BY <1>0, <2>1, <2>4, <2>5, <2>6, <2>7
<1>6. ASSUME NEW s \in DOMAIN sessions', Children(s)' = {}
      PROVE  Cardinality(Children(s)') + Cardinality(Refreshing(s)') <= Cardinality(Worker)
  <2>1. Cardinality(Children(s)') = 0
    BY <1>6, FS_EmptySet
  <2> QED
    BY <1>0, <2>1
<1>7. \A s \in DOMAIN sessions' :
        /\ sessions'[s].revoked \/ Children(s)' = {}
        /\ Cardinality(Children(s)') + Cardinality(Refreshing(s)') <= Cardinality(Worker)
  BY <1>3, <1>4, <1>5, <1>6
<1> QED
  BY <1>1, <1>2, <1>7 DEF RotationInv, RotationBounded

\* One refresh token yields at most as many sessions as requests run at once:
\* rotation cannot be used to collect sessions, whatever the races of refreshes.
THEOREM RotationKept == Spec => []RotationBounded
<1>1. RotationInv => RotationBounded
  BY DEF RotationInv
<1> QED
  BY <1>1, TypeInit, TypeStep, RotationInit, RotationStep, PTL DEF Spec

-----------------------------------------------------------------------------
(* Roles *)

\* A request for which an admin is needed has just been let in when it appears.
LEMMA AdminRequestIsNew ==
  ASSUME TypeInv, [Next]_vars, NEW w \in Worker,
         req'[w].at \in {"create", "replace"}, req'[w] # req[w]
  PROVE  /\ req'[w].codes \in RoleRequests
         /\ req'[w].sid \in DOMAIN sessions /\ RequireAdmin(req'[w].sid) /\ req'[w].time = now
         /\ req'[w].at = "replace" => req'[w].rows = userRoles[req'[w].user]
         /\ BeginStep(w)
<1>0. req \in [Worker -> Request] /\ req[w] \in Request
  BY DEF TypeInv, TypeOK
<1>1. CASE BeginStep(w)
  <2>1. ASSUME NEW r, Begin(w, r), r.at \notin {"create", "replace"} PROVE FALSE
    BY <1>0, <2>1 DEF Begin
  <2>2. ASSUME NEW u \in User, RegisterRead(w, u) \/ Login(w, u) PROVE FALSE
    BY <2>1, <2>2 DEF RegisterRead, Login, Idle
  <2>3. ASSUME NEW i \in DOMAIN sessions, NEW u, NEW t,
               \/ LogoutRead(w, i) \/ RefreshRead(w, i)
               \/ AddTeamMemberRead(w, i, u, t) \/ RemoveTeamMemberRead(w, i, u, t)
        PROVE  FALSE
    BY <2>1, <2>3 DEF LogoutRead, RefreshRead, AddTeamMemberRead, RemoveTeamMemberRead, Idle
  <2>4. PICK i \in DOMAIN sessions, u \in User, codes \in RoleRequests :
          \/ ReplaceRolesRead(w, i, u, codes)
          \/ \E ts \in SUBSET teams : CreateUserRead(w, i, u, codes, ts)
    BY <1>1, <2>2, <2>3 DEF BeginStep
  <2>5. CASE ReplaceRolesRead(w, i, u, codes)
    <3>1. /\ req'[w].codes = codes /\ req'[w].sid = i /\ req'[w].time = now
          /\ req'[w].rows = userRoles[u] /\ req'[w].user = u
      BY <1>0, <2>5 DEF ReplaceRolesRead, Begin, Idle
    <3> QED
      BY <1>1, <2>5, <3>1 DEF ReplaceRolesRead
  <2>6. CASE \E ts \in SUBSET teams : CreateUserRead(w, i, u, codes, ts)
    <3>1. /\ req'[w].codes = codes /\ req'[w].sid = i /\ req'[w].time = now
          /\ req'[w].at = "create"
      BY <1>0, <2>6 DEF CreateUserRead, Begin, Idle
    <3> QED
      BY <1>1, <2>6, <3>1 DEF CreateUserRead
  <2> QED
    BY <2>4, <2>5, <2>6
<1>2. ASSUME NEW step \in {"issue", "commit", "reply", "respond", "idle"}, req'[w].at = step PROVE FALSE
  BY <1>2
<1>3. CASE RequestStep(w) \/ SessionStep(w) \/ AccountStep(w) \/ TeamStep(w)
  <2>1. ASSUME End(w) PROVE FALSE
    BY <1>0, <2>1, IdleType DEF End
  <2>2. ASSUME Goto(w, "issue") PROVE FALSE
    BY <1>0, <1>2, <2>2 DEF Goto, Request
  <2>3. ASSUME IssueTokens(w) \/ CommitSession(w) PROVE FALSE
    BY <1>0, <1>2, <2>3 DEF IssueTokens, CommitSession, Request
  <2>4. ASSUME ReplaceRolesCommit(w) PROVE FALSE
    BY <1>2, <2>4, ReplyFollows
  <2> QED
    BY <1>3, <2>1, <2>2, <2>3, <2>4
       DEF RequestStep, RefreshRevoke, Abort, FailOnEmail, FailOnRole, ReplaceRolesReply,
           SessionStep, Respond, LogoutCommit, AccountStep, RegisterCommit, CreateUserCommit,
           TeamStep, AddTeamMemberCommit, RemoveTeamMemberCommit
<1> QED
  BY <1>1, <1>3, NextSteps, OtherRequests DEF CreateTeam, Tick, vars

GrantsOf(rows) == {row.grant : row \in rows}

\* f tells for each grant of u a worker that wrote it, no two by the same; when
\* this worker replaces roles of u again, it has read what it wrote.
WrittenBy(u, f) ==
  /\ f \in [GrantsOf(userRoles[u]) -> Worker]
  /\ \A g, h \in GrantsOf(userRoles[u]) : f[g] = f[h] => g = h
  /\ \A row \in userRoles[u] :
       req[f[row.grant]].at = "replace" /\ req[f[row.grant]].user = u
         => row \in req[f[row.grant]].rows

\* What makes RolesOfLatestRequests inductive: a replacement leaves only rows it
\* has not read, and those are the work of other workers, one grant of each.
RoleInv ==
  \A u \in User :
    /\ userRoles[u] # {} => u \in users
    /\ \A row \in userRoles[u] : row.grant <= grants
    /\ \E f : WrittenBy(u, f)

LEMMA RoleInit == Init => RoleInv
<1> SUFFICES ASSUME Init PROVE RoleInv
  OBVIOUS
<1>1. ASSUME NEW u \in User PROVE WrittenBy(u, [g \in {} |-> 0])
  BY DEF Init, WrittenBy, GrantsOf
<1> QED
  BY <1>1 DEF Init, RoleInv

\* A user whose rows a step leaves alone.
LEMMA RowsKept ==
  ASSUME TypeInv, [Next]_vars, NEW u \in User, userRoles'[u] = userRoles[u],
         NEW f, WrittenBy(u, f)
  PROVE  WrittenBy(u, f)'
<1>1. ASSUME NEW row \in userRoles'[u], req'[f[row.grant]].at = "replace",
             req'[f[row.grant]].user = u
      PROVE  row \in req'[f[row.grant]].rows
  <2>1. PICK w \in Worker : w = f[row.grant]
    BY <1>1 DEF WrittenBy, GrantsOf
  <2>2. CASE req'[w] = req[w]
    BY <1>1, <2>1, <2>2 DEF WrittenBy
  <2>3. CASE req'[w] # req[w]
    BY <1>1, <2>1, <2>3, AdminRequestIsNew
  <2> QED
    BY <2>2, <2>3
<1> QED
  BY <1>1 DEF WrittenBy, GrantsOf

\* Of one user at most the roles change.
LEMMA RoleFrame ==
  ASSUME TypeInv, [Next]_vars, RoleInv, grants <= grants', NEW u \in User,
         \A v \in User \ {u} : userRoles'[v] = userRoles[v] /\ (v \in users' <=> v \in users),
         userRoles'[u] # {} => u \in users',
         \A row \in userRoles'[u] : row.grant <= grants',
         \E f : WrittenBy(u, f)'
  PROVE  RoleInv'
<1>1. grants \in Nat /\ grants' \in Nat
      /\ \A v \in User : \A row \in userRoles[v] : row.grant \in Nat
  BY TypeStep DEF TypeInv, TypeOK, UserRole
<1>2. ASSUME NEW v \in User \ {u}
      PROVE  /\ userRoles'[v] # {} => v \in users'
             /\ \A row \in userRoles'[v] : row.grant <= grants'
             /\ \E f : WrittenBy(v, f)'
  <2>1. PICK f : WrittenBy(v, f)
    BY DEF RoleInv
  <2>2. WrittenBy(v, f)'
    BY <2>1, RowsKept
  <2>3. \A row \in userRoles'[v] : row.grant <= grants'
    BY <1>1 DEF RoleInv
  <2> QED
    BY <2>2, <2>3 DEF RoleInv
<1> QED
  BY <1>2 DEF RoleInv

\* The rows that a request inserts, if any, bear its number.
LEMMA NewRows ==
  ASSUME NEW codes, NEW m, NEW kept
  PROVE  /\ \A row \in {[code |-> c, grant |-> m] : c \in codes} : row.grant = m
         /\ GrantsOf(kept \cup {[code |-> c, grant |-> m] : c \in codes})
              \subseteq GrantsOf(kept) \cup {m}
<1>1. PICK rows : rows = {[code |-> c, grant |-> m] : c \in codes}
  OBVIOUS
<1>2. \A row \in rows : row.grant = m
  BY <1>1
<1>3. GrantsOf(kept \cup rows) \subseteq GrantsOf(kept) \cup {m}
  BY <1>2 DEF GrantsOf
<1> QED
  BY <1>1, <1>2, <1>3

LEMMA AddUserRoles ==
  ASSUME TypeInv, [Next]_vars, RoleInv, NEW w \in Worker, NEW u \in User,
         NEW codes \in SUBSET RoleCode, NEW ts, AddUser(u, codes, ts),
         req'[w].at # "replace"
  PROVE  RoleInv'
<1>0. grants \in Nat /\ userRoles \in [User -> SUBSET UserRole]
  BY DEF TypeInv, TypeOK
<1>1. PICK m \in Nat : m = grants + 1
  BY <1>0
<1>2. /\ userRoles'[u] = {[code |-> c, grant |-> m] : c \in codes}
      /\ \A v \in User \ {u} : userRoles'[v] = userRoles[v]
      /\ users' = users \cup {u} /\ grants' = m /\ grants <= m
  BY <1>0, <1>1 DEF AddUser
<1>3. \A row \in userRoles'[u] : row.grant = m
  BY <1>2, NewRows
<1>4. GrantsOf(userRoles'[u]) \subseteq {m}
  BY <1>3 DEF GrantsOf
<1>5. PICK h : h = [g \in GrantsOf(userRoles'[u]) |-> w]
  OBVIOUS
<1>6. WrittenBy(u, h)'
  BY <1>3, <1>4, <1>5 DEF WrittenBy, GrantsOf
<1>7. \A row \in userRoles'[u] : row.grant <= grants'
  BY <1>2, <1>3
<1> QED
  BY <1>1, <1>2, <1>6, <1>7, RoleFrame

LEMMA ReplaceRoles ==
  ASSUME TypeInv, [Next]_vars, RoleInv, NEW w \in Worker, ReplaceRolesCommit(w)
  PROVE  RoleInv'
<1>0. /\ grants \in Nat /\ userRoles \in [User -> SUBSET UserRole]
      /\ req \in [Worker -> Request] /\ req[w] \in Request
      /\ req[w].user \in User /\ req[w].user \in users
  BY DEF TypeInv, TypeOK, RequestInv, Sound, ReplaceRolesCommit
<1>1. PICK u \in User, m \in Nat, kept \in {OthersRows(w)}, codes \in {req[w].codes} :
        u = req[w].user /\ m = grants + 1 /\ kept = OthersRows(w) /\ codes = req[w].codes
  BY <1>0
<1>2. /\ userRoles'[u] = kept \cup {[code |-> c, grant |-> m] : c \in codes}
      /\ \A v \in User \ {u} : userRoles'[v] = userRoles[v]
      /\ users' = users /\ grants' = m /\ grants < m
      /\ kept = userRoles[u] \ req[w].rows /\ u \in users
  BY <1>0, <1>1 DEF ReplaceRolesCommit, OthersRows
<1>3. req'[w].at = "reply"
  BY ReplyFollows
<1>4. PICK f : WrittenBy(u, f)
  BY DEF RoleInv
<1>5. ASSUME NEW row \in kept
      PROVE  /\ row \in userRoles[u] /\ row.grant # m /\ row.grant <= m
             /\ f[row.grant] \in Worker /\ f[row.grant] # w
  <2>1. row \in userRoles[u] /\ row \notin req[w].rows
    BY <1>2
  <2>2. row.grant \in Nat /\ row.grant <= grants
    BY <1>0, <2>1 DEF UserRole, RoleInv
  <2>3. f[row.grant] \in Worker
    BY <1>4, <2>1 DEF WrittenBy, GrantsOf
  <2>4. f[row.grant] # w
    BY <1>1, <1>4, <2>1 DEF WrittenBy, ReplaceRolesCommit
  <2> QED
    BY <1>0, <1>2, <2>1, <2>2, <2>3, <2>4
<1>6. GrantsOf(userRoles'[u]) \subseteq GrantsOf(kept) \cup {m}
  BY <1>2, NewRows
<1>7. PICK h : h = [g \in GrantsOf(userRoles'[u]) |-> IF g = m THEN w ELSE f[g]]
  OBVIOUS
<1>8. \A g \in GrantsOf(kept) :
        /\ g \in GrantsOf(userRoles'[u]) /\ g \in GrantsOf(userRoles[u])
        /\ h[g] = f[g] /\ h[g] # w /\ h[g] \in Worker
  <2>1. GrantsOf(kept) \subseteq GrantsOf(userRoles'[u])
    BY <1>2 DEF GrantsOf
  <2> QED
    BY <1>5, <1>7, <2>1 DEF GrantsOf
<1>9. \A g, i \in GrantsOf(userRoles'[u]) : h[g] = h[i] => g = i
  BY <1>4, <1>6, <1>7, <1>8 DEF WrittenBy
<1>10. h \in [GrantsOf(userRoles'[u]) -> Worker]
  BY <1>6, <1>7, <1>8
<1>11. ASSUME NEW row \in userRoles'[u], req'[h[row.grant]].at = "replace",
              req'[h[row.grant]].user = u
       PROVE  row \in req'[h[row.grant]].rows
  <2>1. row.grant # m
    BY <1>3, <1>7, <1>11 DEF GrantsOf
  <2>2. row \in kept
    BY <1>2, <1>11, <2>1, NewRows
  <2>3. h[row.grant] = f[row.grant] /\ f[row.grant] # w /\ f[row.grant] \in Worker
        /\ row \in userRoles[u]
    BY <1>5, <1>8, <2>2 DEF GrantsOf
  <2>4. req'[f[row.grant]] = req[f[row.grant]]
    BY <1>0, <2>3 DEF ReplaceRolesCommit
  <2> QED
    BY <1>4, <1>11, <2>3, <2>4 DEF WrittenBy
<1>12. WrittenBy(u, h)'
  BY <1>9, <1>10, <1>11 DEF WrittenBy, GrantsOf
<1>13. \A row \in userRoles'[u] : row.grant <= m
  BY <1>2, <1>5, NewRows
<1>14. grants <= grants'
  BY <1>0, <1>2
<1> QED
  BY <1>2, <1>12, <1>13, <1>14, RoleFrame

\* Every other step writes neither accounts nor roles.
LEMMA AccountsKept ==
  ASSUME [Next]_vars, ~\E w \in Worker : AccountStep(w)
  PROVE  UNCHANGED <<users, userRoles>> /\ (grants' = grants \/ grants' = grants + 1)
<1>1. ASSUME NEW w \in Worker, BeginStep(w) PROVE UNCHANGED <<users, userRoles, grants>>
  BY <1>1 DEF BeginStep, RegisterRead, Login, RefreshRead, LogoutRead, ReplaceRolesRead,
              CreateUserRead, AddTeamMemberRead, RemoveTeamMemberRead
<1>2. ASSUME NEW w \in Worker, RequestStep(w) \/ SessionStep(w)
      PROVE  UNCHANGED <<users, userRoles, grants>>
  BY <1>2 DEF RequestStep, RefreshRevoke, IssueTokens, Abort, FailOnEmail, FailOnRole,
              ReplaceRolesReply, SessionStep, CommitSession, Respond, LogoutCommit
<1>3. ASSUME NEW w \in Worker, TeamStep(w)
      PROVE  UNCHANGED <<users, userRoles>> /\ (grants' = grants \/ grants' = grants + 1)
  BY <1>3 DEF TeamStep, AddTeamMemberCommit, RemoveTeamMemberCommit
<1> QED
  BY <1>1, <1>2, <1>3, NextSteps DEF CreateTeam, Tick, vars

LEMMA RoleStep == TypeInv /\ RoleInv /\ [Next]_vars => RoleInv'
<1> SUFFICES ASSUME TypeInv, RoleInv, [Next]_vars PROVE RoleInv'
  OBVIOUS
<1>1. ASSUME NEW w \in Worker, AccountStep(w) PROVE RoleInv'
  <2>0. req \in [Worker -> Request] /\ req[w] \in Request
    BY DEF TypeInv, TypeOK
  <2>1. CASE RegisterCommit(w)
    <3>1. req[w].user \in User
      BY <2>1 DEF RegisterCommit, TypeInv, RequestInv, Sound
    <3>2. PICK codes \in SUBSET RoleCode : AddUser(req[w].user, codes, {})
      BY <2>1 DEF RegisterCommit, RoleCode
    <3>3. req'[w].at # "replace"
      BY <2>0, <2>1 DEF RegisterCommit, Goto, Request
    <3> QED
      BY <3>1, <3>2, <3>3, AddUserRoles
  <2>2. CASE CreateUserCommit(w)
    <3>1. req[w].user \in User /\ req[w].codes \in SUBSET RoleCode
      BY <2>0, <2>2 DEF CreateUserCommit, TypeInv, RequestInv, Sound, Request
    <3>2. req'[w].at # "replace"
      BY <2>0, <2>2, IdleType DEF CreateUserCommit, End
    <3> QED
      BY <2>2, <3>1, <3>2, AddUserRoles DEF CreateUserCommit
  <2>3. CASE ReplaceRolesCommit(w)
    BY <2>3, ReplaceRoles
  <2> QED
    BY <1>1, <2>1, <2>2, <2>3 DEF AccountStep
<1>2. CASE ~\E w \in Worker : AccountStep(w)
  <2>1. UNCHANGED <<users, userRoles>> /\ grants <= grants' /\ grants' \in Nat
    BY <1>2, AccountsKept DEF TypeInv, TypeOK
  <2>2. ASSUME NEW u \in User PROVE \E f : WrittenBy(u, f)'
    BY <2>1, RowsKept DEF RoleInv
  <2>3. ASSUME NEW u \in User, NEW row \in userRoles'[u] PROVE row.grant <= grants'
    <3>1. row.grant \in Nat /\ row.grant <= grants /\ grants \in Nat
      BY <2>1, <2>3 DEF RoleInv, TypeInv, TypeOK, UserRole
    <3> QED
      BY <2>1, <3>1
  <2>4. \A u \in User : userRoles'[u] # {} => u \in users'
    BY <2>1 DEF RoleInv
  <2> QED
    BY <2>2, <2>3, <2>4 DEF RoleInv
<1> QED
  BY <1>1, <1>2

\* However role replacements overlap, and also when one asks for no role at all,
\* the roles of an account are the work of no more requests than run at once: what
\* an older request granted does not come back.
THEOREM RolesFromLatestRequests == Spec => []RolesOfLatestRequests
<1>1. ASSUME RoleInv PROVE RolesOfLatestRequests
  <2> SUFFICES ASSUME NEW u \in User
               PROVE  Cardinality(GrantsOf(userRoles[u])) <= Cardinality(Worker)
    BY <1>1 DEF RolesOfLatestRequests, RoleInv, GrantsOf
  <2>1. PICK f : WrittenBy(u, f)
    BY <1>1 DEF RoleInv
  <2>2. f \in Injection(GrantsOf(userRoles[u]), Worker)
    BY <2>1 DEF WrittenBy, Injection, IsInjective
  <2> QED
    BY <2>2, AuthAssumption, FS_Injection
<1> QED
  BY <1>1, TypeInit, TypeStep, RoleInit, RoleStep, PTL DEF Spec

-----------------------------------------------------------------------------
(* Admins *)

\* What makes AdminsComeFromAdmins inductive: adminAt is a true record, no token
\* claims more than its user held when it was made, and who was let in as an admin
\* had held the role within AccessTtl of then.
AdminInv ==
  /\ \A u \in User : "admin" \in GetUserRoleCodes(u) => now \in adminAt[u]
  /\ \A s \in DOMAIN sessions :
       /\ sessions[s].iat <= now
       /\ "admin" \in sessions[s].roles => sessions[s].iat \in adminAt[sessions[s].user]
  /\ \A w \in Worker :
       /\ req[w].at = "commit" =>
            /\ req[w].time <= now
            /\ "admin" \in req[w].codes => req[w].time \in adminAt[req[w].user]
       /\ req[w].at \in {"create", "replace"} =>
            HeldAdmin(sessions[req[w].sid].user, req[w].time)

LEMMA AdminInit == Init => AdminInv
  BY IdleType DEF Init, AdminInv, GetUserRoleCodes

\* The record of who is an admin only grows, and keeps up with the roles.
LEMMA AdminsSeen ==
  ASSUME TypeInv, AdminInv, [Next]_vars
  PROVE  /\ now \in Nat /\ now' \in Nat /\ now <= now'
         /\ \A u \in User : adminAt[u] \subseteq adminAt'[u]
         /\ \A u \in User : "admin" \in GetUserRoleCodes(u)' => now' \in adminAt'[u]
<1>0. now \in Nat /\ adminAt \in [User -> SUBSET Nat]
  BY DEF TypeInv, TypeOK
<1>1. ASSUME SeeAdmins, now' = now \/ now' = now + 1
      PROVE  /\ now' \in Nat /\ now <= now'
             /\ \A u \in User : adminAt[u] \subseteq adminAt'[u]
             /\ \A u \in User : "admin" \in GetUserRoleCodes(u)' => now' \in adminAt'[u]
  BY <1>0, <1>1 DEF SeeAdmins, GetUserRoleCodes
<1>2. ASSUME UNCHANGED <<now, userRoles, adminAt>>
      PROVE  /\ now' \in Nat /\ now <= now'
             /\ \A u \in User : adminAt[u] \subseteq adminAt'[u]
             /\ \A u \in User : "admin" \in GetUserRoleCodes(u)' => now' \in adminAt'[u]
  BY <1>0, <1>2 DEF AdminInv, GetUserRoleCodes
<1>3. ASSUME NEW w \in Worker, BeginStep(w) PROVE UNCHANGED <<now, userRoles, adminAt>>
  BY <1>3 DEF BeginStep, RegisterRead, Login, RefreshRead, LogoutRead, ReplaceRolesRead,
              CreateUserRead, AddTeamMemberRead, RemoveTeamMemberRead
<1>4. ASSUME NEW w \in Worker, RequestStep(w) \/ SessionStep(w) \/ TeamStep(w)
      PROVE  UNCHANGED <<now, userRoles, adminAt>>
  BY <1>4 DEF RequestStep, RefreshRevoke, IssueTokens, Abort, FailOnEmail, FailOnRole,
              ReplaceRolesReply, SessionStep, CommitSession, Respond, LogoutCommit,
              TeamStep, AddTeamMemberCommit, RemoveTeamMemberCommit
<1>5. ASSUME NEW w \in Worker, AccountStep(w) PROVE SeeAdmins /\ now' = now
  BY <1>5 DEF AccountStep, RegisterCommit, CreateUserCommit, AddUser, ReplaceRolesCommit
<1>6. ASSUME Tick PROVE SeeAdmins /\ now' = now + 1
  BY <1>6 DEF Tick
<1> QED
  BY <1>0, <1>1, <1>2, <1>3, <1>4, <1>5, <1>6, NextSteps DEF CreateTeam, vars

\* Whoever is let in as an admin now holds the role, or held it when the token
\* was made, which has not expired.
LEMMA AdmittedAdmin ==
  ASSUME TypeInv, AdminInv, NEW s \in DOMAIN sessions, RequireAdmin(s)
  PROVE  HeldAdmin(sessions[s].user, now)
<1>1. /\ now \in Nat /\ AccessTtl \in Nat /\ sessions[s].iat \in Nat
      /\ sessions[s].user \in User /\ sessions[s].iat <= now /\ now < sessions[s].iat + AccessTtl
  BY SessionsType, AuthAssumption DEF TypeInv, TypeOK, Session, AdminInv, RequireAdmin, TokenValid
<1>2. CASE sessions[s].roles = {}
  <2>1. now \in adminAt[sessions[s].user]
    BY <1>1, <1>2 DEF RequireAdmin, PrincipalRoles, AdminInv
  <2>2. now <= now /\ now < now + AccessTtl
    BY <1>1
  <2> QED
    BY <2>1, <2>2 DEF HeldAdmin
<1>3. CASE sessions[s].roles # {}
  <2>1. sessions[s].iat \in adminAt[sessions[s].user]
    BY <1>3 DEF RequireAdmin, PrincipalRoles, AdminInv
  <2> QED
    BY <1>1, <2>1 DEF HeldAdmin
<1> QED
  BY <1>2, <1>3

LEMMA CommitFollowsIssue ==
  ASSUME TypeInv, [Next]_vars, NEW w \in Worker, req'[w].at = "commit", req'[w] # req[w]
  PROVE  IssueTokens(w)
<1>0. req \in [Worker -> Request] /\ req[w] \in Request
  BY DEF TypeInv, TypeOK
<1>1. ASSUME NEW r, Begin(w, r), r.at # "commit" PROVE FALSE
  BY <1>0, <1>1 DEF Begin
<1>2. ASSUME End(w) PROVE FALSE
  BY <1>0, <1>2, IdleType DEF End
<1>3. ASSUME Goto(w, "issue") PROVE FALSE
  BY <1>0, <1>3 DEF Goto, Request
<1>4. ASSUME BeginStep(w) PROVE FALSE
  <2>1. ASSUME NEW u \in User, RegisterRead(w, u) \/ Login(w, u) PROVE FALSE
    BY <1>1, <2>1 DEF RegisterRead, Login, Idle
  <2>2. ASSUME NEW i \in DOMAIN sessions, NEW u, NEW t,
               \/ LogoutRead(w, i) \/ RefreshRead(w, i)
               \/ AddTeamMemberRead(w, i, u, t) \/ RemoveTeamMemberRead(w, i, u, t)
        PROVE  FALSE
    BY <1>1, <2>2 DEF LogoutRead, RefreshRead, AddTeamMemberRead, RemoveTeamMemberRead, Idle
  <2>3. ASSUME NEW i \in DOMAIN sessions, NEW u, NEW codes, NEW ts,
               ReplaceRolesRead(w, i, u, codes) \/ CreateUserRead(w, i, u, codes, ts)
        PROVE  FALSE
    BY <1>1, <2>3 DEF ReplaceRolesRead, CreateUserRead, Idle
  <2> QED
    BY <1>4, <2>1, <2>2, <2>3 DEF BeginStep
<1>5. ASSUME CommitSession(w) PROVE FALSE
  BY <1>0, <1>5 DEF CommitSession, Request
<1>6. ASSUME RequestStep(w) \/ SessionStep(w) \/ AccountStep(w) \/ TeamStep(w), ~IssueTokens(w)
      PROVE  FALSE
  BY <1>2, <1>3, <1>5, <1>6, ReplyFollows
     DEF RequestStep, RefreshRevoke, Abort, FailOnEmail, FailOnRole, ReplaceRolesReply,
         SessionStep, Respond, LogoutCommit, AccountStep, RegisterCommit, CreateUserCommit,
         TeamStep, AddTeamMemberCommit, RemoveTeamMemberCommit
<1> QED
  BY <1>4, <1>6, NextSteps, OtherRequests DEF CreateTeam, Tick, vars

LEMMA AdminStep == TypeInv /\ AdminInv /\ [Next]_vars => AdminInv'
<1> SUFFICES ASSUME TypeInv, AdminInv, [Next]_vars PROVE AdminInv'
  OBVIOUS
<1>0. /\ now \in Nat /\ now' \in Nat /\ now <= now'
      /\ \A u \in User : adminAt[u] \subseteq adminAt'[u]
  BY AdminsSeen
<1>1. \A u \in User : "admin" \in GetUserRoleCodes(u)' => now' \in adminAt'[u]
  BY AdminsSeen
<1>2. ASSUME NEW s \in DOMAIN sessions'
      PROVE  /\ sessions'[s].iat <= now'
             /\ "admin" \in sessions'[s].roles => sessions'[s].iat \in adminAt'[sessions'[s].user]
  <2>1. CASE s \in DOMAIN sessions
    <3>1. /\ sessions'[s].user = sessions[s].user /\ sessions'[s].roles = sessions[s].roles
          /\ sessions'[s].iat = sessions[s].iat
      BY <2>1, SessionsKept
    <3>2. sessions[s].user \in User /\ sessions[s].iat \in Nat
      BY <2>1, SessionsType DEF Session
    <3>3. sessions[s].iat <= now'
      BY <1>0, <2>1, <3>2 DEF AdminInv
    <3> QED
      BY <1>0, <2>1, <3>1, <3>2, <3>3 DEF AdminInv
  <2>2. CASE s \notin DOMAIN sessions
    <3>1. PICK w \in Worker : CommitSession(w)
      BY <1>2, <2>2, SessionsKept
    <3>2. s = Len(sessions) + 1
      BY <1>2, <2>2, <3>1, CommitSessionEffect
    <3>3. sessions'[s] = NewSession(w)
      BY <3>1, <3>2, CommitSessionEffect
    <3>4. /\ sessions'[s].iat = req[w].time /\ sessions'[s].roles = req[w].codes
          /\ sessions'[s].user = req[w].user
      BY <3>3 DEF NewSession
    <3>5. /\ req[w].at = "commit" /\ UNCHANGED <<now, adminAt>>
      BY <3>1 DEF CommitSession
    <3> QED
      BY <3>4, <3>5 DEF AdminInv
  <2> QED
    BY <2>1, <2>2
<1>3. ASSUME NEW w \in Worker, req'[w].at = "commit"
      PROVE  /\ req'[w].time <= now'
             /\ "admin" \in req'[w].codes => req'[w].time \in adminAt'[req'[w].user]
  <2>0. req \in [Worker -> Request] /\ req[w] \in Request
    BY DEF TypeInv, TypeOK
  <2>1. CASE req'[w] = req[w]
    <3>1. req[w].time \in Nat /\ req[w].time <= now /\ req[w].user \in User
      BY <1>3, <2>0, <2>1 DEF Request, AdminInv, TypeInv, RequestInv, Sound
    <3> QED
      BY <1>0, <1>3, <2>1, <3>1 DEF AdminInv
  <2>2. CASE req'[w] # req[w]
    <3>1. IssueTokens(w)
      BY <1>3, <2>2, CommitFollowsIssue
    <3>2. /\ req'[w].time = now /\ req'[w].codes = GetUserRoleCodes(req[w].user)
          /\ req'[w].user = req[w].user /\ UNCHANGED <<now, adminAt>>
      BY <2>0, <3>1 DEF IssueTokens, ClaimedRoles, Request
    <3>3. req[w].user \in User
      BY <3>1 DEF IssueTokens, TypeInv, RequestInv, Sound
    <3> QED
      BY <1>0, <3>2, <3>3 DEF AdminInv
  <2> QED
    BY <2>1, <2>2
<1>4. ASSUME NEW w \in Worker, req'[w].at \in {"create", "replace"}
      PROVE  HeldAdmin(sessions[req'[w].sid].user, req'[w].time) /\ req'[w].sid \in DOMAIN sessions
  <2>1. CASE req'[w] = req[w]
    BY <1>4, <2>1 DEF AdminInv, TypeInv, RequestInv, Sound
  <2>2. CASE req'[w] # req[w]
    BY <1>4, <2>2, AdminRequestIsNew, AdmittedAdmin
  <2> QED
    BY <2>1, <2>2
<1>5. ASSUME NEW w \in Worker, req'[w].at \in {"create", "replace"}
      PROVE  HeldAdmin(sessions[req[w].sid].user, req[w].time)'
  <2>1. PICK s \in DOMAIN sessions : s = req'[w].sid
    BY <1>4, <1>5
  <2>2. sessions'[s].user = sessions[s].user /\ sessions[s].user \in User
    BY SessionsKept, SessionsType
  <2>3. PICK t \in adminAt[sessions[s].user] : t <= req'[w].time /\ req'[w].time < t + AccessTtl
    BY <1>4, <1>5, <2>1 DEF HeldAdmin
  <2>4. t \in adminAt'[sessions'[s].user]
    BY <1>0, <2>2, <2>3
  <2> QED
    BY <2>1, <2>3, <2>4 DEF HeldAdmin
<1> QED
  BY <1>1, <1>2, <1>3, <1>5 DEF AdminInv

\* A user becomes admin by a registration that found no account, or at the request
\* of someone who held the role within AccessTtl before it was let in: tokens
\* outlive a demotion by that much, and no chain of refreshes prolongs it.
THEOREM AdminsMadeByAdmins == Spec => AdminsComeFromAdmins
<1>1. ASSUME TypeInv, AdminInv, [Next]_vars, NEW u \in User,
             "admin" \in GetUserRoleCodes(u)' \ GetUserRoleCodes(u)
      PROVE  \E w \in Worker :
               /\ req[w].user = u
               /\ \/ req[w].at = "register" /\ req[w].seen = {}
                  \/ /\ req[w].at \in {"create", "replace"}
                     /\ HeldAdmin(sessions[req[w].sid].user, req[w].time)
  <2>0. userRoles \in [User -> SUBSET UserRole]
    BY <1>1 DEF TypeInv, TypeOK
  <2>1. userRoles'[u] # userRoles[u]
    BY <1>1 DEF GetUserRoleCodes
  <2>2. PICK w \in Worker : AccountStep(w)
    BY <1>1, <2>1, AccountsKept
  <2>3. req[w].user = u
    BY <2>0, <2>1, <2>2
       DEF AccountStep, RegisterCommit, CreateUserCommit, ReplaceRolesCommit, AddUser
  <2>4. CASE req[w].at \in {"create", "replace"}
    BY <1>1, <2>3, <2>4 DEF AdminInv
  <2>5. CASE RegisterCommit(w)
    <3>1. ASSUME ~IsFirstUser(w) PROVE FALSE
      <4>1. AddUser(u, {"user"}, {})
        BY <2>3, <2>5, <3>1 DEF RegisterCommit
      <4>2. userRoles'[u] = {[code |-> c, grant |-> grants + 1] : c \in {"user"}}
        BY <2>0, <4>1 DEF AddUser
      <4> QED
        BY <1>1, <4>2 DEF GetUserRoleCodes
    <3> QED
      BY <2>3, <2>5, <3>1 DEF RegisterCommit, IsFirstUser
  <2> QED
    BY <2>2, <2>4, <2>5 DEF AccountStep, CreateUserCommit, ReplaceRolesCommit
<1>2. TypeInv /\ AdminInv /\ [Next]_vars =>
        [\A u \in User :
           "admin" \in GetUserRoleCodes(u)' \ GetUserRoleCodes(u) =>
             \E w \in Worker :
               /\ req[w].user = u
               /\ \/ req[w].at = "register" /\ req[w].seen = {}
                  \/ /\ req[w].at \in {"create", "replace"}
                     /\ HeldAdmin(sessions[req[w].sid].user, req[w].time)]_vars
  BY <1>1
<1> QED
  BY <1>2, TypeInit, TypeStep, AdminInit, AdminStep, PTL DEF Spec, AdminsComeFromAdmins
=============================================================================
