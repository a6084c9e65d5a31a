----------------------------- MODULE TaskCache ------------------------------
(***************************************************************************)
(* The Redis cache of GET /tasks/{task_id} against the writes of the task  *)
(* service, each of which passes the rate limit, commits, refreshes its    *)
(* row and removes every key of the cache.  One task is watched.  A        *)
(* transaction is its commit: TaskApi has its steps.                       *)
(*                                                                         *)
(* Redis may fail at any call, any number of times; PostgreSQL stays the   *)
(* source of truth.                                                        *)
(***************************************************************************)
EXTENDS RateLimit

CONSTANTS
  Context,   \* user, roles and teams of those who read the task
  Assignee,  \* values of the column that rbac looks at and updates change
  First,     \* the assignee at the start
  Sees,      \* per context, the values with which rbac shows it the task
  CacheTtl,  \* task_cache_ttl_seconds, in steps of the clock
  None       \* no row, no entry

ASSUME TaskCacheAssumption ==
  /\ First \in Assignee
  /\ Sees \in [Context -> SUBSET Assignee]
  /\ CacheTtl \in Nat \ {0}

VARIABLES
  version, \* number of commits that have changed the task
  row,     \* the task's row in PostgreSQL
  write,   \* per write request: where it is after the rate limit
  get,     \* per context: the row a GET in progress has read
  entry,   \* the keys tasks:item:* of the task, by their context
  missed   \* history: versions whose writer ended without removing the keys

vars == <<limitVars, version, row, write, get, entry, missed>>

TaskRow == [version : Nat, assignee : Assignee]

\* "at" is history: the version that was current when the entry was stored.
Entry == [row : TaskRow, ttl : 0..CacheTtl, at : Nat]

Write ==
  [at : {"commit", "refresh", "scan", "delete", "done"}, version : Nat, keys : SUBSET Context]

\* The types of all variables, those of the rate limit included.
TypeOK ==
  /\ LimitTypeOK
  /\ version \in Nat
  /\ row \in TaskRow \cup {None}
  /\ write \in [Request -> Write]
  /\ get \in [Context -> TaskRow \cup {None}]
  /\ entry \in [Context -> Entry \cup {None}]
  /\ missed \in SUBSET Nat

Init ==
  /\ LimitInit
  /\ version = 0
  /\ row = [version |-> 0, assignee |-> First]
  /\ write = [r \in Request |-> [at |-> "commit", version |-> 0, keys |-> {}]]
  /\ get = [c \in Context |-> None]
  /\ entry = [c \in Context |-> None]
  /\ missed = {}

-----------------------------------------------------------------------------
(* GET /tasks/{task_id}                                                    *)

\* Wrong variant: the key is made from the id of the task alone.
CacheKey_TaskOnly(c) == CHOOSE d \in Context : TRUE

CacheKey(c) == c

Cached(c) == entry[CacheKey(c)]

\* A hit is answered at once and changes nothing.  After a miss or an error the
\* row is read; 404 when there is none, or none for this user, caches nothing.
GetTaskIfVisible(c) ==
  /\ get[c] = None
  /\ row # None
  /\ row.assignee \in Sees[c]
  /\ get' = [get EXCEPT ![c] = row]
  /\ UNCHANGED <<limitVars, version, row, write, entry, missed>>

\* Wrong variant: SET without a TTL.
NewEntry_NoTtl(c) == [row |-> get[c], ttl |-> 0, at |-> version]

NewEntry(c) == [row |-> get[c], ttl |-> CacheTtl, at |-> version]

\* SETEX of the row that was read, or an error; the client is answered either way.
SetCachedJson(c) ==
  /\ get[c] # None
  /\ \/ entry' = [entry EXCEPT ![CacheKey(c)] = NewEntry(c)]
     \/ UNCHANGED entry
  /\ get' = [get EXCEPT ![c] = None]
  /\ UNCHANGED <<limitVars, version, row, write, missed>>

-----------------------------------------------------------------------------
(* The writes                                                              *)

Limited(r) ==
  /\ CheckStep(r)
  /\ UNCHANGED <<version, row, write, get, entry, missed>>

\* The request enters its transaction.
MayCommit(r) == LetThrough(r) /\ write[r].at = "commit"

Goto(r, step) == write' = [write EXCEPT ![r].at = step]

Commit(r, new) ==
  /\ version' = version + 1
  /\ row' = new

\* update_task and change_task_status; the row is there, or the request fails.
CommitUpdate(r) ==
  /\ MayCommit(r)
  /\ row # None
  /\ \E a \in Assignee : Commit(r, [version |-> version + 1, assignee |-> a])
  /\ write' = [write EXCEPT ![r].at = "refresh", ![r].version = version + 1]
  /\ UNCHANGED <<limitVars, get, entry, missed>>

\* delete_task has nothing to refresh.
CommitDelete(r) ==
  /\ MayCommit(r)
  /\ row # None
  /\ Commit(r, None)
  /\ write' = [write EXCEPT ![r].at = "scan", ![r].version = version + 1]
  /\ UNCHANGED <<limitVars, get, entry, missed>>

\* create_task of another task, and an update or a deletion that changes nothing.
CommitOther(r) ==
  /\ MayCommit(r)
  /\ Goto(r, "scan")
  /\ UNCHANGED <<limitVars, version, row, get, entry, missed>>

Done(r) == write' = [write EXCEPT ![r] = [at |-> "done", version |-> 0, keys |-> {}]]

\* 404, 403, 409, a replay of an earlier response, or an error before the commit.
EndWithoutCommit(r) ==
  /\ MayCommit(r)
  /\ Done(r)
  /\ UNCHANGED <<limitVars, version, row, get, entry, missed>>

\* The request ends without its keys being removed.
EndWithoutInvalidation(r) ==
  /\ Done(r)
  /\ missed' = IF write[r].version > 0 THEN missed \cup {write[r].version} ELSE missed

\* db.refresh raises when the row has been deleted since the commit.
Refresh(r) ==
  /\ write[r].at = "refresh"
  /\ IF row = None THEN EndWithoutInvalidation(r) ELSE Goto(r, "scan") /\ UNCHANGED missed
  /\ UNCHANGED <<limitVars, version, row, get, entry>>

\* Wrong variant: the keys of one user are removed, not all of the task's.
Listed_OneUser == LET c == CHOOSE d \in Context : TRUE IN
                  IF entry[c] # None THEN {c} ELSE {}

\* What scan_iter("tasks:*") returns.
Listed == {c \in Context : entry[c] # None}

Scan(r) ==
  /\ write[r].at = "scan"
  /\ IF Listed = {}
       THEN Done(r)
       ELSE write' = [write EXCEPT ![r].at = "delete", ![r].keys = Listed]
  /\ UNCHANGED <<limitVars, version, row, get, entry, missed>>

DeleteKeys(r) ==
  /\ write[r].at = "delete"
  /\ entry' = [c \in Context |-> IF c \in write[r].keys THEN None ELSE entry[c]]
  /\ Done(r)
  /\ UNCHANGED <<limitVars, version, row, get, missed>>

\* Redis fails, or the process dies between the commit and the end of the request.
InvalidationFails(r) ==
  /\ write[r].at \in {"refresh", "scan", "delete"}
  /\ EndWithoutInvalidation(r)
  /\ UNCHANGED <<limitVars, version, row, get, entry>>

-----------------------------------------------------------------------------
\* Time passes for all keys.
Tick ==
  /\ TickCounters
  /\ entry' = [c \in Context |->
       IF entry[c] = None \/ entry[c].ttl = 1 THEN None
       ELSE [entry[c] EXCEPT !.ttl = CountDown(@)]]
  /\ UNCHANGED <<version, row, write, get, missed>>

WriteStep(r) ==
  \/ Limited(r)
  \/ CommitUpdate(r) \/ CommitDelete(r) \/ CommitOther(r) \/ EndWithoutCommit(r)
  \/ Refresh(r) \/ Scan(r) \/ DeleteKeys(r) \/ InvalidationFails(r)

Next ==
  \/ \E c \in Context : GetTaskIfVisible(c) \/ SetCachedJson(c)
  \/ \E r \in Request : WriteStep(r)
  \/ Tick

Spec == Init /\ [][Next]_vars

\* Time passes, and a thread that handles a write keeps running until the write
\* ends, well or not.  Nothing is assumed of the readers.
FairSpec == Spec /\ WF_vars(Tick) /\ \A r \in Request : WF_vars(WriteStep(r))
-----------------------------------------------------------------------------
\* The writer of version v has yet to remove the keys, or never will.
NotInvalidated(v) ==
  \/ v \in missed
  \/ \E r \in Request : write[r].version = v /\ write[r].at \in {"refresh", "scan", "delete"}

\* One completed invalidation is enough: of all the versions committed since an
\* entry was stored, none has been invalidated yet.  Whatever the races of fills
\* and writes, an entry that was current when stored is gone once a later write
\* has succeeded; only a fill that overlaps a commit can store an old row.
StaleEntriesExplained ==
  \A c \in Context : entry[c] # None =>
    /\ \A v \in 1..version : v > entry[c].at => NotInvalidated(v)
    /\ entry[c].row.version <= entry[c].at

\* What a GET answers, from the cache or from the row it has read, is a version
\* of the task that rbac showed to this very user, with these roles and teams:
\* a hit skips the check, and the key stands in for it.
AnswersVisible ==
  \A c \in Context :
    /\ Cached(c) # None => Cached(c).row.assignee \in Sees[c]
    /\ get[c] # None => get[c].assignee \in Sees[c]

Stale(c) == entry[c] # None /\ (row = None \/ entry[c].row # row)

\* A stale entry is served for a while, never for good, whichever invalidation
\* has failed or fill has come late, and although readers keep asking.
EventuallyCurrent == \A c \in Context : Stale(c) ~> ~Stale(c)
=============================================================================
