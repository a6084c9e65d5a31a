---------------------------- MODULE AuditReport -----------------------------
(***************************************************************************)
(* The CSV report of the audit service.  The audit worker writes it for    *)
(* every event it handles, the cron on an interval, an admin by request:   *)
(* several processes, one file and no lock.  A run reads counts from the   *)
(* databases of the task service and the auth service, opens the file,     *)
(* which empties it, and writes the report buffer by buffer, each at its   *)
(* own position in the file.                                               *)
(*                                                                         *)
(* A report is known by the counts it was made from, and grows with them.  *)
(* The delivery of events to the worker is the matter of EventPipeline.    *)
(***************************************************************************)
EXTENDS Naturals, Sequences

CONSTANTS
  ByRequest,   \* runs for POST /audit/report, or by hand, that may be in progress at once
  Hole,        \* a place in the file that a run has jumped over
  MaxEvents,   \* bound: rows of outbox_events
  MaxLogins,   \* bound: rows auth.login of the auth service's audit_log
  MaxRequests, \* bound: runs by request
  MaxFaults    \* bound: runs that fail or die

Worker == "audit-worker"
Cron == "audit-report-cron"
Writer == {Worker, Cron} \cup ByRequest

\* Numbers of events and logins.
Counts == [events : Nat, logins : Nat]

ASSUME AuditReportAssumption ==
  /\ {Worker, Cron} \cap ByRequest = {}
  /\ Hole \notin Counts
  /\ {MaxEvents, MaxLogins, MaxRequests, MaxFaults} \subseteq Nat

VARIABLES
  source,   \* the rows committed in the two databases
  handled,  \* events the audit worker has committed to processed_events
  run,      \* per writer: the run in progress
  file,     \* the file, a sequence of buffers
  requests, \* runs by request so far
  faults,   \* faults so far
  spoilt    \* history: the last run to open the file was not alone, or has not ended

vars == <<source, handled, run, file, requests, faults, spoilt>>

\* "alone" is history: no other run has been in progress since this one began.
Run ==
  [at : {"idle", "open", "write", "commit"},
   counts : Counts, written : Nat, event : Nat, alone : BOOLEAN]

\* The types of all variables; a file is made of buffers of reports and of holes.
TypeOK ==
  /\ source \in Counts
  /\ handled \in SUBSET (1..source.events)
  /\ run \in [Writer -> Run]
  /\ file \in Seq(Counts \cup {Hole})
  /\ requests \in Nat
  /\ faults \in Nat
  /\ spoilt \in BOOLEAN

Nothing == [events |-> 0, logins |-> 0]

NoRun == [at |-> "idle", counts |-> Nothing, written |-> 0, event |-> 0, alone |-> FALSE]

Init ==
  /\ source = Nothing
  /\ handled = {}
  /\ run = [w \in Writer |-> NoRun]
  /\ file = <<>>
  /\ requests = 0
  /\ faults = 0
  /\ spoilt = TRUE

-----------------------------------------------------------------------------
(* generate_audit_report                                                   *)

\* The header, and the lines of one date for each event: the longest report these
\* counts can make.
Report(c) == [i \in 1..c.events + 1 |-> c]

\* A run that has closed the file is no longer in the way of others.
InProgress(w) == run[w].at \in {"open", "write"}

\* The queries read what is committed, in both databases.  They are one step: no
\* property relates the counts of one query to those of another.
Load(w, event) ==
  /\ run[w].at = "idle"
  /\ run' = [v \in Writer |->
       IF v = w
       THEN [at |-> "open", counts |-> source, written |-> 0, event |-> event,
             alone |-> \A u \in Writer : ~InProgress(u)]
       ELSE [run[v] EXCEPT !.alone = FALSE]]
  /\ UNCHANGED <<source, handled, file, faults, spoilt>>

\* open("w") empties the file, whoever else has it open.
OpenFile(w) ==
  /\ run[w].at = "open"
  /\ file' = <<>>
  /\ spoilt' = TRUE
  /\ run' = [run EXCEPT ![w].at = "write"]
  /\ UNCHANGED <<source, handled, requests, faults>>

Larger(m, n) == IF m > n THEN m ELSE n

\* The file with a buffer written at place i.
Overwrite(i, buffer) ==
  [j \in 1..Larger(i, Len(file)) |->
     IF j = i THEN buffer ELSE IF j <= Len(file) THEN file[j] ELSE Hole]

WriteBuffer(w) ==
  LET i == run[w].written + 1 IN
  /\ run[w].at = "write"
  /\ i <= Len(Report(run[w].counts))
  /\ file' = Overwrite(i, Report(run[w].counts)[i])
  /\ run' = [run EXCEPT ![w].written = i]
  /\ UNCHANGED <<source, handled, requests, faults, spoilt>>

\* Wrong variant: the file is not closed, and its last buffer never flushed.
Complete_NoFlush(w) == run[w].written >= Len(Report(run[w].counts)) - 1

Complete(w) == run[w].written = Len(Report(run[w].counts))

\* Wrong variant: the event is forgotten with the run.
AfterClose_NoEvent(w) == IF w = Worker THEN [NoRun EXCEPT !.at = "commit"] ELSE NoRun

\* Only the worker has something to do afterwards: it commits its event.
AfterClose(w) ==
  IF w = Worker THEN [NoRun EXCEPT !.at = "commit", !.event = run[w].event] ELSE NoRun

CloseFile(w) ==
  /\ run[w].at = "write"
  /\ Complete(w)
  /\ spoilt' = ~run[w].alone
  /\ run' = [run EXCEPT ![w] = AfterClose(w)]
  /\ UNCHANGED <<source, handled, file, requests, faults>>

-----------------------------------------------------------------------------
(* Who runs it                                                             *)

\* handle_audit_event, for an event the worker has received and claimed.
HandleAuditEvent(e) ==
  /\ e \in 1..source.events \ handled
  /\ Load(Worker, e)
  /\ UNCHANGED requests

\* The worker's transaction: the event is processed.
CommitEvent ==
  /\ run[Worker].at = "commit"
  /\ handled' = handled \cup {run[Worker].event}
  /\ run' = [run EXCEPT ![Worker] = NoRun]
  /\ UNCHANGED <<source, file, requests, faults, spoilt>>

\* Wrong variant: a report that exists is not made again.
Due_NoFile == file = <<>>

\* The interval trigger has no condition.
Due == TRUE

\* The scheduler starts no second run while one is in progress.
GenerateOnce ==
  /\ Due
  /\ Load(Cron, 0)
  /\ UNCHANGED requests

GenerateAuditReport(w) ==
  /\ requests < MaxRequests
  /\ requests' = requests + 1
  /\ Load(w, 0)

\* An exception or the death of the process: the worker's transaction is rolled
\* back, what a run has written stays in the file.
Fail(w) ==
  /\ faults < MaxFaults
  /\ faults' = faults + 1
  /\ run[w].at # "idle"
  /\ run' = [run EXCEPT ![w] = NoRun]
  /\ UNCHANGED <<source, handled, file, requests, spoilt>>

-----------------------------------------------------------------------------
CommitSource ==
  /\ \/ source.events < MaxEvents /\ source' = [source EXCEPT !.events = @ + 1]
     \/ source.logins < MaxLogins /\ source' = [source EXCEPT !.logins = @ + 1]
  /\ UNCHANGED <<handled, run, file, requests, faults, spoilt>>

\* What a run in progress does next.
Continue(w) == OpenFile(w) \/ WriteBuffer(w) \/ CloseFile(w)

Next ==
  \/ CommitSource
  \/ \E e \in 1..source.events : HandleAuditEvent(e)
  \/ CommitEvent
  \/ GenerateOnce
  \/ \E w \in ByRequest : GenerateAuditReport(w)
  \/ \E w \in Writer : Continue(w) \/ Fail(w)

Spec == Init /\ [][Next]_vars

\* The cron's scheduler starts a run after every interval, and what has begun
\* goes on.  Nothing is assumed of the worker's queue or of admins.
FairSpec ==
  /\ Spec
  /\ WF_vars(GenerateOnce)
  /\ WF_vars(CommitEvent)
  /\ \A w \in Writer : WF_vars(Continue(w))
-----------------------------------------------------------------------------
\* The file is the whole report of some counts, which include these.
Shows(c) ==
  /\ file # <<>>
  /\ file[1] \in Counts
  /\ file = Report(file[1])
  /\ c.events <= file[1].events
  /\ c.logins <= file[1].logins

LastHandled == CHOOSE n \in handled \cup {0} : \A e \in handled : e <= n

\* Runs that overlap may leave a mixture, a report with holes or an older one.
\* But as soon as one run has had the file to itself, the file is a whole report
\* again, and shows every event the worker has handled (README: the worker brings
\* the report up to date after each event).
SoloReportCurrent == spoilt \/ Shows([events |-> LastHandled, logins |-> 0])

\* Whatever the worker, the cron and admins do to the file, again and again it is a
\* whole report that shows everything committed by then.
AgainAndAgainCurrent == []<>Shows(source)
=============================================================================
