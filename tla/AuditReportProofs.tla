------------------------- MODULE AuditReportProofs --------------------------
(***************************************************************************)
(* Theorems about AuditReport, for every number of runs, events, logins    *)
(* and faults.                                                             *)
(***************************************************************************)
EXTENDS AuditReport, FiniteNaturals, TLAPS

-----------------------------------------------------------------------------
(* Type correctness *)

\* The event the worker is at exists, and the report it makes for it shows it.
EventInv ==
  /\ run[Worker].at # "idle" => run[Worker].event \in 1..source.events
  /\ InProgress(Worker) => run[Worker].event <= run[Worker].counts.events

TypeInv == TypeOK /\ EventInv

LEMMA WorkerWrites == Worker \in Writer /\ Cron \in Writer /\ Worker # Cron
  BY DEF Writer, Worker, Cron

LEMMA NoRunType == NoRun \in Run /\ NoRun.at = "idle" /\ Nothing \in Counts
  BY DEF NoRun, Run, Nothing, Counts

LEMMA TypeInit == Init => TypeInv
  BY NoRunType, WorkerWrites DEF Init, TypeInv, TypeOK, EventInv, InProgress

\* What a run is while it is in progress, as the variables are.
LEMMA RunType ==
  ASSUME TypeOK, NEW w \in Writer
  PROVE  /\ run[w] \in Run /\ run[w].counts \in Counts /\ run[w].counts.events \in Nat
         /\ run[w].written \in Nat /\ run[w].event \in Nat /\ run[w].alone \in BOOLEAN
         /\ source.events \in Nat /\ source.logins \in Nat
  BY DEF TypeOK, Run, Counts

\* The run of one writer is replaced; only that of the worker has an event.
LEMMA RunMoves ==
  ASSUME TypeInv, NEW w \in Writer, NEW r \in Run, run' = [run EXCEPT ![w] = r],
         UNCHANGED source,
         w = Worker /\ r.at # "idle" => r.event \in 1..source.events,
         w = Worker /\ r.at \in {"open", "write"} => r.event <= r.counts.events
  PROVE  run' \in [Writer -> Run] /\ EventInv'
<1>1. run \in [Writer -> Run]
  BY DEF TypeInv, TypeOK
<1>2. EventInv'
  BY <1>1, WorkerWrites DEF TypeInv, EventInv, InProgress
<1> QED
  BY <1>1, <1>2

\* A run of which only the step, the number of buffers or its history is replaced.
LEMMA StepType ==
  ASSUME NEW r \in Run, NEW at \in {"idle", "open", "write", "commit"}
  PROVE  /\ [r EXCEPT !.at = at] \in Run /\ [r EXCEPT !.at = at].at = at
         /\ [r EXCEPT !.at = at].event = r.event /\ [r EXCEPT !.at = at].counts = r.counts
         /\ [r EXCEPT !.at = at].alone = r.alone /\ [r EXCEPT !.at = at].written = r.written
  BY DEF Run

LEMMA WrittenType ==
  ASSUME NEW r \in Run, NEW n \in Nat
  PROVE  /\ [r EXCEPT !.written = n] \in Run /\ [r EXCEPT !.written = n].at = r.at
         /\ [r EXCEPT !.written = n].event = r.event /\ [r EXCEPT !.written = n].counts = r.counts
         /\ [r EXCEPT !.written = n].alone = r.alone /\ [r EXCEPT !.written = n].written = n
  BY DEF Run

LEMMA AccompaniedType ==
  ASSUME NEW r \in Run
  PROVE  /\ [r EXCEPT !.alone = FALSE] \in Run /\ [r EXCEPT !.alone = FALSE].at = r.at
         /\ [r EXCEPT !.alone = FALSE].event = r.event /\ [r EXCEPT !.alone = FALSE].counts = r.counts
         /\ [r EXCEPT !.alone = FALSE].alone = FALSE
  BY DEF Run

\* A run that has begun is alone if no other is in progress; the others are not
\* alone any more.
LEMMA LoadEffect ==
  ASSUME TypeOK, NEW w \in Writer, NEW e \in Nat, Load(w, e)
  PROVE  /\ run' \in [Writer -> Run]
         /\ run'[w].at = "open" /\ run'[w].counts = source /\ run'[w].event = e
         /\ run'[w].alone <=> \A u \in Writer : ~InProgress(u)
         /\ \A v \in Writer : v # w =>
              /\ run'[v].at = run[v].at /\ run'[v].event = run[v].event
              /\ run'[v].counts = run[v].counts /\ ~run'[v].alone
<1>1. PICK b \in BOOLEAN : b <=> \A u \in Writer : ~InProgress(u)
  OBVIOUS
<1>2. PICK new : new = [at |-> "open", counts |-> source, written |-> 0, event |-> e, alone |-> b]
  OBVIOUS
<1>3. new \in Run /\ new.at = "open" /\ new.counts = source /\ new.event = e /\ new.alone = b
  BY <1>2 DEF Run, TypeOK
<1>4. run'[w] = new /\ \A v \in Writer : v # w => run'[v] = [run[v] EXCEPT !.alone = FALSE]
  BY <1>1, <1>2 DEF Load
<1>5. DOMAIN run' = Writer /\ run' = [v \in Writer |-> run'[v]]
  BY DEF Load
<1>6. \A v \in Writer : v # w =>
        /\ run'[v] \in Run /\ run'[v].at = run[v].at /\ run'[v].event = run[v].event
        /\ run'[v].counts = run[v].counts /\ run'[v].alone = FALSE
  <2> TAKE v \in Writer
  <2>1. run[v] \in Run
    BY RunType
  <2> QED
    BY <1>4, <2>1, AccompaniedType
<1>7. run' \in [Writer -> Run]
  BY <1>3, <1>4, <1>5, <1>6
<1> QED
  BY <1>1, <1>3, <1>4, <1>6, <1>7

LEMMA OverwriteType ==
  ASSUME TypeOK, NEW i \in Nat \ {0}, NEW c \in Counts
  PROVE  Overwrite(i, c) \in Seq(Counts \cup {Hole})
<1>1. file \in Seq(Counts \cup {Hole}) /\ Len(file) \in Nat
  BY DEF TypeOK
<1>2. Larger(i, Len(file)) \in Nat
  BY <1>1 DEF Larger
<1>3. \A j \in 1..Larger(i, Len(file)) :
        (IF j = i THEN c ELSE IF j <= Len(file) THEN file[j] ELSE Hole) \in Counts \cup {Hole}
  BY <1>1
<1> QED
  BY <1>2, <1>3 DEF Overwrite

LEMMA ReportType ==
  ASSUME NEW c \in Counts
  PROVE  /\ c.events \in Nat
         /\ Report(c) \in Seq(Counts) /\ Len(Report(c)) = c.events + 1
         /\ \A i \in 1..c.events + 1 : Report(c)[i] = c
<1>1. c.events \in Nat
  BY DEF Counts
<1>2. PICK n \in Nat : n = c.events + 1
  BY <1>1
<1>3. [i \in 1..n |-> c] \in Seq(Counts) /\ Len([i \in 1..n |-> c]) = n
  OBVIOUS
<1> QED
  BY <1>1, <1>2, <1>3 DEF Report

\* A run begins: for the worker's event, or for none.
LEMMA LoadType ==
  ASSUME TypeInv, NEW w \in Writer, NEW e \in Nat, Load(w, e), requests' \in Nat,
         w = Worker => e \in 1..source.events
  PROVE  TypeInv'
<1>0. TypeOK /\ EventInv
  BY DEF TypeInv
<1>1. UNCHANGED <<source, handled, file, faults, spoilt>>
  BY DEF Load
<1>2. /\ run' \in [Writer -> Run]
      /\ run'[w].at = "open" /\ run'[w].counts = source /\ run'[w].event = e
      /\ \A v \in Writer : v # w =>
           /\ run'[v].at = run[v].at /\ run'[v].event = run[v].event
           /\ run'[v].counts = run[v].counts
  BY <1>0, LoadEffect
<1>3. TypeOK'
  BY <1>0, <1>1, <1>2 DEF TypeOK
<1>4. EventInv'
  <2>1. CASE w = Worker
    BY <1>1, <1>2, <2>1 DEF EventInv
  <2>2. CASE w # Worker
    BY <1>0, <1>1, <1>2, <2>2, WorkerWrites DEF EventInv, InProgress
  <2> QED
    BY <2>1, <2>2
<1> QED
  BY <1>3, <1>4 DEF TypeInv

\* The run is over and leaves nothing, but that the worker has an event to commit.
LEMMA AfterCloseType ==
  ASSUME TypeInv, NEW w \in Writer
  PROVE  /\ AfterClose(w) \in Run
         /\ AfterClose(w).at = IF w = Worker THEN "commit" ELSE "idle"
         /\ w = Worker => AfterClose(w).event = run[w].event
<1>1. NoRun \in Run /\ NoRun.at = "idle"
  BY NoRunType
<1>2. run[w].event \in Nat
  BY RunType DEF TypeInv
<1>3. PICK n \in Nat : n = run[w].event
  BY <1>2
<1>4. /\ [NoRun EXCEPT !.at = "commit", !.event = n] \in Run
      /\ [NoRun EXCEPT !.at = "commit", !.event = n].at = "commit"
      /\ [NoRun EXCEPT !.at = "commit", !.event = n].event = n
  BY <1>1 DEF Run
<1> QED
  BY <1>1, <1>3, <1>4 DEF AfterClose

LEMMA TypeStep == TypeInv /\ [Next]_vars => TypeInv'
<1> SUFFICES ASSUME TypeInv, [Next]_vars PROVE TypeInv'
  OBVIOUS
<1>0. TypeOK /\ EventInv
  BY DEF TypeInv
<1>n. NoRun \in Run /\ NoRun.at = "idle"
  BY NoRunType
<1>1. CASE CommitSource
  <2>1. UNCHANGED <<handled, run, file, requests, faults, spoilt>>
    BY <1>1 DEF CommitSource
  <2>2. source' \in Counts /\ source.events <= source'.events
        /\ source.events \in Nat /\ source'.events \in Nat
    <3>1. source \in Counts /\ source.events \in Nat /\ source.logins \in Nat
      BY <1>0 DEF TypeOK, Counts
    <3>2. CASE source' = [source EXCEPT !.events = @ + 1]
      BY <3>1, <3>2 DEF Counts
    <3>3. CASE source' = [source EXCEPT !.logins = @ + 1]
      BY <3>1, <3>3 DEF Counts
    <3> QED
      BY <1>1, <3>2, <3>3 DEF CommitSource
  <2>3. 1..source.events \subseteq 1..source'.events
    BY <2>2
  <2>4. TypeOK'
    BY <1>0, <2>1, <2>2, <2>3 DEF TypeOK
  <2>5. EventInv'
    BY <1>0, <2>1, <2>3 DEF EventInv, InProgress
  <2> QED
    BY <2>4, <2>5 DEF TypeInv
<1>2. CASE \E e \in 1..source.events : HandleAuditEvent(e)
  <2>1. PICK e \in 1..source.events : HandleAuditEvent(e)
    BY <1>2
  <2>2. Load(Worker, e) /\ requests' = requests
    BY <2>1 DEF HandleAuditEvent
  <2>3. e \in Nat /\ requests' \in Nat
    BY <1>0, <2>2 DEF TypeOK
  <2> QED
    BY <2>2, <2>3, WorkerWrites, LoadType
<1>3. CASE CommitEvent
  <2>1. /\ run' = [run EXCEPT ![Worker] = NoRun] /\ handled' = handled \cup {run[Worker].event}
        /\ UNCHANGED <<source, file, requests, faults, spoilt>>
    BY <1>3 DEF CommitEvent
  <2>2. run[Worker].event \in 1..source.events
    BY <1>0, <1>3 DEF CommitEvent, EventInv
  <2>3. run' \in [Writer -> Run] /\ EventInv'
    BY <1>n, <2>1, WorkerWrites, RunMoves
  <2>4. TypeOK'
    BY <1>0, <2>1, <2>2, <2>3 DEF TypeOK
  <2> QED
    BY <2>3, <2>4 DEF TypeInv
<1>4. CASE GenerateOnce
  <2>1. Load(Cron, 0) /\ requests' \in Nat
    BY <1>0, <1>4 DEF GenerateOnce, TypeOK
  <2> QED
    BY <2>1, WorkerWrites, LoadType
<1>5. CASE \E w \in ByRequest : GenerateAuditReport(w)
  <2>1. PICK w \in ByRequest : GenerateAuditReport(w)
    BY <1>5
  <2>2. Load(w, 0) /\ requests' \in Nat
    BY <1>0, <2>1 DEF GenerateAuditReport, TypeOK
  <2>3. w \in Writer /\ w # Worker
    BY AuditReportAssumption DEF Writer
  <2> QED
    BY <2>2, <2>3, LoadType
<1>6. ASSUME NEW w \in Writer, OpenFile(w) PROVE TypeInv'
  <2>1. /\ run[w].at = "open" /\ run' = [run EXCEPT ![w].at = "write"]
        /\ file' = <<>> /\ spoilt' = TRUE /\ UNCHANGED <<source, handled, requests, faults>>
    BY <1>6 DEF OpenFile
  <2>2. run[w] \in Run
    BY <1>0, RunType
  <2>3. PICK r : r = [run[w] EXCEPT !.at = "write"]
    OBVIOUS
  <2>4. r \in Run /\ r.at = "write" /\ r.event = run[w].event /\ r.counts = run[w].counts
    BY <2>2, <2>3, StepType
  <2>5. run' = [run EXCEPT ![w] = r]
    BY <2>1, <2>3
  <2>6. w = Worker => r.event \in 1..source.events /\ r.event <= r.counts.events
    BY <1>0, <2>1, <2>4 DEF EventInv, InProgress
  <2>7. run' \in [Writer -> Run] /\ EventInv'
    BY <2>1, <2>4, <2>5, <2>6, RunMoves
  <2>8. TypeOK'
    BY <1>0, <2>1, <2>7 DEF TypeOK
  <2> QED
    BY <2>7, <2>8 DEF TypeInv
<1>7. ASSUME NEW w \in Writer, WriteBuffer(w) PROVE TypeInv'
  <2>1. PICK n : n = run[w].written + 1
    OBVIOUS
  <2>2. /\ run[w].at = "write" /\ run' = [run EXCEPT ![w].written = n]
        /\ n <= Len(Report(run[w].counts)) /\ file' = Overwrite(n, Report(run[w].counts)[n])
        /\ UNCHANGED <<source, handled, requests, faults, spoilt>>
    BY <1>7, <2>1 DEF WriteBuffer
  <2>3. run[w] \in Run /\ run[w].counts \in Counts /\ n \in Nat \ {0}
    BY <1>0, <2>1, RunType
  <2>4. PICK r : r = [run[w] EXCEPT !.written = n]
    OBVIOUS
  <2>5. r \in Run /\ r.at = run[w].at /\ r.event = run[w].event /\ r.counts = run[w].counts
    BY <2>3, <2>4, WrittenType
  <2>6. run' = [run EXCEPT ![w] = r]
    BY <2>2, <2>4
  <2>7. w = Worker => r.event \in 1..source.events /\ r.event <= r.counts.events
    BY <1>0, <2>2, <2>5 DEF EventInv, InProgress
  <2>8. run' \in [Writer -> Run] /\ EventInv'
    BY <2>2, <2>5, <2>6, <2>7, RunMoves
  <2>9. Report(run[w].counts)[n] \in Counts
    BY <2>2, <2>3, ReportType
  <2>10. file' \in Seq(Counts \cup {Hole})
    BY <1>0, <2>2, <2>3, <2>9, OverwriteType
  <2>11. TypeOK'
    BY <1>0, <2>2, <2>8, <2>10 DEF TypeOK
  <2> QED
    BY <2>8, <2>11 DEF TypeInv
<1>8. ASSUME NEW w \in Writer, CloseFile(w) PROVE TypeInv'
  <2>1. /\ run[w].at = "write" /\ run' = [run EXCEPT ![w] = AfterClose(w)]
        /\ spoilt' = ~run[w].alone /\ UNCHANGED <<source, handled, file, requests, faults>>
    BY <1>8 DEF CloseFile
  <2>2. /\ AfterClose(w) \in Run /\ AfterClose(w).at = IF w = Worker THEN "commit" ELSE "idle"
        /\ w = Worker => AfterClose(w).event = run[w].event
    BY AfterCloseType
  <2>3. w = Worker => run[w].event \in 1..source.events
    BY <1>0, <2>1 DEF EventInv
  <2>4. run' \in [Writer -> Run] /\ EventInv'
    BY <2>1, <2>2, <2>3, RunMoves
  <2>5. spoilt' \in BOOLEAN
    BY <2>1
  <2>6. TypeOK'
    BY <1>0, <2>1, <2>4, <2>5 DEF TypeOK
  <2> QED
    BY <2>4, <2>6 DEF TypeInv
<1>9. ASSUME NEW w \in Writer, Fail(w) PROVE TypeInv'
  <2>1. /\ run' = [run EXCEPT ![w] = NoRun] /\ faults' = faults + 1
        /\ UNCHANGED <<source, handled, file, requests, spoilt>>
    BY <1>9 DEF Fail
  <2>2. run' \in [Writer -> Run] /\ EventInv'
    BY <1>n, <2>1, RunMoves
  <2>3. TypeOK'
    BY <1>0, <2>1, <2>2 DEF TypeOK
  <2> QED
    BY <2>2, <2>3 DEF TypeInv
<1>10. CASE UNCHANGED vars
  BY <1>0, <1>10 DEF vars, TypeInv, TypeOK, EventInv, InProgress
<1> QED
  BY <1>1, <1>2, <1>3, <1>4, <1>5, <1>6, <1>7, <1>8, <1>9, <1>10 DEF Next, Continue

\* Whatever runs write into the file, it is made of buffers of reports and of holes,
\* and the events handled are events there are (generate_audit_report,
\* handle_audit_event).
THEOREM TypeCorrect == Spec => []TypeOK
<1>1. TypeInv => TypeOK
  BY DEF TypeInv
<1> QED
  BY <1>1, TypeInit, TypeStep, PTL DEF Spec

-----------------------------------------------------------------------------
(* One run with the file to itself *)

\* Every event that is handled, or about to be, is among these counts.
Covers(c) ==
  /\ handled \subseteq 1..c.events
  /\ run[Worker].at = "commit" => run[Worker].event \in 1..c.events

\* A run that has been alone so far: no other is in progress, nothing has been
\* handled that it does not count, and what is in the file is its own.
Undisturbed(w) ==
  /\ \A v \in Writer \ {w} : ~InProgress(v)
  /\ Covers(run[w].counts)
  /\ run[w].at = "open" => run[w].written = 0
  /\ run[w].at = "write" =>
       /\ run[w].written <= run[w].counts.events + 1
       /\ file = [i \in 1..run[w].written |-> run[w].counts]

\* The file is a whole report, and stays it: nobody is writing.
Whole ==
  /\ \A v \in Writer : run[v].at # "write"
  /\ file # <<>> /\ file[1] \in Counts /\ file = Report(file[1])
  /\ Covers(file[1])

AloneInv == \A w \in Writer : InProgress(w) /\ run[w].alone => Undisturbed(w)

WholeInv == spoilt \/ Whole

SoloInv == TypeInv /\ AloneInv /\ WholeInv

LEMMA SoloInit == Init => SoloInv
  BY TypeInit, NoRunType DEF Init, SoloInv, AloneInv, WholeInv, InProgress

\* What counts cover they cover on, unless an event is handled or closed.
LEMMA CoversKept ==
  ASSUME NEW c, Covers(c), handled' = handled,
         run'[Worker].at = "commit" =>
           run[Worker].at = "commit" /\ run'[Worker].event = run[Worker].event
  PROVE  Covers(c)'
  BY DEF Covers

\* A report that is whole remains so if nobody opens the file or writes.
LEMMA WholeKept ==
  ASSUME Whole, file' = file, handled' = handled,
         \A v \in Writer : run'[v].at = "write" => run[v].at = "write",
         run'[Worker].at = "commit" =>
           run[Worker].at = "commit" /\ run'[Worker].event = run[Worker].event
  PROVE  Whole'
<1>1. PICK c : c = file[1]
  OBVIOUS
<1>2. Covers(c) /\ file # <<>> /\ c \in Counts /\ file = Report(c)
  BY <1>1 DEF Whole
<1>3. Covers(c)'
  BY <1>2, CoversKept
<1>4. file' # <<>> /\ file'[1] = c /\ (file = Report(c))'
  BY <1>1, <1>2 DEF Report
<1>5. \A v \in Writer : run'[v].at # "write"
  BY DEF Whole
<1> QED
  BY <1>2, <1>3, <1>4, <1>5 DEF Whole, Covers, Report

\* A run that begins finds nobody, or is not alone.
LEMMA LoadSolo ==
  ASSUME SoloInv, NEW w \in Writer, NEW e \in Nat, Load(w, e)
  PROVE  AloneInv' /\ WholeInv'
<1>0. TypeOK /\ EventInv /\ AloneInv /\ WholeInv
  BY DEF SoloInv, TypeInv
<1>1. UNCHANGED <<source, handled, file, faults, spoilt>>
  BY DEF Load
<1>2. /\ run' \in [Writer -> Run]
      /\ run'[w].at = "open" /\ run'[w].counts = source /\ run'[w].event = e
      /\ run'[w].alone <=> \A u \in Writer : ~InProgress(u)
      /\ \A v \in Writer : v # w =>
           /\ run'[v].at = run[v].at /\ run'[v].event = run[v].event
           /\ run'[v].counts = run[v].counts /\ ~run'[v].alone
  BY <1>0, LoadEffect
<1>3. run'[w].written = 0
  BY DEF Load
<1>4. run'[Worker].at = "commit" =>
        run[Worker].at = "commit" /\ run'[Worker].event = run[Worker].event
  BY <1>2, WorkerWrites
<1>5. AloneInv'
  <2> SUFFICES ASSUME NEW v \in Writer, run'[v].alone PROVE Undisturbed(v)'
    BY DEF AloneInv
  <2>1. v = w /\ \A u \in Writer \ {w} : ~InProgress(u)'
    BY <1>2 DEF InProgress
  <2>2. Covers(source)
    BY <1>0 DEF TypeOK, EventInv, Covers
  <2>3. PICK c : c = source
    OBVIOUS
  <2>4. Covers(c)'
    BY <1>1, <1>4, <2>2, <2>3, CoversKept
  <2>5. Covers(run[w].counts)'
    BY <1>2, <2>3, <2>4 DEF Covers
  <2> QED
    BY <1>2, <1>3, <2>1, <2>5 DEF Undisturbed
<1>6. WholeInv'
  <2> SUFFICES ASSUME Whole PROVE Whole'
    BY <1>0, <1>1 DEF WholeInv
  <2>1. \A v \in Writer : run'[v].at = "write" => run[v].at = "write"
    BY <1>2
  <2> QED
    BY <1>1, <1>4, <2>1, WholeKept
<1> QED
  BY <1>5, <1>6

\* A run that is over is nobody's concern; other runs are as they were.
LEMMA EndSolo ==
  ASSUME SoloInv, NEW x \in Writer, run' = [run EXCEPT ![x] = NoRun],
         UNCHANGED <<file, spoilt>>,
         \/ handled' = handled
         \/ x = Worker /\ run[Worker].at = "commit" /\ handled' = handled \cup {run[Worker].event}
  PROVE  AloneInv' /\ WholeInv'
<1>0. TypeOK /\ AloneInv /\ WholeInv
  BY DEF SoloInv, TypeInv
<1>1. run'[x].at = "idle" /\ \A v \in Writer : v # x => run'[v] = run[v]
  BY <1>0, NoRunType DEF TypeOK
<1>2. \A v \in Writer : run'[v].at # "idle" => v # x /\ run'[v] = run[v]
  BY <1>1
<1>3. ASSUME NEW c, Covers(c) PROVE Covers(c)'
  BY <1>2, <1>3, WorkerWrites DEF Covers
<1>4. AloneInv'
  <2> SUFFICES ASSUME NEW v \in Writer, InProgress(v)', run'[v].alone PROVE Undisturbed(v)'
    BY DEF AloneInv
  <2>1. run'[v] = run[v]
    BY <1>2 DEF InProgress
  <2>2. Undisturbed(v)
    BY <1>0, <2>1 DEF AloneInv, InProgress
  <2>3. PICK c : c = run[v].counts
    OBVIOUS
  <2>4. Covers(c)'
    BY <1>3, <2>2, <2>3 DEF Undisturbed
  <2>5. Covers(run[v].counts)'
    BY <2>1, <2>3, <2>4 DEF Covers
  <2>6. \A u \in Writer \ {v} : ~InProgress(u)'
    BY <1>2, <2>2 DEF Undisturbed, InProgress
  <2> QED
    BY <2>1, <2>2, <2>5, <2>6 DEF Undisturbed
<1>5. WholeInv'
  <2> SUFFICES ASSUME Whole PROVE Whole'
    BY <1>0 DEF WholeInv
  <2>1. PICK c : c = file[1]
    OBVIOUS
  <2>2. Covers(c)' /\ \A v \in Writer : run'[v].at # "write"
    BY <1>2, <1>3, <2>1 DEF Whole
  <2> QED
    BY <2>1, <2>2 DEF Whole, Covers, Report
<1> QED
  BY <1>4, <1>5

\* A run that opens the file or writes disturbs all others: while one is alone, it
\* is that one.
LEMMA OnlyOne ==
  ASSUME TypeOK, AloneInv, NEW x \in Writer, InProgress(x), NEW v \in Writer,
         InProgress(v), run[v].alone
  PROVE  v = x /\ Undisturbed(x)
  BY DEF AloneInv, Undisturbed

\* The file is emptied.
LEMMA OpenSolo ==
  ASSUME SoloInv, NEW x \in Writer, OpenFile(x)
  PROVE  AloneInv' /\ WholeInv'
<1>0. TypeOK /\ AloneInv
  BY DEF SoloInv, TypeInv
<1>1. /\ run[x].at = "open" /\ run' = [run EXCEPT ![x].at = "write"]
      /\ file' = <<>> /\ spoilt' = TRUE /\ UNCHANGED handled
  BY DEF OpenFile
<1>2. /\ \A v \in Writer : v # x => run'[v] = run[v]
      /\ run'[x] = [run[x] EXCEPT !.at = "write"]
  BY <1>0, <1>1 DEF TypeOK
<1>3. /\ run'[x].at = "write" /\ run'[x].alone = run[x].alone
      /\ run'[x].counts = run[x].counts /\ run'[x].written = run[x].written
      /\ run[x].counts.events \in Nat
  BY <1>0, <1>2, RunType, StepType
<1>4. AloneInv'
  <2> SUFFICES ASSUME NEW v \in Writer, InProgress(v)', run'[v].alone PROVE Undisturbed(v)'
    BY DEF AloneInv
  <2>1. InProgress(v) /\ run[v].alone /\ InProgress(x)
    BY <1>1, <1>2, <1>3 DEF InProgress
  <2>2. v = x /\ Undisturbed(x)
    BY <1>0, <2>1, OnlyOne
  <2>3. PICK c : c = run[x].counts
    OBVIOUS
  <2>4. Covers(c)'
    BY <1>1, <1>2, <1>3, <2>2, <2>3, CoversKept DEF Undisturbed
  <2>5. Covers(run[x].counts)'
    BY <1>3, <2>3, <2>4 DEF Covers
  <2>6. \A u \in Writer \ {x} : ~InProgress(u)'
    BY <1>2, <2>2 DEF Undisturbed, InProgress
  <2>7. run'[x].written = 0
    BY <1>1, <1>3, <2>2 DEF Undisturbed
  <2>8. file' = [i \in 1..0 |-> c]
    BY <1>1
  <2>9. file' = [i \in 1..run'[x].written |-> run'[x].counts]
    BY <1>3, <2>3, <2>7, <2>8
  <2> QED
    BY <1>3, <2>2, <2>5, <2>6, <2>7, <2>9 DEF Undisturbed
<1> QED
  BY <1>1, <1>4 DEF WholeInv

\* A buffer at the end of the file.
LEMMA Appended ==
  ASSUME NEW n \in Nat \ {0}, NEW c, file = [i \in 1..n - 1 |-> c]
  PROVE  Overwrite(n, c) = [i \in 1..n |-> c]
<1>1. Len(file) = n - 1 /\ Larger(n, Len(file)) = n
  BY DEF Larger
<1>2. \A i \in 1..n : (IF i = n THEN c ELSE IF i <= n - 1 THEN file[i] ELSE Hole) = c
  OBVIOUS
<1> QED
  BY <1>1, <1>2 DEF Overwrite

LEMMA WriteSolo ==
  ASSUME SoloInv, NEW x \in Writer, WriteBuffer(x)
  PROVE  AloneInv' /\ WholeInv'
<1>0. TypeOK /\ AloneInv /\ WholeInv
  BY DEF SoloInv, TypeInv
<1>1. PICK n, c : n = run[x].written + 1 /\ c = run[x].counts
  OBVIOUS
<1>2. /\ run[x].at = "write" /\ run' = [run EXCEPT ![x].written = n]
      /\ n <= Len(Report(c)) /\ file' = Overwrite(n, Report(c)[n])
      /\ UNCHANGED <<handled, spoilt>>
  BY <1>1 DEF WriteBuffer
<1>3. run[x] \in Run /\ c \in Counts /\ n \in Nat \ {0} /\ run[x].written = n - 1
  BY <1>0, <1>1, RunType
<1>4. n <= c.events + 1 /\ Report(c)[n] = c
  BY <1>2, <1>3, ReportType
<1>5. /\ \A v \in Writer : v # x => run'[v] = run[v]
      /\ run'[x] = [run[x] EXCEPT !.written = n]
  BY <1>0, <1>2 DEF TypeOK
<1>6. /\ run'[x].at = "write" /\ run'[x].alone = run[x].alone
      /\ run'[x].counts = c /\ run'[x].written = n
  <2>1. PICK r \in Run : r = run[x]
    BY <1>3
  <2>2. run'[x] = [r EXCEPT !.written = n] /\ n \in Nat
    BY <1>3, <1>5, <2>1
  <2>3. /\ run'[x].at = r.at /\ run'[x].alone = r.alone
        /\ run'[x].counts = r.counts /\ run'[x].written = n
    BY <2>2, WrittenType
  <2> QED
    BY <1>1, <1>2, <2>1, <2>3
<1>7. AloneInv'
  <2> SUFFICES ASSUME NEW v \in Writer, InProgress(v)', run'[v].alone PROVE Undisturbed(v)'
    BY DEF AloneInv
  <2>1. InProgress(v) /\ run[v].alone /\ InProgress(x)
    BY <1>2, <1>5, <1>6 DEF InProgress
  <2>2. v = x /\ Undisturbed(x)
    BY <1>0, <2>1, OnlyOne
  <2>3. Covers(c)'
    BY <1>1, <1>2, <1>5, <1>6, <2>2, CoversKept DEF Undisturbed
  <2>4. Covers(run[x].counts)'
    BY <1>6, <2>3 DEF Covers
  <2>5. \A u \in Writer \ {x} : ~InProgress(u)'
    BY <1>5, <2>2 DEF Undisturbed, InProgress
  <2>6. file = [i \in 1..n - 1 |-> c]
    BY <1>1, <1>2, <1>3, <2>2 DEF Undisturbed
  <2>7. file' = [i \in 1..n |-> c]
    BY <1>2, <1>3, <1>4, <2>6, Appended
  <2> QED
    BY <1>4, <1>6, <2>2, <2>4, <2>5, <2>7 DEF Undisturbed
<1> QED
  BY <1>0, <1>2, <1>7 DEF WholeInv, Whole

\* A run that was alone leaves a whole report.
LEMMA CloseSolo ==
  ASSUME SoloInv, NEW x \in Writer, CloseFile(x)
  PROVE  AloneInv' /\ WholeInv'
<1>0. TypeOK /\ EventInv /\ AloneInv
  BY DEF SoloInv, TypeInv
<1>1. PICK c : c = run[x].counts
  OBVIOUS
<1>2. /\ run[x].at = "write" /\ run' = [run EXCEPT ![x] = AfterClose(x)]
      /\ run[x].written = Len(Report(c)) /\ spoilt' = ~run[x].alone
      /\ UNCHANGED <<handled, file>>
  BY <1>1 DEF CloseFile, Complete
<1>3. /\ AfterClose(x).at = IF x = Worker THEN "commit" ELSE "idle"
      /\ x = Worker => AfterClose(x).event = run[x].event
  BY AfterCloseType DEF SoloInv
<1>4. /\ \A v \in Writer : v # x => run'[v] = run[v]
      /\ run'[x] = AfterClose(x)
  BY <1>0, <1>2 DEF TypeOK
<1>5. ~InProgress(x)' /\ InProgress(x)
  BY <1>2, <1>3, <1>4 DEF InProgress
<1>6. AloneInv'
  <2> SUFFICES ASSUME NEW v \in Writer, InProgress(v)', run'[v].alone PROVE FALSE
    BY DEF AloneInv
  <2>1. v # x /\ InProgress(v) /\ run[v].alone
    BY <1>4, <1>5 DEF InProgress
  <2> QED
    BY <1>0, <1>5, <2>1, OnlyOne
<1>7. WholeInv'
  <2> SUFFICES ASSUME run[x].alone PROVE Whole'
    BY <1>2 DEF WholeInv
  <2>1. Undisturbed(x)
    BY <1>0, <1>5, OnlyOne
  <2>2. c \in Counts /\ run[x].written = c.events + 1 /\ c.events \in Nat
    BY <1>0, <1>1, <1>2, RunType, ReportType
  <2>3. file = [i \in 1..c.events + 1 |-> c]
    BY <1>1, <1>2, <2>1, <2>2 DEF Undisturbed
  <2>4. file = Report(c) /\ file # <<>> /\ file[1] = c
    BY <2>2, <2>3 DEF Report
  <2>5. Covers(c)
    BY <1>1, <2>1 DEF Undisturbed
  <2>6. Covers(c)'
    <3>1. CASE x = Worker
      <4>1. run[Worker].event \in Nat \ {0} /\ run[Worker].event <= c.events
        BY <1>0, <1>1, <1>5, <1>2, <3>1, RunType DEF EventInv
      <4>2. run'[Worker].event \in 1..c.events
        BY <1>3, <1>4, <2>2, <3>1, <4>1
      <4> QED
        BY <1>2, <2>5, <4>2 DEF Covers
    <3>2. CASE x # Worker
      BY <1>2, <1>4, <2>5, <3>2, WorkerWrites DEF Covers
    <3> QED
      BY <3>1, <3>2
  <2>7. \A v \in Writer : run'[v].at # "write"
    BY <1>3, <1>4, <2>1 DEF Undisturbed, InProgress
  <2> QED
    BY <1>2, <2>2, <2>4, <2>6, <2>7 DEF Whole, Covers, Report
<1> QED
  BY <1>6, <1>7

LEMMA SoloStep == SoloInv /\ [Next]_vars => SoloInv'
<1> SUFFICES ASSUME SoloInv, [Next]_vars PROVE SoloInv'
  OBVIOUS
<1>0. TypeInv' /\ TypeOK /\ AloneInv /\ WholeInv
  BY TypeStep DEF SoloInv, TypeInv
<1> SUFFICES AloneInv' /\ WholeInv'
  BY <1>0 DEF SoloInv
<1>1. CASE CommitSource
  BY <1>0, <1>1 DEF CommitSource, AloneInv, WholeInv, Undisturbed, Whole, Covers, InProgress, Report
<1>2. CASE \E e \in 1..source.events : HandleAuditEvent(e)
  <2>1. PICK e \in 1..source.events : HandleAuditEvent(e)
    BY <1>2
  <2>2. Load(Worker, e) /\ e \in Nat
    BY <2>1 DEF HandleAuditEvent
  <2> QED
    BY <2>2, WorkerWrites, LoadSolo
<1>3. CASE CommitEvent
  BY <1>3, WorkerWrites, EndSolo DEF CommitEvent
<1>4. CASE GenerateOnce
  BY <1>4, WorkerWrites, LoadSolo DEF GenerateOnce
<1>5. CASE \E w \in ByRequest : GenerateAuditReport(w)
  BY <1>5, LoadSolo DEF GenerateAuditReport, Writer
<1>6. ASSUME NEW w \in Writer, Continue(w) PROVE AloneInv' /\ WholeInv'
  BY <1>6, OpenSolo, WriteSolo, CloseSolo DEF Continue
<1>7. ASSUME NEW w \in Writer, Fail(w) PROVE AloneInv' /\ WholeInv'
  BY <1>7, EndSolo DEF Fail
<1>8. CASE UNCHANGED vars
  BY <1>0, <1>8 DEF vars, AloneInv, WholeInv, Undisturbed, Whole, Covers, InProgress, Report
<1> QED
  BY <1>1, <1>2, <1>3, <1>4, <1>5, <1>6, <1>7, <1>8 DEF Next

\* The last event handled is one of those handled, or there is none.
LEMMA LastHandledIsOne == TypeOK => LastHandled \in handled \cup {0}
<1> SUFFICES ASSUME TypeOK PROVE LastHandled \in handled \cup {0}
  OBVIOUS
<1>1. handled \cup {0} \subseteq Nat /\ source.events \in Nat
      /\ \A e \in handled \cup {0} : e <= source.events
  BY DEF TypeOK, Counts
<1>2. PICK T : T = handled \cup {0}
  OBVIOUS
<1>3. T \in SUBSET Nat /\ T # {} /\ \A e \in T : e <= source.events
  BY <1>1, <1>2
<1>4. \E n \in T : \A e \in T : e <= n
  BY <1>1, <1>3, NatMax
<1>5. \E n \in handled \cup {0} : \A e \in handled : e <= n
  BY <1>2, <1>4
<1> QED
  BY <1>5 DEF LastHandled

\* The report is brought up to date after each event (README of the audit service):
\* as soon as a run of generate_audit_report has had the file to itself, the file is
\* a whole report, with every event the worker has handled, whatever was in it.
THEOREM SoloReportIsCurrent == Spec => []SoloReportCurrent
<1>1. SoloInv => SoloReportCurrent
  <2> SUFFICES ASSUME SoloInv, ~spoilt
               PROVE  Shows([events |-> LastHandled, logins |-> 0])
    BY DEF SoloReportCurrent
  <2>1. TypeOK /\ Whole
    BY DEF SoloInv, TypeInv, WholeInv
  <2>2. PICK c \in Counts : c = file[1]
    BY <2>1 DEF Whole
  <2>3. handled \subseteq 1..c.events /\ c.events \in Nat /\ c.logins \in Nat
    BY <2>1, <2>2 DEF Whole, Covers, Counts
  <2>4. PICK n : n = LastHandled
    OBVIOUS
  <2>5. n <= c.events /\ 0 <= c.logins
    <3>1. n \in handled \cup {0}
      BY <2>1, <2>4, LastHandledIsOne
    <3> QED
      BY <2>3, <3>1
  <2>6. Shows([events |-> n, logins |-> 0])
    BY <2>1, <2>2, <2>5 DEF Whole, Shows
  <2> QED
    BY <2>4, <2>6
<1> QED
  BY <1>1, SoloInit, SoloStep, PTL DEF Spec
=============================================================================
