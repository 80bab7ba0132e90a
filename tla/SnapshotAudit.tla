---------------------------- MODULE SnapshotAudit ----------------------------
(***************************************************************************)
(* The completeness audit of the account snapshot archive                  *)
(* (snapshot_completeness.py): overlapping runs of the cloud job walk over *)
(* the expected days of a target, may backfill a missing day from the      *)
(* broker's history into the append-only archive, store a report, and      *)
(* announce an incomplete one once.                                        *)
(*                                                                         *)
(* A record is when it was observed and whether its identity, its date and *)
(* its fields are in order.  Every object of the store is created at most  *)
(* once; a run may stop anywhere.  An announcement is addressed by its day *)
(* and the report's content: the model is of the runs of one day.  The     *)
(* plain notice of a run that fails before its report is left out.         *)
(***************************************************************************)
EXTENDS Integers, FiniteSetsExt

CONSTANTS
  AuditDays,    \* 1 .. n, in the order they are audited
  AuditRuns,    \* runs of the job
  Stored,       \* bound: what the archive may hold of each day at first
  Written,      \* bound: days and records other writers may add
  History       \* what the broker's history holds of each day, or "none"

\* A record of the archive, and what the broker's history may hold.
ArchivedRecord == [at : Int, is : {"good", "stranger", "undated", "incomplete"}]
HistoryRecord == [at : Int, is : {"good", "stranger", "undated", "incomplete", "none"}]

ASSUME AuditAssumption ==
  /\ AuditDays = 1 .. Cardinality(AuditDays) /\ Cardinality(AuditDays) \in Nat \ {0}
  /\ DOMAIN History = AuditDays /\ \A d \in AuditDays : History[d] \in HistoryRecord
  /\ \A s \in Stored : /\ DOMAIN s = AuditDays
                       /\ \A d \in AuditDays : IsFiniteSet(s[d]) /\ s[d] \subseteq ArchivedRecord
  /\ Written \subseteq AuditDays \X ArchivedRecord

NoRecord == [at |-> -1, is |-> "none"]

VARIABLES
  archive,   \* the records other writers have archived, per day
  backfilled,\* the one backfill object of each day
  audits,    \* the runs
  claims,    \* reports whose announcement is claimed
  acks,      \* reports whose announcement is acknowledged
  announced  \* the announcements sent, per report: what really happened
auditVars == <<archive, backfilled, audits, claims, acks, announced>>

NewAudit == [at |-> "day", day |-> 1, found |-> [d \in {} |-> "ok"], held |-> NoRecord]

RecordsOf(d) == archive[d] \cup ({backfilled[d]} \ {NoRecord})

\* A bad latest observation is not hidden behind a good old one.
Latest(rs) == CHOOSE r \in rs : \A x \in rs : x.at <= r.at

\* validate_snapshot: identity first, then the date, then the fields
Issue(r) ==
  CASE r.is = "stranger" -> "identity_mismatch"
    [] r.is = "undated" -> "observation_date_mismatch"
    [] r.is = "incomplete" -> "field_issues"
    [] OTHER -> "ok"

\* Issues after which the affected source is not read again.
Stopping == {"identity_mismatch", "source_read_failed", "archive_readback_failed",
             "archive_write_conflict"}

\* f with the entry v under x
Entered(f, x, v) == [y \in DOMAIN f \cup {x} |-> IF y = x THEN v ELSE f[y]]

\* The day's verdict: the next day, or the report.
Found(a, verdict) ==
  [a EXCEPT !.found = Entered(@, a.day, verdict), !.held = NoRecord,
            !.at = IF verdict \in Stopping \/ a.day + 1 \notin AuditDays THEN "report" ELSE "day",
            !.day = @ + 1]
Complete(found) == \A d \in AuditDays : d \in DOMAIN found /\ found[d] = "ok"

-----------------------------------------------------------------------------
AuditInit ==
  /\ archive \in Stored
  /\ backfilled = [d \in AuditDays |-> NoRecord]
  /\ audits = [x \in AuditRuns |-> NewAudit]
  /\ claims = {} /\ acks = {}
  /\ announced = [x \in {} |-> 0]

\* Another writer archives an observation of a day.
Archive(d, r) ==
  /\ \A x \in RecordsOf(d) : x.at # r.at
  /\ archive' = [archive EXCEPT ![d] = @ \cup {r}]
  /\ UNCHANGED <<backfilled, audits, claims, acks, announced>>

Advance(x, a) ==
  /\ audits' = [audits EXCEPT ![x] = a]
  /\ UNCHANGED archive

\* audit_target: read the day's archive.  Only a missing day is ever repaired.
ReadDay(x) ==
  LET a == audits[x] IN
  /\ a.at = "day"
  /\ \/ /\ RecordsOf(a.day) = {}
        /\ Advance(x, IF History[a.day].is = "none" THEN Found(a, "archive_missing")
                      ELSE IF Issue(History[a.day]) # "ok" THEN Found(a, "archive_missing")
                      ELSE [a EXCEPT !.at = "persist", !.held = History[a.day]])
     \/ /\ RecordsOf(a.day) # {}
        /\ Advance(x, Found(a, Issue(Latest(RecordsOf(a.day)))))
     \/ Advance(x, Found(a, "source_read_failed"))
  /\ UNCHANGED <<backfilled, claims, acks, announced>>

\* persist: created at most once; another content under the name is a conflict.
Persist(x) ==
  LET a == audits[x] IN
  /\ a.at = "persist"
  /\ IF backfilled[a.day] = NoRecord
     THEN backfilled' = [backfilled EXCEPT ![a.day] = a.held] /\ Advance(x, [a EXCEPT !.at = "readback"])
     ELSE /\ UNCHANGED backfilled
          /\ Advance(x, IF backfilled[a.day] = a.held THEN [a EXCEPT !.at = "readback"]
                        ELSE Found(a, "archive_write_conflict"))
  /\ UNCHANGED <<claims, acks, announced>>

\* The readback must hold the candidate, and the latest record decides again.
ReadBack(x) ==
  LET a == audits[x] IN
  /\ a.at = "readback"
  /\ Advance(x, Found(a, IF a.held \notin RecordsOf(a.day) THEN "archive_readback_failed"
                         ELSE Issue(Latest(RecordsOf(a.day)))))
  /\ UNCHANGED <<backfilled, claims, acks, announced>>

\* main: the report is stored; an incomplete one is to be announced.
Report(x) ==
  LET a == audits[x] IN
  /\ a.at = "report"
  /\ Advance(x, [a EXCEPT !.at = IF Complete(a.found) THEN "complete"
                                 ELSE IF a.found \in acks THEN "known" ELSE "alert"])
  /\ UNCHANGED <<backfilled, claims, acks, announced>>

\* alert: claimed before it is sent; whoever finds the claim sends nothing.
ClaimAlert(x) ==
  LET a == audits[x] IN
  /\ a.at = "alert"
  /\ Advance(x, [a EXCEPT !.at = IF a.found \in claims THEN "unknown" ELSE "send"])
  /\ claims' = claims \cup {a.found}
  /\ UNCHANGED <<backfilled, acks, announced>>

\* The message is sent or not; its answer arrives or not.
Send(x) ==
  LET a == audits[x] IN
  /\ a.at = "send"
  /\ \E sent, answered \in BOOLEAN :
       /\ announced' = IF sent THEN Entered(announced, a.found, 1 + IF a.found \in DOMAIN announced
                                                                   THEN announced[a.found] ELSE 0)
                       ELSE announced
       /\ acks' = IF sent /\ answered THEN acks \cup {a.found} ELSE acks
       /\ Advance(x, [a EXCEPT !.at = IF sent /\ answered THEN "announced" ELSE "failed"])
  /\ UNCHANGED <<backfilled, claims>>

\* A run ends, or is stopped anywhere, and the scheduler starts it again.
Restart(x) ==
  /\ audits[x] # NewAudit
  /\ Advance(x, NewAudit)
  /\ UNCHANGED <<backfilled, claims, acks, announced>>

AuditNext ==
  \/ \E w \in Written : Archive(w[1], w[2])
  \/ \E x \in AuditRuns : \/ ReadDay(x) \/ Persist(x) \/ ReadBack(x) \/ Report(x)
                          \/ ClaimAlert(x) \/ Send(x) \/ Restart(x)

-----------------------------------------------------------------------------
\* Whatever runs overlap, fail or are restarted, a report is announced at most
\* once, and it is acknowledged only when it really was.
AnnouncedOnce ==
  /\ \A r \in DOMAIN announced : announced[r] = 1
  /\ acks \subseteq DOMAIN announced

\* A day is in order only on the word of its latest record at that moment: a
\* good older one, or a backfill written beside a later bad one, never hides it.
VerdictEarned ==
  \A x \in AuditRuns : \A d \in DOMAIN audits'[x].found \ DOMAIN audits[x].found :
    audits'[x].found[d] = "ok" =>
      \E r \in RecordsOf(d)' : r.is = "good" /\ \A y \in RecordsOf(d)' : y.at <= r.at
=============================================================================
