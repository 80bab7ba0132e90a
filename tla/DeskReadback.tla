---------------------------- MODULE DeskReadback ----------------------------
(***************************************************************************)
(* The desk's readbacks: jobs and single reads that operators start, the   *)
(* admission that keeps each operator to one of them, the idempotency      *)
(* record of a start, and the durable object's alarm that works the jobs   *)
(* off, one target at a time (application/desk/readback.js and             *)
(* idempotency.js).  The object may be evicted between any two awaits.     *)
(* A delay shorter than a tick of the clock is no delay.                   *)
(***************************************************************************)
EXTENDS Integers, FiniteSets, FiniteSetsExt

CONSTANTS
  Actors,   \* operators
  Jobs,     \* readback jobs, numbered in the order of their storage keys
  Fresh,    \* single reads
  Keys,     \* idempotency keys; a key stands for its operator and body
  Targets,  \* most targets a job reads
  Refresh,  \* the 30 seconds between two reads of an operator
  TTL,      \* the 24 hours a record or an admission lives
  MaxTime, MaxCrashes,  \* bounds
  None, Gone

ASSUME DeskTimes == Refresh \in Nat /\ TTL \in Nat /\ MaxTime \in Nat /\ MaxCrashes \in Nat
ASSUME DeskJobs == Jobs \subseteq Nat /\ Targets \in Nat \ {0} /\ None \notin Jobs
ASSUME DeskIds == Jobs \cap Fresh = {} /\ None \notin Fresh /\ None \notin Actors
ASSUME DeskNulls ==
  /\ None \notin Nat /\ None # Gone
  /\ \A null \in {None, Gone} :
       null \notin [actor : Actors, expires : Nat, pending : 0..Targets, total : 1..Targets]
  /\ None \notin [active : Jobs \cup Fresh \cup {None}, nextAllowed : Nat, expires : Nat]
  /\ None \notin [job : Jobs, state : {"pending", "complete"}]

VARIABLES
  records,      \* desk:readbacks:record: rows of jobs
  snapshots,    \* expiries of the rows of finished reads
  admission,    \* desk:readbacks:admission: rows
  idempotency,  \* desk:idempotency: rows: the job of a key, and its state
  alarm,        \* when the object's alarm is due
  worker,       \* the alarm handler
  fresh,        \* handlers of single reads
  starter,      \* handlers that have reserved a job but not answered yet
  now, crashes

vars == <<records, snapshots, admission, idempotency, alarm, worker, fresh, starter,
          now, crashes>>

Ids == Jobs \cup Fresh
Job == [actor : Actors, expires : Nat, pending : 0..Targets, total : 1..Targets]
Admission == [active : Ids \cup {None}, nextAllowed : Nat, expires : Nat]

TypeOK ==
  /\ records \in [Jobs -> Job \cup {None, Gone}]
  /\ snapshots \subseteq Nat
  /\ admission \in [Actors -> Admission \cup {None}]
  /\ idempotency \in [Keys -> [job : Jobs, state : {"pending", "complete"}] \cup {None}]
  /\ alarm \in Nat \cup {None}
  /\ worker \in [pc : {"idle", "reading", "putting", "releasing", "saving", "closing"},
                 job : Jobs \cup {None}]
  /\ fresh \in [Fresh -> [pc : {"new", "reading", "putting", "releasing", "over"},
                          actor : Actors \cup {None}, started : Nat]]
  /\ starter \in [Keys -> BOOLEAN]
  /\ now \in Nat /\ crashes \in Nat

Stored(j) == records[j] \notin {None, Gone}

\* state "running"; a job without pending targets is done, partial or failed.
Running(j) == Stored(j) /\ records[j].pending > 0

----------------------------------------------------------------------------
(* claim and release *)

CanClaim(a) ==
  admission[a] # None /\ admission[a].expires > now =>
    admission[a].active = None /\ admission[a].nextAllowed <= now

Claimed(a, id) ==
  admission' = [admission EXCEPT ![a] =
    [active |-> id, nextAllowed |-> now + Refresh, expires |-> now + TTL]]

\* An alarm no later than the given time.
AlarmBy(time) == IF alarm = None \/ alarm > time THEN time ELSE alarm

ReleaseAny(a, id) ==
  IF admission[a] # None
  THEN admission' = [admission EXCEPT ![a] =
         [active |-> None, nextAllowed |-> now + Refresh, expires |-> now + TTL]]
  ELSE UNCHANGED admission

\* Only the claim that is being released, not one that has followed it.
Release(a, id) ==
  IF admission[a] # None /\ admission[a].active = id
  THEN admission' = [admission EXCEPT ![a] =
         [active |-> None, nextAllowed |-> now + Refresh, expires |-> now + TTL]]
  ELSE UNCHANGED admission

----------------------------------------------------------------------------
(* desk_readback_fresh *)

StartFresh(f, a) ==
  /\ fresh[f].pc = "new"
  /\ CanClaim(a)
  /\ Claimed(a, f)
  /\ alarm' = AlarmBy(now + TTL)
  /\ fresh' = [fresh EXCEPT ![f] = [pc |-> "reading", actor |-> a, started |-> now]]
  /\ UNCHANGED <<records, snapshots, idempotency, worker, starter, now, crashes>>

ReadFresh(f) ==
  /\ fresh[f].pc = "reading"
  /\ \E pc \in {"putting", "releasing"} : fresh' = [fresh EXCEPT ![f].pc = pc]
  /\ UNCHANGED <<records, snapshots, admission, idempotency, alarm, worker, starter, now,
                 crashes>>

\* desk_readback_put
PutFresh(f) ==
  /\ fresh[f].pc = "putting"
  /\ fresh' = [fresh EXCEPT ![f].pc = "releasing"]
  /\ snapshots' = snapshots \cup {now + TTL}
  /\ alarm' = AlarmBy(now + TTL)
  /\ UNCHANGED <<records, admission, idempotency, worker, starter, now, crashes>>

ReleaseFresh(f) ==
  /\ fresh[f].pc = "releasing"
  /\ fresh' = [fresh EXCEPT ![f].pc = "over"]
  /\ Release(fresh[f].actor, f)
  /\ UNCHANGED <<records, snapshots, idempotency, alarm, worker, starter, now, crashes>>

----------------------------------------------------------------------------
(* desk_readback_start, within withIdempotency *)

StartEveryTime(k, a, j, n) ==
  /\ idempotency[k] # None => idempotency[k].state = "pending"
  /\ records[j] = None
  /\ CanClaim(a)
  /\ Claimed(a, j)
  /\ records' = [records EXCEPT ![j] =
       [actor |-> a, expires |-> now + TTL, pending |-> n, total |-> n]]
  /\ alarm' = now
  /\ idempotency' = [idempotency EXCEPT ![k] = [job |-> j, state |-> "pending"]]
  /\ starter' = [starter EXCEPT ![k] = TRUE]
  /\ UNCHANGED <<snapshots, worker, fresh, now, crashes>>

StartWithoutAlarm(k, a, j, n) ==
  /\ idempotency[k] = None
  /\ records[j] = None
  /\ CanClaim(a)
  /\ Claimed(a, j)
  /\ records' = [records EXCEPT ![j] =
       [actor |-> a, expires |-> now + TTL, pending |-> n, total |-> n]]
  /\ alarm' = AlarmBy(now + TTL)
  /\ idempotency' = [idempotency EXCEPT ![k] = [job |-> j, state |-> "pending"]]
  /\ starter' = [starter EXCEPT ![k] = TRUE]
  /\ UNCHANGED <<snapshots, worker, fresh, now, crashes>>

\* One transaction reserves the key, claims the operator's turn, stores the job
\* and arms the alarm.  (A replay and a refused claim change nothing.)
Start(k, a, j, n) ==
  /\ idempotency[k] = None
  /\ records[j] = None
  /\ CanClaim(a)
  /\ Claimed(a, j)
  /\ records' = [records EXCEPT ![j] =
       [actor |-> a, expires |-> now + TTL, pending |-> n, total |-> n]]
  /\ alarm' = now
  /\ idempotency' = [idempotency EXCEPT ![k] = [job |-> j, state |-> "pending"]]
  /\ starter' = [starter EXCEPT ![k] = TRUE]
  /\ UNCHANGED <<snapshots, worker, fresh, now, crashes>>

\* The second transaction of withIdempotency.
CompleteStart(k) ==
  /\ starter[k]
  /\ starter' = [starter EXCEPT ![k] = FALSE]
  /\ idempotency' = [idempotency EXCEPT ![k].state = "complete"]
  /\ UNCHANGED <<records, snapshots, admission, alarm, worker, fresh, now, crashes>>

----------------------------------------------------------------------------
(* alarm *)

\* The handler re-arms the alarm, deletes what has expired, and reads the first
\* pending target of the first job that runs.
Fire ==
  /\ worker.pc = "idle"
  /\ alarm # None /\ alarm <= now
  /\ alarm' = now
  /\ LET live == {j \in Jobs : Stored(j) /\ records[j].expires > now}
         running == {j \in live : Running(j)}
     IN /\ records' = [j \in Jobs |-> IF Stored(j) /\ j \notin live THEN Gone
                                                                    ELSE records[j]]
        /\ worker' = IF running = {} THEN [pc |-> "closing", job |-> None]
                                     ELSE [pc |-> "reading", job |-> Min(running)]
  /\ snapshots' = {e \in snapshots : e > now}
  /\ UNCHANGED <<admission, idempotency, fresh, starter, now, crashes>>

\* this.read; a failed one is a result too.
ReadTarget ==
  /\ worker.pc = "reading"
  /\ \E pc \in {"putting", "saving", "releasing"} :
       /\ (pc = "releasing") => records[worker.job].pending = 1
       /\ (pc = "saving") => records[worker.job].pending > 1
       /\ worker' = [worker EXCEPT !.pc = pc]
  /\ UNCHANGED <<records, snapshots, admission, idempotency, alarm, fresh, starter, now,
                 crashes>>

PutSnapshot ==
  /\ worker.pc = "putting"
  /\ snapshots' = snapshots \cup {now + TTL}
  /\ alarm' = AlarmBy(now + TTL)
  /\ worker' = [worker EXCEPT !.pc =
       IF records[worker.job].pending = 1 THEN "releasing" ELSE "saving"]
  /\ UNCHANGED <<records, admission, idempotency, fresh, starter, now, crashes>>

\* The last result gives the operator's turn back before it is stored.
ReleaseJob ==
  /\ worker.pc = "releasing"
  /\ Release(records[worker.job].actor, worker.job)
  /\ worker' = [worker EXCEPT !.pc = "saving"]
  /\ UNCHANGED <<records, snapshots, idempotency, alarm, fresh, starter, now, crashes>>

SaveJob ==
  /\ worker.pc = "saving"
  /\ records' = [records EXCEPT ![worker.job].pending = @ - 1]
  /\ worker' = [pc |-> "closing", job |-> None]
  /\ UNCHANGED <<snapshots, admission, idempotency, alarm, fresh, starter, now, crashes>>

CloseAtExpiry ==
  /\ worker.pc = "closing"
  /\ worker' = [pc |-> "idle", job |-> None]
  /\ LET due == {records[j].expires : j \in {i \in Jobs : Stored(i)}} \cup snapshots
     IN alarm' = IF due = {} THEN None ELSE Min(due)
  /\ UNCHANGED <<records, snapshots, admission, idempotency, fresh, starter, now, crashes>>

\* What the last transaction leaves behind: expired admissions go, and the alarm
\* is set for whatever is due next.
Close ==
  /\ worker.pc = "closing"
  /\ worker' = [pc |-> "idle", job |-> None]
  /\ LET kept == [a \in Actors |->
                    IF admission[a] # None /\ admission[a].expires <= now THEN None
                                                                          ELSE admission[a]]
         due == {IF Running(j) THEN now ELSE records[j].expires : j \in {i \in Jobs : Stored(i)}}
                \cup snapshots
                \cup {kept[a].expires : a \in {b \in Actors : kept[b] # None}}
     IN /\ admission' = kept
        /\ alarm' = IF due = {} THEN None ELSE Min(due)
  /\ UNCHANGED <<records, snapshots, idempotency, fresh, starter, now, crashes>>

----------------------------------------------------------------------------
\* The object is evicted: its handlers are gone, and what they have not stored.
Crash ==
  /\ crashes < MaxCrashes
  /\ crashes' = crashes + 1
  /\ worker' = [pc |-> "idle", job |-> None]
  /\ fresh' = [f \in Fresh |-> IF fresh[f].pc = "new" THEN fresh[f]
                                                      ELSE [fresh[f] EXCEPT !.pc = "over"]]
  /\ starter' = [k \in Keys |-> FALSE]
  /\ UNCHANGED <<records, snapshots, admission, idempotency, alarm, now>>

Tick ==
  /\ now < MaxTime
  /\ now' = now + 1
  /\ UNCHANGED <<records, snapshots, admission, idempotency, alarm, worker, fresh, starter,
                 crashes>>

Init ==
  /\ records = [j \in Jobs |-> None]
  /\ snapshots = {}
  /\ admission = [a \in Actors |-> None]
  /\ idempotency = [k \in Keys |-> None]
  /\ alarm = None
  /\ worker = [pc |-> "idle", job |-> None]
  /\ fresh = [f \in Fresh |-> [pc |-> "new", actor |-> None, started |-> 0]]
  /\ starter = [k \in Keys |-> FALSE]
  /\ now = 0 /\ crashes = 0

Alarm == Fire \/ ReadTarget \/ PutSnapshot \/ ReleaseJob \/ SaveJob \/ Close

Next ==
  \/ \E f \in Fresh, a \in Actors : StartFresh(f, a)
  \/ \E f \in Fresh : ReadFresh(f) \/ PutFresh(f) \/ ReleaseFresh(f)
  \/ \E k \in Keys, a \in Actors, j \in Jobs, n \in 1..Targets : Start(k, a, j, n)
  \/ \E k \in Keys : CompleteStart(k)
  \/ Alarm
  \/ Crash
  \/ Tick

\* An alarm that is due is delivered, again if its handler was lost; nothing else
\* has to happen.
Spec == Init /\ [][Next]_vars /\ WF_vars(Alarm)

----------------------------------------------------------------------------
(* Properties *)

\* No wake-up is lost: while a job runs, an alarm is set that will work on it, even
\* when the job was stored while the handler was busy with another one.
RunningIsArmed ==
  \A j \in Jobs : Running(j) => alarm # None /\ (worker.pc = "idle" => alarm <= now)

\* A snapshot, a job and an admission are deleted in time: while no handler runs,
\* the alarm is due by the time the first of them expires.
ExpiryIsArmed ==
  worker.pc = "idle" =>
    \A e \in snapshots \cup {records[j].expires : j \in {i \in Jobs : Stored(i)}}
             \cup {admission[a].expires : a \in {b \in Actors : admission[b] # None}} :
      alarm # None /\ (alarm <= e \/ alarm <= now)

\* A job that has ended does not keep its operator from starting the next one.
EndedJobFreesActor ==
  \A j \in Jobs, a \in Actors :
    Stored(j) /\ ~Running(j) => admission[a] = None \/ admission[a].active # j

\* An idempotency key starts one job, whatever was lost or repeated.
OneJobPerKey ==
  [][\A k \in Keys : idempotency[k] # None => idempotency'[k].job = idempotency[k].job]_vars

\* A read in progress keeps its operator's turn until it gives it back or its 24
\* hours are over: no other read's release, repeated after a crash, takes it away.
ClaimIsKept ==
  \A f \in Fresh :
    fresh[f].pc \in {"reading", "putting"} /\ now < fresh[f].started + TTL =>
      admission[fresh[f].actor] # None /\ admission[fresh[f].actor].active = f

\* Whoever releases, and however often, a turn belongs to the read that took it.
TurnsAreHeld == TypeOK /\ EndedJobFreesActor /\ ClaimIsKept
\* The one alarm of the object serves its jobs and its deadlines alike.
AlarmIsArmed == RunningIsArmed /\ ExpiryIsArmed

\* Every job is worked off, or expires, although the object may be evicted.
EveryJobEnds == \A j \in Jobs : Running(j) ~> ~Running(j)
=============================================================================
