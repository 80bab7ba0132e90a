------------------------- MODULE DeskReadbackProofs -------------------------
(* Theorems about DeskReadback, for any operators, jobs, reads, keys, numbers of
   targets and delays. *)
EXTENDS DeskReadback, WellFoundedInduction, TLAPS

\* The steps of the alarm handler in which it works on a job.
JobSteps == {"reading", "putting", "releasing", "saving"}

\* What the handlers rely on across their awaits.
HandlersAreSound ==
  /\ worker.pc \in JobSteps => worker.job \in Jobs /\ Running(worker.job)
  /\ \A f \in Fresh : fresh[f].pc # "new" => fresh[f].actor \in Actors
  /\ \A k \in Keys : starter[k] => idempotency[k] # None

\* A turn is held by the operator's own job, which has been stored before, and for no
\* more than 24 hours from now.
TurnsAreSound ==
  \A a \in Actors : admission[a] # None =>
    /\ admission[a].expires <= now + TTL
    /\ admission[a].active \in Jobs =>
         /\ records[admission[a].active] # None
         /\ Stored(admission[a].active) => records[admission[a].active].actor = a

\* The turn of a job whose last result is about to be stored has been given back.
LastResultIsFree ==
  worker.pc = "saving" /\ records[worker.job].pending = 1 =>
    \A a \in Actors : admission[a] # None => admission[a].active # worker.job

\* ClaimIsKept, with the time for which the claim holds.
ClaimsAreDated ==
  \A f \in Fresh :
    fresh[f].pc \in {"reading", "putting"} /\ now < fresh[f].started + TTL =>
      /\ admission[fresh[f].actor] # None
      /\ admission[fresh[f].actor].active = f
      /\ admission[fresh[f].actor].expires >= fresh[f].started + TTL

TurnInv == /\ TypeOK /\ HandlersAreSound /\ TurnsAreSound /\ LastResultIsFree
           /\ EndedJobFreesActor /\ ClaimsAreDated

\* The alarm of a busy handler, or of a running job, is due: the object works on even
\* when it is evicted now.
DueWhileBusy ==
  /\ worker.pc # "idle" => alarm # None /\ alarm <= now
  /\ \A j \in Jobs : Running(j) => alarm # None /\ alarm <= now

DeskInv == TurnInv /\ DueWhileBusy /\ ExpiryIsArmed

----------------------------------------------------------------------------
(* Times *)

\* The least element, by the order of the naturals being well-founded.
Less == {ss \in Nat \X Nat : ss[1] < ss[2]}

LEMMA NatMinimum ==
  ASSUME NEW S, S \subseteq Nat, S # {}
  PROVE  Min(S) \in S /\ \A x \in S : Min(S) <= x
<1>1. IsWellFoundedOn(Less, Nat)
  BY NatLessThanWellFounded DEF OpToRel, Less
<1>2. PICK m \in S : \A y \in S : ~(<<y, m>> \in Less)
  BY <1>1, WFMin
<1>3. ASSUME NEW y \in S PROVE m <= y
  <2>1. /\ <<y, m>> \in Nat \X Nat /\ <<y, m>>[1] = y /\ <<y, m>>[2] = m
        /\ m \in Int /\ y \in Int
    OBVIOUS
  <2>2. ~(y < m)
    BY <1>2, <2>1, Zenon DEF Less
  <2> QED BY <2>1, <2>2
<1> QED BY <1>3 DEF Min

\* Arming the alarm for a time never puts it off.
LEMMA AlarmByTime ==
  ASSUME alarm \in Nat \cup {None}, NEW time \in Nat
  PROVE  /\ AlarmBy(time) \in Nat /\ AlarmBy(time) <= time
         /\ alarm # None => AlarmBy(time) <= alarm
BY DeskNulls DEF AlarmBy

----------------------------------------------------------------------------
(* Turns *)

LEMMA DeskInitially == Init => DeskInv
<1> SUFFICES ASSUME Init PROVE DeskInv
  OBVIOUS
<1>1. TypeOK
  BY DeskTimes, DeskIds DEF Init, TypeOK
<1> QED BY <1>1, DeskTimes DEF Init, DeskInv, TurnInv, HandlersAreSound, TurnsAreSound, LastResultIsFree,
       EndedJobFreesActor, ClaimsAreDated, DueWhileBusy, ExpiryIsArmed, Stored, Running, JobSteps

\* The alarm that the handler leaves is due by the first thing there is to do.
LEMMA ClosingAlarm ==
  ASSUME TypeOK, Close
  PROVE  /\ admission' \in [Actors -> Admission \cup {None}]
         /\ alarm' \in Nat \cup {None}
         /\ \A j \in Jobs : Stored(j) =>
              alarm' # None /\ alarm' <= IF Running(j) THEN now ELSE records[j].expires
         /\ \A e \in snapshots : alarm' # None /\ alarm' <= e
         /\ \A a \in Actors : admission'[a] # None => alarm' # None /\ alarm' <= admission'[a].expires
<1> DEFINE ofJobs == {IF Running(j) THEN now ELSE records[j].expires : j \in {i \in Jobs : Stored(i)}}
           ofTurns == {admission'[a].expires : a \in {b \in Actors : admission'[b] # None}}
           due == ofJobs \cup snapshots \cup ofTurns
<1>1. /\ admission' = [a \in Actors |->
            IF admission[a] # None /\ admission[a].expires <= now THEN None ELSE admission[a]]
      /\ alarm' = IF due = {} THEN None ELSE Min(due)
  BY DEF Close
<1>2. admission' \in [Actors -> Admission \cup {None}]
  BY <1>1 DEF TypeOK
<1>3. now \in Nat /\ snapshots \subseteq Nat
  BY DEF TypeOK
<1>4. \A j \in Jobs : Stored(j) => records[j].expires \in Nat
  BY DEF TypeOK, Stored, Job
<1>5. \A a \in Actors : admission'[a] # None => admission'[a].expires \in Nat
  BY <1>2 DEF Admission
<1>6. due \subseteq Nat
  BY <1>3, <1>4, <1>5
<1>7. due # {} => alarm' \in Nat /\ \A x \in due : alarm' <= x
  <2> HIDE DEF due
  <2> QED BY <1>1, <1>6, NatMinimum
<1>8. alarm' \in Nat \cup {None}
  BY <1>1, <1>7
<1>9. \A x \in due : alarm' # None /\ alarm' <= x
  BY <1>7, DeskNulls
<1> HIDE DEF due
<1>10. ofJobs \subseteq due /\ snapshots \subseteq due /\ ofTurns \subseteq due
  BY DEF due
<1>11. \A j \in Jobs : Stored(j) => (IF Running(j) THEN now ELSE records[j].expires) \in ofJobs
  OBVIOUS
<1>12. \A a \in Actors : admission'[a] # None => admission'[a].expires \in ofTurns
  OBVIOUS
<1> HIDE DEF ofJobs, ofTurns
<1> QED BY <1>2, <1>8, <1>9, <1>10, <1>11, <1>12

LEMMA TypeStep == ASSUME TurnInv, [Next]_vars PROVE TypeOK'
<1> USE DEF TurnInv
<1>t. TypeOK
  OBVIOUS
<1>1. ASSUME NEW f \in Fresh, NEW a \in Actors, StartFresh(f, a) PROVE TypeOK'
  <2>1. alarm' \in Nat
    BY <1>t, <1>1, AlarmByTime, DeskTimes DEF StartFresh, TypeOK
  <2>2. admission' \in [Actors -> Admission \cup {None}]
    BY <1>t, <1>1, DeskTimes DEF StartFresh, Claimed, TypeOK, Admission, Ids
  <2> QED BY <1>t, <1>1, <2>1, <2>2 DEF StartFresh, TypeOK
<1>2. ASSUME NEW f \in Fresh, ReadFresh(f) PROVE TypeOK'
  BY <1>t, <1>2 DEF ReadFresh, TypeOK
<1>3. ASSUME NEW f \in Fresh, PutFresh(f) PROVE TypeOK'
  <2>1. alarm' \in Nat
    BY <1>t, <1>3, AlarmByTime, DeskTimes DEF PutFresh, TypeOK
  <2> QED BY <1>t, <1>3, <2>1, DeskTimes DEF PutFresh, TypeOK
<1>4. ASSUME NEW f \in Fresh, ReleaseFresh(f) PROVE TypeOK'
  <2>1. admission' \in [Actors -> Admission \cup {None}]
    BY <1>t, <1>4, DeskTimes DEF ReleaseFresh, Release, TypeOK, Admission
  <2> QED BY <1>t, <1>4, <2>1 DEF ReleaseFresh, TypeOK
<1>5. ASSUME NEW k \in Keys, NEW a \in Actors, NEW j \in Jobs, NEW n \in 1..Targets,
             Start(k, a, j, n)
      PROVE  TypeOK'
  <2>1. admission' \in [Actors -> Admission \cup {None}]
    BY <1>t, <1>5, DeskTimes DEF Start, Claimed, TypeOK, Admission, Ids
  <2>2. [actor |-> a, expires |-> now + TTL, pending |-> n, total |-> n] \in Job
    BY <1>t, DeskTimes, DeskJobs DEF Job, TypeOK
  <2>3. records' \in [Jobs -> Job \cup {None, Gone}]
    BY <1>t, <1>5, <2>2 DEF Start, TypeOK
  <2> QED BY <1>t, <1>5, <2>1, <2>3 DEF Start, TypeOK
<1>6. ASSUME NEW k \in Keys, CompleteStart(k) PROVE TypeOK'
  <2>1. idempotency[k] # None
    BY <1>6 DEF CompleteStart, HandlersAreSound
  <2>2. [idempotency[k] EXCEPT !.state = "complete"] \in [job : Jobs, state : {"pending", "complete"}]
    BY <1>t, <2>1 DEF TypeOK
  <2> QED BY <1>t, <1>6, <2>2 DEF CompleteStart, TypeOK
<1>7. CASE Fire
  <2> DEFINE live == {j \in Jobs : Stored(j) /\ records[j].expires > now}
             running == {j \in live : Running(j)}
  <2>1. running # {} => Min(running) \in Jobs
    BY NatMinimum, DeskJobs
  <2>2. worker' \in [pc : {"reading", "closing"}, job : Jobs \cup {None}]
    BY <1>7, <2>1 DEF Fire
  <2> QED BY <1>t, <1>7, <2>2 DEF Fire, TypeOK
<1>8. CASE ReadTarget
  BY <1>t, <1>8 DEF ReadTarget, TypeOK
<1>9. CASE PutSnapshot
  <2>1. alarm' \in Nat
    BY <1>t, <1>9, AlarmByTime, DeskTimes DEF PutSnapshot, TypeOK
  <2> QED BY <1>t, <1>9, <2>1, DeskTimes DEF PutSnapshot, TypeOK
<1>10. CASE ReleaseJob
  <2>1. admission' \in [Actors -> Admission \cup {None}]
    BY <1>t, <1>10, DeskTimes DEF ReleaseJob, Release, TypeOK, Admission
  <2> QED BY <1>t, <1>10, <2>1 DEF ReleaseJob, TypeOK
<1>11. CASE SaveJob
  <2>1. worker.job \in Jobs /\ Running(worker.job)
    BY <1>11 DEF SaveJob, HandlersAreSound, JobSteps
  <2>2. [records[worker.job] EXCEPT !.pending = @ - 1] \in Job
    BY <1>t, <2>1, DeskJobs DEF TypeOK, Running, Stored, Job
  <2> QED BY <1>t, <1>11, <2>1, <2>2 DEF SaveJob, TypeOK
<1>12. CASE Close
  BY <1>t, <1>12, ClosingAlarm DEF Close, TypeOK
<1>13. CASE Crash
  BY <1>t, <1>13 DEF Crash, TypeOK
<1>14. CASE Tick
  BY <1>t, <1>14 DEF Tick, TypeOK
<1>15. CASE UNCHANGED vars
  BY <1>t, <1>15 DEF vars, TypeOK
<1> QED BY <1>1, <1>2, <1>3, <1>4, <1>5, <1>6, <1>7, <1>8, <1>9, <1>10, <1>11, <1>12, <1>13, <1>14,
           <1>15 DEF Next, Alarm

LEMMA HandlersStep == ASSUME TurnInv, [Next]_vars PROVE HandlersAreSound'
<1> USE DEF TurnInv
<1>t. TypeOK /\ HandlersAreSound
  OBVIOUS
<1>1. ASSUME NEW f \in Fresh, NEW a \in Actors, StartFresh(f, a) PROVE HandlersAreSound'
  BY <1>t, <1>1 DEF StartFresh, HandlersAreSound, TypeOK, Running, Stored
<1>2. ASSUME NEW f \in Fresh, ReadFresh(f) PROVE HandlersAreSound'
  BY <1>t, <1>2 DEF ReadFresh, HandlersAreSound, TypeOK, Running, Stored
<1>3. ASSUME NEW f \in Fresh, PutFresh(f) PROVE HandlersAreSound'
  BY <1>t, <1>3 DEF PutFresh, HandlersAreSound, TypeOK, Running, Stored
<1>4. ASSUME NEW f \in Fresh, ReleaseFresh(f) PROVE HandlersAreSound'
  BY <1>t, <1>4 DEF ReleaseFresh, HandlersAreSound, TypeOK, Running, Stored
<1>5. ASSUME NEW k \in Keys, NEW a \in Actors, NEW j \in Jobs, NEW n \in 1..Targets,
             Start(k, a, j, n)
      PROVE  HandlersAreSound'
  BY <1>t, <1>5, DeskNulls DEF Start, HandlersAreSound, TypeOK, Running, Stored
<1>6. ASSUME NEW k \in Keys, CompleteStart(k) PROVE HandlersAreSound'
  <2>1. idempotency[k] # None
    BY <1>6 DEF CompleteStart, HandlersAreSound
  <2>2. idempotency'[k] \in [job : Jobs, state : {"pending", "complete"}]
    BY <1>t, <1>6, <2>1 DEF CompleteStart, TypeOK
  <2> QED BY <1>t, <1>6, <2>2, DeskNulls DEF CompleteStart, HandlersAreSound, TypeOK, Running, Stored
<1>7. CASE Fire
  <2> DEFINE live == {j \in Jobs : Stored(j) /\ records[j].expires > now}
             running == {j \in live : Running(j)}
  <2>1. running # {} => Min(running) \in running
    BY NatMinimum, DeskJobs
  <2>2. worker'.pc \in JobSteps => running # {} /\ worker'.job = Min(running)
    BY <1>7 DEF Fire, JobSteps
  <2>3. \A j \in running : records'[j] = records[j]
    BY <1>7 DEF Fire
  <2>4. worker'.pc \in JobSteps =>
          /\ worker'.job \in Jobs /\ records'[worker'.job] = records[worker'.job]
          /\ records[worker'.job] \notin {None, Gone} /\ records[worker'.job].pending > 0
    BY <2>1, <2>2, <2>3 DEF Running, Stored
  <2>5. UNCHANGED <<fresh, starter, idempotency>>
    BY <1>7 DEF Fire
  <2> HIDE DEF live, running
  <2> QED BY <1>t, <2>4, <2>5 DEF HandlersAreSound, Running, Stored
<1>8. CASE ReadTarget
  BY <1>t, <1>8 DEF ReadTarget, HandlersAreSound, TypeOK, Running, Stored, JobSteps
<1>9. CASE PutSnapshot
  BY <1>t, <1>9 DEF PutSnapshot, HandlersAreSound, TypeOK, Running, Stored, JobSteps
<1>10. CASE ReleaseJob
  BY <1>t, <1>10 DEF ReleaseJob, HandlersAreSound, TypeOK, Running, Stored, JobSteps
<1>11. CASE SaveJob
  BY <1>t, <1>11 DEF SaveJob, HandlersAreSound, JobSteps
<1>12. CASE Close
  BY <1>t, <1>12 DEF Close, HandlersAreSound, JobSteps
<1>13. CASE Crash
  BY <1>t, <1>13 DEF Crash, HandlersAreSound, TypeOK, JobSteps
<1>14. CASE Tick
  BY <1>t, <1>14 DEF Tick, HandlersAreSound, Running, Stored
<1>15. CASE UNCHANGED vars
  BY <1>t, <1>15 DEF vars, HandlersAreSound, Running, Stored
<1> QED BY <1>1, <1>2, <1>3, <1>4, <1>5, <1>6, <1>7, <1>8, <1>9, <1>10, <1>11, <1>12, <1>13, <1>14,
           <1>15 DEF Next, Alarm

TurnsMove == TurnsAreSound /\ LastResultIsFree /\ EndedJobFreesActor /\ ClaimsAreDated

\* A step that changes nothing a turn depends on.
LEMMA TurnsStand ==
  ASSUME TurnInv, UNCHANGED <<records, admission, now>>,
         \A f \in Fresh : fresh'[f].pc \in {"reading", "putting"} =>
           /\ fresh[f].pc \in {"reading", "putting"} /\ fresh'[f].started = fresh[f].started
           /\ fresh'[f].actor = fresh[f].actor,
         worker'.pc = "saving" /\ records[worker'.job].pending = 1 =>
           \A a \in Actors : admission[a] # None => admission[a].active # worker'.job
  PROVE  TurnsMove'
BY DEF TurnInv, TurnsMove, TurnsAreSound, LastResultIsFree, EndedJobFreesActor, ClaimsAreDated, Running,
       Stored

\* The claims on a turn that is taken: there is no job and no read in progress with it.
LEMMA TurnIsFree ==
  ASSUME TurnInv, NEW a \in Actors, CanClaim(a)
  PROVE  \A f \in Fresh : fresh[f].pc \in {"reading", "putting"} /\ fresh[f].actor = a =>
           now >= fresh[f].started + TTL
<1> SUFFICES ASSUME NEW f \in Fresh, fresh[f].pc \in {"reading", "putting"}, fresh[f].actor = a,
                    now < fresh[f].started + TTL
             PROVE  FALSE
  BY DeskTimes DEF TurnInv, TypeOK
<1>1. /\ admission[a] # None /\ admission[a].active = f
      /\ admission[a].expires >= fresh[f].started + TTL
  BY DEF TurnInv, ClaimsAreDated
<1>2. admission[a].expires > now
  BY <1>1, DeskTimes DEF TurnInv, TypeOK, Admission
<1> QED BY <1>1, <1>2, DeskIds DEF CanClaim

\* A release takes the turn only from the read or the job that releases.
LEMMA TurnIsGivenBack ==
  ASSUME TurnInv, NEW a \in Actors, NEW id \in Ids, Release(a, id), UNCHANGED <<records, now>>,
         id \in Fresh => fresh[id].pc \notin {"reading", "putting"},
         \A f \in Fresh : fresh'[f].pc \in {"reading", "putting"} => fresh'[f] = fresh[f]
  PROVE  /\ TurnsAreSound' /\ EndedJobFreesActor' /\ ClaimsAreDated'
         /\ \A b \in Actors : admission'[b] = admission[b] \/ admission'[b].active = None
         /\ admission'[a] # None => admission'[a].active # id
<1>t. TypeOK
  BY DEF TurnInv
<1>1. \A b \in Actors :
        \/ admission'[b] = admission[b] /\ ~(b = a /\ admission[a] # None /\ admission[a].active = id)
        \/ /\ b = a /\ admission[b] # None /\ admission[b].active = id
           /\ admission'[b] = [active |-> None, nextAllowed |-> now + Refresh, expires |-> now + TTL]
  BY <1>t DEF Release, TypeOK
<1>2. TurnsAreSound'
  BY <1>t, <1>1, DeskJobs, DeskTimes DEF TurnInv, TurnsAreSound, Stored, TypeOK
<1>3. EndedJobFreesActor'
  BY <1>1, DeskJobs DEF TurnInv, EndedJobFreesActor, Running, Stored
<1>4. ASSUME NEW f \in Fresh, fresh'[f].pc \in {"reading", "putting"}, now' < fresh'[f].started + TTL
      PROVE  admission'[fresh'[f].actor] = admission[fresh[f].actor] /\ fresh'[f] = fresh[f]
  <2>1. fresh'[f] = fresh[f] /\ fresh[f].actor \in Actors /\ f # id
    BY <1>4 DEF TurnInv, HandlersAreSound
  <2>2. admission[fresh[f].actor].active = f
    BY <1>4, <2>1 DEF TurnInv, ClaimsAreDated
  <2> QED BY <1>1, <2>1, <2>2
<1>5. ClaimsAreDated'
  BY <1>4 DEF TurnInv, ClaimsAreDated
<1> QED BY <1>1, <1>2, <1>3, <1>5, DeskIds, DeskJobs DEF Ids

LEMMA TurnsStep == ASSUME TurnInv, [Next]_vars PROVE TurnsMove'
<1> USE DEF TurnInv
<1>t. TypeOK
  OBVIOUS
<1>1. ASSUME NEW f \in Fresh, NEW a \in Actors, StartFresh(f, a) PROVE TurnsMove'
  <2>1. admission'[a] = [active |-> f, nextAllowed |-> now + Refresh, expires |-> now + TTL]
    BY <1>t, <1>1 DEF StartFresh, Claimed, TypeOK
  <2>2. \A b \in Actors \ {a} : admission'[b] = admission[b]
    BY <1>t, <1>1 DEF StartFresh, Claimed, TypeOK
  <2>3. UNCHANGED <<records, worker, now>> /\ f \notin Jobs
    BY <1>1, DeskIds DEF StartFresh
  <2>4. TurnsAreSound'
    BY <1>t, <2>1, <2>2, <2>3, DeskTimes DEF TurnsAreSound, TypeOK, Stored
  <2>5. LastResultIsFree'
    BY <2>1, <2>2, <2>3 DEF LastResultIsFree, HandlersAreSound, JobSteps
  <2>6. EndedJobFreesActor'
    BY <2>1, <2>2, <2>3 DEF EndedJobFreesActor, Running, Stored
  <2>7. ClaimsAreDated'
    <3> SUFFICES ASSUME NEW g \in Fresh, fresh'[g].pc \in {"reading", "putting"},
                        now < fresh'[g].started + TTL
                 PROVE  /\ admission'[fresh'[g].actor] # None
                        /\ admission'[fresh'[g].actor].active = g
                        /\ admission'[fresh'[g].actor].expires >= fresh'[g].started + TTL
      BY <2>3 DEF ClaimsAreDated
    <3>1. CASE g = f
      <4>1. fresh'[g] = [pc |-> "reading", actor |-> a, started |-> now]
        BY <1>t, <1>1, <3>1 DEF StartFresh, TypeOK
      <4>2. admission'[a] \in Admission
        BY <1>t, <2>1, DeskTimes DEF TypeOK, Admission, Ids
      <4>3. admission'[a] # None
        BY <4>2, DeskNulls DEF Admission, Ids
      <4> QED BY <1>t, <3>1, <4>1, <4>3, <2>1, DeskTimes DEF TypeOK
    <3>2. CASE g # f
      <4>1. fresh'[g] = fresh[g]
        BY <1>t, <1>1, <3>2 DEF StartFresh, TypeOK
      <4>2. fresh[g].actor # a
        BY <1>t, <1>1, <4>1, TurnIsFree, DeskTimes DEF StartFresh, TypeOK
      <4>3. fresh[g].actor \in Actors
        BY <4>1 DEF HandlersAreSound
      <4> QED BY <2>2, <4>1, <4>2, <4>3 DEF ClaimsAreDated
    <3> QED BY <3>1, <3>2
  <2> QED BY <2>4, <2>5, <2>6, <2>7 DEF TurnsMove
<1>2. ASSUME NEW f \in Fresh, ReadFresh(f) PROVE TurnsMove'
  BY <1>t, <1>2, TurnsStand DEF ReadFresh, TypeOK, LastResultIsFree
<1>3. ASSUME NEW f \in Fresh, PutFresh(f) PROVE TurnsMove'
  BY <1>t, <1>3, TurnsStand DEF PutFresh, TypeOK, LastResultIsFree
<1>4. ASSUME NEW f \in Fresh, ReleaseFresh(f) PROVE TurnsMove'
  <2>1. fresh[f].actor \in Actors
    BY <1>4 DEF ReleaseFresh, HandlersAreSound
  <2>2. /\ Release(fresh[f].actor, f) /\ UNCHANGED <<records, now, worker>>
        /\ fresh[f].pc \notin {"reading", "putting"}
        /\ \A g \in Fresh : fresh'[g].pc \in {"reading", "putting"} => fresh'[g] = fresh[g]
    BY <1>t, <1>4 DEF ReleaseFresh, TypeOK
  <2>3. /\ TurnsAreSound' /\ EndedJobFreesActor' /\ ClaimsAreDated'
        /\ \A b \in Actors : admission'[b] = admission[b] \/ admission'[b].active = None
    BY <2>1, <2>2, TurnIsGivenBack DEF Ids
  <2>4. LastResultIsFree'
    BY <2>2, <2>3, DeskJobs DEF LastResultIsFree, HandlersAreSound, JobSteps
  <2> QED BY <2>3, <2>4 DEF TurnsMove
<1>5. ASSUME NEW k \in Keys, NEW a \in Actors, NEW j \in Jobs, NEW n \in 1..Targets,
             Start(k, a, j, n)
      PROVE  TurnsMove'
  <2>1. admission'[a] = [active |-> j, nextAllowed |-> now + Refresh, expires |-> now + TTL]
    BY <1>t, <1>5 DEF Start, Claimed, TypeOK
  <2>2. \A b \in Actors \ {a} : admission'[b] = admission[b]
    BY <1>t, <1>5 DEF Start, Claimed, TypeOK
  <2>3. UNCHANGED <<fresh, worker, now>> /\ records[j] = None
    BY <1>5 DEF Start
  <2>4. records'[j] = [actor |-> a, expires |-> now + TTL, pending |-> n, total |-> n]
    BY <1>t, <1>5 DEF Start, TypeOK
  <2>5. \A i \in Jobs \ {j} : records'[i] = records[i]
    BY <1>t, <1>5 DEF Start, TypeOK
  <2>6. records'[j] \in Job
    BY <1>t, <2>4, DeskTimes, DeskJobs DEF TypeOK, Job
  <2>7. records'[j] # None /\ records'[j] # Gone
    BY <2>6, DeskNulls DEF Job
  <2>8. \A b \in Actors : admission[b] # None => admission[b].active # j
    BY <2>3 DEF TurnsAreSound
  <2>9. TurnsAreSound'
    BY <1>t, <2>1, <2>2, <2>3, <2>4, <2>5, <2>7, <2>8, DeskTimes DEF TurnsAreSound, TypeOK, Stored
  <2>10. LastResultIsFree'
    BY <2>1, <2>2, <2>3, <2>5, DeskNulls DEF LastResultIsFree, HandlersAreSound, JobSteps, Running, Stored
  <2>11. EndedJobFreesActor'
    BY <2>1, <2>2, <2>4, <2>5 DEF EndedJobFreesActor, Running, Stored
  <2>12. ClaimsAreDated'
    <3> SUFFICES ASSUME NEW g \in Fresh, fresh[g].pc \in {"reading", "putting"},
                        now < fresh[g].started + TTL
                 PROVE  fresh[g].actor \in Actors \ {a}
      BY <2>2, <2>3 DEF ClaimsAreDated
    <3> QED BY <1>t, <1>5, TurnIsFree, DeskTimes DEF Start, TypeOK, HandlersAreSound
  <2> QED BY <2>9, <2>10, <2>11, <2>12 DEF TurnsMove
<1>6. ASSUME NEW k \in Keys, CompleteStart(k) PROVE TurnsMove'
  BY <1>t, <1>6, TurnsStand DEF CompleteStart, TypeOK, LastResultIsFree
<1>7. CASE Fire
  <2>1. UNCHANGED <<admission, fresh, now>>
    BY <1>7 DEF Fire
  <2>2. \A j \in Jobs :
          \/ records'[j] = records[j]
          \/ records'[j] = Gone /\ Stored(j)
    BY <1>7 DEF Fire
  <2>3. worker'.pc # "saving"
    BY <1>7 DEF Fire
  <2>4. TurnsAreSound'
    BY <2>1, <2>2, DeskNulls DEF TurnsAreSound, Stored
  <2>5. EndedJobFreesActor'
    BY <2>1, <2>2 DEF EndedJobFreesActor, Running, Stored
  <2> QED BY <2>1, <2>3, <2>4, <2>5 DEF TurnsMove, LastResultIsFree, ClaimsAreDated
<1>8. CASE ReadTarget
  BY <1>t, <1>8, TurnsStand DEF ReadTarget, TypeOK, LastResultIsFree
<1>9. CASE PutSnapshot
  BY <1>t, <1>9, TurnsStand DEF PutSnapshot, TypeOK
<1>10. CASE ReleaseJob
  <2>1. worker.job \in Jobs /\ Running(worker.job)
    BY <1>10 DEF ReleaseJob, HandlersAreSound, JobSteps
  <2>2. records[worker.job].actor \in Actors
    BY <1>t, <2>1 DEF Running, Stored, TypeOK, Job
  <2>3. /\ Release(records[worker.job].actor, worker.job) /\ UNCHANGED <<records, now, fresh>>
        /\ worker'.job = worker.job
    BY <1>t, <1>10 DEF ReleaseJob, TypeOK
  <2>4. /\ TurnsAreSound' /\ EndedJobFreesActor' /\ ClaimsAreDated'
        /\ \A b \in Actors : admission'[b] = admission[b] \/ admission'[b].active = None
        /\ LET a == records[worker.job].actor
           IN admission'[a] # None => admission'[a].active # worker.job
    BY <2>1, <2>2, <2>3, TurnIsGivenBack, DeskIds DEF Ids
  <2>5. \A b \in Actors \ {records[worker.job].actor} :
          admission[b] # None => admission[b].active # worker.job
    BY <2>1 DEF TurnsAreSound, Running
  <2>6. LastResultIsFree'
    BY <2>1, <2>3, <2>4, <2>5, DeskJobs DEF LastResultIsFree
  <2> QED BY <2>4, <2>6 DEF TurnsMove
<1>11. CASE SaveJob
  <2>1. worker.job \in Jobs /\ Running(worker.job)
    BY <1>11 DEF SaveJob, HandlersAreSound, JobSteps
  <2>2. /\ records'[worker.job] \in Job
        /\ records'[worker.job].actor = records[worker.job].actor
        /\ records'[worker.job].pending = records[worker.job].pending - 1
    BY <1>t, <1>11, <2>1, DeskJobs DEF SaveJob, TypeOK, Running, Stored, Job
  <2>3. records'[worker.job] # None
    BY <2>2, DeskNulls DEF Job
  <2>4. \A j \in Jobs \ {worker.job} : records'[j] = records[j]
    BY <1>t, <1>11 DEF SaveJob, TypeOK
  <2>5. UNCHANGED <<admission, fresh, now>> /\ worker'.pc = "closing" /\ worker.pc = "saving"
    BY <1>11 DEF SaveJob
  <2>6. TurnsAreSound'
    BY <2>1, <2>2, <2>3, <2>4, <2>5 DEF TurnsAreSound, Running, Stored
  <2>7. records'[worker.job].pending = 0 => records[worker.job].pending = 1
    BY <1>t, <2>1, <2>2 DEF TypeOK, Running, Stored, Job
  <2>8. records'[worker.job].pending \in Nat
    BY <2>2, DeskJobs DEF Job
  <2>9. EndedJobFreesActor'
    BY <2>1, <2>4, <2>5, <2>7, <2>8 DEF EndedJobFreesActor, LastResultIsFree, Running, Stored
  <2> QED BY <2>5, <2>6, <2>9 DEF TurnsMove, LastResultIsFree, ClaimsAreDated
<1>12. CASE Close
  <2>1. \A a \in Actors :
          \/ admission'[a] = admission[a]
          \/ admission'[a] = None /\ admission[a] # None /\ admission[a].expires <= now
    BY <1>12 DEF Close
  <2>2. UNCHANGED <<records, fresh, now>> /\ worker'.pc = "idle"
    BY <1>12 DEF Close
  <2>3. ClaimsAreDated'
    <3> SUFFICES ASSUME NEW f \in Fresh, fresh[f].pc \in {"reading", "putting"},
                        now < fresh[f].started + TTL
                 PROVE  admission'[fresh[f].actor] = admission[fresh[f].actor]
      BY <2>2 DEF ClaimsAreDated
    <3>1. /\ admission[fresh[f].actor] # None
          /\ admission[fresh[f].actor].expires >= fresh[f].started + TTL
          /\ fresh[f].actor \in Actors
      BY DEF ClaimsAreDated, HandlersAreSound
    <3> QED BY <1>t, <2>1, <3>1, DeskTimes DEF TypeOK, Admission
  <2> QED BY <2>1, <2>2, <2>3 DEF TurnsMove, TurnsAreSound, LastResultIsFree, EndedJobFreesActor, Running,
             Stored
<1>13. CASE Crash
  BY <1>t, <1>13, TurnsStand DEF Crash, TypeOK
<1>14. CASE Tick
  BY <1>t, <1>14, DeskTimes DEF Tick, TurnsMove, TurnsAreSound, LastResultIsFree, EndedJobFreesActor,
     ClaimsAreDated, Running, Stored, TypeOK, Admission
<1>15. CASE UNCHANGED vars
  BY <1>t, <1>15, TurnsStand DEF vars, LastResultIsFree
<1> QED BY <1>1, <1>2, <1>3, <1>4, <1>5, <1>6, <1>7, <1>8, <1>9, <1>10, <1>11, <1>12, <1>13, <1>14,
           <1>15 DEF Next, Alarm

----------------------------------------------------------------------------
(* The alarm *)

\* While no alarm is put off and no job starts, what was due stays due.
LEMMA DueStays ==
  ASSUME DeskInv, alarm # None => alarm' # None /\ alarm' <= alarm, now' = now,
         worker'.pc # "idle" => worker.pc # "idle",
         \A j \in Jobs : Running(j)' => Running(j),
         alarm \in Nat \cup {None}, alarm' \in Nat \cup {None}, now \in Nat
  PROVE  DueWhileBusy'
BY DeskNulls DEF DeskInv, DueWhileBusy

LEMMA DueStep == ASSUME DeskInv, [Next]_vars PROVE DueWhileBusy'
<1> USE DEF DeskInv
<1>t. TypeOK /\ TypeOK'
  BY TypeStep DEF TurnInv
<1>n. /\ alarm \in Nat \cup {None} /\ alarm' \in Nat \cup {None}
      /\ now \in Nat /\ now' \in Nat /\ TTL \in Nat /\ now + TTL \in Nat
  BY <1>t, DeskTimes DEF TypeOK
<1>1. ASSUME NEW f \in Fresh, NEW a \in Actors, StartFresh(f, a) PROVE DueWhileBusy'
  BY <1>n, <1>1, AlarmByTime, DueStays, DeskNulls DEF StartFresh, Running, Stored
<1>2. ASSUME NEW f \in Fresh, ReadFresh(f) \/ ReleaseFresh(f) PROVE DueWhileBusy'
  BY <1>n, <1>2, DueStays DEF ReadFresh, ReleaseFresh, Running, Stored
<1>3. ASSUME NEW f \in Fresh, PutFresh(f) PROVE DueWhileBusy'
  BY <1>n, <1>3, AlarmByTime, DueStays, DeskNulls DEF PutFresh, Running, Stored
<1>5. ASSUME NEW k \in Keys, NEW a \in Actors, NEW j \in Jobs, NEW n \in 1..Targets,
             Start(k, a, j, n)
      PROVE  DueWhileBusy'
  BY <1>n, <1>5, DeskNulls DEF Start, DueWhileBusy
<1>6. ASSUME NEW k \in Keys, CompleteStart(k) PROVE DueWhileBusy'
  BY <1>n, <1>6, DueStays DEF CompleteStart, Running, Stored
<1>7. CASE Fire
  BY <1>n, <1>7, DeskNulls DEF Fire, DueWhileBusy
<1>8. CASE ReadTarget \/ ReleaseJob
  BY <1>n, <1>8, DueStays DEF ReadTarget, ReleaseJob, Running, Stored
<1>9. CASE PutSnapshot
  BY <1>n, <1>9, AlarmByTime, DueStays, DeskNulls DEF PutSnapshot, Running, Stored
<1>11. CASE SaveJob
  <2>1. alarm # None /\ alarm <= now
    BY <1>11 DEF SaveJob, DueWhileBusy
  <2> QED BY <1>11, <2>1 DEF SaveJob, DueWhileBusy
<1>12. CASE Close
  <2>1. ASSUME NEW j \in Jobs, Running(j) PROVE alarm' # None /\ alarm' <= now
    BY <1>t, <1>12, <2>1, ClosingAlarm DEF Running
  <2> QED BY <1>12, <2>1 DEF Close, DueWhileBusy, Running, Stored
<1>13. CASE Crash
  BY <1>n, <1>13, DueStays DEF Crash, Running, Stored
<1>14. CASE Tick
  BY <1>n, <1>14, DeskNulls DEF Tick, DueWhileBusy, Running, Stored
<1>15. CASE UNCHANGED vars
  BY <1>n, <1>15, DueStays DEF vars, Running, Stored
<1> QED BY <1>1, <1>2, <1>3, <1>5, <1>6, <1>7, <1>8, <1>9, <1>11, <1>12, <1>13, <1>14, <1>15
        DEF Next, Alarm

\* Deadlines that stand, and new ones that the alarm is set for, are kept.
LEMMA ExpiryStands ==
  ASSUME DeskInv, TypeOK', UNCHANGED <<records, now>>,
         alarm # None => alarm' # None /\ alarm' <= alarm,
         worker'.pc = "idle" => worker.pc = "idle",
         \A e \in snapshots' \ snapshots : alarm' # None /\ alarm' <= e,
         \A a \in Actors : admission'[a] # None /\ admission'[a] # admission[a] =>
           alarm' # None /\ (alarm' <= admission'[a].expires \/ alarm' <= now)
  PROVE  ExpiryIsArmed'
<1> DEFINE Deadlines == snapshots' \cup {records[j].expires : j \in {i \in Jobs : Stored(i)}}
                        \cup {admission'[a].expires : a \in {b \in Actors : admission'[b] # None}}
<1>1. TypeOK
  BY DEF DeskInv, TurnInv
<1>2. alarm \in Nat \cup {None} /\ alarm' \in Nat \cup {None} /\ now \in Nat
  BY <1>1 DEF TypeOK
<1>3. Deadlines \subseteq Nat
  <2>1. \A j \in Jobs : Stored(j) => records[j].expires \in Nat
    BY <1>1 DEF TypeOK, Stored, Job
  <2>2. \A a \in Actors : admission'[a] # None => admission'[a].expires \in Nat
    BY DEF TypeOK, Admission
  <2> QED BY <2>1, <2>2 DEF TypeOK
<1> QED BY <1>2, <1>3, DeskNulls DEF DeskInv, ExpiryIsArmed, Stored

LEMMA ExpiryStep == ASSUME DeskInv, [Next]_vars PROVE ExpiryIsArmed'
<1> USE DEF DeskInv
<1>t. TypeOK /\ TypeOK'
  BY TypeStep DEF TurnInv
<1>n. /\ alarm \in Nat \cup {None} /\ alarm' \in Nat \cup {None}
      /\ now \in Nat /\ now' \in Nat /\ TTL \in Nat /\ now + TTL \in Nat
  BY <1>t, DeskTimes DEF TypeOK
<1>1. ASSUME NEW f \in Fresh, NEW a \in Actors, StartFresh(f, a) PROVE ExpiryIsArmed'
  <2>1. /\ alarm' # None /\ alarm' <= now + TTL
        /\ alarm # None => alarm' <= alarm
    BY <1>n, <1>1, AlarmByTime, DeskNulls DEF StartFresh
  <2>2. \A b \in Actors : admission'[b] # admission[b] => admission'[b].expires = now + TTL
    BY <1>t, <1>1 DEF StartFresh, Claimed, TypeOK
  <2>3. UNCHANGED <<records, now, worker, snapshots>>
    BY <1>1 DEF StartFresh
  <2> QED BY <1>t, <2>1, <2>2, <2>3, ExpiryStands
<1>2. ASSUME NEW f \in Fresh, ReadFresh(f) PROVE ExpiryIsArmed'
  BY <1>t, <1>n, <1>2, ExpiryStands DEF ReadFresh
<1>3. ASSUME NEW f \in Fresh, PutFresh(f) PROVE ExpiryIsArmed'
  BY <1>t, <1>n, <1>3, AlarmByTime, ExpiryStands, DeskNulls DEF PutFresh
<1>4. ASSUME NEW f \in Fresh, ReleaseFresh(f) PROVE ExpiryIsArmed'
  <2>1. UNCHANGED <<records, now, worker, snapshots, alarm>>
    BY <1>4 DEF ReleaseFresh
  <2>2. CASE worker.pc = "idle"
    <3>1. ASSUME NEW b \in Actors, admission'[b] # admission[b]
          PROVE  alarm # None /\ (alarm <= admission'[b].expires \/ alarm <= now)
      <4>1. admission'[b].expires = now + TTL /\ admission[b] # None
        BY <1>t, <1>4, <3>1 DEF ReleaseFresh, Release, TypeOK
      <4>2. admission[b].expires \in Nat /\ admission[b].expires <= now + TTL
        BY <1>t, <4>1 DEF TypeOK, Admission, TurnInv, TurnsAreSound
      <4>3. alarm # None /\ (alarm <= admission[b].expires \/ alarm <= now)
        BY <2>2, <4>1 DEF ExpiryIsArmed
      <4> QED BY <1>n, <4>1, <4>2, <4>3
    <3> QED BY <1>t, <1>n, <2>1, <3>1, ExpiryStands
  <2>3. CASE worker.pc # "idle"
    BY <2>1, <2>3 DEF ExpiryIsArmed
  <2> QED BY <2>2, <2>3
<1>5. ASSUME NEW k \in Keys, NEW a \in Actors, NEW j \in Jobs, NEW n \in 1..Targets,
             Start(k, a, j, n)
      PROVE  ExpiryIsArmed'
  BY <1>n, <1>5, DeskNulls DEF Start, ExpiryIsArmed
<1>6. ASSUME NEW k \in Keys, CompleteStart(k) PROVE ExpiryIsArmed'
  BY <1>t, <1>n, <1>6, ExpiryStands DEF CompleteStart
<1>7. CASE Fire \/ ReadTarget \/ PutSnapshot \/ ReleaseJob \/ SaveJob
  <2>1. worker'.pc # "idle"
    <3>1. CASE Fire
      BY <3>1 DEF Fire
    <3>2. CASE ReadTarget \/ PutSnapshot \/ ReleaseJob \/ SaveJob
      BY <1>t, <3>2 DEF ReadTarget, PutSnapshot, ReleaseJob, SaveJob, TypeOK
    <3> QED BY <1>7, <3>1, <3>2
  <2> QED BY <2>1 DEF ExpiryIsArmed
<1>12. CASE Close
  <2>1. UNCHANGED <<records, now, snapshots>>
    BY <1>12 DEF Close
  <2>2. \A j \in Jobs : Stored(j) => alarm' # None /\ (alarm' <= now \/ alarm' <= records[j].expires)
    BY <1>t, <1>12, ClosingAlarm
  <2>3. \A e \in snapshots : alarm' # None /\ alarm' <= e
    BY <1>t, <1>12, ClosingAlarm
  <2>4. \A a \in Actors : admission'[a] # None => alarm' # None /\ alarm' <= admission'[a].expires
    BY <1>t, <1>12, ClosingAlarm
  <2> QED BY <2>1, <2>2, <2>3, <2>4 DEF ExpiryIsArmed, Stored
<1>13. CASE Crash
  <2>1. UNCHANGED <<records, snapshots, admission, alarm, now>>
    BY <1>13 DEF Crash
  <2> QED BY <2>1 DEF DueWhileBusy, ExpiryIsArmed, Stored
<1>14. CASE Tick
  BY <1>n, <1>14, DeskNulls DEF Tick, ExpiryIsArmed, Stored
<1>15. CASE UNCHANGED vars
  BY <1>t, <1>n, <1>15, ExpiryStands DEF vars
<1> QED BY <1>1, <1>2, <1>3, <1>4, <1>5, <1>6, <1>7, <1>12, <1>13, <1>14, <1>15 DEF Next, Alarm

----------------------------------------------------------------------------
(* Theorems *)

\* The object's invariant: what the handlers rely on, whose turn it is, and what the
\* alarm is set for.
THEOREM DeskInvariant == Spec => []DeskInv
<1>1. DeskInv /\ [Next]_vars => DeskInv'
  BY TypeStep, HandlersStep, TurnsStep, DueStep, ExpiryStep DEF DeskInv, TurnInv, TurnsMove
<1> QED BY <1>1, DeskInitially, PTL DEF Spec

\* For any operators, jobs, reads, delays and evictions, a turn is kept until its own
\* read gives it back, and an ended job has given it back (claim, release, alarm).
THEOREM TurnsHold == Spec => []TurnsAreHeld
<1>1. DeskInv => TurnsAreHeld
  BY DeskTimes DEF DeskInv, TurnInv, TurnsAreHeld, ClaimIsKept, ClaimsAreDated
<1> QED BY <1>1, DeskInvariant, PTL

\* No wake-up is lost: whatever runs is worked on, and whatever expires is deleted, by
\* the one alarm that is set (claim, desk_readback_put, alarm).
THEOREM AlarmHolds == Spec => []AlarmIsArmed
<1>1. DeskInv => AlarmIsArmed
  BY DEF DeskInv, DueWhileBusy, AlarmIsArmed, RunningIsArmed
<1> QED BY <1>1, DeskInvariant, PTL

\* A key starts one job: a replay, a crash and a late completion keep it (withIdempotency).
THEOREM KeyHolds == Spec => OneJobPerKey
<1> DEFINE Keeps == \A k \in Keys : idempotency[k] # None => idempotency'[k].job = idempotency[k].job
<1>1. DeskInv /\ [Next]_vars => Keeps
  <2> SUFFICES ASSUME DeskInv, [Next]_vars PROVE Keeps
    OBVIOUS
  <2>1. TypeOK
    BY DEF DeskInv, TurnInv
  <2>2. ASSUME NEW k \in Keys, NEW a \in Actors, NEW j \in Jobs, NEW n \in 1..Targets,
               Start(k, a, j, n)
        PROVE  Keeps
    BY <2>1, <2>2 DEF Start, TypeOK
  <2>3. ASSUME NEW k \in Keys, CompleteStart(k) PROVE Keeps
    BY <2>1, <2>3 DEF CompleteStart, TypeOK
  <2>4. CASE UNCHANGED idempotency
    BY <2>4
  <2> QED BY <2>2, <2>3, <2>4 DEF Next, Alarm, StartFresh, ReadFresh, PutFresh, ReleaseFresh, Fire,
             ReadTarget, PutSnapshot, ReleaseJob, SaveJob, Close, Crash, Tick, vars
<1>2. DeskInv /\ [Next]_vars => [Keeps]_vars
  BY <1>1
<1> QED BY <1>2, DeskInvariant, PTL DEF Spec, OneJobPerKey
=============================================================================
