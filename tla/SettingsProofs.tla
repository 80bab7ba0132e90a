---------------------------- MODULE SettingsProofs ----------------------------
(* Lemmas about the writers of runtime settings and the switch of a target, for any *)
(* layouts, manifests, jobs, requests, catalogues and inventories.                  *)
EXTENDS SettingsWriters, SwitchTarget, FiniteSetTheorems, SequenceTheorems, WellFoundedInduction, TLAPS

-----------------------------------------------------------------------------
(* The writers of a platform's settings.                                          *)

\* The settings of one level, what a job has read, and a variable it may write.
LevelIs(v) ==
  /\ v = [n \in VariableNames |-> v[n]]
  /\ v["inventory"] # Absent => IsBook(v["inventory"])
GhIs(g) == g = [level \in Levels |-> g[level]] /\ \A level \in Levels : LevelIs(g[level])
ReadIs(r) ==
  /\ GhIs(r)
  /\ site.scope = "repository" => r["environment"] = [n \in VariableNames |-> Absent]
SameOthers(a, b) == DOMAIN a = DOMAIN b /\ \A k \in DOMAIN b \ {Own} : a[k] = b[k]
WriteIs(w) ==
  /\ w.level \in Levels /\ w.name \in VariableNames \ {"service"}
  /\ w.name = "inventory" => IsBook(w.value) /\ gh[w.level]["inventory"] # Absent
JobIs(x) == x = [kind |-> x.kind, pc |-> x.pc, half |-> x.half, read |-> x.read, plan |-> x.plan, asked |-> x.asked,
                 clean |-> x.clean, at |-> x.at, known |-> x.known, outcome |-> x.outcome]

\* Which kinds of job take which steps, and from the first variable on.
PcFits(x) ==
  /\ x.pc \in {"idle", "preflight", "read", "fetch", "verify", "consume", "compare", "write", "read back", "unread",
               "dispatch hk", "dispatch", "poll", "done"}
  /\ x.kind \in Grouped \cup {"none", "profile"} /\ (x.pc # "idle" => x.kind # "none")
  /\ x.pc # "done" => x.outcome = "none"
  /\ x.pc \in {"fetch", "verify", "consume"} => x.kind = "switch"
  /\ x.pc \in {"preflight", "dispatch", "poll"} => x.kind \in AdoptKinds
  /\ x.pc \in {"read", "compare", "unread", "dispatch hk"} => x.kind # "switch"
  /\ x.pc \in {"preflight", "read", "fetch", "verify", "consume", "compare"} => x.at = 0
\* What a job is to write are variables, and a first one is left to be written.
PlanIsWritable(x) ==
  x.pc \in {"verify", "consume", "compare", "write", "read back"} =>
    /\ Len(x.plan) \in Nat \ {0} /\ DOMAIN x.plan = 1 .. Len(x.plan)
    /\ \A i \in 1 .. Len(x.plan) : WriteIs(x.plan[i])
    /\ x.at \in Nat /\ (x.pc = "write" => x.at < Len(x.plan))
\* The plan is the one the request asks for, made of what the job read.
TurnOf(kind) == IF kind = "enable" THEN "true" ELSE "false"
PlanIsAsked(x) ==
  x.pc \in {"compare", "write", "read back"} =>
    /\ x.kind \in {"stop", "hk stop"} \cup AdoptKinds =>
         ReadIs(x.read) /\ TargetIsOwn(Merged(x.read)) /\ x.plan = EnabledPlan(x.read, TurnOf(x.kind))
    /\ x.kind = "resume" => /\ ReadIs(x.read) /\ site.platform \in {"longbridge", "binance"}
                            /\ x.plan = <<Put(site.scope, "enabled", "true")>>
                            /\ x.read[site.scope]["inventory"] = Absent /\ x.read[site.scope]["enabled"] = "false"
    /\ x.kind = "profile" => \A i \in 1 .. Len(x.plan) : x.plan[i].name # "inventory" /\ x.plan[i].level = site.scope
AskedFits(x) ==
  /\ x.kind = "resume" => site.platform \in {"longbridge", "binance"}
  /\ x.kind = "switch" => x.asked.profile \in Profiles
\* What the job of nobody's interference writes holds the other accounts as they are.
PlanIsClean(x) ==
  x.clean /\ x.pc \in {"verify", "consume", "write"} =>
    \A i \in 1 .. Len(x.plan) :
      x.plan[i].name = "inventory" => SameOthers(x.plan[i].value, gh[x.plan[i].level]["inventory"])
\* A switch past its verification has a signature, and past its consumption the id.
PlanIsSigned(j, x) ==
  x.kind = "switch" =>
    /\ x.pc = "consume" => x.asked.id \in DOMAIN signed /\ signed[x.asked.id].plan = x.plan
    /\ x.pc \in {"write", "read back"} => /\ <<x.asked.id, j>> \in ledger /\ x.asked.id \in DOMAIN signed
                                          /\ signed[x.asked.id].plan = x.plan
NothingSent(j, x) == x.pc \notin {"poll", "done"} => \A r \in runs : r.job # j
\* What a job has read of the repository is what is there, while nobody else writes.
HalfFits(x) ==
  x.half # Absent =>
    /\ x.pc \in {"read", "compare", "read back"} /\ site.scope = "environment" /\ LevelIs(x.half)
    /\ x.half["inventory"] = Absent <=> gh["repository"]["inventory"] = Absent
    /\ x.clean /\ x.kind # "profile" => x.half = gh["repository"]
JobStands(j, x) ==
  /\ JobIs(x) /\ PcFits(x) /\ PlanIsWritable(x) /\ PlanIsAsked(x) /\ AskedFits(x) /\ PlanIsClean(x)
  /\ PlanIsSigned(j, x) /\ NothingSent(j, x) /\ HalfFits(x)

Busy(x) == x.kind \in Grouped /\ x.pc \notin {"idle", "done"}
OneAtATime == \A i, j \in WriterJobs : Busy(jobs[i]) /\ Busy(jobs[j]) => i = j
SettingsAre ==
  /\ site.scope \in Levels /\ GhIs(gh)
  /\ signed = [id \in DOMAIN signed |-> [plan |-> signed[id].plan, fresh |-> signed[id].fresh]]
RunsAre ==
  /\ \A r \in runs : r = [job |-> r.job, attempt |-> r.attempt, result |-> r.result]
  /\ \A r, s \in runs : r.job = s.job => r = s
LedgerIs == \A c, d \in ledger : c[1] = d[1] => c = d
WriterInv ==
  /\ SettingsAre /\ RunsAre /\ LedgerIs /\ OneAtATime
  /\ jobs = [j \in WriterJobs |-> jobs[j]] /\ \A j \in WriterJobs : JobStands(j, jobs[j])

LEMMA FlagsAre == Absent # "true" /\ Absent # "false" /\ Absent # Own
  BY WriterAssumption

LEMMA NamesAre == ASSUME NEW level \in Levels PROVE level = "repository" \/ level = "environment"
  BY DEF Levels

\* A variable that is written keeps the settings well formed, an inventory where
\* there is one, and the names of services.
Replaces(g, h) ==
  /\ GhIs(h)
  /\ \A level \in Levels : /\ h[level]["inventory"] = Absent <=> g[level]["inventory"] = Absent
                           /\ h[level]["service"] = g[level]["service"]
PutWhere(w) == [gh EXCEPT ![w.level][w.name] = w.value]
LEMMA WriteReplaces ==
  ASSUME GhIs(gh), NEW w, WriteIs(w), NEW g, g = PutWhere(w)
  PROVE  /\ Replaces(gh, g)
         /\ w.name # "inventory" => \A level \in Levels : g[level]["inventory"] = gh[level]["inventory"]
         /\ g[w.level]["inventory"] = IF w.name = "inventory" THEN w.value ELSE gh[w.level]["inventory"]
         /\ \A level \in Levels \ {w.level} : g[level] = gh[level]
<1>1. PICK v : v = [gh[w.level] EXCEPT ![w.name] = w.value]
  OBVIOUS
<1>2. w.level \in Levels /\ w.name \in VariableNames \ {"service"} /\ gh = [level \in Levels |-> gh[level]]
  BY DEF WriteIs, GhIs
<1>3. g = [level \in Levels |-> IF level = w.level THEN v ELSE gh[level]]
  BY <1>1, <1>2 DEF PutWhere
<1>4. gh[w.level] = [n \in VariableNames |-> gh[w.level][n]]
  BY <1>2 DEF GhIs, LevelIs
<1>5. v = [n \in VariableNames |-> IF n = w.name THEN w.value ELSE gh[w.level][n]]
  BY <1>1, <1>2, <1>4
<1>6. "inventory" \in VariableNames /\ "service" \in VariableNames
  BY DEF VariableNames
<1>7. v["inventory"] = IF w.name = "inventory" THEN w.value ELSE gh[w.level]["inventory"]
  BY <1>5, <1>6
<1>8. v["service"] = gh[w.level]["service"]
  BY <1>2, <1>5, <1>6
<1>9. v["inventory"] # Absent => IsBook(v["inventory"])
  BY <1>2, <1>7 DEF GhIs, LevelIs, WriteIs
<1>10. v["inventory"] = Absent <=> gh[w.level]["inventory"] = Absent
  BY <1>7 DEF WriteIs, IsBook
<1>11. LevelIs(v)
  BY <1>5, <1>9 DEF LevelIs
<1>12. \A level \in Levels : g[level] = IF level = w.level THEN v ELSE gh[level]
  BY <1>3
<1>13. GhIs(g)
  BY <1>3, <1>11, <1>12 DEF GhIs
<1> QED
  BY <1>2, <1>7, <1>8, <1>10, <1>12, <1>13 DEF Replaces

\* What a job reads.
LEMMA ReadOfIs == GhIs(gh) /\ site.scope \in Levels => ReadIs(ReadOf(gh))
<1> SUFFICES ASSUME GhIs(gh), site.scope \in Levels PROVE ReadIs(ReadOf(gh))
  OBVIOUS
<1>1. PICK r : r = ReadOf(gh)
  OBVIOUS
<1>2. /\ DOMAIN gh["repository"] = VariableNames
      /\ LevelIs(gh["repository"]) /\ LevelIs(gh["environment"])
  BY DEF GhIs, LevelIs, Levels
<1>3. PICK bare : bare = [n \in VariableNames |-> Absent]
  OBVIOUS
<1>4. bare["inventory"] = Absent
  BY <1>3 DEF VariableNames
<1>5. LevelIs(bare)
  BY <1>3, <1>4 DEF LevelIs
<1>6. r = [repository |-> gh["repository"],
           environment |-> IF site.scope = "environment" THEN gh["environment"] ELSE bare]
  BY <1>1, <1>2, <1>3 DEF ReadOf, LevelOf, NoLevel
<1>7. /\ r["repository"] = gh["repository"]
      /\ r["environment"] = IF site.scope = "environment" THEN gh["environment"] ELSE bare
  BY <1>6
<1>8. r = [level \in Levels |-> r[level]]
  BY <1>6 DEF Levels
<1> QED
  BY <1>1, <1>2, <1>3, <1>5, <1>7, <1>8 DEF ReadIs, GhIs, Levels

\* One job moves, and the others stand.
LEMMA JobMoves ==
  ASSUME WriterInv, NEW j \in WriterJobs, NEW x, NEW f, f = jobs, jobs' = [f EXCEPT ![j] = x],
         SettingsAre', RunsAre', LedgerIs', JobStands(j, x)',
         \A i \in WriterJobs \ {j} : JobStands(i, f[i])',
         Busy(x) => Busy(f[j]) \/ \A i \in WriterJobs : ~Busy(f[i])
  PROVE  WriterInv'
<1>1. f = [i \in WriterJobs |-> f[i]]
  BY DEF WriterInv
<1>2. jobs' = [i \in WriterJobs |-> IF i = j THEN x ELSE f[i]]
  BY <1>1
<1>3. jobs' = [i \in WriterJobs |-> jobs'[i]] /\ \A i \in WriterJobs : jobs'[i] = IF i = j THEN x ELSE f[i]
  BY <1>2
<1>4. \A i \in WriterJobs : JobStands(i, jobs[i])'
  <2> SUFFICES ASSUME NEW i \in WriterJobs PROVE JobStands(i, jobs[i])'
    OBVIOUS
  <2>1. PICK y : y = jobs'[i]
    OBVIOUS
  <2>2. y = IF i = j THEN x ELSE f[i]
    BY <1>3, <2>1
  <2>3. JobStands(i, y)'
    BY <2>2
  <2> QED
    BY <2>1, <2>3
<1>5. OneAtATime'
  <2>1. \A i, k \in WriterJobs : Busy(f[i]) /\ Busy(f[k]) => i = k
    BY DEF WriterInv, OneAtATime
  <2>2. \A i \in WriterJobs : Busy(jobs'[i]) <=> Busy(IF i = j THEN x ELSE f[i])
    BY <1>3
  <2> QED
    BY <2>1, <2>2 DEF OneAtATime
<1> QED
  BY <1>3, <1>4, <1>5 DEF WriterInv

LEMMA QuietMove ==
  ASSUME WriterInv, NEW j \in WriterJobs, NEW x, jobs' = [jobs EXCEPT ![j] = x], JobStands(j, x),
         UNCHANGED <<site, gh, ledger, signed, runs>>,
         Busy(x) => Busy(jobs[j]) \/ \A i \in WriterJobs : ~Busy(jobs[i])
  PROVE  WriterInv'
<1>1. PICK f : f = jobs
  OBVIOUS
<1>2. SettingsAre' /\ RunsAre' /\ LedgerIs'
  BY DEF WriterInv, SettingsAre, RunsAre, LedgerIs
<1>3. ASSUME NEW i \in WriterJobs, NEW y, JobStands(i, y) PROVE JobStands(i, y)'
  <2>1. PlanIsWritable(y)' /\ PlanIsAsked(y)' /\ AskedFits(y)'
    BY <1>3 DEF JobStands, PlanIsWritable, WriteIs, PlanIsAsked, ReadIs, EnabledPlan, SwitchCounts, Turned, AskedFits
  <2>2. PlanIsClean(y)' /\ PlanIsSigned(i, y)' /\ NothingSent(i, y)' /\ HalfFits(y)'
    BY <1>3 DEF JobStands, PlanIsClean, PlanIsSigned, NothingSent, HalfFits
  <2> QED
    BY <1>3, <2>1, <2>2 DEF JobStands
<1>4. \A i \in WriterJobs \ {j} : JobStands(i, f[i])'
  <2> SUFFICES ASSUME NEW i \in WriterJobs \ {j} PROVE JobStands(i, f[i])'
    OBVIOUS
  <2>1. JobStands(i, f[i])
    BY <1>1 DEF WriterInv
  <2> QED
    BY <1>3, <2>1
<1>5. JobStands(j, x)'
  BY <1>3
<1> QED
  BY <1>1, <1>2, <1>4, <1>5, JobMoves

\* A job that has ended stands whatever it did.
Ended(x) == /\ JobIs(x) /\ x.pc = "done" /\ x.half = Absent /\ x.kind \in Grouped \cup {"profile"} /\ AskedFits(x)
LEMMA EndStands == ASSUME NEW j, NEW x, Ended(x) PROVE JobStands(j, x) /\ ~Busy(x)
<1>1. x.pc = "done" /\ x.kind # "none" /\ x.kind \in Grouped \cup {"profile"}
  BY DEF Ended, Grouped, AdoptKinds
<1>2. PcFits(x) /\ ~Busy(x)
  BY <1>1 DEF PcFits, Busy
<1>3. PlanIsWritable(x) /\ PlanIsAsked(x) /\ PlanIsClean(x)
  BY <1>1 DEF PlanIsWritable, PlanIsAsked, PlanIsClean
<1>4. PlanIsSigned(j, x) /\ NothingSent(j, x) /\ HalfFits(x)
  BY <1>1 DEF PlanIsSigned, NothingSent, HalfFits, Ended
<1> QED
  BY <1>2, <1>3, <1>4 DEF Ended, JobStands
LEMMA EndingIs ==
  ASSUME WriterInv, NEW j \in WriterJobs, jobs[j].pc # "idle", NEW o, EndsAs(j, o)
  PROVE  \E x : Ended(x) /\ x.outcome = o /\ x.at = 0 /\ jobs' = [jobs EXCEPT ![j] = x]
<1>1. PICK x : /\ x = [NoJob EXCEPT !.kind = jobs[j].kind, !.pc = "done", !.outcome = o,
                                    !.known = jobs[j].known, !.asked = jobs[j].asked]
               /\ jobs' = [jobs EXCEPT ![j] = x]
  BY DEF EndsAs, Moves
<1>2. JobStands(j, jobs[j])
  BY DEF WriterInv
<1>3. x = [kind |-> jobs[j].kind, pc |-> "done", half |-> Absent, read |-> Absent, plan |-> <<>>, asked |-> jobs[j].asked,
           clean |-> FALSE, at |-> 0, known |-> jobs[j].known, outcome |-> o]
  BY <1>1 DEF NoJob
<1>4. jobs[j].kind \in Grouped \cup {"profile"} /\ AskedFits(jobs[j])
  BY <1>2 DEF JobStands, PcFits
<1>5. JobIs(x) /\ x.pc = "done" /\ x.kind = jobs[j].kind /\ x.outcome = o /\ x.at = 0 /\ x.asked = jobs[j].asked
      /\ x.half = Absent
  BY <1>3 DEF JobIs
<1> QED
  BY <1>1, <1>4, <1>5 DEF Ended, AskedFits
LEMMA QuietEnd ==
  ASSUME WriterInv, NEW j \in WriterJobs, jobs[j].pc # "idle", NEW o, EndsAs(j, o),
         UNCHANGED <<site, gh, ledger, signed, runs>>
  PROVE  WriterInv'
<1>1. PICK x : Ended(x) /\ jobs' = [jobs EXCEPT ![j] = x]
  BY EndingIs
<1> QED
  BY <1>1, EndStands, QuietMove
LEMMA QuietFailure ==
  ASSUME WriterInv, NEW j \in WriterJobs, jobs[j].pc # "idle", Failed(j),
         UNCHANGED <<site, gh, ledger, signed, runs>>
  PROVE  WriterInv'
<1>1. PICK o : EndsAs(j, o)
  BY DEF Failed
<1> QED
  BY <1>1, QuietEnd

\* What a switch of one account makes of what was read.
LEMMA MergedIs ==
  ASSUME NEW r, ReadIs(r), NEW n \in VariableNames
  PROVE  Merged(r)[n] = IF r["environment"][n] # Absent THEN r["environment"][n] ELSE r["repository"][n]
<1>1. DOMAIN r["repository"] = VariableNames
  BY DEF ReadIs, GhIs, LevelIs, Levels
<1> QED
  BY <1>1 DEF Merged
LEMMA TurnedIs ==
  ASSUME NEW e \in BookEntries, NEW on \in {"true", "false"}
  PROVE  Turned(e, on) \in BookEntries
  BY DEF Turned, BookEntries
FoundAt(r) == IF r["environment"]["inventory"] # Absent THEN "environment" ELSE "repository"
Beside(r) == \/ Merged(r)["inventory"] = Absent
             \/ site.platform = "longbridge" /\ Merged(r)["service"] = Own /\ Merged(r)["enabled"] # Absent
TurnedBook(b, on) == [b EXCEPT ![Own] = Turned(b[Own], on)]
LEMMA TurnedBookIs ==
  ASSUME NEW b, IsBook(b), Own \in DOMAIN b, NEW on \in {"true", "false"}
  PROVE  /\ IsBook(TurnedBook(b, on)) /\ SameOthers(TurnedBook(b, on), b)
         /\ TurnedBook(b, on)[Own] = Turned(b[Own], on)
<1>1. PICK e : e = Turned(b[Own], on)
  OBVIOUS
<1>2. b[Own] \in BookEntries
  BY DEF IsBook
<1>3. e \in BookEntries
  BY <1>1, <1>2, TurnedIs
<1>4. PICK c : c = [b EXCEPT ![Own] = e]
  OBVIOUS
<1>5. c \in [DOMAIN b -> BookEntries] /\ DOMAIN c = DOMAIN b /\ c[Own] = e /\ \A k \in DOMAIN b \ {Own} : c[k] = b[k]
  BY <1>3, <1>4 DEF IsBook
<1> QED
  BY <1>1, <1>4, <1>5 DEF IsBook, SameOthers, TurnedBook
LEMMA EnabledPlanIs ==
  ASSUME NEW r, ReadIs(r), NEW on, site.scope \in Levels
  PROVE  IF Beside(r) THEN EnabledPlan(r, on) = <<Put(site.scope, "enabled", on)>>
         ELSE /\ EnabledPlan(r, on) = <<Put(FoundAt(r), "inventory", TurnedBook(r[FoundAt(r)]["inventory"], on))>>
              /\ r[FoundAt(r)]["inventory"] # Absent /\ Merged(r)["inventory"] = r[FoundAt(r)]["inventory"]
              /\ FoundAt(r) \in Levels
<1>1. \A n \in VariableNames : Merged(r)[n] = IF r["environment"][n] # Absent THEN r["environment"][n] ELSE r["repository"][n]
  BY MergedIs
<1>2. {"inventory", "service", "enabled"} \subseteq VariableNames
  BY DEF VariableNames
<1>3. Merged(r)["inventory"] = r[FoundAt(r)]["inventory"] /\ FoundAt(r) \in Levels
  BY <1>1, <1>2 DEF FoundAt, Levels
<1>4. CASE Beside(r)
  BY <1>4 DEF Beside, EnabledPlan, SwitchCounts
<1>5. CASE ~Beside(r)
  <2>1. EnabledPlan(r, on) = <<Put(FoundAt(r), "inventory", TurnedBook(Merged(r)["inventory"], on))>>
    BY <1>5 DEF Beside, EnabledPlan, SwitchCounts, FoundAt, TurnedBook
  <2>2. Merged(r)["inventory"] # Absent
    BY <1>5 DEF Beside
  <2> QED
    BY <1>3, <1>5, <2>1, <2>2
<1> QED
  BY <1>4, <1>5
\* What a job has read by the time it plans, compares or confirms.
FromGh(r) ==
  /\ ReadIs(r) /\ r["environment"] = ReadOf(gh)["environment"]
  /\ r["repository"]["inventory"] = Absent <=> gh["repository"]["inventory"] = Absent
LEMMA ReadByIs ==
  ASSUME WriterInv, NEW j \in WriterJobs, HasRead(j)
  PROVE  /\ FromGh(ReadBy(j))
         /\ (TwoReads(j) => jobs[j].clean /\ jobs[j].kind # "profile") => ReadBy(j) = ReadOf(gh)
<1>1. PICK a, r, h : a = jobs[j] /\ r = ReadOf(gh) /\ h = a.half
  OBVIOUS
<1>2. GhIs(gh) /\ site.scope \in Levels /\ HalfFits(a)
  BY <1>1 DEF WriterInv, SettingsAre, JobStands
<1>3. ReadIs(r) /\ r["repository"] = gh["repository"]
  BY <1>1, <1>2, ReadOfIs DEF ReadOf, LevelOf
<1>4. CASE ~TwoReads(j)
  BY <1>1, <1>3, <1>4 DEF ReadBy, FromGh
<1>5. CASE TwoReads(j)
  <2>1. h # Absent
    BY <1>1, <1>5 DEF HasRead
  <2>2. /\ site.scope = "environment" /\ LevelIs(h)
        /\ h["inventory"] = Absent <=> gh["repository"]["inventory"] = Absent
        /\ a.clean /\ a.kind # "profile" => h = gh["repository"]
    BY <1>1, <1>2, <2>1 DEF HalfFits
  <2>3. PICK b : b = [r EXCEPT !["repository"] = h]
    OBVIOUS
  <2>4. ReadBy(j) = b
    BY <1>1, <1>5, <2>3 DEF ReadBy
  <2>5. r = [level \in Levels |-> r[level]] /\ \A level \in Levels : LevelIs(r[level])
    BY <1>3 DEF ReadIs, GhIs
  <2>6. b = [level \in Levels |-> IF level = "repository" THEN h ELSE r[level]]
    BY <2>3, <2>5
  <2>7. b["repository"] = h /\ b["environment"] = r["environment"]
    BY <2>6 DEF Levels
  <2>8. b = [level \in Levels |-> b[level]]
    BY <2>6
  <2>9. GhIs(b)
    BY <2>2, <2>5, <2>7, <2>8 DEF GhIs, Levels
  <2>10. FromGh(b)
    BY <1>1, <2>2, <2>7, <2>9 DEF FromGh, ReadIs
  <2>11. a.clean /\ a.kind # "profile" => b = r
    BY <1>3, <2>2, <2>5, <2>6
  <2> QED
    BY <1>1, <1>5, <2>4, <2>10, <2>11
<1> QED
  BY <1>4, <1>5

\* A plan is writable, and one made of what is in force holds the others as they are.
LEMMA EnabledPlanFits ==
  ASSUME GhIs(gh), site.scope \in Levels, NEW r, FromGh(r), NEW on \in {"true", "false"}, TargetIsOwn(Merged(r)),
         NEW p, p = EnabledPlan(r, on)
  PROVE  /\ Len(p) = 1 /\ DOMAIN p = 1 .. 1 /\ WriteIs(p[1])
         /\ r = ReadOf(gh) /\ p[1].name = "inventory" => SameOthers(p[1].value, gh[p[1].level]["inventory"])
<1>1. ReadIs(r)
  BY DEF FromGh
<1>2. CASE Beside(r)
  <2>1. p = <<Put(site.scope, "enabled", on)>>
    BY <1>1, <1>2, EnabledPlanIs
  <2>2. p[1].level = site.scope /\ p[1].name = "enabled"
    BY <2>1 DEF Put
  <2> QED
    BY <2>1, <2>2 DEF WriteIs, VariableNames
<1>3. CASE ~Beside(r)
  <2>1. PICK b, l : b = r[FoundAt(r)]["inventory"] /\ l = FoundAt(r)
    OBVIOUS
  <2>2. p = <<Put(l, "inventory", TurnedBook(b, on))>> /\ b # Absent /\ Merged(r)["inventory"] = b /\ l \in Levels
    BY <1>1, <1>3, <2>1, EnabledPlanIs
  <2>3. Own \in DOMAIN b
    BY <2>2 DEF TargetIsOwn
  <2>4. IsBook(b)
    BY <1>1, <2>1, <2>2 DEF ReadIs, GhIs, LevelIs
  <2>5. gh[l]["inventory"] # Absent /\ (r = ReadOf(gh) => gh[l]["inventory"] = b)
    <3>1. /\ r["repository"]["inventory"] = Absent <=> gh["repository"]["inventory"] = Absent
          /\ r = ReadOf(gh) => r["repository"] = gh["repository"]
      BY DEF FromGh, ReadOf, LevelOf
    <3>2. CASE l = "repository"
      BY <2>1, <2>2, <3>1, <3>2
    <3>3. CASE l = "environment"
      <4>1. r["environment"] = IF site.scope = "environment" THEN gh["environment"] ELSE NoLevel
        BY DEF FromGh, ReadOf, LevelOf
      <4>2. site.scope = "environment"
        <5> SUFFICES ASSUME site.scope = "repository" PROVE FALSE
          BY DEF Levels
        <5>1. r["environment"]["inventory"] = Absent
          BY <1>1 DEF ReadIs, VariableNames
        <5> QED
          BY <2>1, <2>2, <3>3, <5>1
      <4> QED
        BY <2>1, <2>2, <3>3, <4>1, <4>2
    <3> QED
      BY <2>2, <3>2, <3>3 DEF Levels
  <2>6. PICK c : c = TurnedBook(b, on)
    OBVIOUS
  <2>7. IsBook(c) /\ SameOthers(c, b)
    BY <2>3, <2>4, <2>6, TurnedBookIs
  <2>8. p[1].level = l /\ p[1].name = "inventory" /\ p[1].value = c /\ Len(p) = 1 /\ DOMAIN p = 1 .. 1
    BY <2>2, <2>6 DEF Put
  <2> QED
    BY <2>2, <2>5, <2>7, <2>8 DEF WriteIs, VariableNames
<1> QED
  BY <1>2, <1>3

LEMMA StartKeeps ==
  ASSUME WriterInv, NEW j \in WriterJobs, NEW kind \in Grouped \cup {"profile"}, NEW asked,
         StartWriter(j, kind, asked), kind = "switch" => asked.profile \in Profiles
  PROVE  WriterInv'
<1>1. PICK pc \in {"preflight", "fetch", "read"} :
         /\ kind \in AdoptKinds <=> pc = "preflight"
         /\ kind = "switch" <=> pc = "fetch"
         /\ jobs' = [jobs EXCEPT ![j] = [NoJob EXCEPT !.kind = kind, !.asked = asked, !.pc = pc]]
  BY DEF StartWriter, Moves, AdoptKinds
<1>2. PICK x : x = [NoJob EXCEPT !.kind = kind, !.asked = asked, !.pc = pc]
  OBVIOUS
<1>3. x = [kind |-> kind, pc |-> pc, half |-> Absent, read |-> Absent, plan |-> <<>>, asked |-> asked,
           clean |-> FALSE, at |-> 0, known |-> FALSE, outcome |-> "none"]
  BY <1>2 DEF NoJob
<1>4. JobIs(x) /\ x.outcome = "none" /\ x.kind = kind /\ x.pc = pc /\ x.at = 0 /\ x.asked = asked /\ x.half = Absent
  BY <1>3 DEF JobIs
<1>5. kind # "none"
  BY DEF Grouped, AdoptKinds
<1>6. PcFits(x)
  BY <1>1, <1>4, <1>5 DEF PcFits
<1>7. PlanIsWritable(x) /\ PlanIsAsked(x) /\ PlanIsClean(x) /\ PlanIsSigned(j, x) /\ HalfFits(x)
  BY <1>4 DEF PlanIsWritable, PlanIsAsked, PlanIsClean, PlanIsSigned, HalfFits
<1>8. AskedFits(x)
  BY <1>4 DEF StartWriter, AskedFits
<1>9. NothingSent(j, x)
  <2>1. NothingSent(j, jobs[j]) /\ jobs[j].pc = "idle"
    BY DEF WriterInv, JobStands, StartWriter
  <2> QED
    BY <2>1 DEF NothingSent
<1>10. Busy(x) => \A i \in WriterJobs : ~Busy(jobs[i])
  BY <1>4 DEF StartWriter, Busy, Working
<1>11. UNCHANGED <<site, gh, ledger, signed, runs>>
  BY DEF StartWriter, RestStands
<1>12. jobs' = [jobs EXCEPT ![j] = x]
  BY <1>1, <1>2
<1>13. JobStands(j, x)
  BY <1>4, <1>6, <1>7, <1>8, <1>9 DEF JobStands
<1> QED
  BY <1>10, <1>11, <1>12, <1>13, QuietMove

LEMMA PreflightKeeps == ASSUME WriterInv, NEW j \in WriterJobs, Preflight(j) PROVE WriterInv'
<1>0. jobs[j].pc = "preflight" /\ UNCHANGED <<site, gh, ledger, signed, runs>>
  BY DEF Preflight, RestStands
<1>1. CASE EndsAs(j, "rejected")
  BY <1>0, <1>1, QuietEnd
<1>2. CASE Moves(j, [jobs[j] EXCEPT !.pc = "read"])
  <2>1. PICK a : a = jobs[j]
    OBVIOUS
  <2>2. JobStands(j, a) /\ a.pc = "preflight"
    BY <1>0, <2>1 DEF WriterInv
  <2>3. PICK x : x = [a EXCEPT !.pc = "read"] /\ jobs' = [jobs EXCEPT ![j] = x]
    BY <1>2, <2>1 DEF Moves
  <2>4. x = [kind |-> a.kind, pc |-> "read", half |-> a.half, read |-> a.read, plan |-> a.plan, asked |-> a.asked,
             clean |-> a.clean, at |-> a.at, known |-> a.known, outcome |-> a.outcome]
    BY <2>2, <2>3 DEF JobStands, JobIs
  <2>5. JobIs(x) /\ x.outcome = a.outcome /\ x.kind = a.kind /\ x.pc = "read" /\ x.at = a.at /\ x.half = a.half
    BY <2>4 DEF JobIs
  <2>6. a.kind \in AdoptKinds /\ a.at = 0 /\ a.outcome = "none" /\ a.half = Absent
    BY <2>2 DEF JobStands, PcFits, HalfFits
  <2>7. PcFits(x) /\ AskedFits(x)
    BY <2>5, <2>6 DEF PcFits, AskedFits, Grouped, AdoptKinds
  <2>8. PlanIsWritable(x) /\ PlanIsAsked(x) /\ PlanIsClean(x) /\ PlanIsSigned(j, x) /\ HalfFits(x)
    BY <2>5, <2>6 DEF PlanIsWritable, PlanIsAsked, PlanIsClean, PlanIsSigned, HalfFits
  <2>9. NothingSent(j, x)
    BY <2>2 DEF JobStands, NothingSent
  <2>10. Busy(jobs[j])
    BY <2>1, <2>2, <2>6 DEF Busy, Grouped
  <2>11. JobStands(j, x)
    BY <2>5, <2>7, <2>8, <2>9 DEF JobStands
  <2> QED
    BY <1>0, <2>3, <2>10, <2>11, QuietMove
<1> QED
  BY <1>1, <1>2 DEF Preflight

LEMMA ReadRepositoryKeeps == ASSUME WriterInv, NEW j \in WriterJobs, ReadRepository(j) PROVE WriterInv'
<1>0. /\ jobs[j].pc \in {"read", "compare", "read back"} /\ UNCHANGED <<site, gh, ledger, signed, runs>>
      /\ site.scope = "environment" /\ GhIs(gh)
  BY DEF ReadRepository, HasRead, TwoReads, RestStands, WriterInv, SettingsAre
<1>1. PICK a, h : a = jobs[j] /\ h = gh["repository"]
  OBVIOUS
<1>2. JobStands(j, a) /\ a.pc \in {"read", "compare", "read back"}
  BY <1>0, <1>1 DEF WriterInv
<1>3. PICK x : x = [a EXCEPT !.half = h, !.clean = TRUE] /\ jobs' = [jobs EXCEPT ![j] = x]
  BY <1>1 DEF ReadRepository, LevelOf, Moves
<1>4. x = [kind |-> a.kind, pc |-> a.pc, half |-> h, read |-> a.read, plan |-> a.plan, asked |-> a.asked,
           clean |-> TRUE, at |-> a.at, known |-> a.known, outcome |-> a.outcome]
  BY <1>2, <1>3 DEF JobStands, JobIs
<1>5. /\ JobIs(x) /\ x.outcome = a.outcome /\ x.kind = a.kind /\ x.pc = a.pc /\ x.at = a.at /\ x.plan = a.plan
      /\ x.read = a.read /\ x.asked = a.asked /\ x.half = h
  BY <1>4 DEF JobIs
<1>6. PcFits(x) /\ PlanIsWritable(x)
  BY <1>2, <1>5 DEF JobStands, PcFits, PlanIsWritable
<1>7. PlanIsAsked(x) /\ AskedFits(x) /\ PlanIsSigned(j, x)
  BY <1>2, <1>5 DEF JobStands, PlanIsAsked, AskedFits, PlanIsSigned
<1>8. PlanIsClean(x) /\ NothingSent(j, x)
  BY <1>2, <1>5 DEF JobStands, PlanIsClean, NothingSent
<1>9. HalfFits(x)
  BY <1>0, <1>1, <1>2, <1>5 DEF HalfFits, GhIs, Levels
<1>10. Busy(x) => Busy(jobs[j])
  BY <1>1, <1>5 DEF Busy
<1>11. JobStands(j, x)
  BY <1>5, <1>6, <1>7, <1>8, <1>9 DEF JobStands
<1> QED
  BY <1>0, <1>3, <1>10, <1>11, QuietMove

\* A plan is kept with what it was made of.
PlanSuits(p, r, k) ==
  /\ Len(p) \in Nat \ {0} /\ DOMAIN p = 1 .. Len(p)
  /\ \A i \in 1 .. Len(p) : WriteIs(p[i])
  /\ k \in {"stop", "hk stop"} \cup AdoptKinds =>
       ReadIs(r) /\ TargetIsOwn(Merged(r)) /\ p = EnabledPlan(r, TurnOf(k))
  /\ k = "resume" => /\ ReadIs(r) /\ p = <<Put(site.scope, "enabled", "true")>>
                     /\ r[site.scope]["inventory"] = Absent /\ r[site.scope]["enabled"] = "false"
  /\ k = "profile" => \A i \in 1 .. Len(p) : p[i].name # "inventory" /\ p[i].level = site.scope
LEMMA PlannedKeeps ==
  ASSUME WriterInv, NEW j \in WriterJobs, jobs[j].pc = "read", NEW p, NEW r, Planned(j, p, r),
         UNCHANGED <<site, gh, ledger, signed, runs>>,
         PlanSuits(p, r, jobs[j].kind)
  PROVE  WriterInv'
<1>1. PICK a, k : a = jobs[j] /\ k = jobs[j].kind
  OBVIOUS
<1>2. JobStands(j, a) /\ a.pc = "read" /\ a.kind = k /\ PlanSuits(p, r, k)
  BY <1>1 DEF WriterInv
<1>3. PICK x : x = [a EXCEPT !.pc = "compare", !.half = Absent, !.read = r, !.plan = p] /\ jobs' = [jobs EXCEPT ![j] = x]
  BY <1>1 DEF Planned, Moves
<1>4. x = [kind |-> k, pc |-> "compare", half |-> Absent, read |-> r, plan |-> p, asked |-> a.asked,
           clean |-> a.clean, at |-> a.at, known |-> a.known, outcome |-> a.outcome]
  BY <1>2, <1>3 DEF JobStands, JobIs
<1>5. /\ JobIs(x) /\ x.outcome = a.outcome /\ x.kind = k /\ x.pc = "compare"
      /\ x.at = a.at /\ x.read = r /\ x.plan = p /\ x.asked = a.asked
      /\ x.half = Absent
  BY <1>4 DEF JobIs
<1>6. a.kind \in Grouped \cup {"profile"} /\ a.kind # "switch" /\ a.at = 0 /\ AskedFits(a) /\ a.outcome = "none"
  BY <1>2 DEF JobStands, PcFits
<1>7. PcFits(x)
  BY <1>2, <1>5, <1>6 DEF PcFits, Grouped, AdoptKinds
<1>8. PlanIsWritable(x)
  <2>1. Len(x.plan) \in Nat \ {0} /\ DOMAIN x.plan = 1 .. Len(x.plan)
    BY <1>2, <1>5 DEF PlanSuits
  <2>2. \A i \in 1 .. Len(x.plan) : WriteIs(x.plan[i])
    BY <1>2, <1>5 DEF PlanSuits
  <2>3. x.at \in Nat /\ x.pc # "write"
    BY <1>5, <1>6
  <2> QED
    BY <2>1, <2>2, <2>3 DEF PlanIsWritable
<1>9. PlanIsAsked(x)
  BY <1>2, <1>5, <1>6 DEF PlanIsAsked, AskedFits, PlanSuits
<1>10. PlanIsClean(x) /\ PlanIsSigned(j, x) /\ AskedFits(x) /\ HalfFits(x)
  BY <1>2, <1>5, <1>6 DEF PlanIsClean, PlanIsSigned, AskedFits, HalfFits
<1>11. NothingSent(j, x)
  BY <1>2 DEF JobStands, NothingSent
<1>12. Busy(x) => Busy(jobs[j])
  BY <1>1, <1>2, <1>5 DEF Busy
<1>13. JobStands(j, x)
  BY <1>5, <1>7, <1>8, <1>9, <1>10, <1>11 DEF JobStands
<1> QED
  BY <1>3, <1>12, <1>13, QuietMove

LEMMA PlanEnabledKeeps == ASSUME WriterInv, NEW j \in WriterJobs, PlanEnabled(j) PROVE WriterInv'
<1>0. jobs[j].pc = "read" /\ UNCHANGED <<site, gh, ledger, signed, runs>> /\ GhIs(gh) /\ site.scope \in Levels
  BY DEF PlanEnabled, RestStands, WriterInv, SettingsAre
<1>1. CASE Failed(j)
  BY <1>0, <1>1, QuietFailure
<1>2. CASE ~Failed(j)
  <2>1. PICK r, k, p : r = ReadBy(j) /\ k = jobs[j].kind /\ p = EnabledPlan(r, TurnOf(k))
    OBVIOUS
  <2>2. k \in {"stop", "hk stop"} \cup AdoptKinds /\ TargetIsOwn(Merged(r)) /\ Planned(j, p, r)
    BY <1>2, <2>1 DEF PlanEnabled, TurnOf
  <2>3. TurnOf(k) \in {"true", "false"} /\ k \notin {"resume", "profile"}
    BY <2>2 DEF TurnOf, AdoptKinds
  <2>4. FromGh(r)
    <3>1. HasRead(j)
      BY DEF PlanEnabled
    <3> QED
      BY <2>1, <3>1, ReadByIs
  <2>5. Len(p) = 1 /\ DOMAIN p = 1 .. 1 /\ WriteIs(p[1])
    BY <1>0, <2>1, <2>2, <2>3, <2>4, EnabledPlanFits
  <2>6. \A i \in 1 .. Len(p) : WriteIs(p[i])
    BY <2>5
  <2>7. Len(p) \in Nat \ {0} /\ DOMAIN p = 1 .. Len(p)
    BY <2>5
  <2>8. PlanSuits(p, r, k)
    BY <2>1, <2>2, <2>3, <2>4, <2>6, <2>7 DEF PlanSuits, FromGh
  <2> QED
    BY <1>0, <2>1, <2>2, <2>8, PlannedKeeps
<1> QED
  BY <1>1, <1>2

LEMMA PlanResumeKeeps == ASSUME WriterInv, NEW j \in WriterJobs, PlanResume(j) PROVE WriterInv'
<1>0. jobs[j].pc = "read" /\ UNCHANGED <<site, gh, ledger, signed, runs>> /\ GhIs(gh) /\ site.scope \in Levels
  BY DEF PlanResume, RestStands, WriterInv, SettingsAre
<1>1. CASE Failed(j)
  BY <1>0, <1>1, QuietFailure
<1>2. CASE ~Failed(j)
  <2>1. PICK r, p : r = ReadOf(gh) /\ p = <<Put(site.scope, "enabled", "true")>>
    OBVIOUS
  <2>2. jobs[j].kind = "resume" /\ Resumable(gh[site.scope], jobs[j].asked) /\ Planned(j, p, r)
    <3>1. jobs[j].kind = "resume"
      BY DEF PlanResume
    <3>2. ReadBy(j) = r
      BY <2>1, <3>1 DEF ReadBy, TwoReads, AdoptKinds
    <3> QED
      BY <1>2, <2>1, <3>2 DEF PlanResume
  <2>3. gh[site.scope]["inventory"] = Absent /\ gh[site.scope]["enabled"] = "false"
    BY <2>2 DEF Resumable
  <2>4. r[site.scope] = gh[site.scope]
    BY <1>0, <2>1 DEF ReadOf, LevelOf, Levels
  <2>5. Len(p) = 1 /\ DOMAIN p = 1 .. 1 /\ p[1].level = site.scope /\ p[1].name = "enabled"
    BY <2>1 DEF Put
  <2>6. \A i \in 1 .. Len(p) : WriteIs(p[i])
    BY <1>0, <2>5 DEF WriteIs, VariableNames
  <2>7. ReadIs(r)
    BY <1>0, <2>1, ReadOfIs
  <2>8. Len(p) \in Nat \ {0} /\ DOMAIN p = 1 .. Len(p)
    BY <2>5
  <2>9. "resume" \notin {"stop", "hk stop"} \cup AdoptKinds
    BY DEF AdoptKinds
  <2>10. PlanSuits(p, r, "resume")
    BY <2>1, <2>3, <2>4, <2>6, <2>7, <2>8, <2>9 DEF PlanSuits
  <2> QED
    BY <1>0, <2>2, <2>10, PlannedKeeps
<1> QED
  BY <1>1, <1>2

LEMMA PlanProfileKeeps == ASSUME WriterInv, NEW j \in WriterJobs, PlanProfile(j) PROVE WriterInv'
<1>0. jobs[j].pc = "read" /\ UNCHANGED <<site, gh, ledger, signed, runs>> /\ site.scope \in Levels
  BY DEF PlanProfile, RestStands, WriterInv, SettingsAre
<1>1. CASE Failed(j)
  BY <1>0, <1>1, QuietFailure
<1>2. CASE EndsAs(j, "updated")
  BY <1>0, <1>2, QuietEnd
<1>3. CASE ~Failed(j) /\ ~EndsAs(j, "updated")
  <2>1. PICK new, p, r : new = jobs[j].asked[2] /\ p = ProfilePlan(new) /\ r = ReadBy(j)
    OBVIOUS
  <2>2. jobs[j].kind = "profile" /\ Planned(j, p, r)
    BY <1>3, <2>1 DEF PlanProfile
  <2>3. p = <<Put(site.scope, "target", Retargeted(new)), Put(site.scope, "profile", new)>>
    BY <2>1 DEF ProfilePlan
  <2>4. Len(p) = 2 /\ DOMAIN p = 1 .. 2
    BY <2>3
  <2>5. \A i \in 1 .. 2 : p[i].level = site.scope /\ p[i].name \in {"target", "profile"}
    BY <2>3 DEF Put
  <2>6. \A i \in 1 .. 2 : WriteIs(p[i])
    BY <1>0, <2>5 DEF WriteIs, VariableNames
  <2>7. "profile" \notin {"stop", "hk stop"} \cup AdoptKinds
    BY DEF AdoptKinds
  <2>8. /\ Len(p) \in Nat \ {0} /\ DOMAIN p = 1 .. Len(p)
        /\ \A i \in 1 .. Len(p) : WriteIs(p[i]) /\ p[i].name # "inventory" /\ p[i].level = site.scope
    BY <2>4, <2>5, <2>6
  <2>9. PlanSuits(p, r, "profile")
    BY <2>7, <2>8 DEF PlanSuits
  <2> QED
    BY <1>0, <2>2, <2>9, PlannedKeeps
<1> QED
  BY <1>1, <1>2, <1>3

\* What a switch is to write.
LEMMA SwitchPlanIs ==
  ASSUME GhIs(gh), site.scope \in Levels, NEW profile \in Profiles, NEW p, p = SwitchPlan(gh, profile)
  PROVE  /\ Len(p) \in Nat \ {0} /\ DOMAIN p = 1 .. Len(p)
         /\ \A i \in 1 .. Len(p) : WriteIs(p[i])
         /\ \A i \in 1 .. Len(p) : p[i].name = "inventory" => SameOthers(p[i].value, gh[p[i].level]["inventory"])
<1>1. PICK l, b, t : l = FetchedAt /\ b = gh[l]["inventory"] /\ t = Retargeted(profile)
  OBVIOUS
<1>2. PICK u, v : u = Put(site.scope, "target", t) /\ v = Put(site.scope, "profile", profile)
  OBVIOUS
<1>3. l \in Levels
  BY <1>1 DEF FetchedAt, Levels
<1>4. /\ u.level = site.scope /\ u.name = "target" /\ WriteIs(u)
      /\ v.level = site.scope /\ v.name = "profile" /\ WriteIs(v)
  BY <1>2 DEF Put, WriteIs, VariableNames
<1>5. CASE b = Absent
  <2>1. p = <<u, v>> \o <<>>
    BY <1>1, <1>2, <1>5 DEF SwitchPlan, ProfilePlan
  <2>2. p = <<u, v>>
    BY <2>1
  <2>3. Len(p) = 2 /\ DOMAIN p = 1 .. 2 /\ p[1] = u /\ p[2] = v
    BY <2>2
  <2>4. \A i \in 1 .. 2 : WriteIs(p[i]) /\ p[i].name # "inventory"
    BY <1>4, <2>3
  <2> QED
    BY <2>3, <2>4
<1>6. CASE b # Absent
  <2>1. PICK e : e = [b[Own] EXCEPT !.profile = profile]
    OBVIOUS
  <2>2. PICK c : c = [b EXCEPT ![Own] = e]
    OBVIOUS
  <2>3. PICK w : w = Put(l, "inventory", c)
    OBVIOUS
  <2>4. p = <<u, v>> \o <<w>>
    BY <1>1, <1>2, <1>6, <2>1, <2>2, <2>3 DEF SwitchPlan, ProfilePlan
  <2>5. /\ <<u, v>> \in Seq({u, v, w}) /\ <<w>> \in Seq({u, v, w}) /\ Len(<<u, v>>) = 2 /\ Len(<<w>>) = 1
        /\ <<u, v>>[1] = u /\ <<u, v>>[2] = v /\ <<w>>[1] = w
    OBVIOUS
  <2>6. IsBook(b)
    BY <1>1, <1>3, <1>6 DEF GhIs, LevelIs
  <2>7. Own \in DOMAIN b => e \in BookEntries
    BY <2>1, <2>6 DEF IsBook, BookEntries
  <2>8. c \in [DOMAIN b -> BookEntries] /\ DOMAIN c = DOMAIN b /\ \A k \in DOMAIN b \ {Own} : c[k] = b[k]
    BY <2>2, <2>6, <2>7 DEF IsBook
  <2>9. IsBook(c) /\ SameOthers(c, b)
    BY <2>6, <2>8 DEF IsBook, SameOthers
  <2>10. w.level = l /\ w.name = "inventory" /\ w.value = c
    BY <2>3 DEF Put
  <2>11. WriteIs(w)
    BY <1>1, <1>3, <1>6, <2>9, <2>10 DEF WriteIs, VariableNames
  <2>12. Len(p) = 3 /\ DOMAIN p = 1 .. 3 /\ p[1] = u /\ p[2] = v /\ p[3] = w
    <3>1. p \in Seq({u, v, w}) /\ Len(p) = 3
      BY <2>4, <2>5, ConcatProperties
    <3>2. \A i \in 1 .. 3 : p[i] = IF i <= 2 THEN <<u, v>>[i] ELSE <<w>>[i - 2]
      BY <2>4, <2>5, ConcatProperties
    <3>3. p[1] = u /\ p[2] = v /\ p[3] = w
      BY <2>5, <3>2
    <3> QED
      BY <3>1, <3>3
  <2>13. \A i \in 1 .. 3 : i = 1 \/ i = 2 \/ i = 3
    OBVIOUS
  <2>14. \A i \in 1 .. 3 : WriteIs(p[i])
    BY <1>4, <2>11, <2>12, <2>13
  <2>15. \A i \in 1 .. 3 : p[i].name = "inventory" => p[i] = w
    BY <1>4, <2>12, <2>13
  <2>16. SameOthers(w.value, gh[w.level]["inventory"])
    BY <1>1, <2>9, <2>10
  <2>17. \A i \in 1 .. 3 : p[i].name = "inventory" => SameOthers(p[i].value, gh[p[i].level]["inventory"])
    BY <2>15, <2>16
  <2> QED
    BY <2>12, <2>14, <2>17
<1> QED
  BY <1>5, <1>6

LEMMA FetchKeeps == ASSUME WriterInv, NEW j \in WriterJobs, FetchAndBuild(j) PROVE WriterInv'
<1>0. UNCHANGED <<site, gh, ledger, signed, runs>> /\ GhIs(gh) /\ site.scope \in Levels
  BY DEF FetchAndBuild, RestStands, WriterInv, SettingsAre
<1>1. PICK a, p : a = jobs[j] /\ p = SwitchPlan(gh, a.asked.profile)
  OBVIOUS
<1>2. JobStands(j, a) /\ a.pc = "fetch"
  BY <1>1 DEF WriterInv, FetchAndBuild
<1>3. PICK x : x = [a EXCEPT !.pc = "verify", !.clean = TRUE, !.plan = p] /\ jobs' = [jobs EXCEPT ![j] = x]
  BY <1>1 DEF FetchAndBuild, Moves
<1>4. x = [kind |-> a.kind, pc |-> "verify", half |-> a.half, read |-> a.read, plan |-> p, asked |-> a.asked,
           clean |-> TRUE, at |-> a.at, known |-> a.known, outcome |-> a.outcome]
  BY <1>2, <1>3 DEF JobStands, JobIs
<1>5. JobIs(x) /\ x.outcome = a.outcome /\ x.kind = a.kind /\ x.pc = "verify" /\ x.at = a.at /\ x.plan = p /\ x.asked = a.asked
      /\ x.half = a.half
  BY <1>4 DEF JobIs
<1>6. a.kind = "switch" /\ a.at = 0 /\ a.outcome = "none" /\ AskedFits(a) /\ a.asked.profile \in Profiles
      /\ a.half = Absent
  BY <1>2 DEF JobStands, PcFits, AskedFits, HalfFits
<1>7. PcFits(x)
  BY <1>2, <1>5, <1>6 DEF PcFits, Grouped, AdoptKinds
<1>8. /\ Len(p) \in Nat \ {0} /\ DOMAIN p = 1 .. Len(p)
      /\ \A i \in 1 .. Len(p) : WriteIs(p[i])
      /\ \A i \in 1 .. Len(p) : p[i].name = "inventory" => SameOthers(p[i].value, gh[p[i].level]["inventory"])
  BY <1>0, <1>1, <1>6, SwitchPlanIs
<1>9. PlanIsWritable(x)
  <2>1. Len(x.plan) \in Nat \ {0} /\ DOMAIN x.plan = 1 .. Len(x.plan)
    BY <1>5, <1>8
  <2>2. \A i \in 1 .. Len(x.plan) : WriteIs(x.plan[i])
    BY <1>5, <1>8
  <2>3. x.at \in Nat /\ x.pc # "write"
    BY <1>5, <1>6
  <2> QED
    BY <2>1, <2>2, <2>3 DEF PlanIsWritable
<1>10. PlanIsClean(x)
  BY <1>5, <1>8 DEF PlanIsClean
<1>11. PlanIsAsked(x) /\ PlanIsSigned(j, x) /\ AskedFits(x) /\ HalfFits(x)
  BY <1>5, <1>6 DEF PlanIsAsked, PlanIsSigned, AskedFits, HalfFits
<1>12. NothingSent(j, x)
  BY <1>2 DEF JobStands, NothingSent
<1>13. Busy(jobs[j])
  BY <1>1, <1>2, <1>6 DEF Busy, Grouped
<1>14. JobStands(j, x)
  BY <1>5, <1>7, <1>9, <1>10, <1>11, <1>12 DEF JobStands
<1> QED
  BY <1>0, <1>3, <1>13, <1>14, QuietMove

LEMMA VerifyKeeps == ASSUME WriterInv, NEW j \in WriterJobs, VerifyManifest(j) PROVE WriterInv'
<1>0. jobs[j].pc = "verify" /\ UNCHANGED <<site, gh, ledger, signed, runs>>
  BY DEF VerifyManifest, RestStands
<1>1. CASE Failed(j)
  BY <1>0, <1>1, QuietFailure
<1>2. CASE ~Failed(j)
  <2>1. PICK a : a = jobs[j]
    OBVIOUS
  <2>2. JobStands(j, a) /\ a.pc = "verify"
    BY <1>0, <2>1 DEF WriterInv
  <2>3. PICK x : x = [a EXCEPT !.pc = "consume"] /\ jobs' = [jobs EXCEPT ![j] = x]
    BY <1>2, <2>1 DEF VerifyManifest, Moves
  <2>4. a.asked.id \in DOMAIN signed /\ signed[a.asked.id].plan = a.plan
    BY <1>2, <2>1 DEF VerifyManifest
  <2>5. x = [kind |-> a.kind, pc |-> "consume", half |-> a.half, read |-> a.read, plan |-> a.plan, asked |-> a.asked,
             clean |-> a.clean, at |-> a.at, known |-> a.known, outcome |-> a.outcome]
    BY <2>2, <2>3 DEF JobStands, JobIs
  <2>6. /\ JobIs(x) /\ x.outcome = a.outcome /\ x.kind = a.kind /\ x.pc = "consume" /\ x.at = a.at /\ x.plan = a.plan
        /\ x.asked = a.asked /\ x.clean = a.clean /\ x.half = a.half
    BY <2>5 DEF JobIs
  <2>7. a.kind = "switch" /\ a.at = 0 /\ a.outcome = "none" /\ a.half = Absent
    BY <2>2 DEF JobStands, PcFits, HalfFits
  <2>8. PcFits(x)
    BY <2>6, <2>7 DEF PcFits, Grouped, AdoptKinds
  <2>9. PlanIsWritable(x)
    BY <2>2, <2>6 DEF JobStands, PlanIsWritable
  <2>10. PlanIsClean(x)
    BY <2>2, <2>6 DEF JobStands, PlanIsClean
  <2>11. PlanIsAsked(x) /\ PlanIsSigned(j, x) /\ HalfFits(x)
    BY <2>4, <2>6, <2>7 DEF PlanIsAsked, PlanIsSigned, HalfFits
  <2>12. AskedFits(x)
    BY <2>2, <2>6 DEF JobStands, AskedFits
  <2>13. NothingSent(j, x)
    BY <2>2 DEF JobStands, NothingSent
  <2>14. Busy(jobs[j])
    BY <2>1, <2>2, <2>7 DEF Busy, Grouped
  <2>15. JobStands(j, x)
    BY <2>6, <2>8, <2>9, <2>10, <2>11, <2>12, <2>13 DEF JobStands
  <2> QED
    BY <1>0, <2>3, <2>14, <2>15, QuietMove
<1> QED
  BY <1>1, <1>2

LEMMA SavedKeeps ==
  ASSUME WriterInv, NEW j \in WriterJobs, jobs[j].pc \in {"compare", "read back"}, Saved(j),
         UNCHANGED <<site, gh, ledger, signed, runs>>
  PROVE  WriterInv'
<1>1. PICK a : a = jobs[j]
  OBVIOUS
<1>2. JobStands(j, a) /\ a.pc \in {"compare", "read back"}
  BY <1>1 DEF WriterInv
<1>3. \/ \E o : EndsAs(j, o)
      \/ \E pc \in {"dispatch", "dispatch hk"} :
           /\ pc = "dispatch" => a.kind \in AdoptKinds
           /\ pc = "dispatch hk" => a.kind = "hk stop"
           /\ Moves(j, [a EXCEPT !.pc = pc, !.at = 0, !.half = Absent, !.read = Absent, !.plan = <<>>])
  BY <1>1 DEF Saved, AdoptKinds
<1>4. ASSUME NEW o, EndsAs(j, o) PROVE WriterInv'
  BY <1>4, QuietEnd
<1>5. ASSUME NEW pc \in {"dispatch", "dispatch hk"},
             pc = "dispatch" => a.kind \in AdoptKinds,
             pc = "dispatch hk" => a.kind = "hk stop",
             Moves(j, [a EXCEPT !.pc = pc, !.at = 0, !.half = Absent, !.read = Absent, !.plan = <<>>])
      PROVE  WriterInv'
  <2>1. PICK x : /\ x = [a EXCEPT !.pc = pc, !.at = 0, !.half = Absent, !.read = Absent, !.plan = <<>>]
                 /\ jobs' = [jobs EXCEPT ![j] = x]
    BY <1>5 DEF Moves
  <2>2. x = [kind |-> a.kind, pc |-> pc, half |-> Absent, read |-> Absent, plan |-> <<>>, asked |-> a.asked,
             clean |-> a.clean, at |-> 0, known |-> a.known, outcome |-> a.outcome]
    BY <1>2, <2>1 DEF JobStands, JobIs
  <2>3. JobIs(x) /\ x.outcome = a.outcome /\ x.kind = a.kind /\ x.pc = pc /\ x.asked = a.asked
        /\ x.half = Absent
    BY <2>2 DEF JobIs
  <2>4. a.kind \in Grouped /\ a.kind \notin {"none", "switch"}
    BY <1>5 DEF Grouped, AdoptKinds
  <2>10. a.outcome = "none"
    BY <1>2 DEF JobStands, PcFits
  <2>5. PcFits(x)
    BY <1>5, <2>3, <2>4, <2>10 DEF PcFits
  <2>6. PlanIsWritable(x) /\ PlanIsAsked(x) /\ PlanIsClean(x) /\ PlanIsSigned(j, x) /\ HalfFits(x)
    BY <2>3 DEF PlanIsWritable, PlanIsAsked, PlanIsClean, PlanIsSigned, HalfFits
  <2>7. AskedFits(x) /\ NothingSent(j, x)
    BY <1>2, <2>3 DEF JobStands, AskedFits, NothingSent
  <2>8. Busy(jobs[j])
    BY <1>1, <1>2, <2>4 DEF Busy
  <2>9. JobStands(j, x)
    BY <2>3, <2>5, <2>6, <2>7 DEF JobStands
  <2> QED
    BY <2>1, <2>8, <2>9, QuietMove
<1> QED
  BY <1>3, <1>4, <1>5

LEMMA CompareKeeps == ASSUME WriterInv, NEW j \in WriterJobs, CompareSource(j) PROVE WriterInv'
<1>0. /\ jobs[j].pc = "compare" /\ UNCHANGED <<site, gh, ledger, signed, runs>>
      /\ GhIs(gh) /\ site.scope \in Levels
  BY DEF CompareSource, RestStands, WriterInv, SettingsAre
<1>1. CASE Failed(j)
  BY <1>0, <1>1, QuietFailure
<1>2. CASE Saved(j)
  BY <1>0, <1>2, SavedKeeps
<1>3. CASE ~Failed(j) /\ ~Saved(j)
  <2>1. PICK a : a = jobs[j]
    OBVIOUS
  <2>2. JobStands(j, a) /\ a.pc = "compare"
    BY <1>0, <2>1 DEF WriterInv
  <2>3. PICK clean : clean = (TwoReads(j) => a.clean)
    OBVIOUS
  <2>4. PICK x : x = [a EXCEPT !.pc = "write", !.half = Absent, !.clean = clean] /\ jobs' = [jobs EXCEPT ![j] = x]
    BY <1>3, <2>1, <2>3 DEF CompareSource, Moves
  <2>5. x = [kind |-> a.kind, pc |-> "write", half |-> Absent, read |-> a.read, plan |-> a.plan, asked |-> a.asked,
             clean |-> clean, at |-> a.at, known |-> a.known, outcome |-> a.outcome]
    BY <2>2, <2>4 DEF JobStands, JobIs
  <2>6. /\ JobIs(x) /\ x.outcome = a.outcome /\ x.kind = a.kind /\ x.pc = "write" /\ x.at = a.at /\ x.plan = a.plan /\ x.read = a.read
        /\ x.asked = a.asked /\ x.half = Absent /\ x.clean = clean
    BY <2>5 DEF JobIs
  <2>7. a.kind \in Grouped \cup {"profile"} /\ a.kind \notin {"none", "switch"} /\ a.at = 0 /\ a.outcome = "none"
    BY <2>2 DEF JobStands, PcFits
  <2>8. PcFits(x)
    BY <2>6, <2>7 DEF PcFits
  <2>9. PlanIsWritable(x)
    <3>1. PlanIsWritable(a)
      BY <2>2 DEF JobStands
    <3>2. Len(x.plan) \in Nat \ {0} /\ DOMAIN x.plan = 1 .. Len(x.plan) /\ \A i \in 1 .. Len(x.plan) : WriteIs(x.plan[i])
      BY <2>2, <2>6, <3>1 DEF PlanIsWritable
    <3>3. x.at \in Nat /\ x.at < Len(x.plan)
      BY <2>6, <2>7, <3>2
    <3> QED
      BY <3>2, <3>3 DEF PlanIsWritable
  <2>10. PlanIsAsked(a)
    BY <2>2 DEF JobStands
  <2>11. PlanIsAsked(x) /\ AskedFits(x) /\ PlanIsSigned(j, x) /\ NothingSent(j, x) /\ HalfFits(x)
    BY <2>2, <2>6, <2>7, ZenonT(60) DEF JobStands, PlanIsAsked, AskedFits, PlanIsSigned, NothingSent, HalfFits
  <2>12. clean => \A i \in 1 .. Len(a.plan) :
           a.plan[i].name = "inventory" => SameOthers(a.plan[i].value, gh[a.plan[i].level]["inventory"])
    <3> SUFFICES ASSUME clean
                 PROVE  \A i \in 1 .. Len(a.plan) :
                          a.plan[i].name = "inventory" => SameOthers(a.plan[i].value, gh[a.plan[i].level]["inventory"])
      OBVIOUS
    <3>1. CASE a.kind = "profile"
      BY <2>2, <2>10, <3>1 DEF PlanIsAsked
    <3>2. CASE a.kind = "resume"
      <4>1. a.plan = <<Put(site.scope, "enabled", "true")>>
        BY <2>2, <2>10, <3>2 DEF PlanIsAsked
      <4>2. Len(a.plan) = 1 /\ a.plan[1].name = "enabled"
        BY <4>1 DEF Put
      <4> QED
        BY <4>2
    <3>3. CASE a.kind \in {"stop", "hk stop"} \cup AdoptKinds
      <4>1. PICK r : r = ReadOf(gh)
        OBVIOUS
      <4>2. a.read = r
        <5>1. HasRead(j) /\ SourceStands(j)
          BY <1>3 DEF CompareSource
        <5>2. a.kind # "profile" /\ a.kind # "resume"
          BY <3>3 DEF AdoptKinds
        <5>3. ReadBy(j) = r
          BY <2>1, <2>3, <4>1, <5>1, <5>2, ReadByIs
        <5> QED
          BY <2>1, <5>1, <5>2, <5>3 DEF SourceStands
      <4>3. TargetIsOwn(Merged(r)) /\ a.plan = EnabledPlan(r, TurnOf(a.kind)) /\ TurnOf(a.kind) \in {"true", "false"}
        BY <2>2, <2>10, <3>3, <4>2 DEF PlanIsAsked, TurnOf
      <4>5. FromGh(r)
        <5>1. ReadIs(r)
          BY <1>0, <4>1, ReadOfIs
        <5>2. r["repository"] = gh["repository"]
          BY <4>1 DEF ReadOf, LevelOf
        <5> QED
          BY <4>1, <5>1, <5>2 DEF FromGh
      <4>4. /\ Len(a.plan) = 1
            /\ a.plan[1].name = "inventory" => SameOthers(a.plan[1].value, gh[a.plan[1].level]["inventory"])
        BY <1>0, <4>1, <4>3, <4>5, EnabledPlanFits
      <4> QED
        BY <4>4
    <3> QED
      BY <2>7, <3>1, <3>2, <3>3 DEF Grouped
  <2>13. PlanIsClean(x)
    BY <2>6, <2>12 DEF PlanIsClean
  <2>14. Busy(x) => Busy(jobs[j])
    BY <2>1, <2>2, <2>6 DEF Busy
  <2>15. JobStands(j, x)
    BY <2>6, <2>8, <2>9, <2>11, <2>13 DEF JobStands
  <2> QED
    BY <1>0, <2>4, <2>14, <2>15, QuietMove
<1> QED
  BY <1>1, <1>2, <1>3

LEMMA ReadBackKeeps == ASSUME WriterInv, NEW j \in WriterJobs, ReadSettingsBack(j) PROVE WriterInv'
<1>0. jobs[j].pc = "read back" /\ UNCHANGED <<site, gh, ledger, signed, runs>>
  BY DEF ReadSettingsBack, RestStands
<1>1. Saved(j) \/ EndsAs(j, "unknown") \/ Failed(j)
  BY DEF ReadSettingsBack
<1> QED
  BY <1>0, <1>1, SavedKeeps, QuietEnd, QuietFailure

LEMMA ReadUnknownKeeps == ASSUME WriterInv, NEW j \in WriterJobs, ReadUnknown(j) PROVE WriterInv'
<1>0. jobs[j].pc = "unread" /\ EndsAs(j, "unknown") /\ UNCHANGED <<site, gh, ledger, signed, runs>>
  BY DEF ReadUnknown, RestStands
<1> QED
  BY <1>0, QuietEnd

LEMMA CheckAgainKeeps == ASSUME WriterInv, NEW j \in WriterJobs, CheckAgain(j) PROVE WriterInv'
<1>0. jobs[j].pc = "done" /\ UNCHANGED <<site, gh, ledger, signed, runs>>
  BY DEF CheckAgain, RestStands
<1>1. PICK o : EndsAs(j, o)
  BY DEF CheckAgain
<1> QED
  BY <1>0, <1>1, QuietEnd

LEMMA DieKeeps == ASSUME WriterInv, NEW j \in WriterJobs, Die(j) PROVE WriterInv'
<1>0. jobs[j].pc # "idle" /\ EndsAs(j, "none") /\ UNCHANGED <<site, gh, ledger, signed, runs>>
  BY DEF Die, Working, RestStands
<1> QED
  BY <1>0, QuietEnd

LEMMA PollKeeps == ASSUME WriterInv, NEW j \in WriterJobs, PollRun(j) PROVE WriterInv'
<1>0. jobs[j].pc = "poll" /\ UNCHANGED <<site, gh, ledger, signed, runs>>
  BY DEF PollRun, RestStands
<1>1. PICK a : a = jobs[j]
  OBVIOUS
<1>2. JobStands(j, a) /\ a.pc = "poll"
  BY <1>0, <1>1 DEF WriterInv
<1>3. \/ \E o : EndsAs(j, o)
      \/ \E at, known : Moves(j, [a EXCEPT !.at = at, !.known = known])
  BY <1>1 DEF PollRun
<1>4. ASSUME NEW o, EndsAs(j, o) PROVE WriterInv'
  BY <1>0, <1>4, QuietEnd
<1>5. ASSUME NEW at, NEW known, Moves(j, [a EXCEPT !.at = at, !.known = known]) PROVE WriterInv'
  <2>1. PICK x : x = [a EXCEPT !.at = at, !.known = known] /\ jobs' = [jobs EXCEPT ![j] = x]
    BY <1>5 DEF Moves
  <2>2. x = [kind |-> a.kind, pc |-> "poll", half |-> a.half, read |-> a.read, plan |-> a.plan, asked |-> a.asked,
             clean |-> a.clean, at |-> at, known |-> known, outcome |-> a.outcome]
    BY <1>2, <2>1 DEF JobStands, JobIs
  <2>3. JobIs(x) /\ x.outcome = a.outcome /\ x.kind = a.kind /\ x.pc = "poll" /\ x.asked = a.asked
        /\ x.half = Absent
    <3>1. a.half = Absent
      BY <1>2 DEF JobStands, HalfFits
    <3> QED
      BY <2>2, <3>1 DEF JobIs
  <2>4. PcFits(x)
    BY <1>2, <2>3 DEF JobStands, PcFits
  <2>5. PlanIsWritable(x) /\ PlanIsAsked(x) /\ PlanIsClean(x) /\ PlanIsSigned(j, x) /\ NothingSent(j, x)
    BY <2>3 DEF PlanIsWritable, PlanIsAsked, PlanIsClean, PlanIsSigned, NothingSent
  <2>6. AskedFits(x) /\ HalfFits(x)
    BY <1>2, <2>3 DEF JobStands, AskedFits, HalfFits
  <2>7. Busy(x) => Busy(jobs[j])
    BY <1>1, <1>2, <2>3 DEF Busy
  <2>8. JobStands(j, x)
    BY <2>3, <2>4, <2>5, <2>6 DEF JobStands
  <2> QED
    BY <1>0, <2>1, <2>7, <2>8, QuietMove
<1> QED
  BY <1>3, <1>4, <1>5

\* A consumption spends an id nobody has spent.
LEMMA LaterLedger ==
  ASSUME NEW i, NEW y, JobStands(i, y), UNCHANGED <<site, gh, signed, runs>>, ledger \subseteq ledger'
  PROVE  JobStands(i, y)'
<1>1. /\ PlanIsWritable(y)' /\ PlanIsAsked(y)' /\ AskedFits(y)' /\ PlanIsClean(y)' /\ NothingSent(i, y)' /\ HalfFits(y)'
  BY ZenonT(60) DEF JobStands, PlanIsWritable, WriteIs, PlanIsAsked, ReadIs, EnabledPlan, SwitchCounts, Turned,
                    AskedFits, PlanIsClean, NothingSent, HalfFits
<1>2. PlanIsSigned(i, y)'
  BY DEF JobStands, PlanIsSigned
<1> QED
  BY <1>1, <1>2 DEF JobStands
LEMMA ConsumeKeeps == ASSUME WriterInv, NEW j \in WriterJobs, Consume(j) PROVE WriterInv'
<1>0. jobs[j].pc = "consume" /\ UNCHANGED <<site, gh, signed, runs>>
  BY DEF Consume
<1>1. CASE ~MayConsume(j)
  <2>1. Failed(j) /\ UNCHANGED ledger
    BY <1>1 DEF Consume
  <2> QED
    BY <1>0, <2>1, QuietFailure
<1>2. CASE MayConsume(j)
  <2>1. PICK a, f : a = jobs[j] /\ f = jobs
    OBVIOUS
  <2>2. JobStands(j, a) /\ a.pc = "consume"
    BY <1>0, <2>1 DEF WriterInv
  <2>3. ledger' = ledger \cup {<<a.asked.id, j>>} /\ \A c \in ledger : c[1] # a.asked.id
    BY <1>2, <2>1 DEF Consume, MayConsume
  <2>4. LedgerIs'
    <3>1. \A c, d \in ledger : c[1] = d[1] => c = d
      BY DEF WriterInv, LedgerIs
    <3>2. <<a.asked.id, j>>[1] = a.asked.id
      OBVIOUS
    <3> QED
      BY <2>3, <3>1, <3>2 DEF LedgerIs
  <2>5. SettingsAre' /\ RunsAre'
    BY <1>0 DEF WriterInv, SettingsAre, RunsAre
  <2>6. \A i \in WriterJobs \ {j} : JobStands(i, f[i])'
    <3> SUFFICES ASSUME NEW i \in WriterJobs \ {j} PROVE JobStands(i, f[i])'
      OBVIOUS
    <3>1. JobStands(i, f[i])
      BY <2>1 DEF WriterInv
    <3> QED
      BY <1>0, <2>3, <3>1, LaterLedger
  <2>7. a.kind = "switch" /\ a.at = 0 /\ a.outcome = "none" /\ a.half = Absent
    BY <2>2 DEF JobStands, PcFits, HalfFits
  <2>8. CASE Failed(j)
    <3>1. PICK x : Ended(x) /\ jobs' = [jobs EXCEPT ![j] = x]
      BY <1>0, <2>8, EndingIs DEF Failed
    <3>2. JobStands(j, x) /\ ~Busy(x)
      BY <3>1, EndStands
    <3>3. JobStands(j, x)'
      BY <1>0, <2>3, <3>2, LaterLedger
    <3> QED
      BY <2>1, <2>4, <2>5, <2>6, <3>1, <3>2, <3>3, JobMoves
  <2>9. CASE Moves(j, [jobs[j] EXCEPT !.pc = "write", !.read = gh])
    <3>1. PICK x : x = [a EXCEPT !.pc = "write", !.read = gh] /\ jobs' = [f EXCEPT ![j] = x]
      BY <2>1, <2>9 DEF Moves
    <3>2. x = [kind |-> a.kind, pc |-> "write", half |-> a.half, read |-> gh, plan |-> a.plan, asked |-> a.asked,
               clean |-> a.clean, at |-> a.at, known |-> a.known, outcome |-> a.outcome]
      BY <2>2, <3>1 DEF JobStands, JobIs
    <3>3. /\ JobIs(x) /\ x.outcome = a.outcome /\ x.kind = "switch" /\ x.pc = "write" /\ x.at = 0 /\ x.plan = a.plan
          /\ x.asked = a.asked /\ x.clean = a.clean /\ x.half = Absent
      BY <2>7, <3>2 DEF JobIs
    <3>4. PcFits(x)
      BY <2>7, <3>3 DEF PcFits, Grouped, AdoptKinds
    <3>5. PlanIsWritable(a)
      BY <2>2 DEF JobStands
    <3>6. Len(x.plan) \in Nat \ {0} /\ DOMAIN x.plan = 1 .. Len(x.plan) /\ \A i \in 1 .. Len(x.plan) : WriteIs(x.plan[i])
      BY <2>2, <3>3, <3>5 DEF PlanIsWritable
    <3>7. x.at \in Nat /\ x.at < Len(x.plan)
      BY <3>3, <3>6
    <3>8. PlanIsWritable(x)' /\ PlanIsClean(x)'
      <4>1. PlanIsWritable(x)
        BY <3>6, <3>7 DEF PlanIsWritable
      <4>2. PlanIsClean(x)
        BY <2>2, <3>3 DEF JobStands, PlanIsClean
      <4> QED
        BY <1>0, <4>1, <4>2 DEF PlanIsWritable, PlanIsClean, WriteIs
    <3>9. PlanIsAsked(x)'
      BY <3>3 DEF PlanIsAsked, AdoptKinds
    <3>10. PlanIsSigned(j, x)'
      <4>1. a.asked.id \in DOMAIN signed /\ signed[a.asked.id].plan = a.plan
        BY <2>2, <2>7 DEF JobStands, PlanIsSigned
      <4> QED
        BY <1>0, <2>3, <3>3, <4>1 DEF PlanIsSigned
    <3>11. AskedFits(x)' /\ NothingSent(j, x)' /\ HalfFits(x)'
      BY <1>0, <2>2, <2>7, <3>3 DEF JobStands, AskedFits, NothingSent, HalfFits
    <3>12. JobStands(j, x)'
      BY <3>3, <3>4, <3>8, <3>9, <3>10, <3>11 DEF JobStands
    <3>13. Busy(f[j])
      BY <2>1, <2>2, <2>7 DEF Busy, Grouped
    <3> QED
      BY <2>1, <2>4, <2>5, <2>6, <3>1, <3>12, <3>13, JobMoves
  <2> QED
    BY <1>2, <2>8, <2>9 DEF Consume
<1> QED
  BY <1>1, <1>2

\* A job sends one run.
LEMMA RunSent ==
  ASSUME WriterInv, NEW j \in WriterJobs, jobs[j].pc \in {"dispatch", "dispatch hk"},
         runs' = runs \cup {RunOf(j, Absent)}, UNCHANGED <<site, gh, ledger, signed>>,
         NEW x, JobStands(j, x), x.pc \in {"poll", "done"}, jobs' = [jobs EXCEPT ![j] = x], Busy(x) => Busy(jobs[j])
  PROVE  WriterInv'
<1>1. PICK f, s : f = jobs /\ s = RunOf(j, Absent)
  OBVIOUS
<1>2. s = [job |-> s.job, attempt |-> s.attempt, result |-> s.result] /\ s.job = j
  BY <1>1 DEF RunOf
<1>3. \A r \in runs : r.job # j
  <2>1. NothingSent(j, jobs[j])
    BY DEF WriterInv, JobStands
  <2> QED
    BY <2>1 DEF NothingSent
<1>4. RunsAre'
  <2>1. RunsAre /\ runs' = runs \cup {s}
    BY <1>1 DEF WriterInv
  <2> QED
    BY <1>2, <1>3, <2>1 DEF RunsAre
<1>5. SettingsAre' /\ LedgerIs'
  BY DEF WriterInv, SettingsAre, LedgerIs
<1>6. ASSUME NEW i \in WriterJobs, NEW y, JobStands(i, y), i # j \/ y.pc \in {"poll", "done"} PROVE JobStands(i, y)'
  <2>1. PlanIsWritable(y)' /\ PlanIsAsked(y)' /\ AskedFits(y)'
    BY <1>6 DEF JobStands, PlanIsWritable, WriteIs, PlanIsAsked, ReadIs, EnabledPlan, SwitchCounts, Turned, AskedFits
  <2>2. PlanIsClean(y)' /\ PlanIsSigned(i, y)' /\ HalfFits(y)'
    BY <1>6 DEF JobStands, PlanIsClean, PlanIsSigned, HalfFits
  <2>3. NothingSent(i, y)'
    BY <1>1, <1>2, <1>6 DEF JobStands, NothingSent
  <2> QED
    BY <1>6, <2>1, <2>2, <2>3 DEF JobStands
<1>7. \A i \in WriterJobs \ {j} : JobStands(i, f[i])'
  <2> SUFFICES ASSUME NEW i \in WriterJobs \ {j} PROVE JobStands(i, f[i])'
    OBVIOUS
  <2>1. JobStands(i, f[i])
    BY <1>1 DEF WriterInv
  <2> QED
    BY <1>6, <2>1
<1>8. JobStands(j, x)'
  BY <1>6
<1> QED
  BY <1>1, <1>4, <1>5, <1>7, <1>8, JobMoves

LEMMA DispatchHkKeeps == ASSUME WriterInv, NEW j \in WriterJobs, DispatchHk(j) PROVE WriterInv'
<1>0. jobs[j].pc = "dispatch hk" /\ UNCHANGED <<site, gh, ledger, signed>>
  BY DEF DispatchHk
<1>1. PICK o : EndsAs(j, o)
  BY DEF DispatchHk, Failed
<1>2. PICK x : Ended(x) /\ jobs' = [jobs EXCEPT ![j] = x]
  BY <1>0, <1>1, EndingIs
<1>3. JobStands(j, x) /\ ~Busy(x) /\ x.pc = "done"
  BY <1>2, EndStands DEF Ended
<1>4. runs' = runs \/ runs' = runs \cup {RunOf(j, Absent)}
  BY DEF DispatchHk
<1> QED
  BY <1>0, <1>2, <1>3, <1>4, QuietMove, RunSent

LEMMA DispatchControlKeeps == ASSUME WriterInv, NEW j \in WriterJobs, DispatchControl(j) PROVE WriterInv'
<1>0. jobs[j].pc = "dispatch" /\ UNCHANGED <<site, gh, ledger, signed>>
  BY DEF DispatchControl
<1>1. PICK a : a = jobs[j]
  OBVIOUS
<1>2. JobStands(j, a) /\ a.pc = "dispatch"
  BY <1>0, <1>1 DEF WriterInv
<1>3. runs' = runs \/ runs' = runs \cup {RunOf(j, Absent)}
  BY DEF DispatchControl
<1>4. \/ EndsAs(j, "partial") /\ UNCHANGED runs
      \/ \E known : Moves(j, [a EXCEPT !.pc = "poll", !.known = known])
  <2>1. PICK b : b = [a EXCEPT !.pc = "poll"]
    OBVIOUS
  <2>2. \/ EndsAs(j, "partial") /\ UNCHANGED runs
        \/ \E known : Moves(j, [b EXCEPT !.known = known])
        \/ Moves(j, b)
    BY <1>1, <2>1 DEF DispatchControl
  <2>3. \A known : [b EXCEPT !.known = known] = [a EXCEPT !.pc = "poll", !.known = known]
    BY <2>1
  <2>4. b = [a EXCEPT !.pc = "poll", !.known = a.known]
    <3>1. a = [kind |-> a.kind, pc |-> a.pc, half |-> a.half, read |-> a.read, plan |-> a.plan, asked |-> a.asked,
               clean |-> a.clean, at |-> a.at, known |-> a.known, outcome |-> a.outcome]
      BY <1>2 DEF JobStands, JobIs
    <3> QED
      BY <2>1, <3>1
  <2> QED
    BY <2>2, <2>3, <2>4
<1>5. CASE EndsAs(j, "partial") /\ UNCHANGED runs
  BY <1>0, <1>5, QuietEnd
<1>6. ASSUME NEW known, Moves(j, [a EXCEPT !.pc = "poll", !.known = known]) PROVE WriterInv'
  <2>1. PICK x : x = [a EXCEPT !.pc = "poll", !.known = known] /\ jobs' = [jobs EXCEPT ![j] = x]
    BY <1>6 DEF Moves
  <2>2. x = [kind |-> a.kind, pc |-> "poll", half |-> a.half, read |-> a.read, plan |-> a.plan, asked |-> a.asked,
             clean |-> a.clean, at |-> a.at, known |-> known, outcome |-> a.outcome]
    BY <1>2, <2>1 DEF JobStands, JobIs
  <2>3. JobIs(x) /\ x.outcome = a.outcome /\ x.kind = a.kind /\ x.pc = "poll" /\ x.asked = a.asked
        /\ x.half = Absent
    <3>1. a.half = Absent
      BY <1>2 DEF JobStands, HalfFits
    <3> QED
      BY <2>2, <3>1 DEF JobIs
  <2>4. PcFits(x)
    BY <1>2, <2>3 DEF JobStands, PcFits
  <2>5. PlanIsWritable(x) /\ PlanIsAsked(x) /\ PlanIsClean(x) /\ PlanIsSigned(j, x) /\ NothingSent(j, x)
    BY <2>3 DEF PlanIsWritable, PlanIsAsked, PlanIsClean, PlanIsSigned, NothingSent
  <2>6. AskedFits(x) /\ HalfFits(x)
    BY <1>2, <2>3 DEF JobStands, AskedFits, HalfFits
  <2>7. Busy(x) => Busy(jobs[j])
    BY <1>1, <1>2, <2>3 DEF Busy
  <2>8. JobStands(j, x)
    BY <2>3, <2>4, <2>5, <2>6 DEF JobStands
  <2> QED
    BY <1>0, <1>3, <2>1, <2>3, <2>7, <2>8, QuietMove, RunSent
<1> QED
  BY <1>4, <1>5, <1>6

\* A run that ends, or is started again, is still the run of its job.
LEMMA RunChanges ==
  ASSUME WriterInv, NEW r \in runs, NEW s, runs' = (runs \ {r}) \cup {s}, s.job = r.job,
         s = [job |-> s.job, attempt |-> s.attempt, result |-> s.result], UNCHANGED <<site, gh, jobs, ledger, signed>>
  PROVE  WriterInv'
<1>1. RunsAre'
  BY DEF WriterInv, RunsAre
<1>2. SettingsAre' /\ LedgerIs' /\ OneAtATime'
  BY DEF WriterInv, SettingsAre, LedgerIs, OneAtATime
<1>3. PICK f : f = jobs
  OBVIOUS
<1>4. ASSUME NEW i, NEW y, JobStands(i, y) PROVE JobStands(i, y)'
  <2>1. PlanIsWritable(y)' /\ PlanIsAsked(y)' /\ AskedFits(y)'
    BY <1>4 DEF JobStands, PlanIsWritable, WriteIs, PlanIsAsked, ReadIs, EnabledPlan, SwitchCounts, Turned, AskedFits
  <2>2. PlanIsClean(y)' /\ PlanIsSigned(i, y)' /\ HalfFits(y)'
    BY <1>4 DEF JobStands, PlanIsClean, PlanIsSigned, HalfFits
  <2>3. NothingSent(i, y)'
    BY <1>4 DEF JobStands, NothingSent
  <2> QED
    BY <1>4, <2>1, <2>2, <2>3 DEF JobStands
<1>5. \A i \in WriterJobs : JobStands(i, f[i])'
  <2> SUFFICES ASSUME NEW i \in WriterJobs PROVE JobStands(i, f[i])'
    OBVIOUS
  <2>1. JobStands(i, f[i])
    BY <1>3 DEF WriterInv
  <2> QED
    BY <1>4, <2>1
<1>6. \A i \in WriterJobs : JobStands(i, jobs[i])'
  BY <1>3, <1>5
<1>7. jobs' = [i \in WriterJobs |-> jobs'[i]]
  BY DEF WriterInv
<1> QED
  BY <1>1, <1>2, <1>6, <1>7 DEF WriterInv
LEMMA RunsKeep == ASSUME WriterInv, NEW r \in runs, RunEnds(r) \/ RunAgain(r) PROVE WriterInv'
<1>1. r = [job |-> r.job, attempt |-> r.attempt, result |-> r.result]
  BY DEF WriterInv, RunsAre
<1>2. CASE RunEnds(r)
  <2>1. PICK result : runs' = (runs \ {r}) \cup {[r EXCEPT !.result = result]}
    BY <1>2 DEF RunEnds
  <2>2. PICK s : s = [r EXCEPT !.result = result]
    OBVIOUS
  <2>3. s = [job |-> r.job, attempt |-> r.attempt, result |-> result]
    BY <1>1, <2>2
  <2>4. s = [job |-> s.job, attempt |-> s.attempt, result |-> s.result] /\ s.job = r.job
    BY <2>3
  <2> QED
    BY <1>2, <2>1, <2>2, <2>4, RunChanges DEF RunEnds
<1>3. CASE RunAgain(r)
  <2>2. PICK s : s = [r EXCEPT !.attempt = 2, !.result = Absent]
    OBVIOUS
  <2>1. runs' = (runs \ {r}) \cup {s}
    BY <1>3, <2>2 DEF RunAgain
  <2>3. s = [job |-> r.job, attempt |-> 2, result |-> Absent]
    BY <1>1, <2>2
  <2>4. s = [job |-> s.job, attempt |-> s.attempt, result |-> s.result] /\ s.job = r.job
    BY <2>3
  <2> QED
    BY <1>3, <2>1, <2>4, RunChanges DEF RunAgain
<1> QED
  BY <1>2, <1>3

\* A signature stays what it is for.
LEMMA SignedGrows ==
  ASSUME WriterInv, UNCHANGED <<site, gh, jobs, ledger, runs>>,
         NEW s, signed' = s, s = [id \in DOMAIN s |-> [plan |-> s[id].plan, fresh |-> s[id].fresh]],
         \A id \in DOMAIN signed : id \in DOMAIN s /\ s[id].plan = signed[id].plan
  PROVE  WriterInv'
<1>1. SettingsAre'
  BY DEF WriterInv, SettingsAre
<1>2. RunsAre' /\ LedgerIs' /\ OneAtATime'
  BY DEF WriterInv, RunsAre, LedgerIs, OneAtATime
<1>3. PICK f : f = jobs
  OBVIOUS
<1>4. ASSUME NEW i, NEW y, JobStands(i, y) PROVE JobStands(i, y)'
  <2>1. /\ PlanIsWritable(y)' /\ PlanIsAsked(y)' /\ AskedFits(y)' /\ PlanIsClean(y)' /\ NothingSent(i, y)'
        /\ HalfFits(y)'
    BY <1>4, ZenonT(60) DEF JobStands, PlanIsWritable, WriteIs, PlanIsAsked, ReadIs, EnabledPlan, SwitchCounts, Turned, AskedFits,
                PlanIsClean, NothingSent, HalfFits
  <2>2. PlanIsSigned(i, y)'
    BY <1>4 DEF JobStands, PlanIsSigned
  <2> QED
    BY <1>4, <2>1, <2>2 DEF JobStands
<1>5. \A i \in WriterJobs : JobStands(i, f[i])'
  <2> SUFFICES ASSUME NEW i \in WriterJobs PROVE JobStands(i, f[i])'
    OBVIOUS
  <2>1. JobStands(i, f[i])
    BY <1>3 DEF WriterInv
  <2> QED
    BY <1>4, <2>1
<1>6. \A i \in WriterJobs : JobStands(i, jobs[i])'
  BY <1>3, <1>5
<1>7. jobs' = [i \in WriterJobs |-> jobs'[i]]
  BY DEF WriterInv
<1> QED
  BY <1>1, <1>2, <1>6, <1>7 DEF WriterInv
LEMMA SignaturesKeep ==
  ASSUME WriterInv, NEW id, Lapse(id) \/ \E p \in Profiles : Sign(id, p) PROVE WriterInv'
<1>1. signed = [i \in DOMAIN signed |-> [plan |-> signed[i].plan, fresh |-> signed[i].fresh]]
  BY DEF WriterInv, SettingsAre
<1>2. CASE Lapse(id)
  <2>1. PICK a, b : a = signed[id] /\ b = [a EXCEPT !.fresh = FALSE]
    OBVIOUS
  <2>2. id \in DOMAIN signed /\ UNCHANGED <<site, gh, jobs, ledger, runs>>
    BY <1>2 DEF Lapse
  <2>3. PICK s : s = [signed EXCEPT ![id] = b]
    OBVIOUS
  <2>4. signed' = s
    BY <1>2, <2>1, <2>3 DEF Lapse
  <2>5. a = [plan |-> a.plan, fresh |-> a.fresh]
    BY <1>1, <2>1, <2>2
  <2>6. b = [plan |-> a.plan, fresh |-> FALSE]
    BY <2>1, <2>5
  <2>7. b = [plan |-> b.plan, fresh |-> b.fresh] /\ b.plan = signed[id].plan
    BY <2>1, <2>6
  <2>8. DOMAIN s = DOMAIN signed /\ s = [i \in DOMAIN s |-> s[i]]
    BY <1>1, <2>3
  <2>9. \A i \in DOMAIN s : s[i] = IF i = id THEN b ELSE signed[i]
    BY <2>2, <2>3, <2>8
  <2>10. \A i \in DOMAIN s : s[i] = [plan |-> s[i].plan, fresh |-> s[i].fresh] /\ s[i].plan = signed[i].plan
    BY <1>1, <2>7, <2>8, <2>9
  <2>11. s = [i \in DOMAIN s |-> [plan |-> s[i].plan, fresh |-> s[i].fresh]]
    BY <2>8, <2>10
  <2> QED
    BY <2>2, <2>4, <2>8, <2>10, <2>11, SignedGrows
<1>3. ASSUME NEW p \in Profiles, Sign(id, p) PROVE WriterInv'
  <2>1. PICK b : b = [plan |-> SwitchPlan(gh, p), fresh |-> TRUE]
    OBVIOUS
  <2>2. id \notin DOMAIN signed /\ UNCHANGED <<site, gh, jobs, ledger, runs>>
    BY <1>3 DEF Sign
  <2>3. PICK s : s = [i \in DOMAIN signed \cup {id} |-> IF i = id THEN b ELSE signed[i]]
    OBVIOUS
  <2>4. signed' = s
    BY <1>3, <2>1, <2>3 DEF Sign
  <2>5. b = [plan |-> b.plan, fresh |-> b.fresh]
    BY <2>1
  <2>6. DOMAIN s = DOMAIN signed \cup {id} /\ s = [i \in DOMAIN s |-> s[i]]
    BY <2>3
  <2>7. \A i \in DOMAIN s : s[i] = IF i = id THEN b ELSE signed[i]
    BY <2>3
  <2>8. \A i \in DOMAIN s : s[i] = [plan |-> s[i].plan, fresh |-> s[i].fresh]
    BY <1>1, <2>5, <2>6, <2>7
  <2>9. s = [i \in DOMAIN s |-> [plan |-> s[i].plan, fresh |-> s[i].fresh]]
    BY <2>6, <2>8
  <2>10. \A i \in DOMAIN signed : i \in DOMAIN s /\ s[i].plan = signed[i].plan
    BY <2>2, <2>6, <2>7
  <2> QED
    BY <2>2, <2>4, <2>9, <2>10, SignedGrows
<1> QED
  BY <1>2, <1>3

\* The settings change under the others.
LEMMA SettingsChange ==
  ASSUME WriterInv, Replaces(gh, gh'), UNCHANGED <<site, ledger, signed, runs>>
  PROVE  /\ SettingsAre' /\ RunsAre' /\ LedgerIs'
         /\ \A i, y : JobStands(i, y) /\ PlanIsClean(y)' /\ HalfFits(y)' => JobStands(i, y)'
<1>1. PICK g : g = gh'
  OBVIOUS
<1>2. GhIs(g) /\ \A level \in Levels : /\ g[level]["inventory"] = Absent <=> gh[level]["inventory"] = Absent
                                       /\ g[level]["service"] = gh[level]["service"]
  BY <1>1 DEF Replaces
<1>4. SettingsAre'
  BY <1>1, <1>2 DEF WriterInv, SettingsAre
<1>5. RunsAre' /\ LedgerIs'
  BY DEF WriterInv, RunsAre, LedgerIs
<1>6. ASSUME NEW w, WriteIs(w) PROVE WriteIs(w)'
  BY <1>1, <1>2, <1>6 DEF WriteIs
<1>7. ASSUME NEW i, NEW y, JobStands(i, y), PlanIsClean(y)', HalfFits(y)' PROVE JobStands(i, y)'
  <2>1. PlanIsWritable(y)'
    BY <1>6, <1>7 DEF JobStands, PlanIsWritable
  <2>2. PlanIsAsked(y)' /\ AskedFits(y)' /\ PlanIsSigned(i, y)' /\ NothingSent(i, y)'
    BY <1>7 DEF JobStands, PlanIsAsked, ReadIs, EnabledPlan, SwitchCounts, Turned, AskedFits, PlanIsSigned, NothingSent
  <2> QED
    BY <1>7, <2>1, <2>2 DEF JobStands
<1> QED
  BY <1>4, <1>5, <1>7

\* A job whose settings somebody else has written is not clean any more.
LEMMA StainedStands ==
  ASSUME Replaces(gh, gh'), UNCHANGED site, NEW i, NEW y, JobStands(i, y), NEW z, z = [y EXCEPT !.clean = FALSE]
  PROVE  JobStands(i, z) /\ PlanIsClean(z)' /\ HalfFits(z)' /\ (Busy(z) <=> Busy(y))
<1>1. z = [kind |-> y.kind, pc |-> y.pc, half |-> y.half, read |-> y.read, plan |-> y.plan, asked |-> y.asked,
           clean |-> FALSE, at |-> y.at, known |-> y.known, outcome |-> y.outcome]
  BY DEF JobStands, JobIs
<1>2. /\ JobIs(z) /\ z.kind = y.kind /\ z.pc = y.pc /\ z.read = y.read /\ z.plan = y.plan /\ z.asked = y.asked
      /\ z.at = y.at /\ z.outcome = y.outcome /\ ~z.clean /\ z.half = y.half
  BY <1>1 DEF JobIs
<1>3. PcFits(z) /\ PlanIsAsked(z) /\ AskedFits(z)
  <2>1. PcFits(z)
    BY <1>2 DEF JobStands, PcFits
  <2>2. PlanIsAsked(y) => PlanIsAsked(z)
    BY <1>2, Zenon DEF PlanIsAsked
  <2>3. AskedFits(z)
    BY <1>2 DEF JobStands, AskedFits
  <2> QED
    BY <2>1, <2>2, <2>3 DEF JobStands
<1>4. PlanIsWritable(z)
  BY <1>2 DEF JobStands, PlanIsWritable
<1>5. PlanIsSigned(i, z) /\ NothingSent(i, z)
  BY <1>2 DEF JobStands, PlanIsSigned, NothingSent
<1>6. PlanIsClean(z) /\ PlanIsClean(z)'
  BY <1>2 DEF PlanIsClean
<1>7. HalfFits(z) /\ HalfFits(z)'
  BY <1>2 DEF JobStands, HalfFits, Replaces, Levels
<1> QED
  BY <1>2, <1>3, <1>4, <1>5, <1>6, <1>7 DEF JobStands, Busy

\* All the other jobs are stained.
LEMMA StainedMove ==
  ASSUME WriterInv, NEW f, f = jobs, NEW x, NEW j \in WriterJobs,
         jobs' = [i \in WriterJobs |-> IF i = j THEN x ELSE [f[i] EXCEPT !.clean = FALSE]],
         Replaces(gh, gh'), UNCHANGED site,
         SettingsAre', RunsAre', LedgerIs', JobStands(j, x)', Busy(x) <=> Busy(f[j]),
         \A i, y : JobStands(i, y) /\ PlanIsClean(y)' /\ HalfFits(y)' => JobStands(i, y)'
  PROVE  WriterInv'
<1>1. PICK h : h = [i \in WriterJobs |-> IF i = j THEN x ELSE [f[i] EXCEPT !.clean = FALSE]]
  OBVIOUS
<1>2. ASSUME NEW i \in WriterJobs PROVE JobStands(i, h[i])' /\ (Busy(h[i]) <=> Busy(f[i]))
  <2>1. CASE i = j
    BY <1>1, <2>1
  <2>2. CASE i # j
    <3>1. PICK y, z : y = f[i] /\ z = [y EXCEPT !.clean = FALSE]
      OBVIOUS
    <3>2. JobStands(i, y)
      BY <3>1 DEF WriterInv
    <3>3. JobStands(i, z) /\ PlanIsClean(z)' /\ HalfFits(z)' /\ (Busy(z) <=> Busy(y))
      BY <3>1, <3>2, StainedStands
    <3>4. JobStands(i, z)'
      BY <3>3
    <3>5. h[i] = z
      BY <1>1, <2>2, <3>1
    <3> QED
      BY <3>1, <3>3, <3>4, <3>5
  <2> QED
    BY <2>1, <2>2
<1>3. jobs' = h /\ h = [i \in WriterJobs |-> h[i]]
  BY <1>1
<1>4. OneAtATime'
  <2>1. \A i, k \in WriterJobs : Busy(f[i]) /\ Busy(f[k]) => i = k
    BY DEF WriterInv, OneAtATime
  <2>2. \A i, k \in WriterJobs : Busy(h[i]) /\ Busy(h[k]) => i = k
    BY <1>2, <2>1
  <2> QED
    BY <1>3, <2>2 DEF OneAtATime
<1>5. \A i \in WriterJobs : JobStands(i, jobs[i])'
  BY <1>2, <1>3
<1> QED
  BY <1>3, <1>4, <1>5 DEF WriterInv

LEMMA EditKeeps ==
  ASSUME WriterInv, NEW level \in DOMAIN gh, NEW name \in {"enabled", "inventory"}, Edit(level, name)
  PROVE  WriterInv'
<1>0. UNCHANGED <<site, ledger, signed, runs>> /\ GhIs(gh) /\ gh[level][name] # Absent
  BY DEF Edit, WriterInv, SettingsAre
<1>1. level \in Levels /\ LevelIs(gh[level])
  BY <1>0 DEF GhIs
<1>2. PICK v \in Edited(level, name) : gh' = [gh EXCEPT ![level][name] = v]
  BY DEF Edit
<1>3. PICK w : w = Put(level, name, v)
  OBVIOUS
<1>4. w.level = level /\ w.name = name /\ w.value = v
  BY <1>3 DEF Put
<1>5. gh' = [gh EXCEPT ![w.level][w.name] = w.value]
  BY <1>2, <1>4
<1>6. name = "inventory" => IsBook(v)
  <2> SUFFICES ASSUME name = "inventory" PROVE IsBook(v)
    OBVIOUS
  <2>1. PICK b : b = gh[level]["inventory"]
    OBVIOUS
  <2>2. IsBook(b)
    BY <1>0, <1>1, <2>1 DEF LevelIs
  <2>3. \A a \in DOMAIN b : b[a] \in BookEntries
    BY <2>2 DEF IsBook
  <2>4. \A a \in DOMAIN b : [b[a] EXCEPT !.top = Toggled(b[a].top)] \in BookEntries
    <3> SUFFICES ASSUME NEW a \in DOMAIN b PROVE [b[a] EXCEPT !.top = Toggled(b[a].top)] \in BookEntries
      OBVIOUS
    <3>1. PICK e, t : e = b[a] /\ t = Toggled(e.top)
      OBVIOUS
    <3>2. e \in BookEntries /\ t \in {"true", "false", Absent}
      BY <2>3, <3>1 DEF Toggled
    <3>3. [e EXCEPT !.top = t] \in BookEntries
      BY <3>2 DEF BookEntries
    <3> QED
      BY <3>1, <3>3
  <2>5. PICK accounts : v = AccountsToggled(b, accounts)
    BY <1>2, <2>1 DEF Edited
  <2>6. v = [a \in DOMAIN b |-> IF a \in accounts THEN [b[a] EXCEPT !.top = Toggled(b[a].top)] ELSE b[a]]
    BY <2>5 DEF AccountsToggled
  <2>7. v \in [DOMAIN b -> BookEntries] /\ DOMAIN v = DOMAIN b
    BY <2>3, <2>4, <2>6
  <2> QED
    BY <2>2, <2>7 DEF IsBook
<1>7. WriteIs(w)
  BY <1>0, <1>1, <1>4, <1>6 DEF WriteIs, VariableNames
<1>8. PICK g : g = PutWhere(w)
  OBVIOUS
<1>9. Replaces(gh, g)
  BY <1>0, <1>7, <1>8, WriteReplaces
<1>10. Replaces(gh, gh')
  BY <1>5, <1>8, <1>9 DEF PutWhere
<1>11. /\ SettingsAre' /\ RunsAre' /\ LedgerIs'
       /\ \A i, y : JobStands(i, y) /\ PlanIsClean(y)' /\ HalfFits(y)' => JobStands(i, y)'
  BY <1>0, <1>10, SettingsChange
<1>12. PICK f, h : f = jobs /\ h = [i \in WriterJobs |-> [f[i] EXCEPT !.clean = FALSE]]
  OBVIOUS
<1>13. jobs' = h /\ h = [i \in WriterJobs |-> h[i]]
  BY <1>12 DEF Edit
<1>14. ASSUME NEW i \in WriterJobs PROVE JobStands(i, h[i])' /\ (Busy(h[i]) <=> Busy(f[i]))
  <2>1. PICK y, z : y = f[i] /\ z = [y EXCEPT !.clean = FALSE]
    OBVIOUS
  <2>2. JobStands(i, y)
    BY <1>12, <2>1 DEF WriterInv
  <2>3. JobStands(i, z) /\ PlanIsClean(z)' /\ HalfFits(z)' /\ (Busy(z) <=> Busy(y))
    BY <1>0, <1>10, <2>1, <2>2, StainedStands
  <2>4. JobStands(i, z)' /\ h[i] = z
    BY <1>11, <1>12, <2>1, <2>3
  <2> QED
    BY <2>1, <2>3, <2>4
<1>15. OneAtATime'
  <2>1. \A i, k \in WriterJobs : Busy(f[i]) /\ Busy(f[k]) => i = k
    BY <1>12 DEF WriterInv, OneAtATime
  <2>2. \A i, k \in WriterJobs : Busy(h[i]) /\ Busy(h[k]) => i = k
    BY <1>14, <2>1
  <2> QED
    BY <1>13, <2>2 DEF OneAtATime
<1>16. \A i \in WriterJobs : JobStands(i, jobs[i])'
  BY <1>13, <1>14
<1> QED
  BY <1>11, <1>13, <1>15, <1>16 DEF WriterInv

\* The variable a job writes.
LEMMA WriteFacts ==
  ASSUME WriterInv, NEW j \in WriterJobs, NEW a, a = jobs[j], a.pc = "write",
         NEW w, w = a.plan[a.at + 1], NEW g, g = PutWhere(w)
  PROVE  /\ WriteIs(w) /\ Replaces(gh, g)
         /\ a.at + 1 \in 1 .. Len(a.plan) /\ Len(a.plan) \in Nat /\ a.at \in Nat
         /\ w.name # "inventory" => \A level \in Levels : g[level]["inventory"] = gh[level]["inventory"]
         /\ g[w.level]["inventory"] = IF w.name = "inventory" THEN w.value ELSE gh[w.level]["inventory"]
         /\ \A level \in Levels \ {w.level} : g[level] = gh[level]
         /\ a.clean /\ w.name = "inventory" => SameOthers(w.value, gh[w.level]["inventory"])
<1>1. JobStands(j, a) /\ GhIs(gh)
  BY DEF WriterInv, SettingsAre
<1>2. PlanIsWritable(a) /\ PlanIsClean(a)
  BY <1>1 DEF JobStands
<1>3. Len(a.plan) \in Nat /\ a.at \in Nat /\ a.at < Len(a.plan) /\ \A i \in 1 .. Len(a.plan) : WriteIs(a.plan[i])
  BY <1>2 DEF PlanIsWritable
<1>4. a.at + 1 \in 1 .. Len(a.plan)
  BY <1>3
<1>5. WriteIs(w)
  BY <1>3, <1>4
<1>6. a.clean /\ w.name = "inventory" => SameOthers(w.value, gh[w.level]["inventory"])
  BY <1>2, <1>4 DEF PlanIsClean
<1>7. /\ Replaces(gh, g)
      /\ w.name # "inventory" => \A level \in Levels : g[level]["inventory"] = gh[level]["inventory"]
      /\ g[w.level]["inventory"] = IF w.name = "inventory" THEN w.value ELSE gh[w.level]["inventory"]
      /\ \A level \in Levels \ {w.level} : g[level] = gh[level]
  <2>1. GhIs(gh) /\ WriteIs(w) /\ g = PutWhere(w)
    BY <1>1, <1>5
  <2> QED
    BY <2>1, WriteReplaces, SMTT(60)
<1> QED
  BY <1>3, <1>4, <1>5, <1>6, <1>7
\* After a clean job's write the others are the same, so that its plan is still clean.
LEMMA OthersAreSame ==
  ASSUME WriterInv, NEW j \in WriterJobs, NEW a, a = jobs[j], a.pc = "write", a.clean,
         NEW w, w = a.plan[a.at + 1], NEW g, g = PutWhere(w)
  PROVE  \A level \in Levels : \/ g[level]["inventory"] = gh[level]["inventory"]
                               \/ /\ IsBook(g[level]["inventory"]) /\ gh[level]["inventory"] # Absent
                                  /\ SameOthers(g[level]["inventory"], gh[level]["inventory"])
<1>1. /\ WriteIs(w) /\ (w.name = "inventory" => SameOthers(w.value, gh[w.level]["inventory"]))
      /\ g[w.level]["inventory"] = IF w.name = "inventory" THEN w.value ELSE gh[w.level]["inventory"]
      /\ \A level \in Levels \ {w.level} : g[level] = gh[level]
  <2>1. WriteIs(w)
    BY WriteFacts
  <2>2. a.clean /\ w.name = "inventory" => SameOthers(w.value, gh[w.level]["inventory"])
    BY WriteFacts
  <2>3. g[w.level]["inventory"] = IF w.name = "inventory" THEN w.value ELSE gh[w.level]["inventory"]
    BY WriteFacts, SMTT(60)
  <2>4. \A level \in Levels \ {w.level} : g[level] = gh[level]
    BY WriteFacts, SMTT(60)
  <2> QED
    BY <2>1, <2>2, <2>3, <2>4
<1> QED
  BY <1>1 DEF WriteIs
LEMMA StepWithin == ASSUME NEW m \in Nat, NEW l \in Nat, m + 1 \in 1 .. l
                     PROVE  m + 1 \in Nat /\ m + 1 <= l /\ (m + 1 # l => m + 1 < l)
  OBVIOUS
LEMMA WrittenKeeps ==
  ASSUME WriterInv, NEW j \in WriterJobs, NEW a, a = jobs[j], a.pc = "write",
         NEW w, w = a.plan[a.at + 1], NEW g, g = PutWhere(w),
         gh' = g, jobs' = Stained(j, AfterWrite(a)), UNCHANGED <<site, ledger, signed, runs>>
  PROVE  WriterInv'
<1>1. JobStands(j, a)
  BY DEF WriterInv
<1>2. /\ WriteIs(w) /\ Replaces(gh, g)
      /\ a.at + 1 \in 1 .. Len(a.plan) /\ Len(a.plan) \in Nat /\ a.at \in Nat
  BY WriteFacts
<1>3. PICK pc \in {"write", "read back"} : pc = IF a.at + 1 = Len(a.plan) THEN "read back" ELSE "write"
  OBVIOUS
<1>4. PICK next : next = a.at + 1
  OBVIOUS
<1>5. PICK x : x = [a EXCEPT !.at = next, !.pc = pc]
  OBVIOUS
<1>6. x = AfterWrite(a)
  BY <1>3, <1>4, <1>5 DEF AfterWrite
<1>7. x = [kind |-> a.kind, pc |-> pc, half |-> a.half, read |-> a.read, plan |-> a.plan, asked |-> a.asked,
           clean |-> a.clean, at |-> next, known |-> a.known, outcome |-> a.outcome]
  BY <1>1, <1>5 DEF JobStands, JobIs
<1>8. /\ JobIs(x) /\ x.outcome = a.outcome /\ x.kind = a.kind /\ x.pc = pc /\ x.at = next /\ x.plan = a.plan /\ x.read = a.read
      /\ x.asked = a.asked /\ x.clean = a.clean /\ x.half = Absent
  <2>1. a.half = Absent
    BY <1>1 DEF JobStands, HalfFits
  <2> QED
    BY <1>7, <2>1 DEF JobIs
<1>9. PcFits(x)
  BY <1>1, <1>8 DEF JobStands, PcFits
<1>10. PlanIsWritable(x)
  <2>1. PlanIsWritable(a)
    BY <1>1 DEF JobStands
  <2>2. Len(x.plan) \in Nat \ {0} /\ DOMAIN x.plan = 1 .. Len(x.plan) /\ \A i \in 1 .. Len(x.plan) : WriteIs(x.plan[i])
    BY <1>8, <2>1 DEF PlanIsWritable
  <2>3. PICK m, l : m = a.at /\ l = Len(a.plan)
    OBVIOUS
  <2>4. m \in Nat /\ l \in Nat /\ m + 1 \in 1 .. l /\ next = m + 1
    BY <1>2, <1>4, <2>3
  <2>5. pc = "write" => next # l
    BY <1>3, <2>3, <2>4
  <2>6. next \in Nat /\ (next # l => next < l)
    BY <2>4, StepWithin
  <2>7. x.at = next /\ x.pc = pc /\ Len(x.plan) = l
    BY <1>8, <2>3
  <2>8. x.at \in Nat /\ (x.pc = "write" => x.at < Len(x.plan))
    BY <2>4, <2>5, <2>6, <2>7
  <2> QED
    BY <2>2, <2>8 DEF PlanIsWritable
<1>11. PlanIsAsked(x) /\ AskedFits(x)
  BY <1>1, <1>8 DEF JobStands, PlanIsAsked, AskedFits
<1>12. PlanIsSigned(j, x) /\ NothingSent(j, x)
  BY <1>1, <1>8 DEF JobStands, PlanIsSigned, NothingSent
<1>13. ASSUME x.clean, NEW i \in 1 .. Len(x.plan), x.plan[i].name = "inventory"
       PROVE  /\ SameOthers(x.plan[i].value, gh[x.plan[i].level]["inventory"])
              /\ SameOthers(x.plan[i].value, g[x.plan[i].level]["inventory"])
  <2>1. PICK u : u = x.plan[i]
    OBVIOUS
  <2>2. SameOthers(u.value, gh[u.level]["inventory"])
    BY <1>1, <1>8, <1>13, <2>1 DEF JobStands, PlanIsClean
  <2>3. u.level \in Levels
    BY <1>10, <1>8, <1>13, <2>1 DEF PlanIsWritable, WriteIs
  <2>4. \/ g[u.level]["inventory"] = gh[u.level]["inventory"]
        \/ SameOthers(g[u.level]["inventory"], gh[u.level]["inventory"])
    BY <1>8, <1>13, <2>3, OthersAreSame
  <2>5. SameOthers(u.value, g[u.level]["inventory"])
    BY <2>2, <2>4 DEF SameOthers
  <2> QED
    BY <2>1, <2>2, <2>5
<1>14. PlanIsClean(x) /\ PlanIsClean(x)' /\ HalfFits(x) /\ HalfFits(x)'
  BY <1>8, <1>13 DEF PlanIsClean, HalfFits
<1>15. JobStands(j, x)
  BY <1>8, <1>9, <1>10, <1>11, <1>12, <1>14 DEF JobStands
<1>16. /\ SettingsAre' /\ RunsAre' /\ LedgerIs'
       /\ \A i, y : JobStands(i, y) /\ PlanIsClean(y)' /\ HalfFits(y)' => JobStands(i, y)'
  BY <1>2, SettingsChange
<1>17. JobStands(j, x)'
  BY <1>14, <1>15, <1>16
<1>18. Busy(x) <=> Busy(jobs[j])
  BY <1>8 DEF Busy
<1>19. PICK f : f = jobs
  OBVIOUS
<1>20. jobs' = [i \in WriterJobs |-> IF i = j THEN x ELSE [f[i] EXCEPT !.clean = FALSE]]
  BY <1>6, <1>19 DEF Stained
<1> QED
  BY <1>2, <1>16, <1>17, <1>18, <1>19, <1>20, StainedMove

\* A write that failed may have taken effect: the jobs that are clean write no inventory.
LEMMA FailedWriteKeeps ==
  ASSUME WriterInv, NEW j \in WriterJobs, NEW a, a = jobs[j], a.pc = "write",
         NEW w, w = a.plan[a.at + 1], NEW g, g = PutWhere(w),
         gh' = gh \/ gh' = g, AfterFailure(j), UNCHANGED <<site, ledger, signed, runs>>
  PROVE  WriterInv'
<1>1. JobStands(j, a) /\ GhIs(gh)
  BY DEF WriterInv, SettingsAre
<1>2. PICK f, h : f = jobs /\ h = gh'
  OBVIOUS
<1>3. /\ WriteIs(w) /\ Replaces(gh, g)
      /\ w.name # "inventory" => \A level \in Levels : g[level]["inventory"] = gh[level]["inventory"]
      /\ \A level \in Levels \ {w.level} : g[level] = gh[level]
      /\ a.at + 1 \in 1 .. Len(a.plan)
  BY WriteFacts
<1>4. Replaces(gh, gh')
  BY <1>1, <1>3 DEF Replaces
<1>5. /\ SettingsAre' /\ RunsAre' /\ LedgerIs'
      /\ \A i, y : JobStands(i, y) /\ PlanIsClean(y)' /\ HalfFits(y)' => JobStands(i, y)'
  BY <1>4, SettingsChange
<1>9. a.kind = "profile" => w.name # "inventory" /\ w.level = site.scope
  BY <1>1, <1>3 DEF JobStands, PlanIsAsked
<1>6. ASSUME NEW i \in WriterJobs \ {j} PROVE JobStands(i, f[i])'
  <2>1. PICK y : y = f[i]
    OBVIOUS
  <2>2. JobStands(i, y)
    BY <1>2, <2>1 DEF WriterInv
  <2>3. PlanIsClean(y)'
    <3> SUFFICES ASSUME y.clean, y.pc \in {"verify", "consume", "write"}, NEW k \in 1 .. Len(y.plan),
                        y.plan[k].name = "inventory"
                 PROVE  SameOthers(y.plan[k].value, h[y.plan[k].level]["inventory"])
      BY <1>2 DEF PlanIsClean
    <3>1. PICK u : u = y.plan[k]
      OBVIOUS
    <3>2. SameOthers(u.value, gh[u.level]["inventory"]) /\ u.level \in Levels
      BY <2>2, <3>1 DEF JobStands, PlanIsClean, PlanIsWritable, WriteIs
    <3>3. CASE a.kind = "profile"
      <4>1. w.name # "inventory"
        BY <1>9, <3>3
      <4>2. h[u.level]["inventory"] = gh[u.level]["inventory"]
        BY <1>2, <1>3, <3>2, <4>1, SMTT(60)
      <4> QED
        BY <3>1, <3>2, <4>2
    <3>4. CASE a.kind # "profile"
      <4>1. a.kind \in Grouped
        BY <1>1, <3>4 DEF JobStands, PcFits
      <4>2. y.kind \in Grouped
        <5>1. y.kind # "none"
          BY <2>2 DEF JobStands, PcFits
        <5>2. y.kind # "profile"
          <6> SUFFICES ASSUME y.kind = "profile" PROVE FALSE
            OBVIOUS
          <6>1. y.pc = "write"
            BY <2>2 DEF JobStands, PcFits
          <6> QED
            BY <2>2, <6>1 DEF JobStands, PlanIsAsked
        <5> QED
          BY <2>2, <5>1, <5>2 DEF JobStands, PcFits
      <4>3. Busy(f[i]) /\ Busy(f[j])
        BY <1>2, <2>1, <4>1, <4>2 DEF Busy
      <4> QED
        BY <1>2, <4>3 DEF WriterInv, OneAtATime
    <3> QED
      BY <3>3, <3>4
  <2>4. HalfFits(y)'
    <3> SUFFICES ASSUME y.half # Absent, y.clean, y.kind # "profile" PROVE h["repository"] = gh["repository"]
      BY <1>2, <1>4, <2>2 DEF JobStands, HalfFits, Replaces, Levels
    <3>1. y.pc \in {"read", "compare", "read back"} /\ site.scope = "environment"
      BY <2>2 DEF JobStands, HalfFits
    <3>2. CASE a.kind = "profile"
      <4>1. w.level = "environment"
        BY <1>9, <3>1, <3>2
      <4> QED
        BY <1>2, <1>3, <4>1 DEF Levels
    <3>3. CASE a.kind # "profile"
      <4>1. a.kind \in Grouped
        BY <1>1, <3>3 DEF JobStands, PcFits
      <4>2. y.kind \in Grouped
        BY <2>2, <3>1 DEF JobStands, PcFits
      <4>3. Busy(f[i]) /\ Busy(f[j])
        BY <1>2, <2>1, <3>1, <4>1, <4>2 DEF Busy
      <4> QED
        BY <1>2, <4>3 DEF WriterInv, OneAtATime
    <3> QED
      BY <3>2, <3>3
  <2>5. JobStands(i, y)'
    BY <1>5, <2>2, <2>3, <2>4
  <2> QED
    BY <2>1, <2>5
<1>7. CASE Failed(j)
  <2>0. PICK o : EndsAs(j, o)
    BY <1>7 DEF Failed
  <2>1. PICK x : Ended(x) /\ jobs' = [jobs EXCEPT ![j] = x]
    BY <2>0, EndingIs
  <2>2. JobStands(j, x) /\ ~Busy(x) /\ x.pc = "done"
    BY <2>1, EndStands DEF Ended
  <2>3. PlanIsClean(x)' /\ HalfFits(x)'
    BY <2>1, <2>2 DEF PlanIsClean, Ended, HalfFits
  <2>4. JobStands(j, x)'
    BY <1>5, <2>2, <2>3
  <2> QED
    BY <1>2, <1>5, <1>6, <2>1, <2>2, <2>4, JobMoves
<1>8. CASE a.kind = "profile" /\ Moves(j, [a EXCEPT !.pc = "unread"])
  <2>1. PICK x : x = [a EXCEPT !.pc = "unread"] /\ jobs' = [f EXCEPT ![j] = x]
    BY <1>2, <1>8 DEF Moves
  <2>2. x = [kind |-> a.kind, pc |-> "unread", half |-> a.half, read |-> a.read, plan |-> a.plan, asked |-> a.asked,
             clean |-> a.clean, at |-> a.at, known |-> a.known, outcome |-> a.outcome]
    BY <1>1, <2>1 DEF JobStands, JobIs
  <2>3. JobIs(x) /\ x.outcome = a.outcome /\ x.kind = "profile" /\ x.pc = "unread" /\ x.half = Absent
    <3>1. a.half = Absent
      BY <1>1 DEF JobStands, HalfFits
    <3> QED
      BY <1>8, <2>2, <3>1 DEF JobIs
  <2>4. PcFits(x)
    <3>1. a.outcome = "none"
      BY <1>1 DEF JobStands, PcFits
    <3> QED
      BY <2>3, <3>1 DEF PcFits
  <2>5. PlanIsWritable(x)' /\ PlanIsAsked(x)' /\ PlanIsClean(x)' /\ PlanIsSigned(j, x)' /\ AskedFits(x)'
        /\ HalfFits(x)'
    BY <2>3 DEF PlanIsWritable, PlanIsAsked, PlanIsClean, PlanIsSigned, AskedFits, HalfFits
  <2>6. NothingSent(j, x)'
    BY <1>1 DEF JobStands, NothingSent
  <2>7. JobStands(j, x)'
    BY <2>3, <2>4, <2>5, <2>6 DEF JobStands
  <2>8. ~Busy(x)
    BY <2>3 DEF Busy, Grouped, AdoptKinds
  <2> QED
    BY <1>2, <1>5, <1>6, <2>1, <2>7, <2>8, JobMoves
<1> QED
  BY <1>7, <1>8 DEF AfterFailure

LEMMA WriteKeeps == ASSUME WriterInv, NEW j \in WriterJobs, WriteNext(j) PROVE WriterInv'
<1>1. PICK a : a = jobs[j]
  OBVIOUS
<1>2. PICK w : w = a.plan[a.at + 1]
  OBVIOUS
<1>3. PICK g : g = PutWhere(w)
  OBVIOUS
<1>4. a.pc = "write" /\ UNCHANGED <<site, ledger, signed, runs>>
  BY <1>1 DEF WriteNext, RestStands
<1>5. \/ gh' = g /\ jobs' = Stained(j, AfterWrite(a))
      \/ (gh' = gh \/ gh' = g) /\ AfterFailure(j)
  BY <1>1, <1>2, <1>3 DEF WriteNext, PutWhere
<1>6. CASE gh' = g /\ jobs' = Stained(j, AfterWrite(a))
  BY <1>1, <1>2, <1>3, <1>4, <1>6, WrittenKeeps
<1>7. CASE (gh' = gh \/ gh' = g) /\ AfterFailure(j)
  BY <1>1, <1>2, <1>3, <1>4, <1>7, FailedWriteKeeps
<1> QED
  BY <1>5, <1>6, <1>7

LEMMA WriterStarts == WriterInit => WriterInv
<1> SUFFICES ASSUME WriterInit PROVE WriterInv
  OBVIOUS
<1>1. PICK l \in Layouts : site = l.site /\ gh = l.gh
  BY DEF WriterInit
<1>2. Typed(l)
  BY WriterAssumption
<1>3. site.scope \in Levels
  BY <1>1, <1>2 DEF Typed
<1>4. GhIs(gh)
  <2>1. gh = [level \in Levels |-> gh[level]]
    BY <1>1, <1>2 DEF Typed
  <2>2. \A level \in Levels : LevelIs(gh[level])
    <3> SUFFICES ASSUME NEW level \in Levels PROVE LevelIs(gh[level])
      OBVIOUS
    <3>1. PICK v : v = gh[level]
      OBVIOUS
    <3>2. v = [n \in VariableNames |-> v[n]]
      BY <1>1, <1>2, <3>1 DEF Typed
    <3>4. v.inventory # Absent => IsBook(v.inventory)
      BY <1>1, <1>2, <3>1 DEF Typed
    <3>3. v.inventory = v["inventory"]
      OBVIOUS
    <3> QED
      BY <3>1, <3>2, <3>3, <3>4 DEF LevelIs
  <2> QED
    BY <2>1, <2>2 DEF GhIs
<1>5. SettingsAre
  BY <1>1, <1>2, <1>3, <1>4 DEF WriterInit, SettingsAre
<1>6. RunsAre /\ LedgerIs
  BY DEF WriterInit, RunsAre, LedgerIs
<1>7. PICK x : x = NoJob
  OBVIOUS
<1>8. JobIs(x) /\ x.outcome = "none" /\ x.kind = "none" /\ x.pc = "idle" /\ x.at = 0 /\ x.half = Absent
  BY <1>7 DEF NoJob, JobIs
<1>9. PcFits(x) /\ ~Busy(x)
  BY <1>8 DEF PcFits, Busy
<1>10. ASSUME NEW j PROVE JobStands(j, x)
  BY <1>8, <1>9 DEF WriterInit, JobStands, PlanIsWritable, PlanIsAsked, PlanIsClean, PlanIsSigned, AskedFits, NothingSent,
                     HalfFits
<1>11. jobs = [j \in WriterJobs |-> x]
  BY <1>7 DEF WriterInit
<1>12. OneAtATime
  BY <1>9, <1>11 DEF OneAtATime
<1> QED
  BY <1>5, <1>6, <1>10, <1>11, <1>12 DEF WriterInv

LEMMA WriterKeeps == WriterInv /\ WriterNext => WriterInv'
<1> SUFFICES ASSUME WriterInv, WriterNext PROVE WriterInv'
  OBVIOUS
<1>1. ASSUME NEW j \in WriterJobs, Starts(j) PROVE WriterInv'
  <2>1. ASSUME NEW kind \in {"stop", "hk stop"} \cup AdoptKinds, StartWriter(j, kind, Absent) PROVE WriterInv'
    <3>1. kind \in Grouped \cup {"profile"} /\ kind # "switch"
      BY DEF Grouped, AdoptKinds
    <3> QED
      BY <2>1, <3>1, StartKeeps
  <2>2. ASSUME NEW p, StartWriter(j, "resume", p) PROVE WriterInv'
    <3>1. "resume" \in Grouped \cup {"profile"} /\ "resume" # "switch"
      BY DEF Grouped
    <3> QED
      BY <2>2, <3>1, StartKeeps
  <2>3. ASSUME NEW p, StartWriter(j, "profile", p) PROVE WriterInv'
    <3>1. "profile" \in Grouped \cup {"profile"} /\ "profile" # "switch"
      OBVIOUS
    <3> QED
      BY <2>3, <3>1, StartKeeps
  <2>4. ASSUME NEW id, NEW p \in Profiles, StartWriter(j, "switch", [id |-> id, profile |-> p]) PROVE WriterInv'
    <3>1. PICK asked : asked = [id |-> id, profile |-> p]
      OBVIOUS
    <3>2. "switch" \in Grouped \cup {"profile"} /\ asked.profile \in Profiles
      BY <3>1 DEF Grouped
    <3> QED
      BY <2>4, <3>1, <3>2, StartKeeps
  <2> QED
    BY <1>1, <2>1, <2>2, <2>3, <2>4 DEF Starts
<1>2. ASSUME NEW j \in WriterJobs, Steps(j) PROVE WriterInv'
  BY <1>2, PreflightKeeps, ReadRepositoryKeeps, PlanEnabledKeeps, PlanResumeKeeps, PlanProfileKeeps, FetchKeeps, VerifyKeeps, ConsumeKeeps,
     CompareKeeps, WriteKeeps, ReadBackKeeps, ReadUnknownKeeps, DispatchHkKeeps, DispatchControlKeeps, PollKeeps,
     CheckAgainKeeps, DieKeeps DEF Steps
<1> QED
  BY <1>1, <1>2, RunsKeep, SignaturesKeep, EditKeeps DEF WriterNext

LEMMA WriterSuffices == WriterInv => SpentOnce
<1> SUFFICES ASSUME WriterInv PROVE SpentOnce
  OBVIOUS
<1>1. ASSUME NEW j \in WriterJobs, jobs[j].kind = "switch", jobs[j].pc \in {"write", "read back"}
      PROVE  <<jobs[j].asked.id, j>> \in ledger /\ signed[jobs[j].asked.id].plan = jobs[j].plan
  BY <1>1 DEF WriterInv, JobStands, PlanIsSigned
<1> QED
  BY <1>1 DEF WriterInv, LedgerIs, RunsAre, SpentOnce


-----------------------------------------------------------------------------
(* What the writers do to the other accounts, and what they report.               *)

\* Settings with the same other accounts at every level hold the same others.
LEMMA OthersAgree ==
  ASSUME NEW g, NEW h, GhIs(g), GhIs(h),
         \A level \in Levels : \/ h[level]["inventory"] = g[level]["inventory"]
                               \/ /\ IsBook(h[level]["inventory"]) /\ g[level]["inventory"] # Absent
                                  /\ SameOthers(h[level]["inventory"], g[level]["inventory"])
  PROVE  Others(h) = Others(g)
<1>1. DOMAIN g = Levels /\ DOMAIN h = Levels
  BY DEF GhIs
<1>2. ASSUME NEW level \in Levels
      PROVE  (IF h[level].inventory = Absent THEN Absent
              ELSE [a \in DOMAIN h[level].inventory \ {Own} |-> h[level].inventory[a]])
             = (IF g[level].inventory = Absent THEN Absent
                ELSE [a \in DOMAIN g[level].inventory \ {Own} |-> g[level].inventory[a]])
  <2>1. PICK b, c : b = g[level]["inventory"] /\ c = h[level]["inventory"]
    OBVIOUS
  <2>2. g[level].inventory = b /\ h[level].inventory = c
    BY <2>1
  <2>3. CASE c = b
    BY <2>2, <2>3
  <2>4. CASE IsBook(c) /\ b # Absent /\ SameOthers(c, b)
    <3>1. c # Absent
      BY <2>4 DEF IsBook
    <3>2. [a \in DOMAIN c \ {Own} |-> c[a]] = [a \in DOMAIN b \ {Own} |-> b[a]]
      BY <2>4 DEF SameOthers
    <3> QED
      BY <2>2, <2>4, <3>1, <3>2
  <2> QED
    BY <1>2, <2>1, <2>3, <2>4
<1> QED
  BY <1>1, <1>2 DEF Others

\* Only a job's own write moves it from variable to variable.
LEMMA OwnWrite ==
  ASSUME WriterInv, WriterNext, NEW j \in WriterJobs, jobs[j].pc = "write",
         <<jobs'[j].pc, jobs'[j].at>> # <<"write", jobs[j].at>>
  PROVE  gh' = gh \/ WriteNext(j)
<1>1. PICK a, f : a = jobs[j] /\ f = jobs
  OBVIOUS
<1>2. JobStands(j, a) /\ f = [i \in WriterJobs |-> f[i]]
  BY <1>1 DEF WriterInv
<1>3. PICK z : z = [a EXCEPT !.clean = FALSE]
  OBVIOUS
<1>4. z = [kind |-> a.kind, pc |-> a.pc, half |-> a.half, read |-> a.read, plan |-> a.plan, asked |-> a.asked,
           clean |-> FALSE, at |-> a.at, known |-> a.known, outcome |-> a.outcome]
  BY <1>2, <1>3 DEF JobStands, JobIs
<1>5. z.pc = "write" /\ z.at = a.at /\ a.pc = "write"
  BY <1>1, <1>4
<1>6. jobs'[j] # z /\ jobs'[j] # a
  BY <1>1, <1>5
<1>7. ASSUME NEW level \in DOMAIN gh, NEW name \in {"enabled", "inventory"}, Edit(level, name) PROVE FALSE
  <2>1. jobs' = [i \in WriterJobs |-> [f[i] EXCEPT !.clean = FALSE]]
    BY <1>1, <1>7 DEF Edit
  <2>2. jobs'[j] = z
    BY <1>1, <1>3, <2>1
  <2> QED
    BY <1>6, <2>2
<1>8. ASSUME NEW i \in WriterJobs, i # j, WriteNext(i) PROVE FALSE
  <2>1. PICK b : b = f[i]
    OBVIOUS
  <2>2. jobs' = Stained(i, AfterWrite(b)) \/ AfterFailure(i)
    BY <1>1, <1>8, <2>1 DEF WriteNext
  <2>3. CASE jobs' = Stained(i, AfterWrite(b))
    <3>1. PICK y : y = AfterWrite(b)
      OBVIOUS
    <3>2. jobs' = [k \in WriterJobs |-> IF k = i THEN y ELSE [f[k] EXCEPT !.clean = FALSE]]
      BY <1>1, <2>3, <3>1 DEF Stained
    <3>3. jobs'[j] = z
      BY <1>1, <1>3, <1>8, <3>2
    <3> QED
      BY <1>6, <3>3
  <2>4. CASE AfterFailure(i)
    <3>1. PICK y : jobs' = [f EXCEPT ![i] = y]
      BY <1>1, <2>4 DEF AfterFailure, Failed, EndsAs, Moves
    <3>2. jobs'[j] = a
      BY <1>1, <1>2, <1>8, <3>1
    <3> QED
      BY <1>6, <3>2
  <2> QED
    BY <2>2, <2>3, <2>4
<1>9. ASSUME NEW i \in WriterJobs, Starts(i) \/ Steps(i) PROVE gh' = gh \/ WriteNext(i)
  <2>1. ASSUME NEW kind, NEW asked, StartWriter(i, kind, asked) PROVE gh' = gh
    BY <2>1 DEF StartWriter
  <2>2. CASE Starts(i)
    BY <2>1, <2>2 DEF Starts
  <2>3. CASE Steps(i)
    BY <2>3 DEF Steps, Preflight, ReadRepository, PlanEnabled, PlanResume, PlanProfile, FetchAndBuild, VerifyManifest, Consume,
                CompareSource, ReadSettingsBack, ReadUnknown, DispatchHk, DispatchControl, PollRun, CheckAgain, Die
  <2> QED
    BY <1>9, <2>2, <2>3
<1>10. ASSUME NEW r, RunEnds(r) \/ RunAgain(r) PROVE gh' = gh
  BY <1>10 DEF RunEnds, RunAgain
<1>11. ASSUME NEW id, NEW p, Lapse(id) \/ Sign(id, p) PROVE gh' = gh
  BY <1>11 DEF Lapse, Sign
<1>12. ASSUME NEW id, Lapse(id) PROVE gh' = gh
  BY <1>12 DEF Lapse
<1> QED
  BY <1>7, <1>8, <1>9, <1>10, <1>11, <1>12 DEF WriterNext

LEMMA WriterSpares == WriterInv /\ WriterNext => OthersStand
<1> SUFFICES ASSUME WriterInv, WriterNext, NEW j \in WriterJobs, jobs[j].pc = "write", jobs[j].clean,
                    <<jobs'[j].pc, jobs'[j].at>> # <<"write", jobs[j].at>>
             PROVE  Others(gh') = Others(gh)
  BY DEF OthersStand
<1>1. PICK a : a = jobs[j]
  OBVIOUS
<1>2. PICK w : w = a.plan[a.at + 1]
  OBVIOUS
<1>3. PICK g : g = PutWhere(w)
  OBVIOUS
<1>4. gh' = gh \/ WriteNext(j)
  BY OwnWrite
<1>5. gh' = gh \/ gh' = g
  BY <1>1, <1>2, <1>3, <1>4 DEF WriteNext, PutWhere
<1>6. Others(g) = Others(gh)
  <2>1. Replaces(gh, g)
    BY <1>1, <1>2, <1>3, WriteFacts
  <2>2. GhIs(gh) /\ GhIs(g)
    BY <2>1 DEF Replaces, WriterInv, SettingsAre
  <2>3. \A level \in Levels : \/ g[level]["inventory"] = gh[level]["inventory"]
                              \/ /\ IsBook(g[level]["inventory"]) /\ gh[level]["inventory"] # Absent
                                 /\ SameOthers(g[level]["inventory"], gh[level]["inventory"])
    BY <1>1, <1>2, <1>3, OthersAreSame
  <2> QED
    BY <2>2, <2>3, OthersAgree
<1>7. CASE gh' = g
  BY <1>6, <1>7 DEF Others
<1>8. CASE gh' = gh
  BY <1>8 DEF Others
<1> QED
  BY <1>5, <1>7, <1>8


\* A plan of one variable changes just that one.
FoldsOne(g, p, f) ==
  f = [s \in SUBSET {1} |-> IF s = {} THEN g
                            ELSE [f[s \ {Max(s)}] EXCEPT ![p[Max(s)].level][p[Max(s)].name] = p[Max(s)].value]]
PutInto(r, l, n, x) == [r EXCEPT ![l][n] = x]
LEMMA OneIs == ASSUME NEW x, NEW p, p = <<x>> PROVE DOMAIN p = {1} /\ p[1] = x
<1>1. DOMAIN p = 1 .. 1 /\ p[1] = x
  OBVIOUS
<1>2. 1 .. 1 = {1}
  OBVIOUS
<1> QED
  BY <1>1, <1>2
LEMMA PutOne ==
  ASSUME NEW g, NEW p, DOMAIN p = {1}, NEW w, w = p[1]
  PROVE  PutAll(g, p) = PutInto(g, w.level, w.name, w.value)
<1>1. Max({1}) = 1
  BY DEF Max
<1>2. PICK h : h = [g EXCEPT ![w.level][w.name] = w.value]
  OBVIOUS
<1>3. \A s \in SUBSET {1} : s = {} \/ s = {1}
  OBVIOUS
<1>4. ASSUME NEW f, FoldsOne(g, p, f) PROVE f[{1}] = h
  <2>1. f = [s \in SUBSET {1} |-> IF s = {} THEN g
                            ELSE [f[s \ {Max(s)}] EXCEPT ![p[Max(s)].level][p[Max(s)].name] = p[Max(s)].value]]
    BY <1>4 DEF FoldsOne
  <2>2. f[{}] = g
    BY <2>1
  <2>3. f[{1}] = [f[{1} \ {Max({1})}] EXCEPT ![p[Max({1})].level][p[Max({1})].name] = p[Max({1})].value]
    BY <2>1
  <2>4. {1} \ {Max({1})} = {}
    BY <1>1
  <2> QED
    BY <1>1, <1>2, <2>2, <2>3, <2>4
<1>5. \E f : FoldsOne(g, p, f)
  <2>1. PICK f : f = [s \in SUBSET {1} |-> IF s = {} THEN g ELSE h]
    OBVIOUS
  <2>2. f[{}] = g
    BY <2>1
  <2>3. \A s \in SUBSET {1} :
          (IF s = {} THEN g ELSE h)
          = (IF s = {} THEN g
             ELSE [f[s \ {Max(s)}] EXCEPT ![p[Max(s)].level][p[Max(s)].name] = p[Max(s)].value])
    <3> SUFFICES ASSUME NEW s \in SUBSET {1}, s = {1}
                 PROVE  h = [f[s \ {Max(s)}] EXCEPT ![p[Max(s)].level][p[Max(s)].name] = p[Max(s)].value]
      BY <1>3
    <3>1. Max(s) = 1 /\ s \ {Max(s)} = {}
      BY <1>1
    <3> QED
      BY <1>2, <2>2, <3>1
  <2>4. PICK k : k = [s \in SUBSET {1} |->
                        IF s = {} THEN g
                        ELSE [f[s \ {Max(s)}] EXCEPT ![p[Max(s)].level][p[Max(s)].name] = p[Max(s)].value]]
    OBVIOUS
  <2>5. f = k
    BY <2>1, <2>3, <2>4
  <2>6. FoldsOne(g, p, f)
    BY ONLY <2>4, <2>5 DEF FoldsOne
  <2> QED
    BY <2>6
<1>6. PutAll(g, p) = (CHOOSE f : FoldsOne(g, p, f))[{1}]
  BY DEF PutAll, FoldLeft, MapThenFoldSet, FoldsOne
<1>7. FoldsOne(g, p, CHOOSE f : FoldsOne(g, p, f))
  BY <1>5
<1> QED
  BY <1>2, <1>4, <1>6, <1>7 DEF PutInto


\* What a written variable makes of what was read.
LEMMA PutIs ==
  ASSUME NEW r, GhIs(r), NEW l \in Levels, NEW n \in VariableNames, NEW x, NEW h, h = PutInto(r, l, n, x)
  PROVE  /\ \A level \in Levels, m \in VariableNames : h[level][m] = IF level = l /\ m = n THEN x ELSE r[level][m]
         /\ \A m \in VariableNames :
              Merged(h)[m] = IF h["environment"][m] # Absent THEN h["environment"][m] ELSE h["repository"][m]
<1>1. PICK v : v = [r[l] EXCEPT ![n] = x]
  OBVIOUS
<1>2. r = [level \in Levels |-> r[level]] /\ \A level \in Levels : r[level] = [m \in VariableNames |-> r[level][m]]
  BY DEF GhIs, LevelIs
<1>3. h = [level \in Levels |-> IF level = l THEN v ELSE r[level]]
  BY <1>1, <1>2 DEF PutInto
<1>4. v = [m \in VariableNames |-> IF m = n THEN x ELSE r[l][m]]
  BY <1>1, <1>2
<1>5. \A level \in Levels, m \in VariableNames : h[level][m] = IF level = l /\ m = n THEN x ELSE r[level][m]
  BY <1>3, <1>4
<1>6. DOMAIN h["repository"] = VariableNames
  <2>1. "repository" \in Levels /\ DOMAIN v = VariableNames /\ DOMAIN r["repository"] = VariableNames
    BY <1>2, <1>4 DEF Levels
  <2>2. h["repository"] = IF l = "repository" THEN v ELSE r["repository"]
    BY <1>3, <2>1
  <2> QED
    BY <2>1, <2>2
<1> QED
  BY <1>5, <1>6 DEF Merged

\* The consumer obeys an account's switch that was turned where the plan turns it.
TurnsInto(r, on, w, h) ==
  /\ ReadIs(r) /\ TargetIsOwn(Merged(r))
  /\ w = EnabledPlan(r, on)[1] /\ h = PutInto(r, w.level, w.name, w.value)
LEMMA TurnIsObeyed ==
  ASSUME site.scope \in Levels, NEW r, NEW on \in {"true", "false"}, NEW w, NEW h, TurnsInto(r, on, w, h)
  PROVE  ObeyedBy(h) = on
<1>9. ReadIs(r) /\ TargetIsOwn(Merged(r)) /\ w = EnabledPlan(r, on)[1] /\ h = PutInto(r, w.level, w.name, w.value)
  BY DEF TurnsInto
<1> USE <1>9
<1>0. on # Absent /\ GhIs(r)
      /\ "inventory" \in VariableNames /\ "enabled" \in VariableNames /\ "service" \in VariableNames
      /\ "repository" \in Levels /\ "environment" \in Levels
  BY FlagsAre DEF ReadIs, VariableNames, Levels
<1>1. \A n \in VariableNames : Merged(r)[n] = IF r["environment"][n] # Absent THEN r["environment"][n] ELSE r["repository"][n]
  BY MergedIs
<1>2. PICK e, d : e = Merged(h) /\ d = Merged(r)
  OBVIOUS
<1>3. ObeyedBy(h) = IF e["inventory"] = Absent \/ (site.platform = "longbridge" /\ e["service"] = Own /\ e["enabled"] # Absent)
                    THEN e["enabled"]
                    ELSE LET entry == e["inventory"][Own] IN
                         IF site.platform = "ibkr" /\ entry.top = Absent THEN entry.env ELSE entry.top
  BY <1>2 DEF ObeyedBy, SwitchCounts
<1>8. \A n \in VariableNames : d[n] = IF r["environment"][n] # Absent THEN r["environment"][n] ELSE r["repository"][n]
  BY <1>1, <1>2
<1>4. CASE Beside(r)
  <2>1. EnabledPlan(r, on) = <<Put(site.scope, "enabled", on)>>
    BY <1>4, EnabledPlanIs
  <2>2. w.level = site.scope /\ w.name = "enabled" /\ w.value = on
    BY <2>1 DEF Put
  <2>3. h = PutInto(r, site.scope, "enabled", on)
    BY <2>2
  <2>4. /\ \A level \in Levels, m \in VariableNames : h[level][m] = IF level = site.scope /\ m = "enabled" THEN on ELSE r[level][m]
        /\ \A m \in VariableNames : e[m] = IF h["environment"][m] # Absent THEN h["environment"][m] ELSE h["repository"][m]
    BY <1>0, <1>2, <2>2, <2>3, PutIs
  <2>5. e["inventory"] = d["inventory"] /\ e["service"] = d["service"]
    <3>1. \A level \in Levels : h[level]["inventory"] = r[level]["inventory"] /\ h[level]["service"] = r[level]["service"]
      BY <1>0, <2>4
    <3> QED
      BY <1>0, <1>8, <2>4, <3>1
  <2>6. e["enabled"] = on
    <3>1. CASE site.scope = "environment"
      BY <1>0, <2>4, <3>1
    <3>2. CASE site.scope = "repository"
      <4>1. r["environment"]["enabled"] = Absent
        BY <1>0, <3>2 DEF ReadIs
      <4> QED
        BY <1>0, <2>4, <3>2, <4>1
    <3> QED
      BY <3>1, <3>2 DEF Levels
  <2> QED
    BY <1>0, <1>2, <1>3, <1>4, <2>5, <2>6 DEF Beside
<1>5. CASE ~Beside(r)
  <2>1. PICK l, b, c : l = FoundAt(r) /\ b = r[l]["inventory"] /\ c = TurnedBook(b, on)
    OBVIOUS
  <2>2. EnabledPlan(r, on) = <<Put(l, "inventory", c)>> /\ b # Absent /\ d["inventory"] = b /\ l \in Levels
    BY <1>2, <1>5, <2>1, EnabledPlanIs
  <2>3. w.level = l /\ w.name = "inventory" /\ w.value = c
    BY <2>2 DEF Put
  <2>4. h = PutInto(r, l, "inventory", c)
    BY <2>3
  <2>5. /\ \A level \in Levels, m \in VariableNames : h[level][m] = IF level = l /\ m = "inventory" THEN c ELSE r[level][m]
        /\ \A m \in VariableNames : e[m] = IF h["environment"][m] # Absent THEN h["environment"][m] ELSE h["repository"][m]
    BY <1>0, <1>2, <2>2, <2>4, PutIs
  <2>6. IsBook(b) /\ Own \in DOMAIN b
    <3>1. IsBook(b)
      BY <1>0, <2>1, <2>2 DEF GhIs, LevelIs
    <3>2. Own \in DOMAIN b
      BY <1>2, <2>2 DEF TargetIsOwn
    <3> QED
      BY <3>1, <3>2
  <2>7. IsBook(c) /\ c[Own] = Turned(b[Own], on)
    BY <2>1, <2>6, TurnedBookIs
  <2>8. c # Absent
    BY <2>7 DEF IsBook
  <2>9. e["service"] = d["service"] /\ e["enabled"] = d["enabled"]
    <3>1. \A level \in Levels : h[level]["enabled"] = r[level]["enabled"] /\ h[level]["service"] = r[level]["service"]
      BY <1>0, <2>5
    <3> QED
      BY <1>0, <1>8, <2>5, <3>1
  <2>10. e["inventory"] = c
    <3>1. CASE l = "environment"
      BY <1>0, <2>5, <2>8, <3>1
    <3>2. CASE l = "repository"
      <4>1. r["environment"]["inventory"] = Absent
        BY <2>1, <3>2 DEF FoundAt
      <4> QED
        BY <1>0, <2>5, <3>2, <4>1
    <3> QED
      BY <2>2, <3>1, <3>2 DEF Levels
  <2>11. ObeyedBy(h) = IF site.platform = "ibkr" /\ c[Own].top = Absent THEN c[Own].env ELSE c[Own].top
    BY <1>2, <1>3, <1>5, <2>8, <2>9, <2>10 DEF Beside
  <2>12. PICK y : y = b[Own]
    OBVIOUS
  <2>13. y \in BookEntries
    BY <2>6, <2>12 DEF IsBook
  <2>14. CASE site.platform = "ibkr" /\ y.top = Absent /\ y.env # Absent
    <3>1. c[Own] = [y EXCEPT !.env = on]
      BY <2>7, <2>12, <2>14 DEF Turned
    <3>2. c[Own].top = Absent /\ c[Own].env = on
      BY <2>13, <2>14, <3>1 DEF BookEntries
    <3> QED
      BY <2>11, <2>14, <3>2
  <2>15. CASE ~(site.platform = "ibkr" /\ y.top = Absent /\ y.env # Absent)
    <3>1. c[Own] = [y EXCEPT !.top = on]
      BY <2>7, <2>12, <2>15 DEF Turned
    <3>2. c[Own].top = on
      BY <2>13, <3>1 DEF BookEntries
    <3> QED
      BY <1>0, <2>11, <3>2
  <2> QED
    BY <2>14, <2>15
<1> QED
  BY <1>4, <1>5

\* A service that was resumed obeys its own switch, where that one counts.
LEMMA ResumeIsObeyed ==
  ASSUME GhIs(gh), site.scope \in Levels, gh[site.scope]["enabled"] = "true", SwitchCounts(ReadOf(gh))
  PROVE  ObeyedBy(ReadOf(gh)) = "true"
<1>1. PICK r, d : r = ReadOf(gh) /\ d = Merged(r)
  OBVIOUS
<1>2. ReadIs(r) /\ "enabled" \in VariableNames
  BY <1>1, ReadOfIs DEF VariableNames
<1>3. d["enabled"] = IF r["environment"]["enabled"] # Absent THEN r["environment"]["enabled"] ELSE r["repository"]["enabled"]
  BY <1>1, <1>2, MergedIs
<1>4. r["repository"] = gh["repository"] /\ (site.scope = "environment" => r["environment"] = gh["environment"])
  BY <1>1 DEF ReadOf, LevelOf
<1>5. site.scope = "repository" => r["environment"]["enabled"] = Absent
  BY <1>2 DEF ReadIs
<1>6. d["enabled"] = "true"
  BY <1>3, <1>4, <1>5, FlagsAre DEF Levels
<1> QED
  BY <1>1, <1>6 DEF ObeyedBy


\* A job moves by its own steps only; the writes of others stain it.
Alone(i) == \E y : jobs' = [jobs EXCEPT ![i] = y]
LEMMA StepsAlone ==
  ASSUME NEW i \in WriterJobs, Steps(i)
  PROVE  Alone(i) \/ jobs' = Stained(i, AfterWrite(jobs[i]))
<1>1. \A o : EndsAs(i, o) => Alone(i)
  BY DEF EndsAs, Moves, Alone
<1>2. Failed(i) => Alone(i)
  BY <1>1 DEF Failed
<1>3. \A y : Moves(i, y) => Alone(i)
  BY DEF Moves, Alone
<1>4. Saved(i) => Alone(i)
  <2>1. (\E y : Moves(i, y)) \/ (\E o : EndsAs(i, o)) \/ ~Saved(i)
    BY DEF Saved
  <2> QED
    BY <1>1, <1>3, <2>1
<1>5. \A p, r : Planned(i, p, r) => Alone(i)
  BY <1>3 DEF Planned
<1>6. WriteNext(i) => Alone(i) \/ jobs' = Stained(i, AfterWrite(jobs[i]))
  BY <1>2, <1>3 DEF WriteNext, AfterFailure
<1>7. CompareSource(i) \/ ReadSettingsBack(i) => Alone(i)
  BY <1>1, <1>2, <1>3, <1>4 DEF CompareSource, ReadSettingsBack
<1>8. PlanEnabled(i) \/ PlanResume(i) \/ PlanProfile(i) => Alone(i)
  BY <1>1, <1>2, <1>5 DEF PlanEnabled, PlanResume, PlanProfile
<1>9. Preflight(i) \/ ReadRepository(i) \/ FetchAndBuild(i) \/ VerifyManifest(i) \/ Consume(i) => Alone(i)
  BY <1>1, <1>2, <1>3 DEF Preflight, ReadRepository, FetchAndBuild, VerifyManifest, Consume
<1>10. ReadUnknown(i) \/ DispatchHk(i) \/ DispatchControl(i) => Alone(i)
  BY <1>1, <1>2, <1>3 DEF ReadUnknown, DispatchHk, DispatchControl
<1>11. PollRun(i) \/ CheckAgain(i) \/ Die(i) => Alone(i)
  BY <1>1, <1>2, <1>3 DEF PollRun, CheckAgain, Die
<1> QED
  BY <1>6, <1>7, <1>8, <1>9, <1>10, <1>11 DEF Steps
LEMMA OwnStep ==
  ASSUME WriterInv, WriterNext, NEW j \in WriterJobs, NEW a, a = jobs[j]
  PROVE  Starts(j) \/ Steps(j) \/ jobs'[j] = a \/ jobs'[j] = [a EXCEPT !.clean = FALSE]
<1>1. PICK f : f = jobs
  OBVIOUS
<1>2. f = [i \in WriterJobs |-> f[i]]
  BY <1>1 DEF WriterInv
<1>3. ASSUME NEW level \in DOMAIN gh, NEW name \in {"enabled", "inventory"}, Edit(level, name)
      PROVE  jobs'[j] = [a EXCEPT !.clean = FALSE]
  <2>1. jobs' = [i \in WriterJobs |-> [f[i] EXCEPT !.clean = FALSE]]
    BY <1>1, <1>3 DEF Edit
  <2> QED
    BY <1>1, <2>1
<1>4. ASSUME NEW i \in WriterJobs, i # j, Alone(i) PROVE jobs'[j] = a
  <2>1. PICK y : jobs' = [f EXCEPT ![i] = y]
    BY <1>1, <1>4 DEF Alone
  <2> QED
    BY <1>1, <1>2, <1>4, <2>1
<1>5. ASSUME NEW i \in WriterJobs, i # j, NEW y, jobs' = Stained(i, y)
      PROVE  jobs'[j] = [a EXCEPT !.clean = FALSE]
  <2>1. jobs' = [k \in WriterJobs |-> IF k = i THEN y ELSE [f[k] EXCEPT !.clean = FALSE]]
    BY <1>1, <1>5 DEF Stained
  <2> QED
    BY <1>1, <1>5, <2>1
<1>6. ASSUME NEW i \in WriterJobs, i # j, Starts(i) \/ Steps(i)
      PROVE  jobs'[j] = a \/ jobs'[j] = [a EXCEPT !.clean = FALSE]
  <2>1. ASSUME NEW kind, NEW asked, StartWriter(i, kind, asked) PROVE Alone(i)
    BY <2>1 DEF StartWriter, Moves, Alone
  <2>2. CASE Starts(i)
    <3>1. Alone(i)
      BY <2>1, <2>2 DEF Starts
    <3> QED
      BY <1>4, <1>6, <3>1
  <2>3. CASE Steps(i)
    BY <1>4, <1>5, <1>6, <2>3, StepsAlone
  <2> QED
    BY <1>6, <2>2, <2>3
<1>7. ASSUME NEW r, RunEnds(r) \/ RunAgain(r) PROVE jobs'[j] = a
  BY <1>1, <1>7 DEF RunEnds, RunAgain
<1>8. ASSUME NEW id, NEW p, Lapse(id) \/ Sign(id, p) PROVE jobs'[j] = a
  BY <1>1, <1>8 DEF Lapse, Sign
<1>9. ASSUME NEW id, Lapse(id) PROVE jobs'[j] = a
  BY <1>1, <1>9 DEF Lapse
<1> QED
  BY <1>3, <1>6, <1>7, <1>8, <1>9 DEF WriterNext

\* What was confirmed of a plan is what the consumer obeys.
LEMMA ConfirmedIsObeyed ==
  ASSUME WriterInv, NEW j \in WriterJobs, NEW a, a = jobs[j], HasRead(j),
         \/ a.pc = "compare" /\ SourceStands(j) /\ Needless(j)
         \/ a.pc = "read back" /\ MatchesPlan(j)
  PROVE  /\ a.kind \in {"stop", "hk stop"} \cup AdoptKinds /\ (TwoReads(j) => a.clean) =>
              ObeyedBy(ReadOf(gh)) = TurnOf(a.kind)
         /\ a.kind = "resume" => /\ gh[site.scope]["enabled"] = "true"
                                 /\ SwitchCounts(ReadOf(gh)) => ObeyedBy(ReadOf(gh)) = "true"
<1>1. JobStands(j, a) /\ GhIs(gh) /\ site.scope \in Levels
  BY DEF WriterInv, SettingsAre
<1>2. PlanIsAsked(a)
  BY <1>1 DEF JobStands
<1>3. PICK r, p, h : r = a.read /\ p = a.plan /\ h = PutAll(r, p)
  OBVIOUS
<1>4. ASSUME a.kind \in {"stop", "hk stop"} \cup AdoptKinds, TwoReads(j) => a.clean
      PROVE  ObeyedBy(ReadOf(gh)) = TurnOf(a.kind)
  <2>1. PICK on : on = TurnOf(a.kind)
    OBVIOUS
  <2>2. on \in {"true", "false"} /\ a.kind \notin {"resume", "switch", "profile"}
    BY <1>4, <2>1 DEF TurnOf, AdoptKinds
  <2>3. ReadIs(r) /\ TargetIsOwn(Merged(r)) /\ p = EnabledPlan(r, on)
    BY <1>2, <1>3, <1>4, <2>1 DEF PlanIsAsked
  <2>4. DOMAIN p = {1}
    <3>1. \E x : p = <<x>>
      BY <1>1, <2>3, EnabledPlanIs
    <3> QED
      BY <3>1, OneIs
  <2>5. PICK w : w = p[1]
    OBVIOUS
  <2>6. h = PutInto(r, w.level, w.name, w.value)
    BY <1>3, <2>4, <2>5, PutOne
  <2>7. ObeyedBy(h) = on
    <3>1. w = EnabledPlan(r, on)[1]
      BY <2>3, <2>5
    <3>2. TurnsInto(r, on, w, h)
      BY <2>3, <2>6, <3>1 DEF TurnsInto
    <3> QED
      BY <1>1, <2>2, <3>2, TurnIsObeyed
  <2>8. ReadOf(gh) = h
    <3>1. ReadBy(j) = ReadOf(gh)
      BY <1>4, <2>2, ReadByIs
    <3>2. CASE a.pc = "compare" /\ SourceStands(j) /\ Needless(j)
      BY <1>3, <2>2, <3>1, <3>2 DEF SourceStands, Needless
    <3>3. CASE a.pc = "read back" /\ MatchesPlan(j)
      BY <1>3, <2>2, <3>1, <3>3 DEF MatchesPlan
    <3> QED
      BY <3>2, <3>3
  <2> QED
    BY <2>1, <2>7, <2>8
<1>5. ASSUME a.kind = "resume"
      PROVE  gh[site.scope]["enabled"] = "true" /\ (SwitchCounts(ReadOf(gh)) => ObeyedBy(ReadOf(gh)) = "true")
  <2>1. /\ ReadIs(r) /\ p = <<Put(site.scope, "enabled", "true")>>
        /\ r[site.scope]["enabled"] = "false"
    BY <1>2, <1>3, <1>5 DEF PlanIsAsked
  <2>2. PICK w : w = p[1]
    OBVIOUS
  <2>3. DOMAIN p = {1} /\ w.level = site.scope /\ w.name = "enabled" /\ w.value = "true"
    <3>1. DOMAIN p = {1} /\ w = Put(site.scope, "enabled", "true")
      BY <2>1, <2>2, OneIs
    <3> QED
      BY <3>1 DEF Put
  <2>4. h = PutInto(r, w.level, w.name, w.value)
    <3>1. PutAll(r, p) = PutInto(r, w.level, w.name, w.value)
      BY <2>2, <2>3, PutOne
    <3> QED
      BY <1>3, <3>1
  <2>5. h = PutInto(r, site.scope, "enabled", "true")
    BY <2>3, <2>4
  <2>6. "enabled" \in VariableNames /\ GhIs(r)
    BY <2>1 DEF VariableNames, ReadIs
  <2>7. h[site.scope]["enabled"] = "true"
    <3>2. PICK l, n, x : l = site.scope /\ n = "enabled" /\ x = "true"
      OBVIOUS
    <3>3. h = PutInto(r, l, n, x) /\ l \in Levels /\ n \in VariableNames
      BY <1>1, <2>5, <2>6, <3>2
    <3>4. PICK k : k = PutInto(r, l, n, x)
      OBVIOUS
    <3>5. GhIs(r) /\ l \in Levels /\ n \in VariableNames
      BY <2>6, <3>3
    <3>6. /\ \A level \in Levels, m \in VariableNames : k[level][m] = IF level = l /\ m = n THEN x ELSE r[level][m]
          /\ \A m \in VariableNames :
               Merged(k)[m] = IF k["environment"][m] # Absent THEN k["environment"][m] ELSE k["repository"][m]
      BY ONLY <3>4, <3>5, PutIs
    <3>1. \A level \in Levels, m \in VariableNames :
            h[level][m] = IF level = site.scope /\ m = "enabled" THEN "true" ELSE r[level][m]
      BY <3>2, <3>3, <3>4, <3>6
    <3> QED
      BY <1>1, <2>1, <2>6, <3>1
  <2>8. gh[site.scope] = h[site.scope]
    <3>1. CASE a.pc = "compare" /\ SourceStands(j) /\ Needless(j)
      BY <1>3, <2>1, <2>7, <3>1 DEF Needless
    <3>2. CASE a.pc = "read back" /\ MatchesPlan(j)
      BY <1>3, <1>5, <3>2 DEF MatchesPlan
    <3> QED
      BY <3>1, <3>2
  <2> QED
    BY <1>1, <2>7, <2>8, ResumeIsObeyed
<1> QED
  BY <1>4, <1>5


\* What a job becomes that ends, fails, moves on or is started.
LEMMA EndedAs ==
  ASSUME WriterInv, NEW j \in WriterJobs, jobs[j].pc # "idle", NEW o, EndsAs(j, o)
  PROVE  jobs'[j].outcome = o /\ jobs'[j].pc = "done"
<1>1. PICK x, f : f = jobs /\ Ended(x) /\ x.outcome = o /\ jobs' = [f EXCEPT ![j] = x]
  BY EndingIs
<1>2. f = [i \in WriterJobs |-> f[i]]
  BY <1>1 DEF WriterInv
<1>3. jobs'[j] = x
  BY <1>1, <1>2
<1> QED
  BY <1>1, <1>3 DEF Ended
LEMMA FailedAs ==
  ASSUME WriterInv, NEW j \in WriterJobs, jobs[j].pc # "idle", Failed(j)
  PROVE  jobs'[j].outcome \in {"unknown", "not verified"} /\ jobs'[j].pc = "done"
<1>1. PICK o : EndsAs(j, o) /\ o \in {"unknown", "not verified"}
  BY DEF Failed
<1> QED
  BY <1>1, EndedAs
LEMMA MovedTo ==
  ASSUME WriterInv, NEW j \in WriterJobs, NEW x, Moves(j, x)
  PROVE  jobs'[j] = x
<1>1. PICK f : f = jobs
  OBVIOUS
<1>2. f = [i \in WriterJobs |-> f[i]] /\ jobs' = [f EXCEPT ![j] = x]
  BY <1>1 DEF WriterInv, Moves
<1> QED
  BY <1>2

\* Only what an own run's result says is called applied.
LEMMA AppliedIsServed ==
  ASSUME NEW r, NEW operation, ResultOf(r, operation) = "applied"
  PROVE  r.attempt = 1 /\ r.result # Absent /\ r.result.serving
<1>1. r.attempt = 1 /\ r.result # Absent
  BY DEF ResultOf
<1>2. PICK result : result = r.result
  OBVIOUS
<1>3. ValidatedReceipt(result, operation) = "applied"
  BY <1>1, <1>2 DEF ResultOf
<1>4. CASE result.status # "applied"
  <2>1. ValidatedReceipt(result, operation) = result.status
    BY <1>4 DEF ValidatedReceipt
  <2> QED
    BY <1>3, <1>4, <2>1
<1>5. CASE result.status = "applied"
  <2> SUFFICES ASSUME ~result.serving PROVE FALSE
    BY <1>1, <1>2
  <2>1. ValidatedReceipt(result, operation) = "unknown"
    BY <1>5 DEF ValidatedReceipt
  <2> QED
    BY <1>3, <2>1
<1> QED
  BY <1>4, <1>5

\* Its own steps by which a job's outcome may come to be "applied" are the readings of its run.
LEMMA AppliedIsRead ==
  ASSUME WriterInv, NEW j \in WriterJobs, Steps(j), jobs'[j].outcome = "applied", jobs[j].outcome # "applied"
  PROVE  \E r \in runs : r.job = j /\ ResultOf(r, jobs[j].kind) = "applied"
<1>1. PICK a : a = jobs[j]
  OBVIOUS
<1>2. JobStands(j, a)
  BY <1>1 DEF WriterInv
<1>3. JobIs(a) /\ a.outcome # "applied"
  BY <1>1, <1>2 DEF JobStands
<1>4. ASSUME NEW o, EndsAs(j, o), a.pc # "idle" PROVE o = "applied"
  BY <1>1, <1>4, EndedAs
<1>5. ASSUME Failed(j), a.pc # "idle" PROVE FALSE
  BY <1>1, <1>5, FailedAs
<1>6. ASSUME NEW pc, Moves(j, [a EXCEPT !.pc = pc]) PROVE FALSE
  <2>1. PICK x : x = [a EXCEPT !.pc = pc]
    OBVIOUS
  <2>2. x.outcome = a.outcome
    BY <1>3, <2>1 DEF JobIs
  <2> QED
    BY <1>3, <1>6, <2>1, <2>2, MovedTo
<1>7. ASSUME NEW p, NEW r, Planned(j, p, r) PROVE FALSE
  <2>1. PICK x : x = [a EXCEPT !.pc = "compare", !.half = Absent, !.read = r, !.plan = p]
    OBVIOUS
  <2>2. x.outcome = a.outcome
    BY <1>3, <2>1 DEF JobIs
  <2> QED
    BY <1>1, <1>3, <1>7, <2>1, <2>2, MovedTo DEF Planned
<1>8. ASSUME Saved(j), a.pc # "idle" PROVE FALSE
  <2>1. \/ EndsAs(j, "configured") \/ EndsAs(j, "updated") \/ EndsAs(j, "switched")
        \/ \E pc : Moves(j, [a EXCEPT !.pc = pc, !.at = 0, !.half = Absent, !.read = Absent, !.plan = <<>>])
    BY <1>1, <1>8 DEF Saved
  <2>2. ASSUME NEW pc, Moves(j, [a EXCEPT !.pc = pc, !.at = 0, !.half = Absent, !.read = Absent, !.plan = <<>>]) PROVE FALSE
    <3>1. PICK x : x = [a EXCEPT !.pc = pc, !.at = 0, !.half = Absent, !.read = Absent, !.plan = <<>>]
      OBVIOUS
    <3>2. x.outcome = a.outcome
      BY <1>3, <3>1 DEF JobIs
    <3> QED
      BY <1>3, <2>2, <3>1, <3>2, MovedTo
  <2> QED
    BY <1>4, <1>8, <2>1, <2>2
<1>9. ~Preflight(j) /\ ~ReadRepository(j)
  <2>1. ASSUME NEW h, Moves(j, [a EXCEPT !.half = h, !.clean = TRUE]) PROVE FALSE
    <3>1. PICK x : x = [a EXCEPT !.half = h, !.clean = TRUE]
      OBVIOUS
    <3>2. x.outcome = a.outcome
      BY <1>3, <3>1 DEF JobIs
    <3> QED
      BY <1>3, <2>1, <3>1, <3>2, MovedTo
  <2> QED
    BY <1>1, <1>4, <1>6, <2>1 DEF Preflight, ReadRepository
<1>10. ~PlanEnabled(j) /\ ~PlanResume(j)
  BY <1>1, <1>5, <1>7 DEF PlanEnabled, PlanResume
<1>11. ~PlanProfile(j)
  BY <1>1, <1>4, <1>5, <1>7 DEF PlanProfile
<1>12. ~FetchAndBuild(j)
  <2> SUFFICES ASSUME FetchAndBuild(j) PROVE FALSE
    OBVIOUS
  <2>1. PICK x, p : x = [a EXCEPT !.pc = "verify", !.clean = TRUE, !.plan = p] /\ Moves(j, x)
    BY <1>1 DEF FetchAndBuild
  <2>2. x.outcome = a.outcome
    BY <1>3, <2>1 DEF JobIs
  <2> QED
    BY <1>3, <2>1, <2>2, MovedTo
<1>13. ~VerifyManifest(j)
  BY <1>1, <1>5, <1>6 DEF VerifyManifest
<1>14. ~Consume(j)
  <2> SUFFICES ASSUME Consume(j) PROVE FALSE
    OBVIOUS
  <2>1. PICK x : x = [a EXCEPT !.pc = "write", !.read = gh]
    OBVIOUS
  <2>2. x.outcome = a.outcome
    BY <1>3, <2>1 DEF JobIs
  <2>3. Moves(j, x)
    BY <1>1, <1>5, <2>1 DEF Consume
  <2> QED
    BY <1>3, <2>2, <2>3, MovedTo
<1>15. ~CompareSource(j)
  <2> SUFFICES ASSUME CompareSource(j) PROVE FALSE
    OBVIOUS
  <2>1. PICK x : x = [a EXCEPT !.pc = "write", !.half = Absent, !.clean = (TwoReads(j) => a.clean)]
    OBVIOUS
  <2>2. x.outcome = a.outcome
    BY <1>3, <2>1 DEF JobIs
  <2>3. Moves(j, x)
    BY <1>1, <1>5, <1>8, <2>1 DEF CompareSource
  <2> QED
    BY <1>3, <2>2, <2>3, MovedTo
<1>16. ~WriteNext(j)
  <2> SUFFICES ASSUME WriteNext(j) PROVE FALSE
    OBVIOUS
  <2>1. a.pc = "write" /\ (jobs' = Stained(j, AfterWrite(a)) \/ AfterFailure(j))
    BY <1>1 DEF WriteNext
  <2>2. CASE AfterFailure(j)
    BY <1>1, <1>5, <1>6, <2>1, <2>2 DEF AfterFailure
  <2>3. CASE jobs' = Stained(j, AfterWrite(a))
    <3>1. PICK at, pc : AfterWrite(a) = [a EXCEPT !.at = at, !.pc = pc]
      BY DEF AfterWrite
    <3>2. PICK x : x = [a EXCEPT !.at = at, !.pc = pc]
      OBVIOUS
    <3>3. x.outcome = a.outcome
      BY <1>3, <3>2 DEF JobIs
    <3>4. jobs' = Stained(j, x)
      BY <2>3, <3>1, <3>2
    <3>5. jobs'[j] = x
      BY <3>4 DEF Stained
    <3> QED
      BY <1>3, <3>3, <3>5
  <2> QED
    BY <2>1, <2>2, <2>3
<1>17. ~ReadSettingsBack(j)
  BY <1>1, <1>4, <1>5, <1>8 DEF ReadSettingsBack
<1>18. ~ReadUnknown(j) /\ ~Die(j)
  BY <1>1, <1>4 DEF ReadUnknown, Die, Working
<1>19. ~DispatchHk(j)
  BY <1>1, <1>4, <1>5 DEF DispatchHk
<1>20. ~DispatchControl(j)
  <2> SUFFICES ASSUME DispatchControl(j) PROVE FALSE
    OBVIOUS
  <2>1. PICK x : x = [a EXCEPT !.pc = "poll"]
    OBVIOUS
  <2>2. a.pc = "dispatch" /\ x.outcome = a.outcome
    BY <1>1, <1>3, <2>1 DEF JobIs, DispatchControl
  <2>3. \/ \E known : Moves(j, [x EXCEPT !.known = known])
        \/ EndsAs(j, "partial") \/ Moves(j, x)
    BY <1>1, <2>1 DEF DispatchControl
  <2>4. ASSUME NEW known, Moves(j, [x EXCEPT !.known = known]) PROVE FALSE
    <3>1. PICK y : y = [a EXCEPT !.pc = "poll", !.known = known]
      OBVIOUS
    <3>2. y.outcome = a.outcome /\ Moves(j, y)
      BY <1>3, <2>1, <2>4, <3>1 DEF JobIs
    <3> QED
      BY <1>3, <3>2, MovedTo
  <2> QED
    BY <1>3, <1>4, <2>2, <2>3, <2>4, MovedTo
<1>21. CASE PollRun(j)
  <2>1. \/ \E outcome \in {ResultOf(r, jobs[j].kind) : r \in FoundRuns(j)} : EndsAs(j, outcome)
        \/ EndsAs(j, "unknown")
        \/ \E at, known : Moves(j, [a EXCEPT !.at = at, !.known = known])
    BY <1>1, <1>21 DEF PollRun
  <2>2. a.pc = "poll"
    BY <1>1, <1>21 DEF PollRun
  <2>3. ASSUME NEW at, NEW known, Moves(j, [a EXCEPT !.at = at, !.known = known]) PROVE FALSE
    <3>1. PICK y : y = [a EXCEPT !.at = at, !.known = known]
      OBVIOUS
    <3>2. y.outcome = a.outcome
      BY <1>3, <3>1 DEF JobIs
    <3> QED
      BY <1>3, <2>3, <3>1, <3>2, MovedTo
  <2>4. PICK r \in FoundRuns(j) : EndsAs(j, ResultOf(r, jobs[j].kind))
    BY <1>4, <2>1, <2>2, <2>3
  <2> QED
    BY <1>4, <2>2, <2>4 DEF FoundRuns
<1>22. CASE CheckAgain(j)
  <2>1. PICK r \in runs : r.job = j /\ EndsAs(j, ResultOf(r, jobs[j].kind))
    BY <1>22 DEF CheckAgain
  <2>2. a.pc = "done"
    BY <1>1, <1>22 DEF CheckAgain
  <2> QED
    BY <1>4, <2>1, <2>2
<1> QED
  BY <1>9, <1>10, <1>11, <1>12, <1>13, <1>14, <1>15, <1>16, <1>17, <1>18, <1>19, <1>20, <1>21, <1>22 DEF Steps


LEMMA WriterReports == WriterInv /\ WriterNext => ReportedIsSo
<1> SUFFICES ASSUME WriterInv, WriterNext, NEW j \in WriterJobs
             PROVE  /\ jobs[j].kind \in {"stop", "hk stop"} \cup AdoptKinds /\ Reports(j) /\ (TwoReads(j) => jobs[j].clean) =>
                         ObeyedBy(ReadOf(gh)) = IF jobs[j].kind = "enable" THEN "true" ELSE "false"
                    /\ jobs[j].kind = "resume" /\ Reports(j) =>
                         /\ gh[site.scope].enabled = "true"
                         /\ SwitchCounts(ReadOf(gh)) => ObeyedBy(ReadOf(gh)) = "true"
                    /\ jobs'[j].outcome = "applied" /\ jobs[j].outcome # "applied" =>
                         \E r \in runs : r.job = j /\ r.attempt = 1 /\ r.result # Absent /\ r.result.serving
  BY DEF ReportedIsSo
<1>1. PICK a : a = jobs[j]
  OBVIOUS
<1>2. JobStands(j, a)
  BY <1>1 DEF WriterInv
<1>3. JobIs(a) /\ (a.pc # "done" => a.outcome = "none")
  BY <1>2 DEF JobStands, PcFits
<1>4. PICK z : z = [a EXCEPT !.clean = FALSE]
  OBVIOUS
<1>5. z.outcome = a.outcome /\ z.pc = a.pc
  BY <1>3, <1>4 DEF JobIs
<1>6. Starts(j) \/ Steps(j) \/ jobs'[j] = a \/ jobs'[j] = z
  BY <1>1, <1>4, OwnStep
<1>7. ASSUME Starts(j) PROVE a.pc = "idle" /\ jobs'[j].outcome = "none"
  <2>1. PICK kind, asked : StartWriter(j, kind, asked)
    BY <1>7 DEF Starts
  <2>2. PICK pc, x : x = [NoJob EXCEPT !.kind = kind, !.asked = asked, !.pc = pc] /\ Moves(j, x)
    BY <2>1 DEF StartWriter
  <2>3. x.outcome = "none"
    BY <2>2 DEF NoJob
  <2> QED
    BY <1>1, <2>1, <2>2, <2>3, MovedTo DEF StartWriter
<1>8. ASSUME jobs'[j].outcome = "configured" \/ jobs'[j].pc = "dispatch", a.pc \in {"compare", "read back"}
      PROVE  /\ a.kind \in {"stop", "hk stop"} \cup AdoptKinds /\ (TwoReads(j) => a.clean) =>
                  ObeyedBy(ReadOf(gh)) = TurnOf(a.kind)
             /\ a.kind = "resume" => /\ gh[site.scope]["enabled"] = "true"
                                     /\ SwitchCounts(ReadOf(gh)) => ObeyedBy(ReadOf(gh)) = "true"
  <2>1. Steps(j)
    BY <1>3, <1>5, <1>6, <1>7, <1>8
  <2>2. ~Failed(j)
    BY <1>1, <1>8, FailedAs
  <2>7. ASSUME NEW o, EndsAs(j, o) PROVE o = "configured"
    <3>1. jobs'[j].outcome = o /\ jobs'[j].pc = "done"
      BY <1>1, <1>8, <2>7, EndedAs
    <3> QED
      BY <1>8, <3>1
  <2>3. ~EndsAs(j, "none") /\ ~EndsAs(j, "unknown")
    BY <2>7
  <2>8. ~ReadRepository(j)
    <3> SUFFICES ASSUME ReadRepository(j) PROVE FALSE
      OBVIOUS
    <3>1. PICK x : x = [a EXCEPT !.half = LevelOf(gh, "repository"), !.clean = TRUE]
      OBVIOUS
    <3>2. x.outcome = a.outcome /\ x.pc = a.pc
      BY <1>3, <3>1 DEF JobIs
    <3>3. Moves(j, x)
      BY <1>1, <3>1 DEF ReadRepository
    <3> QED
      BY <1>3, <1>8, <3>2, <3>3, MovedTo
  <2>4. CompareSource(j) \/ ReadSettingsBack(j)
    BY <1>1, <1>8, <2>1, <2>3, <2>8 DEF Steps, Preflight, PlanEnabled, PlanResume, PlanProfile, FetchAndBuild,
       VerifyManifest, Consume, WriteNext, ReadUnknown, DispatchHk, DispatchControl, PollRun, CheckAgain, Die
  <2>5. CASE CompareSource(j)
    <3>1. PICK x : x = [a EXCEPT !.pc = "write", !.half = Absent, !.clean = (TwoReads(j) => a.clean)]
      OBVIOUS
    <3>2. x.outcome = a.outcome /\ x.pc = "write"
      BY <1>3, <3>1 DEF JobIs
    <3>3. ~Moves(j, x)
      BY <1>3, <1>8, <3>2, MovedTo
    <3>4. a.pc = "compare" /\ SourceStands(j) /\ Needless(j) /\ HasRead(j)
      BY <1>1, <2>2, <2>5, <3>1, <3>3 DEF CompareSource
    <3> QED
      BY <1>1, <1>8, <3>4, ConfirmedIsObeyed
  <2>6. CASE ReadSettingsBack(j)
    <3>1. a.pc = "read back" /\ MatchesPlan(j) /\ HasRead(j)
      BY <1>1, <2>2, <2>3, <2>6 DEF ReadSettingsBack
    <3> QED
      BY <1>1, <1>8, <3>1, ConfirmedIsObeyed
  <2> QED
    BY <2>4, <2>5, <2>6
<1>9. ASSUME jobs'[j].outcome = "applied", a.outcome # "applied"
      PROVE  \E r \in runs : r.job = j /\ r.attempt = 1 /\ r.result # Absent /\ r.result.serving
  <2>1. Steps(j)
    BY <1>5, <1>6, <1>7, <1>9
  <2>2. PICK r \in runs : r.job = j /\ ResultOf(r, jobs[j].kind) = "applied"
    BY <1>1, <1>9, <2>1, AppliedIsRead
  <2>3. r.attempt = 1 /\ r.result # Absent /\ r.result.serving
    BY <2>2, AppliedIsServed
  <2> QED
    BY <2>2, <2>3
<1> QED
  BY <1>1, <1>8, <1>9 DEF Reports, TurnOf

-----------------------------------------------------------------------------
(* The target of a switch and the inventory it is written to.                     *)

\* A set of one member at most.
LEMMA OneAtMost ==
  ASSUME NEW S, IsFiniteSet(S), Cardinality(S) <= 1, NEW x \in S, NEW y \in S
  PROVE  x = y
<1> SUFFICES ASSUME x # y PROVE FALSE
  OBVIOUS
<1>1. IsFiniteSet({x}) /\ Cardinality({x}) = 1
  BY FS_Singleton
<1>2. IsFiniteSet({x} \cup {y}) /\ Cardinality({x} \cup {y}) = 2
  <2>1. y \notin {x}
    OBVIOUS
  <2>2. IsFiniteSet({x} \cup {y}) /\ Cardinality({x} \cup {y}) = Cardinality({x}) + 1
    BY <1>1, <2>1, FS_AddElement
  <2> QED
    BY <1>1, <2>2
<1>3. {x} \cup {y} \subseteq S
  OBVIOUS
<1>4. Cardinality({x} \cup {y}) <= Cardinality(S) /\ Cardinality(S) \in Nat
  BY <1>3, FS_Subset, FS_CardinalityType
<1> QED
  BY <1>2, <1>4

\* Whatever made it: a target the validators accept as live is earned.
LEMMA ValidIsEarned == ASSUME NEW t, RuntimeTargetValid(t) PROVE Earned(t)
<1>1. PolicyAllows(t) /\ ContinuityHolds(t)
  BY DEF RuntimeTargetValid
<1> SUFFICES ASSUME t.profile \in DOMAIN Catalogue, EffectiveMode(t) = "live"
             PROVE  LET s == Catalogue[t.profile] IN
                    IF t.continuity = Nobody THEN s.live /\ ~s.frozen
                    ELSE /\ t.platform \in s.continuity
                         /\ [t EXCEPT !.continuity = Nobody] = t.continuity.baseline
                         /\ s.frozen => t.continuity.state \in {"RECONCILE_ONLY", "RISK_REDUCTION_ONLY"}
  BY DEF Earned
<1>2. PICK s : s = Catalogue[t.profile]
  OBVIOUS
<1>3. /\ ~Frozen(t)
      /\ IF t.continuity # Nobody THEN t.platform \in s.continuity ELSE s.live /\ "live" \in s.modes
  BY <1>1, <1>2 DEF PolicyAllows
<1>4. ~s.frozen \/ (t.continuity # Nobody /\ t.continuity.state \in {"RECONCILE_ONLY", "RISK_REDUCTION_ONLY"})
  BY <1>2, <1>3 DEF Frozen
<1>5. t.continuity # Nobody => t.continuity.baseline = [t EXCEPT !.continuity = Nobody]
  BY <1>1 DEF ContinuityHolds, Fingerprint
<1> QED
  BY <1>2, <1>3, <1>4, <1>5

LEMMA NobodyIs == /\ Nobody # "" /\ Nobody # "true" /\ Nobody # "false" /\ Nobody # "smart"
                  /\ \A f \in Settings : f # Nobody
  BY TargetAssumption
LEMMA NamesOf == /\ "enabled" \in Names /\ "dca" \in Names /\ "exit" \in Names /\ "cash" \in Names /\ "dry" \in Names
                 /\ "snapshot" \in Names /\ "enabled" \in Preserved /\ "dry" \notin Preserved
  BY DEF Names, Preserved
LEMMA OverIs ==
  ASSUME NEW f \in Settings, NEW g \in Settings
  PROVE  /\ Over(f, g) \in Settings
         /\ \A n \in Names : Over(f, g)[n] = IF g[n] # Nobody THEN g[n] ELSE f[n]
  BY DEF Over, Settings
LEMMA BlankIs == Blank \in Settings /\ \A n \in Names : Blank[n] = Nobody
  BY DEF Blank, Settings, SettingValues

\* The controls a request asks for.
LEMMA ControlsAre ==
  ASSUME NEW r \in SwitchRequests, r.profile \in DOMAIN Catalogue, NEW c, c = Controls(r)
  PROVE  /\ c \in Settings /\ c["enabled"] = Nobody
         /\ c["dry"] = IF r.mode = "live" THEN "false" ELSE "true"
         /\ c["dca"] = IF Dca(r.profile) THEN r.dca ELSE ""
         /\ c["exit"] = IF ~Ibit(r.profile) THEN ""
                        ELSE IF r.plugins = "current" /\ EffectiveDca(r) = "smart" THEN "true" ELSE "false"
<1>1. PICK v : v = IF Dca(r.profile) THEN r.dca ELSE ""
  OBVIOUS
<1>2. PICK x : x = IF ~Ibit(r.profile) THEN ""
                   ELSE IF r.plugins = "current" /\ EffectiveDca(r) = "smart" THEN "true" ELSE "false"
  OBVIOUS
<1>3. PICK y : y = IF r.mode = "live" THEN "false" ELSE "true"
  OBVIOUS
<1>4. PICK d : d = [Blank EXCEPT !.dca = v]
  OBVIOUS
<1>5. PICK e : e = [Blank EXCEPT !.exit = x]
  OBVIOUS
<1>6. PICK own : own = [Blank EXCEPT !.cash = r.cash, !.snapshot = SnapshotOf(r), !.dry = y]
  OBVIOUS
<1>7. d = DcaControls(r) /\ e = ExitControls(r)
  BY <1>1, <1>2, <1>4, <1>5 DEF DcaControls, ExitControls
<1>8. c = Over(Over(own, d), e)
  BY <1>3, <1>6, <1>7 DEF Controls
<1>9. {v, x, y, r.cash, SnapshotOf(r)} \subseteq SettingValues
  <2>1. v \in SettingValues
    BY <1>1 DEF SettingValues
  <2>2. x \in SettingValues
    BY <1>2 DEF SettingValues
  <2>3. y \in SettingValues
    BY <1>3 DEF SettingValues
  <2>4. r.cash \in SettingValues
    BY DEF SettingValues
  <2>5. SnapshotOf(r) \in SettingValues
    BY DEF SettingValues, SnapshotOf
  <2> QED
    BY <2>1, <2>2, <2>3, <2>4, <2>5
<1>10. d = [n \in Names |-> IF n = "dca" THEN v ELSE Nobody]
  BY <1>4, NamesOf DEF Blank
<1>11. e = [n \in Names |-> IF n = "exit" THEN x ELSE Nobody]
  BY <1>5, NamesOf DEF Blank
<1>12. own = [n \in Names |-> IF n = "cash" THEN r.cash ELSE IF n = "snapshot" THEN SnapshotOf(r)
                              ELSE IF n = "dry" THEN y ELSE Nobody]
  BY <1>6, NamesOf DEF Blank
<1>13. Nobody \in SettingValues
  BY DEF SettingValues
<1>14. d \in Settings /\ e \in Settings /\ own \in Settings
  BY <1>9, <1>10, <1>11, <1>12, <1>13 DEF Settings
<1>15. PICK h : h = Over(own, d)
  OBVIOUS
<1>16. h \in Settings /\ \A n \in Names : h[n] = IF d[n] # Nobody THEN d[n] ELSE own[n]
  BY <1>14, <1>15, OverIs
<1>17. c \in Settings /\ \A n \in Names : c[n] = IF e[n] # Nobody THEN e[n] ELSE h[n]
  BY <1>8, <1>14, <1>15, <1>16, OverIs
<1>18. c["enabled"] = Nobody
  <2>1. e["enabled"] = Nobody /\ d["enabled"] = Nobody /\ own["enabled"] = Nobody
    BY <1>10, <1>11, <1>12, NamesOf
  <2> QED
    BY <1>16, <1>17, <2>1, NamesOf
<1>19. c["dry"] = y
  <2>1. e["dry"] = Nobody /\ d["dry"] = Nobody /\ own["dry"] = y
    BY <1>10, <1>11, <1>12, NamesOf
  <2> QED
    BY <1>16, <1>17, <2>1, NamesOf
<1>20. c["dca"] = v
  <2>1. e["dca"] = Nobody /\ d["dca"] = v /\ own["dca"] = Nobody
    BY <1>10, <1>11, <1>12, NamesOf
  <2> QED
    BY <1>16, <1>17, <2>1, NamesOf
<1>21. c["exit"] = x
  <2>1. e["exit"] = x /\ x # Nobody
    BY <1>2, <1>11, NamesOf, NobodyIs
  <2> QED
    BY <1>17, <2>1, NamesOf
<1> QED
  BY <1>1, <1>2, <1>3, <1>17, <1>18, <1>19, <1>20, <1>21

\* The target of a request, and the entry made of it.
LEMMA TargetIs ==
  ASSUME NEW r, NEW t, t = RuntimeTarget(r)
  PROVE  t.profile = r.profile /\ t.service = r.service /\ t.dry = (r.mode # "live")
<1>1. PICK dry \in BOOLEAN : dry = (r.mode # "live")
  OBVIOUS
<1>2. PICK mode, scheduler, market, continuity :
         t = [platform |-> r.platform, profile |-> r.profile, service |-> r.service, scope |-> r.scope,
              mode |-> mode, dry |-> dry, scheduler |-> scheduler, market |-> market,
              data |-> r.data, domain |-> Nobody, release |-> Nobody, continuity |-> continuity]
  <2>1. PICK bare : bare = [platform |-> r.platform, profile |-> r.profile, service |-> r.service, scope |-> r.scope,
               mode |-> IF r.mode = "live" THEN "live" ELSE "paper", dry |-> r.mode # "live",
               scheduler |-> SchedulerOf(r.profile, <<>>), market |-> Catalogue[r.profile].market,
               data |-> r.data, domain |-> Nobody, release |-> Nobody, continuity |-> Nobody]
    OBVIOUS
  <2>2. PICK s, k : t = [bare EXCEPT !.scheduler = s, !.continuity = k]
    BY <2>1 DEF RuntimeTarget
  <2> QED
    BY <1>1, <2>1, <2>2
<1> QED
  BY <1>1, <1>2
LEMMA NewEntryIs ==
  ASSUME NEW r, NEW x, x = EntryOf(r)
  PROVE  /\ x = [service |-> x.service, label |-> x.label, group |-> x.group, target |-> x.target,
                 mounts |-> x.mounts, top |-> x.top, env |-> x.env]
         /\ x.service = r.service /\ x.label = Nobody /\ x.target = RuntimeTarget(r) /\ x.top = Controls(r)
         /\ x.env = Nobody
  BY DEF EntryOf


\* An entry that is kept has its stop switch only in two places.
InOnePlace(e) == e.env # Nobody => \A n \in Names \ {"enabled"} : e.top[n] = Nobody
\* Every control that was asked for is in effect, and the others stay so.
Becomes(x, e, asked) == \A n \in Names : Effective(x, n) = IF asked[n] # Nobody THEN asked[n] ELSE Effective(e, n)
LEMMA PatchedIs ==
  ASSUME NEW r \in SwitchRequests, r.profile \in DOMAIN Catalogue, NEW c, c = Controls(r),
         NEW e, IsEntry(e), InOnePlace(e), NEW x, x = Patched(e, EntryOf(r))
  PROVE  /\ x = [service |-> x.service, label |-> x.label, group |-> x.group, target |-> x.target,
                 mounts |-> x.mounts, top |-> x.top, env |-> x.env]
         /\ x.service = r.service /\ x.label = e.label /\ x.target = RuntimeTarget(r)
         /\ x.top \in Settings /\ x.env \in Settings \cup {Nobody}
         /\ x.top["enabled"] \in {Nobody, "true", "false"}
         /\ InOnePlace(x) /\ Becomes(x, e, c)
<1>1. PICK new : new = EntryOf(r)
  OBVIOUS
<1>2. new.service = r.service /\ new.target = RuntimeTarget(r) /\ new.top = c
  BY <1>1, NewEntryIs
<1>3. c \in Settings /\ c["enabled"] = Nobody
  BY ControlsAre
<1>4. PICK kept : kept = [n \in Names |-> IF n \in Preserved /\ c[n] = Nobody THEN e.top[n] ELSE c[n]]
  OBVIOUS
<1>5. e.top \in Settings /\ e.env \in Settings \cup {Nobody} /\ e.top["enabled"] \in {Nobody, "true", "false"}
  BY DEF IsEntry
<1>6. kept \in Settings
  BY <1>3, <1>4, <1>5 DEF Settings
<1>7. kept["enabled"] = e.top["enabled"]
  BY <1>3, <1>4, NamesOf
<1>8. PICK renewed, group :
         renewed = [service |-> r.service, label |-> e.label, group |-> group, target |-> RuntimeTarget(r),
                    mounts |-> new.mounts, top |-> e.top, env |-> e.env]
         /\ x = IF e.env # Nobody THEN [renewed EXCEPT !.env = Over(e.env, kept)]
                ELSE [renewed EXCEPT !.top = Over(e.top, kept)]
  <2>1. PICK g : g = IF new.group # Nobody THEN new.group ELSE e.group
    OBVIOUS
  <2>2. PICK q : q = [e EXCEPT !.service = new.service, !.target = new.target, !.mounts = new.mounts, !.group = g]
    OBVIOUS
  <2>3. q = [service |-> r.service, label |-> e.label, group |-> g, target |-> RuntimeTarget(r),
             mounts |-> new.mounts, top |-> e.top, env |-> e.env]
    BY <1>2, <2>2 DEF IsEntry
  <2>4. x = IF e.env # Nobody THEN [q EXCEPT !.env = Over(e.env, kept)] ELSE [q EXCEPT !.top = Over(e.top, kept)]
    BY <1>1, <1>2, <1>4, <2>1, <2>2 DEF Patched
  <2> QED
    BY <2>3, <2>4
<1>9. CASE e.env # Nobody
  <2>1. PICK v : v = Over(e.env, kept)
    OBVIOUS
  <2>2. v \in Settings /\ \A n \in Names : v[n] = IF kept[n] # Nobody THEN kept[n] ELSE e.env[n]
    BY <1>5, <1>6, <1>9, <2>1, OverIs
  <2>3. x = [renewed EXCEPT !.env = v]
    BY <1>8, <1>9, <2>1
  <2>4. x = [service |-> r.service, label |-> e.label, group |-> group, target |-> RuntimeTarget(r),
             mounts |-> new.mounts, top |-> e.top, env |-> v]
    BY <1>8, <2>3
  <2>5. x.service = r.service /\ x.label = e.label /\ x.target = RuntimeTarget(r) /\ x.top = e.top /\ x.env = v
    BY <2>4
  <2>6. v # Nobody
    BY <2>2, NobodyIs
  <2>7. InOnePlace(x)
    BY <1>9, <2>5 DEF InOnePlace
  <2>8. Becomes(x, e, c)
    <3> SUFFICES ASSUME NEW n \in Names PROVE Effective(x, n) = IF c[n] # Nobody THEN c[n] ELSE Effective(e, n)
      BY DEF Becomes
    <3>1. CASE n = "enabled"
      <4>1. v[n] = IF e.top[n] # Nobody THEN e.top[n] ELSE e.env[n]
        BY <1>7, <2>2, <3>1
      <4>2. e.top[n] \in {Nobody, "true", "false"} /\ c[n] = Nobody
        BY <1>3, <1>5, <3>1
      <4>3. Effective(x, n) = IF e.top[n] \notin {Nobody, ""} THEN e.top[n]
                              ELSE IF v # Nobody /\ v[n] \notin {Nobody, ""} THEN v[n] ELSE ""
        BY <2>5 DEF Effective
      <4>4. Effective(e, n) = IF e.top[n] \notin {Nobody, ""} THEN e.top[n]
                              ELSE IF e.env # Nobody /\ e.env[n] \notin {Nobody, ""} THEN e.env[n] ELSE ""
        BY DEF Effective
      <4> QED
        BY <1>9, <2>6, <4>1, <4>2, <4>3, <4>4
    <3>2. CASE n # "enabled"
      <4>1. e.top[n] = Nobody
        BY <1>9, <3>2 DEF InOnePlace
      <4>2. kept[n] = c[n]
        BY <1>4, <4>1
      <4>3. v[n] = IF c[n] # Nobody THEN c[n] ELSE e.env[n]
        BY <2>2, <4>2
      <4>4. Effective(x, n) = IF v # Nobody /\ v[n] \notin {Nobody, ""} THEN v[n] ELSE ""
        BY <2>5, <4>1 DEF Effective
      <4>5. Effective(e, n) = IF e.env # Nobody /\ e.env[n] \notin {Nobody, ""} THEN e.env[n] ELSE ""
        BY <4>1 DEF Effective
      <4> QED
        BY <1>9, <2>6, <4>3, <4>4, <4>5
    <3> QED
      BY <3>1, <3>2
  <2> QED
    BY <1>5, <2>2, <2>4, <2>5, <2>7, <2>8
<1>10. CASE e.env = Nobody
  <2>1. PICK v : v = Over(e.top, kept)
    OBVIOUS
  <2>2. v \in Settings /\ \A n \in Names : v[n] = IF kept[n] # Nobody THEN kept[n] ELSE e.top[n]
    BY <1>5, <1>6, <2>1, OverIs
  <2>3. x = [renewed EXCEPT !.top = v]
    BY <1>8, <1>10, <2>1
  <2>4. x = [service |-> r.service, label |-> e.label, group |-> group, target |-> RuntimeTarget(r),
             mounts |-> new.mounts, top |-> v, env |-> Nobody]
    BY <1>8, <1>10, <2>3
  <2>5. x.service = r.service /\ x.label = e.label /\ x.target = RuntimeTarget(r) /\ x.top = v /\ x.env = Nobody
    BY <2>4
  <2>6. InOnePlace(x)
    BY <2>5 DEF InOnePlace
  <2>7. \A n \in Names : v[n] = IF c[n] # Nobody THEN c[n] ELSE e.top[n]
    BY <1>4, <2>2
  <2>8. Becomes(x, e, c)
    <3> SUFFICES ASSUME NEW n \in Names PROVE Effective(x, n) = IF c[n] # Nobody THEN c[n] ELSE Effective(e, n)
      BY DEF Becomes
    <3>1. Effective(x, n) = IF v[n] \notin {Nobody, ""} THEN v[n] ELSE ""
      BY <2>5 DEF Effective
    <3>2. Effective(e, n) = IF e.top[n] \notin {Nobody, ""} THEN e.top[n] ELSE ""
      BY <1>10 DEF Effective
    <3> QED
      BY <2>7, <3>1, <3>2
  <2>9. v["enabled"] \in {Nobody, "true", "false"}
    BY <1>3, <1>5, <2>7, NamesOf
  <2>10. x.top \in Settings /\ x.env \in Settings \cup {Nobody} /\ x.top["enabled"] \in {Nobody, "true", "false"}
    BY <2>2, <2>5, <2>9
  <2>11. x = [service |-> x.service, label |-> x.label, group |-> x.group, target |-> x.target,
              mounts |-> x.mounts, top |-> x.top, env |-> x.env]
    BY <2>4
  <2> QED
    BY <2>5, <2>6, <2>8, <2>10, <2>11
<1> QED
  BY <1>9, <1>10

\* What a request's controls make of an entry with its target.
FitsTarget(e) ==
  /\ Effective(e, "exit") = "true" => Effective(e, "dca") = "smart" /\ e.target # Nobody /\ Ibit(e.target.profile)
  /\ e.target # Nobody => /\ Effective(e, "dca") # "" => Dca(e.target.profile)
                          /\ Effective(e, "dry") # "" => (Effective(e, "dry") = "true") = e.target.dry
LEMMA AskedFit ==
  ASSUME NEW r \in SwitchRequests, Describable(r), NEW c, c = Controls(r), NEW x, x.target = RuntimeTarget(r),
         \A n \in Names : c[n] # Nobody => Effective(x, n) = c[n]
  PROVE  FitsTarget(x)
<1>1. r.profile \in DOMAIN Catalogue
  BY DEF Describable
<1>2. /\ c["dry"] = IF r.mode = "live" THEN "false" ELSE "true"
      /\ c["dca"] = IF Dca(r.profile) THEN r.dca ELSE ""
      /\ c["exit"] = IF ~Ibit(r.profile) THEN ""
                     ELSE IF r.plugins = "current" /\ EffectiveDca(r) = "smart" THEN "true" ELSE "false"
  BY <1>1, ControlsAre
<1>3. PICK t : t = RuntimeTarget(r)
  OBVIOUS
<1>4. x.target = t /\ t # Nobody /\ t.profile = r.profile /\ t.dry = (r.mode # "live")
  BY <1>3, TargetIs, TargetAssumption
<1>5. Effective(x, "exit") = c["exit"]
  BY <1>2, NamesOf, NobodyIs
<1>6. Effective(x, "dry") = c["dry"]
  BY <1>2, NamesOf, NobodyIs
<1>7. ~Dca(r.profile) => Effective(x, "dca") = ""
  BY <1>2, NamesOf, NobodyIs
<1>8. Effective(x, "exit") = "true" => Effective(x, "dca") = "smart" /\ Ibit(r.profile)
  <2> SUFFICES ASSUME c["exit"] = "true" PROVE Effective(x, "dca") = "smart" /\ Ibit(r.profile)
    BY <1>5
  <2>1. Ibit(r.profile) /\ EffectiveDca(r) = "smart"
    BY <1>2
  <2>2. r.dca = "smart" /\ Dca(r.profile)
    BY <2>1 DEF EffectiveDca, Ibit, Dca
  <2>3. c["dca"] = "smart"
    BY <1>2, <2>2
  <2> QED
    BY <2>1, <2>3, NamesOf, NobodyIs
<1>9. (Effective(x, "dry") = "true") = x.target.dry
  BY <1>2, <1>4, <1>6
<1> QED
  BY <1>4, <1>7, <1>8, <1>9 DEF FitsTarget


\* What holds of one entry, and of two.
EntryKept(e) == IsEntry(e) /\ FitsTarget(e) /\ InOnePlace(e) /\ (e.target # Nobody => Earned(e.target))
Separate(list) == \A i, k \in 1 .. Len(list) : ServicesOf(list[k]) \cap ServicesOf(list[i]) # {} => i = k
LEMMA WellKeptIs ==
  ASSUME NEW list
  PROVE  WellKept(list) <=> /\ Len(list) \in Nat /\ list = [i \in 1 .. Len(list) |-> list[i]]
                            /\ \A i \in 1 .. Len(list) : EntryKept(list[i])
                            /\ Separate(list)
<1>1. SUFFICES ASSUME Len(list) \in Nat, list = [i \in 1 .. Len(list) |-> list[i]]
               PROVE  WellKept(list) <=> (\A i \in 1 .. Len(list) : EntryKept(list[i])) /\ Separate(list)
  BY DEF WellKept
<1>2. DOMAIN list = 1 .. Len(list)
  BY <1>1
<1>3. Coherent(list) <=> (\A i \in 1 .. Len(list) : FitsTarget(list[i]) /\ InOnePlace(list[i])) /\ Separate(list)
  BY <1>2 DEF Coherent, FitsTarget, InOnePlace, Separate
<1>4. AllEarned(list) <=> \A i \in 1 .. Len(list) : list[i].target # Nobody => Earned(list[i].target)
  BY <1>2 DEF AllEarned
<1> QED
  BY <1>1, <1>3, <1>4 DEF WellKept, EntryKept

LEMMA LenIs == ASSUME NEW n \in Nat, NEW f, f = [i \in 1 .. n |-> f[i]] PROVE Len(f) = n
<1>1. f \in Seq({f[i] : i \in 1 .. n})
  <2>1. \A i \in 1 .. n : f[i] \in {f[k] : k \in 1 .. n}
    OBVIOUS
  <2>2. f \in [1 .. n -> {f[k] : k \in 1 .. n}]
    BY <2>1
  <2> QED
    BY <2>2, SeqDef
<1>2. DOMAIN f = 1 .. Len(f) /\ Len(f) \in Nat
  BY <1>1, LenProperties
<1>3. 1 .. Len(f) = 1 .. n
  BY <1>2
<1> QED
  BY <1>2, <1>3

\* One entry is replaced, or one is added, that shares no service with the others.
LEMMA EntryReplaced ==
  ASSUME NEW l, WellKept(l), NEW i \in 1 .. Len(l), NEW x, EntryKept(x),
         NEW m, m = [k \in 1 .. Len(l) |-> IF k = i THEN x ELSE l[k]],
         \A k \in 1 .. Len(l) : ServicesOf(l[k]) \cap ServicesOf(x) # {} => k = i
  PROVE  WellKept(m)
<1>1. /\ Len(l) \in Nat
      /\ \A k \in 1 .. Len(l) : EntryKept(l[k])
      /\ Separate(l)
  BY WellKeptIs
<1>2. m = [k \in 1 .. Len(l) |-> m[k]] /\ \A k \in 1 .. Len(l) : m[k] = IF k = i THEN x ELSE l[k]
  OBVIOUS
<1>3. Len(m) = Len(l)
  BY <1>1, <1>2, LenIs
<1>4. \A k \in 1 .. Len(l) : EntryKept(m[k])
  BY <1>1, <1>2
<1>5. Separate(m)
  <2> SUFFICES ASSUME NEW a \in 1 .. Len(l), NEW b \in 1 .. Len(l), ServicesOf(m[b]) \cap ServicesOf(m[a]) # {}
               PROVE  a = b
    BY <1>3 DEF Separate
  <2>1. CASE a = i
    BY <1>2, <2>1
  <2>2. CASE b = i
    BY <1>2, <2>2
  <2>3. CASE a # i /\ b # i
    BY <1>1, <1>2, <2>3 DEF Separate
  <2> QED
    BY <2>1, <2>2, <2>3
<1> QED
  BY <1>1, <1>2, <1>3, <1>4, <1>5, WellKeptIs
LEMMA EntryAdded ==
  ASSUME NEW l, WellKept(l), NEW x, EntryKept(x), NEW m, m = Append(l, x),
         \A k \in 1 .. Len(l) : ServicesOf(l[k]) \cap ServicesOf(x) = {}
  PROVE  /\ WellKept(m) /\ Len(m) = Len(l) + 1 /\ Len(l) \in Nat
         /\ DOMAIN m = 1 .. Len(l) + 1 /\ \A k \in 1 .. Len(l) : m[k] = l[k]
<1>1. /\ Len(l) \in Nat /\ l = [k \in 1 .. Len(l) |-> l[k]]
      /\ \A k \in 1 .. Len(l) : EntryKept(l[k])
      /\ Separate(l)
  BY WellKeptIs
<1>2. PICK n : n = Len(l)
  OBVIOUS
<1>3. PICK S : S = {l[k] : k \in 1 .. n} \cup {x}
  OBVIOUS
<1>4. l \in Seq(S)
  <2>1. \A k \in 1 .. n : l[k] \in S
    BY <1>3
  <2>2. l \in [1 .. n -> S]
    BY <1>1, <1>2, <2>1
  <2> QED
    BY <1>1, <1>2, <2>2, SeqDef
<1>5. m \in Seq(S) /\ Len(m) = n + 1 /\ (\A k \in 1 .. n : m[k] = l[k]) /\ m[n + 1] = x
  BY <1>2, <1>3, <1>4, AppendProperties
<1>6. n \in Nat /\ DOMAIN m = 1 .. n + 1 /\ m = [k \in 1 .. n + 1 |-> m[k]]
  BY <1>1, <1>2, <1>5, LenProperties
<1>7. \A k \in 1 .. n + 1 : k \in 1 .. n \/ k = n + 1
  BY <1>6
<1>8. \A k \in 1 .. n + 1 : EntryKept(m[k])
  BY <1>1, <1>2, <1>5, <1>7
<1>9. Separate(m)
  <2> SUFFICES ASSUME NEW a \in 1 .. n + 1, NEW b \in 1 .. n + 1, ServicesOf(m[b]) \cap ServicesOf(m[a]) # {}
               PROVE  a = b
    BY <1>5 DEF Separate
  <2>1. CASE a \in 1 .. n /\ b \in 1 .. n
    BY <1>1, <1>2, <1>5, <2>1 DEF Separate
  <2>2. CASE a = n + 1 \/ b = n + 1
    BY <1>2, <1>5, <1>7, <2>2
  <2> QED
    BY <1>7, <2>1, <2>2
<1>10. Len(m) \in Nat /\ 1 .. Len(m) = 1 .. n + 1
  BY <1>5, <1>6
<1>11. WellKept(m)
  BY <1>6, <1>8, <1>9, <1>10, WellKeptIs
<1> QED
  BY <1>2, <1>5, <1>6, <1>11

\* The entry a request selects is of its service or of none, and the only one of it.
LEMMA SelectedIs ==
  ASSUME NEW list, WellKept(list), NEW r, NEW i \in Selected(r, list)
  PROVE  /\ i \in 1 .. Len(list) /\ ServicesOf(list[i]) \subseteq {r.service}
         /\ \A k \in 1 .. Len(list) : r.service \in ServicesOf(list[k]) => k = i
<1>1. /\ list = [k \in 1 .. Len(list) |-> list[k]] /\ Separate(list)
      /\ \A k \in 1 .. Len(list) : EntryKept(list[k])
  BY WellKeptIs
<1>2. DOMAIN list = 1 .. Len(list)
  BY <1>1
<1>3. i \in 1 .. Len(list)
  BY <1>2 DEF Selected
<1>4. \/ r.service \in ServicesOf(list[i])
      \/ ServicesOf(list[i]) = {} /\ \A k \in 1 .. Len(list) : r.service \notin ServicesOf(list[k])
  BY <1>2 DEF Selected
<1>5. \A s, t \in ServicesOf(list[i]) : s = t
  BY <1>1, <1>3 DEF EntryKept, IsEntry
<1>6. ASSUME NEW k \in 1 .. Len(list), r.service \in ServicesOf(list[k]) PROVE k = i
  BY <1>1, <1>3, <1>4, <1>6 DEF Separate
<1> QED
  BY <1>3, <1>4, <1>5, <1>6
LEMMA NoneSelected ==
  ASSUME NEW list, WellKept(list), NEW r, Selected(r, list) = {}
  PROVE  \A k \in 1 .. Len(list) : r.service \notin ServicesOf(list[k])
<1>1. DOMAIN list = 1 .. Len(list)
  BY DEF WellKept
<1> QED
  BY <1>1 DEF Selected


TargetInv == WellKept(inventory) /\ (published # Nobody => Earned(published.runtime))
LEMMA TargetStarts == TargetInit => TargetInv
  BY TargetAssumption DEF TargetInit, TargetInv

\* What a switch, and what a stop or an enable, makes of the inventory.
SwitchedAt(r, i, x) ==
  /\ i \in 1 .. Len(inventory) /\ EntryKept(x) /\ ServicesOf(inventory[i]) \subseteq {r.service}
  /\ x.target = RuntimeTarget(r) /\ Becomes(x, inventory[i], Controls(r))
  /\ \A k \in 1 .. Len(inventory) : ServicesOf(inventory[k]) \cap ServicesOf(x) # {} => k = i
  /\ inventory' = [k \in 1 .. Len(inventory) |-> IF k = i THEN x ELSE inventory[k]]
AddedFor(x) ==
  /\ EntryKept(x) /\ inventory' = Append(inventory, x)
  /\ \A k \in 1 .. Len(inventory) : ServicesOf(inventory[k]) \cap ServicesOf(x) = {}
TurnedAt(i, on, x) ==
  /\ i \in 1 .. Len(inventory) /\ on \in {"true", "false"} /\ EntryKept(x)
  /\ ServicesOf(x) = ServicesOf(inventory[i])
  /\ x.target = inventory[i].target /\ Becomes(x, inventory[i], [Blank EXCEPT !.enabled = on])
  /\ inventory' = [k \in 1 .. Len(inventory) |-> IF k = i THEN x ELSE inventory[k]]

LEMMA SwitchDoes ==
  ASSUME TargetInv, NEW r \in SwitchRequests, Switch(r)
  PROVE  (\E i, x : SwitchedAt(r, i, x)) \/ (\E x : AddedFor(x))
<1>1. /\ Describable(r) /\ Placeable(r) /\ Valid(Built(r)) /\ inventory' = PatchedInventory(r)
      /\ r.profile \in DOMAIN Catalogue
  BY DEF Switch, Describable
<1>2. PICK l, chosen, t, c : l = inventory /\ chosen = Selected(r, l) /\ t = RuntimeTarget(r) /\ c = Controls(r)
  OBVIOUS
<1>3. WellKept(l)
  BY <1>2 DEF TargetInv
<1>4. /\ l = [k \in 1 .. Len(l) |-> l[k]] /\ Len(l) \in Nat
      /\ \A k \in 1 .. Len(l) : EntryKept(l[k])
      /\ DOMAIN l = 1 .. Len(l)
  <2>1. l = [k \in 1 .. Len(l) |-> l[k]]
    BY <1>3, WellKeptIs
  <2> QED
    BY <1>3, <2>1, WellKeptIs
<1>5. Earned(t)
  BY <1>1, <1>2, ValidIsEarned DEF Valid, Built
<1>6. t # Nobody /\ t.service = r.service
  BY <1>1, <1>2, TargetIs, TargetAssumption
<1>7. PICK new : new = EntryOf(r)
  OBVIOUS
<1>8. c \in Settings /\ c["enabled"] = Nobody
  BY <1>1, <1>2, ControlsAre
<1>9. CASE chosen = {}
  <2>1. inventory' = Append(l, new)
    BY <1>1, <1>2, <1>7, <1>9 DEF PatchedInventory
  <2>2. /\ new = [service |-> new.service, label |-> new.label, group |-> new.group, target |-> new.target,
                  mounts |-> new.mounts, top |-> new.top, env |-> new.env]
        /\ new.service = r.service /\ new.label = Nobody /\ new.target = t /\ new.top = c /\ new.env = Nobody
    BY <1>2, <1>7, NewEntryIs
  <2>3. ServicesOf(new) \subseteq {r.service}
    BY <1>6, <2>2 DEF ServicesOf
  <2>4. IsEntry(new)
    BY <1>8, <2>2, <2>3 DEF IsEntry
  <2>5. InOnePlace(new)
    BY <2>2 DEF InOnePlace
  <2>6. \A n \in Names : c[n] # Nobody => Effective(new, n) = c[n]
    BY <2>2 DEF Effective
  <2>7. FitsTarget(new)
    BY <1>1, <1>2, <2>2, <2>6, AskedFit
  <2>8. EntryKept(new)
    BY <1>5, <2>2, <2>4, <2>5, <2>7 DEF EntryKept
  <2>9. \A k \in 1 .. Len(l) : r.service \notin ServicesOf(l[k])
    BY <1>2, <1>3, <1>9, NoneSelected
  <2>10. \A k \in 1 .. Len(l) : ServicesOf(l[k]) \cap ServicesOf(new) = {}
    BY <2>3, <2>9
  <2> QED
    BY <1>2, <2>1, <2>8, <2>10 DEF AddedFor
<1>10. CASE chosen # {}
  <2>1. PICK i : i \in chosen
    BY <1>10
  <2>2. /\ i \in 1 .. Len(l) /\ ServicesOf(l[i]) \subseteq {r.service}
        /\ \A k \in 1 .. Len(l) : r.service \in ServicesOf(l[k]) => k = i
    BY <1>2, <1>3, <2>1, SelectedIs
  <2>3. \A k \in chosen : k = i
    <3>1. chosen \subseteq 1 .. Len(l)
      BY <1>2, <1>4 DEF Selected
    <3>2. IsFiniteSet(chosen)
      BY <1>4, <3>1, FS_Interval, FS_Subset
    <3>3. Cardinality(chosen) <= 1
      BY <1>1, <1>2 DEF Placeable
    <3> QED
      BY <2>1, <3>2, <3>3, OneAtMost
  <2>4. PICK e, x : e = l[i] /\ x = Patched(e, new)
    OBVIOUS
  <2>5. EntryKept(e)
    BY <1>4, <2>2, <2>4
  <2>6. /\ x = [service |-> x.service, label |-> x.label, group |-> x.group, target |-> x.target,
                mounts |-> x.mounts, top |-> x.top, env |-> x.env]
        /\ x.service = r.service /\ x.label = e.label /\ x.target = t
        /\ x.top \in Settings /\ x.env \in Settings \cup {Nobody}
        /\ x.top["enabled"] \in {Nobody, "true", "false"}
        /\ InOnePlace(x) /\ Becomes(x, e, c)
    BY <1>1, <1>2, <1>7, <2>4, <2>5, PatchedIs DEF EntryKept
  <2>7. ServicesOf(x) \subseteq {r.service}
    <3>1. e.label \in {Nobody, r.service}
      BY <2>2, <2>4 DEF ServicesOf
    <3> QED
      BY <1>6, <2>6, <3>1 DEF ServicesOf
  <2>8. IsEntry(x)
    BY <2>6, <2>7 DEF IsEntry
  <2>9. FitsTarget(x)
    BY <1>1, <1>2, <2>6, AskedFit DEF Becomes
  <2>10. EntryKept(x)
    BY <1>5, <2>6, <2>8, <2>9 DEF EntryKept
  <2>11. inventory' = [k \in 1 .. Len(l) |-> IF k = i THEN x ELSE l[k]]
    <3>1. inventory' = [k \in DOMAIN l |-> IF k \in chosen THEN Patched(l[k], new) ELSE l[k]]
      BY <1>1, <1>2, <1>7, <1>10 DEF PatchedInventory
    <3>2. \A k \in 1 .. Len(l) : (IF k \in chosen THEN Patched(l[k], new) ELSE l[k]) = (IF k = i THEN x ELSE l[k])
      BY <2>1, <2>3, <2>4
    <3> QED
      BY <1>4, <3>1, <3>2
  <2>12. \A k \in 1 .. Len(l) : ServicesOf(l[k]) \cap ServicesOf(x) # {} => k = i
    BY <2>2, <2>7
  <2> QED
    BY <1>2, <2>2, <2>4, <2>6, <2>10, <2>11, <2>12, SMTT(60) DEF SwitchedAt
<1> QED
  BY <1>9, <1>10

LEMMA TurnDoes ==
  ASSUME TargetInv, NEW service, NEW on \in {"true", "false"}, Turn(service, on)
  PROVE  \E i, x : TurnedAt(i, on, x)
<1>1. PICK l : l = inventory
  OBVIOUS
<1>2. /\ l = [k \in 1 .. Len(l) |-> l[k]] /\ \A k \in 1 .. Len(l) : EntryKept(l[k])
  BY <1>1, WellKeptIs DEF TargetInv
<1>3. PICK i \in DOMAIN l : \E x :
         /\ l[i].target # Nobody
         /\ x = (IF /\ l[i].target.platform = "ibkr" /\ l[i].top.enabled = Nobody
                   /\ l[i].env # Nobody /\ l[i].env.enabled # Nobody
                 THEN [l[i] EXCEPT !.env.enabled = on] ELSE [l[i] EXCEPT !.top.enabled = on])
         /\ inventory' = [l EXCEPT ![i] = x]
  BY <1>1 DEF Turn
<1>4. PICK e, x :
         /\ e = l[i] /\ e.target # Nobody
         /\ x = (IF /\ e.target.platform = "ibkr" /\ e.top.enabled = Nobody /\ e.env # Nobody /\ e.env.enabled # Nobody
                 THEN [e EXCEPT !.env.enabled = on] ELSE [e EXCEPT !.top.enabled = on])
         /\ inventory' = [l EXCEPT ![i] = x]
  BY <1>3
<1>5. i \in 1 .. Len(l) /\ EntryKept(e)
  BY <1>2, <1>3, <1>4
<1>6. inventory' = [k \in 1 .. Len(l) |-> IF k = i THEN x ELSE l[k]]
  BY <1>2, <1>4, <1>5
<1>7. on # Nobody /\ on # "" /\ on \in SettingValues
  BY NobodyIs DEF SettingValues
<1>8. PICK a : a = [Blank EXCEPT !.enabled = on]
  OBVIOUS
<1>9. a["enabled"] = on /\ \A n \in Names \ {"enabled"} : a[n] = Nobody
  BY <1>8, NamesOf DEF Blank
<1>10. /\ e = [service |-> e.service, label |-> e.label, group |-> e.group, target |-> e.target,
               mounts |-> e.mounts, top |-> e.top, env |-> e.env]
       /\ e.top \in Settings /\ e.env \in Settings \cup {Nobody} /\ e.top["enabled"] \in {Nobody, "true", "false"}
       /\ InOnePlace(e) /\ FitsTarget(e) /\ Earned(e.target)
       /\ \A s, t \in ServicesOf(e) : s = t
  BY <1>4, <1>5 DEF EntryKept, IsEntry
<1>11. ASSUME NEW top, NEW env,
              x = [service |-> e.service, label |-> e.label, group |-> e.group, target |-> e.target,
                   mounts |-> e.mounts, top |-> top, env |-> env],
              top \in Settings, env \in Settings \cup {Nobody}, top["enabled"] \in {Nobody, "true", "false"},
              \A n \in Names \ {"enabled"} : top[n] = e.top[n], env # Nobody <=> e.env # Nobody,
              \A n \in Names : Effective(x, n) = IF n = "enabled" THEN on ELSE Effective(e, n)
       PROVE  TurnedAt(i, on, x)
  <2>1. /\ x.service = e.service /\ x.label = e.label /\ x.target = e.target /\ x.top = top /\ x.env = env
    BY <1>11
  <2>2. ServicesOf(x) = ServicesOf(e)
    BY <2>1 DEF ServicesOf
  <2>3. IsEntry(x)
    BY <1>10, <1>11, <2>1, <2>2 DEF IsEntry
  <2>4. InOnePlace(x)
    BY <1>10, <1>11, <2>1 DEF InOnePlace
  <2>5. /\ Effective(x, "exit") = Effective(e, "exit") /\ Effective(x, "dca") = Effective(e, "dca")
        /\ Effective(x, "dry") = Effective(e, "dry")
    BY <1>11, NamesOf
  <2>6. FitsTarget(x)
    BY <1>10, <2>1, <2>5 DEF FitsTarget
  <2>7. Becomes(x, e, a)
    BY <1>7, <1>9, <1>11 DEF Becomes
  <2>8. EntryKept(x)
    BY <1>10, <2>1, <2>3, <2>4, <2>6 DEF EntryKept
  <2> QED
    BY <1>1, <1>4, <1>5, <1>6, <1>8, <2>1, <2>2, <2>7, <2>8 DEF TurnedAt
<1>12. CASE e.target.platform = "ibkr" /\ e.top.enabled = Nobody /\ e.env # Nobody /\ e.env.enabled # Nobody
  <2>1. PICK v : v = [e.env EXCEPT !["enabled"] = on]
    OBVIOUS
  <2>2. e.env \in Settings
    BY <1>10, <1>12
  <2>3. v \in Settings /\ v["enabled"] = on /\ \A n \in Names \ {"enabled"} : v[n] = e.env[n]
    BY <1>7, <2>1, <2>2, NamesOf DEF Settings
  <2>4. x = [e EXCEPT !.env = v]
    BY <1>4, <1>12, <2>1
  <2>5. x = [service |-> e.service, label |-> e.label, group |-> e.group, target |-> e.target,
             mounts |-> e.mounts, top |-> e.top, env |-> v]
    BY <1>10, <2>4
  <2>6. x.top = e.top /\ x.env = v
    BY <2>5
  <2>7. v # Nobody
    BY <2>3, NobodyIs
  <2>8. \A n \in Names : Effective(x, n) = IF n = "enabled" THEN on ELSE Effective(e, n)
    <3> SUFFICES ASSUME NEW n \in Names PROVE Effective(x, n) = IF n = "enabled" THEN on ELSE Effective(e, n)
      OBVIOUS
    <3>1. Effective(x, n) = IF e.top[n] \notin {Nobody, ""} THEN e.top[n]
                            ELSE IF v[n] \notin {Nobody, ""} THEN v[n] ELSE ""
      BY <2>6, <2>7 DEF Effective
    <3>2. Effective(e, n) = IF e.top[n] \notin {Nobody, ""} THEN e.top[n]
                            ELSE IF e.env[n] \notin {Nobody, ""} THEN e.env[n] ELSE ""
      BY <1>12 DEF Effective
    <3>3. e.top["enabled"] = Nobody
      BY <1>12
    <3> QED
      BY <1>7, <2>3, <3>1, <3>2, <3>3
  <2> QED
    BY <1>10, <1>11, <1>12, <2>3, <2>5, <2>7, <2>8
<1>13. CASE ~(e.target.platform = "ibkr" /\ e.top.enabled = Nobody /\ e.env # Nobody /\ e.env.enabled # Nobody)
  <2>1. PICK v : v = [e.top EXCEPT !["enabled"] = on]
    OBVIOUS
  <2>3. v \in Settings /\ v["enabled"] = on /\ \A n \in Names \ {"enabled"} : v[n] = e.top[n]
    BY <1>7, <1>10, <2>1, NamesOf DEF Settings
  <2>4. x = [e EXCEPT !.top = v]
    <3>1. x = [e EXCEPT !.top.enabled = on]
      BY <1>4, <1>13
    <3> QED
      BY <2>1, <3>1
  <2>5. x = [service |-> e.service, label |-> e.label, group |-> e.group, target |-> e.target,
             mounts |-> e.mounts, top |-> v, env |-> e.env]
    BY <1>10, <2>4
  <2>6. x.top = v /\ x.env = e.env
    BY <2>5
  <2>8. \A n \in Names : Effective(x, n) = IF n = "enabled" THEN on ELSE Effective(e, n)
    <3> SUFFICES ASSUME NEW n \in Names PROVE Effective(x, n) = IF n = "enabled" THEN on ELSE Effective(e, n)
      OBVIOUS
    <3>1. Effective(x, n) = IF v[n] \notin {Nobody, ""} THEN v[n]
                            ELSE IF e.env # Nobody /\ e.env[n] \notin {Nobody, ""} THEN e.env[n] ELSE ""
      BY <2>6 DEF Effective
    <3>2. Effective(e, n) = IF e.top[n] \notin {Nobody, ""} THEN e.top[n]
                            ELSE IF e.env # Nobody /\ e.env[n] \notin {Nobody, ""} THEN e.env[n] ELSE ""
      BY DEF Effective
    <3> QED
      BY <1>7, <2>3, <3>1, <3>2
  <2> QED
    BY <1>10, <1>11, <2>3, <2>5, <2>8
<1> QED
  BY <1>12, <1>13

LEMMA TargetKeeps == TargetInv /\ TargetNext => TargetInv'
<1> SUFFICES ASSUME TargetInv, TargetNext PROVE TargetInv'
  OBVIOUS
<1>1. WellKept(inventory) /\ (published # Nobody => Earned(published.runtime))
  BY DEF TargetInv
<1>2. ASSUME NEW r \in SwitchRequests, Switch(r) PROVE TargetInv'
  <2>1. published' = Nobody
    BY <1>2 DEF Switch
  <2>2. CASE \E i, x : SwitchedAt(r, i, x)
    <3>1. PICK i, x : SwitchedAt(r, i, x)
      BY <2>2
    <3>2. WellKept(inventory')
      BY <1>1, <3>1, EntryReplaced DEF SwitchedAt
    <3> QED
      BY <2>1, <3>2 DEF TargetInv
  <2>3. CASE \E x : AddedFor(x)
    <3>1. PICK x : AddedFor(x)
      BY <2>3
    <3>2. WellKept(inventory')
      BY <1>1, <3>1, EntryAdded DEF AddedFor
    <3> QED
      BY <2>1, <3>2 DEF TargetInv
  <2> QED
    BY <1>2, <2>2, <2>3, SwitchDoes
<1>3. ASSUME NEW t \in LocalTargets, PublishLocal(t) PROVE TargetInv'
  <2>1. inventory' = inventory /\ published' = t /\ RuntimeTargetValid(t.runtime)
    BY <1>3 DEF PublishLocal, Valid
  <2>2. Earned(t.runtime)
    BY <2>1, ValidIsEarned
  <2> QED
    BY <1>1, <2>1, <2>2 DEF TargetInv
<1>4. ASSUME NEW service, NEW on \in {"true", "false"}, Turn(service, on) PROVE TargetInv'
  <2>1. PICK i, x : TurnedAt(i, on, x)
    BY <1>4, TurnDoes
  <2>2. /\ i \in 1 .. Len(inventory) /\ EntryKept(x) /\ ServicesOf(x) = ServicesOf(inventory[i])
        /\ inventory' = [k \in 1 .. Len(inventory) |-> IF k = i THEN x ELSE inventory[k]]
    BY <2>1 DEF TurnedAt
  <2>3. \A k \in 1 .. Len(inventory) : ServicesOf(inventory[k]) \cap ServicesOf(x) # {} => k = i
    BY <1>1, <2>2, WellKeptIs DEF Separate
  <2>4. WellKept(inventory')
    BY <1>1, <2>2, <2>3, EntryReplaced
  <2>5. published' = Nobody
    BY <1>4 DEF Turn
  <2> QED
    BY <2>4, <2>5 DEF TargetInv
<1> QED
  BY <1>2, <1>3, <1>4 DEF TargetNext

LEMMA TargetSuffices == TargetInv => LiveIsEarned /\ EntriesCohere
  BY DEF TargetInv, WellKept, LiveIsEarned, EntriesCohere

LEMMA OneOfOne == ASSUME NEW i, NEW S, S \subseteq {i} PROVE Cardinality(S) <= 1
<1>1. IsFiniteSet({i}) /\ Cardinality({i}) = 1
  BY FS_Singleton
<1>2. Cardinality(S) <= Cardinality({i})
  BY <1>1, FS_Subset
<1> QED
  BY <1>1, <1>2

\* A step that changes one entry, or none, as one was asked to.
LEMMA ExactOfOne ==
  ASSUME NEW n \in Nat, DOMAIN inventory = 1 .. n, Len(inventory) = n, NEW i \in 1 .. n, NEW x,
         inventory' = [k \in 1 .. n |-> IF k = i THEN x ELSE inventory[k]],
         \/ /\ x.target = inventory[i].target
            /\ \E on \in {"true", "false"} : Becomes(x, inventory[i], [Blank EXCEPT !.enabled = on])
         \/ \E r \in SwitchRequests :
              /\ x.target.profile = r.profile /\ ServicesOf(inventory[i]) \subseteq {r.service}
              /\ x.target = RuntimeTarget(r) /\ Becomes(x, inventory[i], Controls(r))
  PROVE  StepIsExact
<1>1. DOMAIN inventory' = 1 .. n /\ \A k \in 1 .. n : inventory'[k] = IF k = i THEN x ELSE inventory[k]
  OBVIOUS
<1>2. PICK changed : changed = {k \in DOMAIN inventory : inventory'[k] # inventory[k]}
  OBVIOUS
<1>3. PICK added : added = {k \in DOMAIN inventory' : k > Len(inventory)}
  OBVIOUS
<1>4. changed \subseteq {i}
  BY <1>1, <1>2
<1>5. added = {}
  BY <1>1, <1>3
<1>6. Cardinality(changed \cup added) <= 1
  <2>1. changed \cup added \subseteq {i}
    BY <1>4, <1>5
  <2> QED
    BY <2>1, OneOfOne
<1>7. ASSUME NEW k \in changed
      PROVE  \/ /\ inventory'[k].target = inventory[k].target
                /\ \E on \in {"true", "false"} :
                     Becomes(inventory'[k], inventory[k], [Blank EXCEPT !.enabled = on])
             \/ \E r \in SwitchRequests :
                  /\ inventory'[k].target.profile = r.profile /\ ServicesOf(inventory[k]) \subseteq {r.service}
                  /\ inventory'[k].target = RuntimeTarget(r) /\ Becomes(inventory'[k], inventory[k], Controls(r))
  <2>1. k = i /\ inventory'[k] = x
    BY <1>1, <1>4
  <2> QED
    BY <2>1
<1> QED
  BY <1>2, <1>3, <1>6, <1>7 DEF StepIsExact, Becomes

LEMMA ExactOfNone ==
  ASSUME NEW i, \A k \in DOMAIN inventory : inventory'[k] = inventory[k],
         \A k \in DOMAIN inventory' : k > Len(inventory) => k = i
  PROVE  StepIsExact
<1>1. PICK changed : changed = {k \in DOMAIN inventory : inventory'[k] # inventory[k]}
  OBVIOUS
<1>2. PICK added : added = {k \in DOMAIN inventory' : k > Len(inventory)}
  OBVIOUS
<1>3. changed = {} /\ added \subseteq {i}
  BY <1>1, <1>2
<1>4. Cardinality(changed \cup added) <= 1
  <2>1. changed \cup added \subseteq {i}
    BY <1>3
  <2> QED
    BY <2>1, OneOfOne
<1> QED
  BY <1>1, <1>2, <1>3, <1>4 DEF StepIsExact

LEMMA TargetIsExact == TargetInv /\ TargetNext => StepIsExact
<1> SUFFICES ASSUME TargetInv, TargetNext PROVE StepIsExact
  OBVIOUS
<1>1. PICK n \in Nat : n = Len(inventory)
  BY WellKeptIs DEF TargetInv
<1>2. WellKept(inventory) /\ DOMAIN inventory = 1 .. n
  <2>1. inventory = [k \in 1 .. n |-> inventory[k]]
    BY <1>1, WellKeptIs DEF TargetInv
  <2> QED
    BY <2>1 DEF TargetInv
<1>3. ASSUME NEW r \in SwitchRequests, NEW i, NEW x, SwitchedAt(r, i, x) PROVE StepIsExact
  <2>1. x.target.profile = r.profile
    BY <1>3, TargetIs DEF SwitchedAt
  <2> QED
    BY <1>1, <1>2, <1>3, <2>1, ExactOfOne DEF SwitchedAt
<1>4. ASSUME NEW x, AddedFor(x) PROVE StepIsExact
  <2>1. /\ DOMAIN inventory' = 1 .. n + 1
        /\ \A k \in 1 .. n : inventory'[k] = inventory[k]
    BY <1>1, <1>2, <1>4, EntryAdded DEF AddedFor
  <2>2. \A k \in DOMAIN inventory' : k > Len(inventory) => k = n + 1
    BY <1>1, <2>1
  <2> QED
    BY <1>2, <2>1, <2>2, ExactOfNone
<1>5. ASSUME NEW i, NEW on \in {"true", "false"}, NEW x, TurnedAt(i, on, x) PROVE StepIsExact
  BY <1>1, <1>2, <1>5, ExactOfOne DEF TurnedAt
<1>6. ASSUME NEW t, PublishLocal(t) PROVE StepIsExact
  <2>1. inventory' = inventory
    BY <1>6 DEF PublishLocal
  <2>2. \A k \in DOMAIN inventory' : k > Len(inventory) => k = 0
    BY <1>1, <1>2, <2>1
  <2> QED
    BY <2>1, <2>2, ExactOfNone
<1> QED
  BY <1>3, <1>4, <1>5, <1>6, SwitchDoes, TurnDoes DEF TargetNext

=============================================================================
