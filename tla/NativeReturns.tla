---------------------------- MODULE NativeReturns ----------------------------
(* Returns a broker states itself: the latest interval of an account and a    *)
(* row per source and day.  Both are kept under the source that was bound     *)
(* when the report arrived; the console and research read them under the      *)
(* sources that are bound now.  One account and one currency.                 *)
EXTENDS Integers, FiniteSets

CONSTANTS NativeConfigs, \* bindings: [source, history]
          NativeReports, \* [source, from, to, value, nav, observed], nav = 0 when not stated
          NativeFresh, MaxNativeTime, MaxNatives
ASSUME NativeAssumption ==
  \A r \in NativeReports :
    /\ r = [source |-> r.source, from |-> r.from, to |-> r.to, value |-> r.value, nav |-> r.nav,
            observed |-> r.observed]
    /\ r.from <= r.to /\ r.to <= r.observed
    /\ r.to \in Int /\ r.observed \in Nat

VARIABLES nativeNow, nativeConfig,
          nativePending,  \* reports checked against a binding and not yet stored
          interval, rows, \* the latest interval (a set of at most one) and the days
          natives         \* counts the reports of a run
nativeVars == <<nativeNow, nativeConfig, nativePending, interval, rows, natives>>

QualifiedSources(c) == {c.source} \cup c.history
Prior(c) == {p \in interval : p.source \in QualifiedSources(c)}
OneDay(r) == r.from = r.to
-------------------------------------------------------------------------------
\* What the console shows: the rows of the bound sources, unless two of them
\* contradict each other, and a day's change in value unless it is contradicted.
ReadRows == {r \in rows : r.source \in QualifiedSources(nativeConfig)}
              \cup {p \in Prior(nativeConfig) : OneDay(p)}
DayRows(d) == {r \in ReadRows : r.to = d}
ReadAvailable == \A r, s \in ReadRows : r.to = s.to => r.value = s.value
NavConflict(d) == \E r, s \in DayRows(d) : r.nav # 0 /\ s.nav # 0 /\ r.nav # s.nav
Preferred(d) ==
  LET current == {r \in DayRows(d) : r.source = nativeConfig.source}
      pool == IF current # {} THEN current ELSE DayRows(d)
  IN  CHOOSE r \in pool : \A s \in pool : s.observed <= r.observed
ShownReturns ==
  IF ReadAvailable
  THEN {[Preferred(d) EXCEPT !.nav = IF NavConflict(d) THEN 0 ELSE @] : d \in {r.to : r \in ReadRows}}
  ELSE {}

\* What research reads: nothing at all when a row is of an unbound source or
\* two rows of a day disagree.
ResearchAvailable ==
  \A r, s \in rows : /\ r.source \in QualifiedSources(nativeConfig)
                     /\ r.to = s.to => r.value = s.value /\ (r.nav = s.nav \/ 0 \in {r.nav, s.nav})
ResearchDays == {r.to : r \in rows}
-------------------------------------------------------------------------------
NativeInit == /\ nativeNow = 0 /\ nativeConfig \in NativeConfigs /\ nativePending = {}
              /\ interval = {} /\ rows = {} /\ natives = 0
NativeTick == /\ nativeNow < MaxNativeTime /\ nativeNow' = nativeNow + 1
              /\ UNCHANGED <<nativeConfig, nativePending, interval, rows, natives>>
NativeRebind == /\ nativeConfig' \in NativeConfigs \ {nativeConfig}
                /\ UNCHANGED <<nativeNow, nativePending, interval, rows, natives>>

NativeTimely(r) == r.observed <= nativeNow /\ nativeNow - r.observed <= NativeFresh
\* A report must come from the source bound when it arrives.
NativeReport(r, historical) ==
  /\ natives < MaxNatives /\ natives' = natives + 1
  /\ r.source = nativeConfig.source /\ NativeTimely(r)
  /\ nativePending' = nativePending \cup {[report |-> r, config |-> nativeConfig, historical |-> historical]}
  /\ UNCHANGED <<nativeNow, nativeConfig, interval, rows>>

Behind(r, p) == r.to < p.to \/ r.observed < p.observed
StoredDay(r) == {d \in rows : d.source = r.source /\ d.to = r.to}
Storable(q) ==
  /\ NativeTimely(q.report)
  /\ q.historical => OneDay(q.report)
  /\ ~q.historical => \A p \in Prior(q.config) :
       ~Behind(q.report, p) /\ (q.report.observed = p.observed => q.report = p)
  /\ OneDay(q.report) => \A d \in StoredDay(q.report) : q.report.observed > d.observed \/ q.report = d
StoreNative(q) ==
  /\ q \in nativePending /\ nativePending' = nativePending \ {q}
  /\ IF Storable(q)
     THEN /\ rows' = IF OneDay(q.report) THEN (rows \ StoredDay(q.report)) \cup {q.report} ELSE rows
          /\ interval' = IF q.historical /\ \E p \in Prior(q.config) : Behind(q.report, p)
                         THEN interval ELSE {q.report}
     ELSE UNCHANGED <<rows, interval>>
  /\ UNCHANGED <<nativeNow, nativeConfig, natives>>

NativeNext == \/ NativeTick \/ NativeRebind
              \/ \E r \in NativeReports, h \in BOOLEAN : NativeReport(r, h)
              \/ \E q \in nativePending : StoreNative(q)
NativeSpec == NativeInit /\ [][NativeNext]_nativeVars
-------------------------------------------------------------------------------
\* Two readers, one truth: when research gets the days of an account, the
\* console shows those days too, with the same values; and a change in value the
\* console shows for a day is contradicted by no row of a bound source.
ReadersAgree ==
  /\ ResearchAvailable => /\ ResearchDays \subseteq {r.to : r \in ShownReturns}
                          /\ \A r \in rows : \A s \in ShownReturns : r.to = s.to => r.value = s.value
  /\ \A s \in ShownReturns : \A r \in rows :
       r.source \in QualifiedSources(nativeConfig) /\ r.to = s.to =>
         r.value = s.value /\ (0 \in {r.nav, s.nav} \/ r.nav = s.nav)

\* The interval an account shows never goes back, in the day it ends and in when
\* it was observed, as long as its source stays bound.
IntervalStep ==
  \A p \in interval : \A q \in interval' :
    (\A x \in nativePending : p.source \in QualifiedSources(x.config)) => ~Behind(q, p)
IntervalMovesForward == [][IntervalStep]_nativeVars
===============================================================================
