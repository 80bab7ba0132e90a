--------------------------- MODULE ResearchLedger ---------------------------
(* The ledger of research hypotheses (M0): a builder turns the snapshot of a   *)
(* research source into a ledger and an envelope that binds the two by digests *)
(* (here the digest of a thing is the thing); the console's worker checks the  *)
(* envelope, archives it, makes it current, and ages it as it is read.         *)
EXTENDS Integers, FiniteSets, FiniteSetsExt

CONSTANTS M0Snapshots,      \* [status, generated, computed, hypotheses]; 0 is not stated
          M0Runs,           \* the runs of the source that may publish
          M0Week,           \* how long a hypothesis counts
          M0Retention, M0Skew, MaxM0Time, MaxM0Envelopes, MaxM0Syncs
ASSUME LedgerAssumption ==
  M0Week \in Int /\ \A s \in M0Snapshots : \A x \in s.hypotheses : x.generated \in Int
VARIABLES m0Now, envelopes, \* what the builder made, delivered at any time and any number of times
          m0Current,        \* a set of at most one [stored, envelope]
          m0Archive,        \* ledger -> the record archived under its digest
          m0Syncs,          \* requests that were admitted and are writing
          m0Acked,          \* the ledgers the worker answered for
          m0Count
m0Vars == <<m0Now, envelopes, m0Current, m0Archive, m0Syncs, m0Acked, m0Count>>
-------------------------------------------------------------------------------
\* The builder
Expiry(x) == x.generated + M0Week
ValidHypothesis(x, s) == s.computed = 0 \/ x.generated <= s.computed
ValidSnapshot(s) ==
  /\ s.generated > 0 /\ s.computed > 0 => s.generated <= s.computed
  /\ s.status = "ready" => s.generated > 0 /\ s.computed > 0
  /\ s.status = "unavailable" => s.hypotheses = {}
  /\ \A x \in s.hypotheses : ValidHypothesis(x, s)
Usable(s, now) == ValidSnapshot(s) /\ s.generated <= now /\ s.computed <= now /\ s.status # "unavailable"
FreshnessOf(x, status, now) ==
  IF x.generated > now THEN "unknown" ELSE IF status # "ready" \/ now >= Expiry(x) THEN "stale" ELSE "fresh"
StatusOf(obs) == IF \E o \in obs : o.fresh = "fresh" THEN "ready" ELSE IF obs # {} THEN "stale" ELSE "unavailable"
\* Two hypotheses of one report on one subject that differ are both left out.
Aggregate(s, now) ==
  LET sole == {x \in s.hypotheses : \A y \in s.hypotheses : y.subject = x.subject => y = x}
      obs == IF Usable(s, now)
             THEN {[subject |-> x.subject, generated |-> x.generated,
                    fresh |-> FreshnessOf(x, s.status, now)] : x \in sole}
             ELSE {}
  IN  [computed |-> now, status |-> StatusOf(obs), observations |-> obs]
Envelope(s, run, now) == [run |-> run, artifact |-> s, ledger |-> Aggregate(s, now)]
-------------------------------------------------------------------------------
\* The worker
ConsistentFreshness(o, computed) ==
  /\ o.fresh = "unknown" <=> o.generated > computed
  /\ o.fresh = "fresh" => computed < Expiry(o)
ConsistentLedger(l) ==
  /\ \A o \in l.observations : ConsistentFreshness(o, l.computed)
  /\ l.status = StatusOf(l.observations)
AcceptedEnvelope(e) == /\ ConsistentLedger(e.ledger)
                       /\ e.ledger.computed <= m0Now + M0Skew /\ e.ledger.computed >= m0Now - M0Retention
ReadableRecord(r) == r.stored + M0Retention > m0Now /\ AcceptedEnvelope(r.envelope)
\* The change that would rely on the digest and the run and not on the time.
ReplayErrorByIdentity(current, e) == e.ledger = current.ledger \/ e.run = current.run
ReplayError(current, e) ==
  \/ e.ledger = current.ledger \/ e.run = current.run
  \/ e.ledger.computed <= current.ledger.computed
\* What a reader sees now: a fresh observation turns stale when it expires, and
\* nothing turns fresh.
Aged(o) == [o EXCEPT !.fresh = FreshnessOf(o, IF o.fresh = "fresh" THEN "ready" ELSE "stale", m0Now)]
Dashboard(l) ==
  LET obs == {Aged(o) : o \in l.observations}
  IN  [status |-> StatusOf(obs), observations |-> obs]
-------------------------------------------------------------------------------
M0Init == /\ m0Now = 2 /\ envelopes = {} /\ m0Current = {} /\ m0Archive = {} /\ m0Syncs = {}
          /\ m0Acked = {} /\ m0Count = 0
BuildEnvelope(s, run) ==
  /\ Cardinality(envelopes) < MaxM0Envelopes
  /\ envelopes' = envelopes \cup {Envelope(s, run, m0Now)}
  /\ UNCHANGED <<m0Now, m0Current, m0Archive, m0Syncs, m0Acked, m0Count>>
\* A current record that cannot be read, or has expired, counts as none.
BeginLedgerSync(e, seen) ==
  /\ m0Count < MaxM0Syncs /\ m0Count' = m0Count + 1
  /\ seen \in {{}, {r \in m0Current : ReadableRecord(r)}}
  /\ AcceptedEnvelope(e)
  /\ IF \E r \in seen : r.envelope.artifact = e.artifact
     THEN m0Acked' = m0Acked \cup {r.envelope.ledger : r \in seen} /\ UNCHANGED m0Syncs
     ELSE /\ \A r \in seen : ~ReplayError(r.envelope, e)
          /\ m0Syncs' = m0Syncs \cup {[record |-> [stored |-> m0Now, envelope |-> e], seen |-> seen, archived |-> FALSE]}
          /\ UNCHANGED m0Acked
  /\ UNCHANGED <<m0Now, envelopes, m0Current, m0Archive>>
ArchiveLedger(h) ==
  /\ h \in m0Syncs /\ ~h.archived
  /\ m0Syncs' = (m0Syncs \ {h}) \cup {[h EXCEPT !.archived = TRUE]}
  /\ m0Archive' = {r \in m0Archive : r.envelope.ledger # h.record.envelope.ledger} \cup {h.record}
  /\ UNCHANGED <<m0Now, envelopes, m0Current, m0Acked, m0Count>>
SetCurrentLedger(h) ==
  /\ h \in m0Syncs /\ h.archived /\ m0Syncs' = m0Syncs \ {h}
  /\ m0Current' = {h.record} /\ m0Acked' = m0Acked \cup {h.record.envelope.ledger}
  /\ UNCHANGED <<m0Now, envelopes, m0Archive, m0Count>>
FailLedgerSync(h) == /\ h \in m0Syncs /\ m0Syncs' = m0Syncs \ {h}
                     /\ UNCHANGED <<m0Now, envelopes, m0Current, m0Archive, m0Acked, m0Count>>
M0Tick == /\ m0Now < MaxM0Time /\ m0Now' = m0Now + 1
          /\ UNCHANGED <<envelopes, m0Current, m0Archive, m0Syncs, m0Acked, m0Count>>
\* What the research run may have computed.
ResearchSnapshots == M0Snapshots
M0Next ==
  \/ \E s \in ResearchSnapshots, run \in M0Runs : BuildEnvelope(s, run)
  \/ \E e \in envelopes : \E seen \in {{}, m0Current} : BeginLedgerSync(e, seen)
  \/ \E h \in m0Syncs : ArchiveLedger(h) \/ SetCurrentLedger(h) \/ FailLedgerSync(h)
  \/ M0Tick
M0Spec == M0Init /\ [][M0Next]_m0Vars
-------------------------------------------------------------------------------
\* The builder and the worker agree: what the one makes the other finds consistent,
\* at whatever time it was made.
BuildersAgree == \A e \in envelopes : ConsistentLedger(e.ledger)
\* A ledger the worker answered for, or shows, is in the archive under its digest.
ShownIsArchived ==
  \A l \in m0Acked \cup {r.envelope.ledger : r \in m0Current} : \E r \in m0Archive : r.envelope.ledger = l
\* A reader never takes a hypothesis for fresh that has expired, lies in the future or
\* came from a source that was not ready.
FreshIsFresh ==
  \A r \in m0Current : \A o \in Dashboard(r.envelope.ledger).observations :
    o.fresh = "fresh" =>
      /\ r.envelope.artifact.status = "ready" /\ o.generated <= m0Now /\ m0Now < o.generated + M0Week
LedgerIsSound == BuildersAgree /\ ShownIsArchived /\ FreshIsFresh
\* Where a request finds the ledger it began with, it only replaces it by one that
\* was computed later, by another run of the source.
ForwardLedger ==
  \A old \in m0Current, new \in m0Current' :
    old # new /\ (\E h \in m0Syncs : h.record = new /\ h.seen = {old}) =>
      new.envelope.ledger.computed > old.envelope.ledger.computed /\ new.envelope.run # old.envelope.run
LedgerGoesForward == [][ForwardLedger]_m0Vars
===============================================================================
