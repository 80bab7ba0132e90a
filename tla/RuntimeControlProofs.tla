------------------------ MODULE RuntimeControlProofs ------------------------
(* Theorems about RuntimeControl, for any requests, operations, checks, pollers,
   identities and registry moves. *)
EXTENDS RuntimeControl, TLAPS

\* A record that may be stored for request r, or held by a poller of it: its run,
\* platform run and check are those of r.
SoundRow(r, row) ==
  /\ row.run # None => row.run = r /\ runs[r] # "none"
  /\ row.details.platform \in {None, r}
  /\ row.details.check # None =>
       checkOf[row.details.check] = r /\ row.details.platform # None

\* Commands read the details of the latest request: only that one may be open.
RowsAreSound ==
  /\ order # <<>> => Claimed(Latest)
  /\ \A r \in Requests : Claimed(r) => order # <<>> /\ SoundRow(r, rows[r])
  /\ \A r \in Requests : Open(r) => r = Latest

HandlersAreSound ==
  \A r \in Requests :
    /\ handler[r] # "idle" => Claimed(r)
    /\ handler[r] = "accepted" => runs[r] # "none"

CheckSteps == {"check", "recordCheck", "resolveCheck"}
ResolveSteps == {"resolve", "resolveCheck"}

PollerIsSound(p) ==
  poller[p] # Idle =>
    /\ Claimed(poller[p].request)
    /\ SoundRow(poller[p].request, poller[p].row)
    /\ poller[p].at \in CheckSteps => poller[p].row.details.check # None
    /\ poller[p].at = "record" => runs[poller[p].request] # "none"
    /\ poller[p].at \in ResolveSteps => poller[p].result \in Outcomes

PollersAreSound == \A p \in Pollers : PollerIsSound(p)

ControlInv == TypeOK /\ RowsAreSound /\ HandlersAreSound /\ PollersAreSound

\* What a step may not take back.
Keeps ==
  /\ \A r \in Requests : Claimed(r) => rows'[r] # NoRow
  /\ \A r \in Requests : runs[r] # "none" => runs'[r] # "none"
  /\ \A c \in Checks : checkOf[c] # None => checkOf'[c] = checkOf[c]

----------------------------------------------------------------------------
(* Records and pollers *)

\* The fields of a poller's state, by where it is.
LEMMA PollerFields ==
  ASSUME NEW s \in PollerStates, s # Idle
  PROVE  /\ s.request \in Requests /\ s.row \in Row
         /\ s.at \in {"record", "capture"} => s.result \in RunStates /\ s.named \in BOOLEAN
         /\ s.at \in {"resolve", "recordCheck", "resolveCheck"} => s.result \in RunStates
         /\ s.at # "idle"
BY DEF PollerStates

LEMMA IdlePoller == ASSUME NEW s \in PollerStates PROVE s.at = "idle" <=> s = Idle
BY DEF PollerStates, Idle

\* A poller's next state goes on with the record it was given.
GoesOn(s, r, row) ==
  \/ s = Idle
  \/ /\ s \in PollerStates /\ s # Idle /\ s.request = r /\ s.row = row
     /\ s.at \in CheckSteps => row.details.check # None
     /\ s.at \in ResolveSteps => s.result \in Outcomes

LEMMA AfterGoesOn ==
  ASSUME NEW r \in Requests, NEW row \in Row, NEW result \in RunStates, NEW isNamed \in BOOLEAN
  PROVE  /\ GoesOn(AfterResolve(r, row), r, row) /\ AfterResolve(r, row).at # "record"
         /\ GoesOn(AfterCapture(r, row, result), r, row) /\ AfterCapture(r, row, result).at # "record"
         /\ GoesOn(AfterRecord(r, row, result, isNamed), r, row)
         /\ AfterRecord(r, row, result, isNamed).at # "record"
         /\ GoesOn(AfterReceipt(r, row, result, isNamed), r, row)
         /\ AfterReceipt(r, row, result, isNamed).at = "record" => result # "none"
<1>1. GoesOn(AfterResolve(r, row), r, row) /\ AfterResolve(r, row).at # "record"
  BY DEF GoesOn, AfterResolve, Outstanding, PollerStates, Idle, CheckSteps, ResolveSteps
<1>2. GoesOn(AfterCapture(r, row, result), r, row) /\ AfterCapture(r, row, result).at # "record"
  <2>1. CASE result \in Outcomes /\ row.run # None
    BY <2>1 DEF GoesOn, AfterCapture, PollerStates, Idle, CheckSteps, ResolveSteps
  <2>2. CASE ~(result \in Outcomes /\ row.run # None)
    BY <1>1, <2>2 DEF AfterCapture
  <2> QED BY <2>1, <2>2
<1>3. /\ GoesOn(AfterRecord(r, row, result, isNamed), r, row)
      /\ AfterRecord(r, row, result, isNamed).at # "record"
  <2>1. CASE isNamed /\ row.run # None
    BY <2>1 DEF GoesOn, AfterRecord, PollerStates, Idle, CheckSteps, ResolveSteps
  <2>2. CASE ~(isNamed /\ row.run # None)
    BY <1>2, <2>2 DEF AfterRecord
  <2> QED BY <2>1, <2>2
<1>4. /\ GoesOn(AfterReceipt(r, row, result, isNamed), r, row)
      /\ AfterReceipt(r, row, result, isNamed).at = "record" => result # "none"
  <2>1. CASE result # "none" /\ row.run = None
    BY <2>1 DEF GoesOn, AfterReceipt, PollerStates, Idle, CheckSteps, ResolveSteps
  <2>2. CASE ~(result # "none" /\ row.run = None)
    BY <1>3, <2>2 DEF AfterReceipt
  <2> QED BY <2>1, <2>2
<1> QED BY <1>1, <1>2, <1>3, <1>4

\* What was sound stays so when nothing is taken back.
LEMMA SoundStays ==
  ASSUME ControlInv, Keeps
  PROVE  /\ \A r \in Requests, row \in Row : SoundRow(r, row) => SoundRow(r, row)'
         /\ \A p \in Pollers : poller'[p] = poller[p] => PollerIsSound(p)'
<1>1. \A r \in Requests, row \in Row : SoundRow(r, row) => SoundRow(r, row)'
  BY ControlNulls DEF Keeps, SoundRow, Row, Details
<1>2. ASSUME NEW p \in Pollers, poller'[p] = poller[p], poller[p] # Idle
      PROVE  PollerIsSound(p)'
  <2>1. poller[p] \in PollerStates
    BY DEF ControlInv, TypeOK
  <2>2. poller[p].request \in Requests /\ poller[p].row \in Row
    BY <1>2, <2>1, PollerFields
  <2> QED BY <1>1, <1>2, <2>2 DEF ControlInv, PollersAreSound, PollerIsSound, Keeps, Claimed
<1> QED BY <1>1, <1>2 DEF PollerIsSound

\* A poller that goes on with a sound record of a claimed request is sound.
LEMMA PollerGoesOn ==
  ASSUME ControlInv, Keeps, NEW p \in Pollers, NEW r \in Requests, NEW row \in Row, NEW s,
         rows'[r] # NoRow, SoundRow(r, row)', GoesOn(s, r, row),
         s.at = "record" => runs'[r] # "none",
         poller' = [poller EXCEPT ![p] = s]
  PROVE  poller' \in [Pollers -> PollerStates] /\ PollersAreSound'
<1>1. poller \in [Pollers -> PollerStates]
  BY DEF ControlInv, TypeOK
<1>2. s \in PollerStates
  BY DEF GoesOn, PollerStates
<1>3. PollerIsSound(p)'
  BY <1>1 DEF PollerIsSound, GoesOn, Claimed
<1>4. \A q \in Pollers \ {p} : PollerIsSound(q)'
  BY <1>1, SoundStays
<1> QED BY <1>1, <1>2, <1>3, <1>4 DEF PollersAreSound

\* Rewriting a claimed request by a sound record that does not reopen it.
LEMMA RewriteRow ==
  ASSUME ControlInv, NEW r \in Requests, Claimed(r), NEW row \in Row,
         SoundRow(r, row), row.phase \in OpenPhases => Open(r),
         rows' = [rows EXCEPT ![r] = row], UNCHANGED <<order, runs, checkOf>>
  PROVE  /\ rows' \in [Requests -> Row \cup {NoRow}]
         /\ Keeps /\ RowsAreSound'
         /\ \A q \in Requests : Claimed(q) <=> Claimed(q)'
         /\ SoundRow(r, row)' /\ rows'[r] = row
<1>1. rows' \in [Requests -> Row \cup {NoRow}] /\ rows'[r] = row /\ row # NoRow
  BY ControlRows DEF ControlInv, TypeOK
<1>2. \A q \in Requests \ {r} : rows'[q] = rows[q]
  BY DEF ControlInv, TypeOK
<1>3. \A q \in Requests : Claimed(q) <=> Claimed(q)'
  BY <1>1, <1>2 DEF Claimed
<1>4. Keeps
  BY <1>3 DEF Keeps, Claimed
<1>5. \A q \in Requests : Open(q)' => Open(q)
  BY <1>1, <1>2 DEF Open, Claimed
<1>6. Latest' = Latest
  BY DEF Latest
<1>7. SoundRow(r, row)'
  BY DEF SoundRow
<1>8. \A q \in Requests \ {r} : Claimed(q) => SoundRow(q, rows[q])'
  BY <1>2 DEF ControlInv, RowsAreSound, SoundRow
<1>9. order # <<>> => Latest \in Requests
  BY DEF ControlInv, TypeOK, Latest
<1>10. RowsAreSound'
  <2>1. (order # <<>> => Claimed(Latest))'
    BY <1>3, <1>6, <1>9 DEF ControlInv, RowsAreSound, Claimed
  <2>2. (\A q \in Requests : Claimed(q) => order # <<>> /\ SoundRow(q, rows[q]))'
    BY <1>1, <1>2, <1>3, <1>7, <1>8 DEF ControlInv, RowsAreSound, SoundRow
  <2>3. (\A q \in Requests : Open(q) => q = Latest)'
    BY <1>5, <1>6 DEF ControlInv, RowsAreSound
  <2> QED BY <2>1, <2>2, <2>3 DEF RowsAreSound
<1> QED BY <1>1, <1>3, <1>4, <1>7, <1>10

\* What the latest request is, and what the details that commands copy from it are.
LEMMA LatestIs ==
  ASSUME ControlInv, order # <<>>
  PROVE  /\ Latest \in Requests /\ Claimed(Latest)
         /\ rows[Latest] \in Row /\ SoundRow(Latest, rows[Latest])
<1>1. Latest \in Requests /\ Claimed(Latest)
  BY DEF ControlInv, TypeOK, RowsAreSound, Latest
<1> QED BY <1>1 DEF ControlInv, TypeOK, RowsAreSound, Claimed

\* New details make a new record.
LEMMA WithDetails ==
  ASSUME NEW row \in Row, NEW d \in Details
  PROVE  /\ [row EXCEPT !.details = d] \in Row
         /\ [row EXCEPT !.details = d].run = row.run
         /\ [row EXCEPT !.details = d].phase = row.phase
         /\ [row EXCEPT !.details = d].details = d
BY DEF Row

----------------------------------------------------------------------------
(* The commands on a claimed request r.  What each writes is a sound record. *)

Rewrites(r) ==
  \E row \in Row :
    /\ SoundRow(r, row) /\ (row.phase \in OpenPhases => Open(r))
    /\ rows' = [rows EXCEPT ![r] = row]

LEMMA RewriteNothing ==
  ASSUME ControlInv, NEW r \in Requests, Claimed(r), rows' = rows
  PROVE  Rewrites(r)
<1>1. rows[r] \in Row /\ rows' = [rows EXCEPT ![r] = rows[r]] /\ SoundRow(r, rows[r])
  BY DEF ControlInv, TypeOK, RowsAreSound, Claimed
<1> QED BY <1>1 DEF Rewrites, Open

LEMMA RecordRewrites ==
  ASSUME ControlInv, NEW r \in Requests, Claimed(r), NEW phase \in Phases, NEW run \in {None, r},
         run = r => runs[r] # "none", rows' = Recorded(r, phase, run)
  PROVE  Rewrites(r)
<1>1. rows[r] \in Row /\ SoundRow(r, rows[r]) /\ rows \in [Requests -> Row \cup {NoRow}]
  BY DEF ControlInv, TypeOK, RowsAreSound, Claimed
<1>2. CASE rows[r].phase = "reserved"
  <2> DEFINE row == [rows[r] EXCEPT !.phase = phase, !.run = run]
  <2>1. row \in Row /\ row.run = run /\ row.details = rows[r].details
    BY <1>1 DEF Row
  <2>2. SoundRow(r, row) /\ Open(r)
    BY <1>1, <1>2, <2>1 DEF SoundRow, Open, OpenPhases
  <2>3. rows' = [rows EXCEPT ![r] = row]
    BY <1>1, <1>2 DEF Recorded
  <2> QED BY <2>1, <2>2, <2>3 DEF Rewrites
<1>3. CASE rows[r].phase # "reserved" /\ rows[r].phase = "unknown" /\ rows[r].run = None
  <2> DEFINE row == [rows[r] EXCEPT !.run = run]
  <2>1. row \in Row /\ row.run = run /\ row.details = rows[r].details
    BY <1>1 DEF Row
  <2>2. SoundRow(r, row) /\ Open(r)
    BY <1>1, <1>3, <2>1 DEF SoundRow, Open, OpenPhases
  <2>3. rows' = [rows EXCEPT ![r] = row]
    BY <1>1, <1>3 DEF Recorded
  <2> QED BY <2>1, <2>2, <2>3 DEF Rewrites
<1>4. CASE rows[r].phase # "reserved" /\ ~(rows[r].phase = "unknown" /\ rows[r].run = None)
  BY <1>4, RewriteNothing DEF Recorded
<1> QED BY <1>2, <1>3, <1>4

\* Details taken from the latest request are those of r only if they name it.
LEMMA DetailsRewrite ==
  ASSUME ControlInv, NEW r \in Requests, Claimed(r), NEW d \in Details,
         d.platform \in {None, r},
         d.check # None => checkOf[d.check] = r /\ d.platform # None,
         rows' = [rows EXCEPT ![r].details = d]
  PROVE  Rewrites(r)
<1> DEFINE row == [rows[r] EXCEPT !.details = d]
<1>1. rows[r] \in Row /\ SoundRow(r, rows[r]) /\ rows \in [Requests -> Row \cup {NoRow}]
  BY DEF ControlInv, TypeOK, RowsAreSound, Claimed
<1>2. row \in Row /\ row.run = rows[r].run /\ row.phase = rows[r].phase /\ row.details = d
  BY <1>1, WithDetails
<1>3. SoundRow(r, row)
  BY <1>1, <1>2 DEF SoundRow
<1>4. rows' = [rows EXCEPT ![r] = row]
  BY <1>1
<1> HIDE DEF row
<1>5. row.phase \in OpenPhases => Open(r)
  BY <1>2 DEF Open
<1> QED BY <1>2, <1>3, <1>4, <1>5 DEF Rewrites

LEMMA CaptureRewrites ==
  ASSUME ControlInv, NEW r \in Requests, Claimed(r), NEW run, CanCapture(r, run, r),
         rows' = Captured(r, r)
  PROVE  Rewrites(r)
<1>1. order # <<>>
  BY DEF ControlInv, RowsAreSound
<1> DEFINE d == [rows[Latest].details EXCEPT !.platform = r]
<1>2. rows[Latest].details \in Details /\ SoundRow(Latest, rows[Latest])
  BY <1>1, LatestIs DEF Row
<1>3. d \in Details /\ d.platform = r /\ d.check = rows[Latest].details.check
  BY <1>2 DEF Details
<1>4. d.check # None => checkOf[d.check] = r
  BY <1>2, <1>3 DEF SoundRow, CanCapture
<1>5. rows' = [rows EXCEPT ![r].details = d]
  BY DEF Captured
<1>6. r # None
  BY ControlNulls
<1> HIDE DEF d
<1> QED BY <1>3, <1>4, <1>5, <1>6, DetailsRewrite

LEMMA RecordCheckRewrites ==
  ASSUME ControlInv, NEW r \in Requests, Claimed(r), NEW c \in Checks, checkOf[c] = r,
         NEW run \in {None, c}, NEW complete \in BOOLEAN, CanRecordCheck(r, c, run),
         rows' = RecordedCheck(r, run, complete)
  PROVE  Rewrites(r) /\ r = Latest
<1>1. order # <<>>
  BY DEF ControlInv, RowsAreSound
<1> DEFINE d == [rows[Latest].details EXCEPT
                   !.checkRun = IF run = None THEN @ ELSE run, !.complete = @ \/ complete]
<1>2. rows[Latest].details \in Details /\ SoundRow(Latest, rows[Latest])
  BY <1>1, LatestIs DEF Row
<1>3. rows[Latest].details.check = c /\ c # None
  BY ControlNulls DEF CanRecordCheck
<1>4. r = Latest
  BY <1>2, <1>3 DEF SoundRow
<1>5. /\ d \in Details /\ d.platform = rows[Latest].details.platform
      /\ d.check = rows[Latest].details.check
  BY <1>2 DEF Details
<1>6. rows' = [rows EXCEPT ![r].details = d]
  BY DEF RecordedCheck
<1> HIDE DEF d
<1> QED BY <1>2, <1>4, <1>5, <1>6, DetailsRewrite DEF SoundRow

LEMMA ResolveRewrites ==
  ASSUME ControlInv, NEW r \in Requests, Claimed(r), NEW phase \in Outcomes,
         rows' = Resolved(r, phase)
  PROVE  Rewrites(r)
<1>1. rows[r] \in Row /\ SoundRow(r, rows[r]) /\ rows \in [Requests -> Row \cup {NoRow}]
  BY DEF ControlInv, TypeOK, RowsAreSound, Claimed
<1>2. CASE rows[r].phase \in Resolvable
  <2> DEFINE row == [rows[r] EXCEPT !.phase = phase, !.details = rows[Latest].details]
  <2>1. Open(r) /\ r = Latest
    BY <1>2 DEF Open, Resolvable, OpenPhases, ControlInv, RowsAreSound
  <2>2. row \in Row /\ row.run = rows[r].run /\ row.details = rows[r].details
    BY <1>1, <2>1 DEF Row, Outcomes, Phases
  <2>3. SoundRow(r, row)
    BY <1>1, <2>2 DEF SoundRow
  <2>4. rows' = [rows EXCEPT ![r] = row]
    BY <1>1, <1>2 DEF Resolved
  <2> QED BY <2>1, <2>2, <2>3, <2>4 DEF Rewrites
<1>3. CASE rows[r].phase \notin Resolvable
  BY <1>3, RewriteNothing DEF Resolved
<1> QED BY <1>2, <1>3

\* A step that only rewrites r, and moves one poller on or none.
LEMMA RewritePreserves ==
  ASSUME ControlInv, NEW r \in Requests, Claimed(r), Rewrites(r),
         UNCHANGED <<identity, order, runs, named, checkRuns, checkOf>>,
         checker' \in [Checks -> HandlerStates],
         handler' \in [Requests -> HandlerStates],
         \A q \in Requests : handler'[q] \in {handler[q], "done"} /\ (handler[q] = "idle" => handler'[q] = "idle"),
         poller' \in [Pollers -> PollerStates], PollersAreSound'
  PROVE  ControlInv'
<1>1. PICK row \in Row :
        /\ SoundRow(r, row) /\ (row.phase \in OpenPhases => Open(r))
        /\ rows' = [rows EXCEPT ![r] = row]
  BY DEF Rewrites
<1>2. /\ rows' \in [Requests -> Row \cup {NoRow}] /\ RowsAreSound'
      /\ \A q \in Requests : Claimed(q) <=> Claimed(q)'
  BY <1>1, RewriteRow
<1>3. TypeOK'
  BY <1>2 DEF ControlInv, TypeOK
<1>4. HandlersAreSound'
  BY <1>2 DEF ControlInv, HandlersAreSound
<1> QED BY <1>2, <1>3, <1>4 DEF ControlInv

\* Pollers that do not move stay sound under a rewriting.
LEMMA RewriteKeeps ==
  ASSUME ControlInv, NEW r \in Requests, Claimed(r), Rewrites(r),
         UNCHANGED <<order, runs, checkOf>>
  PROVE  /\ Keeps /\ RowsAreSound' /\ rows' \in [Requests -> Row \cup {NoRow}]
         /\ rows'[r] \in Row /\ rows'[r] # NoRow /\ SoundRow(r, rows[r])'
         /\ poller' = poller => PollersAreSound'
<1>1. PICK row \in Row :
        /\ SoundRow(r, row) /\ (row.phase \in OpenPhases => Open(r))
        /\ rows' = [rows EXCEPT ![r] = row]
  BY DEF Rewrites
<1>2. /\ rows' \in [Requests -> Row \cup {NoRow}] /\ Keeps /\ RowsAreSound'
      /\ SoundRow(r, row)' /\ rows'[r] = row
  BY <1>1, RewriteRow
<1>3. poller' = poller => PollersAreSound'
  BY <1>2, SoundStays DEF PollersAreSound
<1> QED BY <1>2, <1>3, ControlRows DEF SoundRow

----------------------------------------------------------------------------
(* The inductive invariant: every step of the specification keeps it. *)

LEMMA InitControlInv == Init => ControlInv
<1> SUFFICES ASSUME Init PROVE ControlInv
  OBVIOUS
<1>1. TypeOK
  BY DEF Init, TypeOK, RunStates, HandlerStates, PollerStates, Idle
<1>2. RowsAreSound
  BY DEF Init, RowsAreSound, Claimed, Open
<1>3. HandlersAreSound
  BY DEF Init, HandlersAreSound
<1>4. PollersAreSound
  BY DEF Init, PollersAreSound, PollerIsSound
<1> QED BY <1>1, <1>2, <1>3, <1>4 DEF ControlInv

\* A step that leaves the requests and their checks as they are, and the pollers too.
LEMMA NothingRewritten ==
  ASSUME ControlInv, UNCHANGED <<rows, order, checkOf, poller>>,
         \A r \in Requests : runs[r] # "none" => runs'[r] # "none"
  PROVE  Keeps /\ RowsAreSound' /\ PollersAreSound'
<1>1. Keeps
  BY DEF Keeps, Claimed
<1>2. PollersAreSound'
  BY <1>1, SoundStays DEF PollersAreSound
<1>3. \A r \in Requests : Claimed(r) => SoundRow(r, rows[r])'
  BY <1>1, SoundStays DEF ControlInv, TypeOK, RowsAreSound, SoundRow, Claimed
<1>4. RowsAreSound'
  BY <1>3 DEF ControlInv, RowsAreSound, Claimed, Open, Latest, SoundRow
<1> QED BY <1>1, <1>2, <1>4

LEMMA ClaimPreserves ==
  ASSUME ControlInv, NEW r \in Requests, NEW o \in Operations, Claim(r, o)
  PROVE  ControlInv'
<1> USE DEF Claim
<1>1. NewRow(o) \in Row /\ SoundRow(r, NewRow(o)) /\ NewRow(o) # NoRow
  <2>1. NoDetails \in Details /\ NoDetails.platform = None /\ NoDetails.check = None
    BY DEF NoDetails, Details
  <2>2. NewRow(o) \in Row /\ NewRow(o).run = None /\ NewRow(o).details = NoDetails
    BY <2>1 DEF NewRow, Row, Phases, ControlInv, TypeOK
  <2> QED BY <2>1, <2>2, ControlRows DEF SoundRow
<1>2. /\ rows' \in [Requests -> Row \cup {NoRow}] /\ rows'[r] = NewRow(o)
      /\ \A q \in Requests \ {r} : rows'[q] = rows[q]
  BY <1>1 DEF ControlInv, TypeOK
<1>3. order' \in Seq(Requests) /\ order' # <<>> /\ Latest' = r
  BY DEF ControlInv, TypeOK, Latest
<1>4. TypeOK'
  BY <1>2, <1>3 DEF ControlInv, TypeOK, HandlerStates
<1>5. Keeps
  BY <1>1, <1>2 DEF Keeps, Claimed
<1>6. \A q \in Requests : Claimed(q) => SoundRow(q, rows[q])'
  BY <1>2, <1>5, SoundStays DEF ControlInv, TypeOK, RowsAreSound, SoundRow, Claimed
<1>7. RowsAreSound'
  <2>1. (order # <<>> => Claimed(Latest))'
    BY <1>1, <1>2, <1>3 DEF Claimed
  <2>2. (\A q \in Requests : Claimed(q) => order # <<>> /\ SoundRow(q, rows[q]))'
    BY <1>1, <1>2, <1>3, <1>6 DEF Claimed, SoundRow
  <2>3. (\A q \in Requests : Open(q) => q = Latest)'
    BY <1>2, <1>3 DEF Open, Claimed
  <2> QED BY <2>1, <2>2, <2>3 DEF RowsAreSound
<1>8. HandlersAreSound'
  BY <1>1, <1>2 DEF ControlInv, TypeOK, HandlersAreSound, Claimed
<1>9. PollersAreSound'
  BY <1>5, SoundStays DEF PollersAreSound
<1> QED BY <1>4, <1>7, <1>8, <1>9 DEF ControlInv

LEMMA DispatchPreserves ==
  ASSUME ControlInv, NEW r \in Requests, Dispatch(r)
  PROVE  ControlInv'
<1> USE DEF Dispatch
<1>1. \A q \in Requests : runs[q] # "none" => runs'[q] # "none"
  BY DEF ControlInv, TypeOK
<1>2. RowsAreSound' /\ PollersAreSound'
  BY <1>1, NothingRewritten
<1>3. TypeOK'
  BY DEF ControlInv, TypeOK, HandlerStates, RunStates
<1>4. HandlersAreSound'
  BY <1>1 DEF ControlInv, TypeOK, HandlersAreSound, Claimed
<1> QED BY <1>2, <1>3, <1>4 DEF ControlInv

LEMMA GithubPreserves ==
  ASSUME ControlInv,
         \/ \E r \in Requests, s \in Reports \cup {"unknown"} : CompleteRun(r, s)
         \/ \E c \in Checks, s \in Reports \cup {"unknown"} : CompleteCheck(c, s)
         \/ \E i \in Identities : ChangeIdentity(i)
         \/ \E c \in Checks : DispatchCheck(c)
  PROVE  ControlInv'
<1>1. \A r \in Requests : runs[r] # "none" => runs'[r] # "none"
  BY ControlReports DEF ControlInv, TypeOK, CompleteRun, CompleteCheck, ChangeIdentity, DispatchCheck, Outcomes
<1>2. UNCHANGED <<rows, order, checkOf, poller, handler>>
  BY DEF CompleteRun, CompleteCheck, ChangeIdentity, DispatchCheck
<1>3. RowsAreSound' /\ PollersAreSound'
  BY <1>1, <1>2, NothingRewritten
<1>4. HandlersAreSound'
  BY <1>1, <1>2 DEF ControlInv, HandlersAreSound, Claimed
<1>5. TypeOK'
  <2>1. CASE \E r \in Requests, s \in Reports \cup {"unknown"} : CompleteRun(r, s)
    BY <2>1 DEF ControlInv, TypeOK, CompleteRun, RunStates
  <2>2. CASE \E c \in Checks, s \in Reports \cup {"unknown"} : CompleteCheck(c, s)
    BY <2>2 DEF ControlInv, TypeOK, CompleteCheck, RunStates
  <2>3. CASE \E i \in Identities : ChangeIdentity(i)
    BY <2>3 DEF ControlInv, TypeOK, ChangeIdentity
  <2>4. CASE \E c \in Checks : DispatchCheck(c)
    BY <2>4 DEF ControlInv, TypeOK, DispatchCheck, RunStates, HandlerStates
  <2> QED BY <2>1, <2>2, <2>3, <2>4
<1> QED BY <1>3, <1>4, <1>5 DEF ControlInv

\* The handler's record of its dispatch.
LEMMA RecordDispatchPreserves ==
  ASSUME ControlInv, NEW r \in Requests, RecordDispatch(r)
  PROVE  ControlInv'
<1>1. Claimed(r) /\ (handler[r] = "accepted" => runs[r] # "none")
  BY DEF RecordDispatch, ControlInv, HandlersAreSound
<1>2. Rewrites(r)
  <2> DEFINE run == IF handler[r] = "accepted" THEN r ELSE None
  <2>1. CASE CanRecord(r, run)
    <3>1. rows' = Recorded(r, handler[r], run) /\ handler[r] \in Phases /\ run \in {None, r}
      BY <2>1 DEF RecordDispatch, Phases
    <3>2. run = r => runs[r] # "none"
      BY <1>1, ControlNulls
    <3> HIDE DEF run
    <3> QED BY <1>1, <3>1, <3>2, RecordRewrites
  <2>2. CASE ~CanRecord(r, run)
    BY <1>1, <2>2, RewriteNothing DEF RecordDispatch
  <2> QED BY <2>1, <2>2
<1>3. handler' = [handler EXCEPT ![r] = "done"] /\ handler[r] # "idle"
  BY DEF RecordDispatch
<1>4. /\ UNCHANGED <<identity, order, runs, named, checkRuns, checkOf, checker, poller>>
      /\ handler' \in [Requests -> HandlerStates]
      /\ \A q \in Requests : handler'[q] \in {handler[q], "done"} /\ (handler[q] = "idle" => handler'[q] = "idle")
  BY <1>3 DEF RecordDispatch, ControlInv, TypeOK, HandlerStates
<1>5. PollersAreSound'
  BY <1>1, <1>2, <1>4, RewriteKeeps
<1>6. poller' \in [Pollers -> PollerStates] /\ checker' \in [Checks -> HandlerStates]
  BY <1>4 DEF ControlInv, TypeOK
<1> QED BY <1>1, <1>2, <1>4, <1>5, <1>6, RewritePreserves

\* A poller that only reads.
LEMMA PollerReads ==
  ASSUME ControlInv, NEW p \in Pollers, NEW r \in Requests, NEW row \in Row, NEW s,
         Claimed(r), SoundRow(r, row), GoesOn(s, r, row), s.at = "record" => runs[r] # "none",
         poller' = [poller EXCEPT ![p] = s],
         UNCHANGED <<identity, rows, order, handler, runs, named, checkRuns, checkOf, checker>>
  PROVE  ControlInv'
<1>1. Keeps
  BY DEF Keeps, Claimed
<1>2. SoundRow(r, row)' /\ rows'[r] # NoRow
  BY DEF SoundRow, Claimed
<1>3. poller' \in [Pollers -> PollerStates] /\ PollersAreSound'
  BY <1>1, <1>2, PollerGoesOn
<1>4. RowsAreSound' /\ HandlersAreSound'
  BY DEF ControlInv, RowsAreSound, HandlersAreSound, Claimed, Open, Latest, SoundRow
<1>5. TypeOK'
  BY <1>3 DEF ControlInv, TypeOK
<1> QED BY <1>3, <1>4, <1>5 DEF ControlInv

\* What a poller that is at work holds.
LEMMA PollerHolds ==
  ASSUME ControlInv, NEW p \in Pollers, poller[p].at # "idle"
  PROVE  /\ poller[p] \in PollerStates /\ poller[p] # Idle
         /\ poller[p].request \in Requests /\ poller[p].row \in Row
         /\ Claimed(poller[p].request) /\ SoundRow(poller[p].request, poller[p].row)
         /\ poller[p].at \in CheckSteps => poller[p].row.details.check # None
         /\ poller[p].at = "record" => runs[poller[p].request] # "none"
         /\ poller[p].at \in ResolveSteps => poller[p].result \in Outcomes
<1>1. poller[p] \in PollerStates /\ poller[p] # Idle
  BY DEF ControlInv, TypeOK, Idle
<1>2. poller[p].request \in Requests /\ poller[p].row \in Row
  BY <1>1, PollerFields
<1> QED BY <1>1, <1>2 DEF ControlInv, PollersAreSound, PollerIsSound

LEMMA PollReadPreserves ==
  ASSUME ControlInv, NEW p \in Pollers, PollRead(p)
  PROVE  ControlInv'
<1> DEFINE s == [at |-> "receipt", request |-> Latest, row |-> rows[Latest]]
<1>1. Latest \in Requests /\ Claimed(Latest) /\ rows[Latest] \in Row /\ SoundRow(Latest, rows[Latest])
  BY LatestIs DEF PollRead
<1>2. GoesOn(s, Latest, rows[Latest]) /\ s.at # "record"
  BY <1>1 DEF GoesOn, PollerStates, Idle, CheckSteps, ResolveSteps
<1>3. /\ poller' = [poller EXCEPT ![p] = s]
      /\ UNCHANGED <<identity, rows, order, handler, runs, named, checkRuns, checkOf, checker>>
  BY DEF PollRead
<1> HIDE DEF s
<1> QED BY <1>1, <1>2, <1>3, PollerReads

LEMMA PollReceiptPreserves ==
  ASSUME ControlInv, NEW p \in Pollers, NEW readable \in BOOLEAN, PollReceipt(p, readable)
  PROVE  ControlInv'
<1> DEFINE r == poller[p].request
           row == poller[p].row
           result == IF ~readable THEN "none"
                     ELSE IF runs[r] = "running" THEN "unknown" ELSE runs[r]
           isNamed == readable /\ r \in named
           s == AfterReceipt(r, row, result, isNamed)
<1>1. r \in Requests /\ row \in Row /\ Claimed(r) /\ SoundRow(r, row)
  BY PollerHolds DEF PollReceipt
<1>2. result \in RunStates /\ isNamed \in BOOLEAN /\ (result # "none" => runs[r] # "none")
  BY <1>1 DEF ControlInv, TypeOK, RunStates
<1>3. /\ poller' = [poller EXCEPT ![p] = s]
      /\ UNCHANGED <<identity, rows, order, handler, runs, named, checkRuns, checkOf, checker>>
  <2>1. p \in DOMAIN poller
    BY DEF ControlInv, TypeOK
  <2> QED BY <2>1 DEF PollReceipt
<1> HIDE DEF r, row, result, isNamed
<1>4. GoesOn(s, r, row) /\ (s.at = "record" => runs[r] # "none")
  BY <1>1, <1>2, AfterGoesOn
<1> HIDE DEF s
<1> QED BY <1>1, <1>3, <1>4, PollerReads

LEMMA PollCheckPreserves ==
  ASSUME ControlInv, NEW p \in Pollers, NEW readable \in BOOLEAN, PollCheck(p, readable)
  PROVE  ControlInv'
<1> DEFINE r == poller[p].request
           row == poller[p].row
           c == row.details.check
           s == IF readable /\ checkRuns[c] # "none"
                THEN [at |-> "recordCheck", request |-> r, row |-> row, result |-> checkRuns[c]] ELSE Idle
<1>1. r \in Requests /\ row \in Row /\ Claimed(r) /\ SoundRow(r, row) /\ c # None
  BY PollerHolds DEF PollCheck, CheckSteps
<1>2. c \in Checks
  BY <1>1 DEF Row, Details
<1>3. /\ poller' = [poller EXCEPT ![p] = s]
      /\ UNCHANGED <<identity, rows, order, handler, runs, named, checkRuns, checkOf, checker>>
  <2>1. p \in DOMAIN poller
    BY DEF ControlInv, TypeOK
  <2> QED BY <2>1 DEF PollCheck
<1>4. checkRuns[c] \in RunStates
  BY <1>2 DEF ControlInv, TypeOK
<1> HIDE DEF r, row
<1>5. GoesOn(s, r, row) /\ s.at # "record"
  BY <1>1, <1>4 DEF GoesOn, PollerStates, Idle, CheckSteps, ResolveSteps
<1> HIDE DEF s
<1> QED BY <1>1, <1>3, <1>5, PollerReads

\* A poller whose command rewrites r, and that goes on with a sound record, or stops.
LEMMA PollerWrites ==
  ASSUME ControlInv, NEW p \in Pollers, NEW r \in Requests, Claimed(r), Rewrites(r),
         NEW s, s = Idle \/ \E q \in Requests, row \in Row :
           Claimed(q) /\ SoundRow(q, row)' /\ GoesOn(s, q, row) /\ s.at # "record",
         poller' = [poller EXCEPT ![p] = s],
         UNCHANGED <<identity, order, handler, runs, named, checkRuns, checkOf, checker>>
  PROVE  ControlInv'
<1>1. /\ Keeps /\ rows'[r] \in Row /\ rows'[r] # NoRow /\ SoundRow(r, rows[r])'
  BY RewriteKeeps
<1>2. PICK q \in Requests, row \in Row :
        rows'[q] # NoRow /\ SoundRow(q, row)' /\ GoesOn(s, q, row) /\ s.at # "record"
  <2>1. CASE s = Idle
    <3>1. GoesOn(s, r, rows'[r]) /\ s.at # "record"
      BY <2>1 DEF GoesOn, Idle
    <3>2. \A x \in Row : x = rows'[r] => SoundRow(r, x)'
      BY <1>1 DEF SoundRow
    <3> QED BY <1>1, <3>1, <3>2
  <2>2. CASE s # Idle
    BY <1>1, <2>2 DEF Keeps
  <2> QED BY <2>1, <2>2
<1>3. poller' \in [Pollers -> PollerStates] /\ PollersAreSound'
  BY <1>1, <1>2, PollerGoesOn
<1>4. /\ checker' \in [Checks -> HandlerStates] /\ handler' \in [Requests -> HandlerStates]
      /\ \A q2 \in Requests : handler'[q2] \in {handler[q2], "done"} /\ (handler[q2] = "idle" => handler'[q2] = "idle")
  BY DEF ControlInv, TypeOK
<1> QED BY <1>3, <1>4, RewritePreserves

LEMMA PollRecordPreserves ==
  ASSUME ControlInv, NEW p \in Pollers, PollRecord(p)
  PROVE  ControlInv'
<1>1. PICK r \in Requests :
        /\ r = poller[p].request /\ Claimed(r) /\ runs[r] # "none" /\ p \in DOMAIN poller
        /\ poller[p].result \in RunStates /\ poller[p].named \in BOOLEAN
  BY PollerHolds, PollerFields DEF PollRecord, ControlInv, TypeOK
<1>2. UNCHANGED <<identity, order, handler, runs, named, checkRuns, checkOf, checker>>
  BY DEF PollRecord
<1>3. CASE CanRecord(r, r)
  <2> DEFINE row == [rows'[r] EXCEPT !.details = NoDetails]
             s == AfterRecord(r, row, poller[p].result, poller[p].named)
  <2>1. rows' = Recorded(r, "unknown", r) /\ poller' = [poller EXCEPT ![p] = s]
    BY <1>1, <1>3 DEF PollRecord
  <2>2. Rewrites(r)
    BY <1>1, <2>1, RecordRewrites DEF Phases
  <2>3. rows'[r] \in Row /\ SoundRow(r, rows[r])'
    BY <1>1, <1>2, <2>2, RewriteKeeps
  <2>4. NoDetails \in Details /\ NoDetails.platform = None /\ NoDetails.check = None
    BY DEF NoDetails, Details
  <2>5. row \in Row /\ row.run = rows'[r].run /\ row.details = NoDetails
    BY <2>3, <2>4, WithDetails
  <2> HIDE DEF row
  <2>6. PICK x \in Row : x = row /\ SoundRow(r, x)'
    BY <2>3, <2>4, <2>5 DEF SoundRow
  <2>7. GoesOn(s, r, x) /\ s.at # "record"
    BY <1>1, <2>5, <2>6, AfterGoesOn
  <2> HIDE DEF s
  <2>8. \E q \in Requests, y \in Row :
          Claimed(q) /\ SoundRow(q, y)' /\ GoesOn(s, q, y) /\ s.at # "record"
    BY <1>1, <2>6, <2>7
  <2> QED BY <1>1, <1>2, <2>1, <2>2, <2>8, PollerWrites
<1>4. CASE ~CanRecord(r, r)
  <2>1. rows' = rows /\ poller' = [poller EXCEPT ![p] = Idle]
    BY <1>1, <1>4 DEF PollRecord
  <2>2. Rewrites(r)
    BY <1>1, <2>1, RewriteNothing
  <2> QED BY <1>1, <1>2, <2>1, <2>2, PollerWrites
<1> QED BY <1>3, <1>4

\* The latest request after a command has rewritten r.
LEMMA LatestAfter ==
  ASSUME ControlInv, NEW r \in Requests, Claimed(r), Rewrites(r), UNCHANGED <<order, runs, checkOf>>
  PROVE  \E q \in Requests, x \in Row :
           q = Latest /\ x = rows'[Latest] /\ Claimed(q) /\ SoundRow(q, x)'
<1>1. order # <<>>
  BY DEF ControlInv, RowsAreSound
<1>2. PICK q \in Requests : q = Latest /\ Claimed(q)
  BY <1>1, LatestIs
<1>3. Keeps /\ RowsAreSound' /\ rows' \in [Requests -> Row \cup {NoRow}]
  BY RewriteKeeps
<1>4. rows'[q] # NoRow
  BY <1>2, <1>3 DEF Keeps
<1>5. PICK x \in Row : x = rows'[q]
  BY <1>2, <1>3, <1>4
<1>6. SoundRow(q, x)'
  BY <1>3, <1>4, <1>5 DEF RowsAreSound, Claimed, SoundRow
<1> QED BY <1>2, <1>5, <1>6

LEMMA PollCapturePreserves ==
  ASSUME ControlInv, NEW p \in Pollers, PollCapture(p)
  PROVE  ControlInv'
<1>1. PICK r \in Requests :
        r = poller[p].request /\ Claimed(r) /\ p \in DOMAIN poller /\ poller[p].result \in RunStates
  BY PollerHolds, PollerFields DEF PollCapture, ControlInv, TypeOK
<1>2. UNCHANGED <<identity, order, handler, runs, named, checkRuns, checkOf, checker>>
  BY DEF PollCapture
<1>3. CASE CanCapture(r, poller[p].row.run, r)
  <2> DEFINE s == AfterCapture(Latest, rows'[Latest], poller[p].result)
  <2>1. rows' = Captured(r, r) /\ poller' = [poller EXCEPT ![p] = s]
    BY <1>1, <1>3 DEF PollCapture
  <2>2. Rewrites(r)
    BY <1>1, <1>3, <2>1, CaptureRewrites
  <2>3. PICK q \in Requests, x \in Row :
          q = Latest /\ x = rows'[Latest] /\ Claimed(q) /\ SoundRow(q, x)'
    BY <1>1, <1>2, <2>2, LatestAfter
  <2>4. GoesOn(s, q, x) /\ s.at # "record"
    BY <1>1, <2>3, AfterGoesOn
  <2> HIDE DEF s
  <2>5. \E z \in Requests, y \in Row :
          Claimed(z) /\ SoundRow(z, y)' /\ GoesOn(s, z, y) /\ s.at # "record"
    BY <2>3, <2>4
  <2> QED BY <1>1, <1>2, <2>1, <2>2, <2>5, PollerWrites
<1>4. CASE ~CanCapture(r, poller[p].row.run, r)
  <2>1. rows' = rows /\ poller' = [poller EXCEPT ![p] = Idle]
    BY <1>1, <1>4 DEF PollCapture
  <2>2. Rewrites(r)
    BY <1>1, <2>1, RewriteNothing
  <2> QED BY <1>1, <1>2, <2>1, <2>2, PollerWrites
<1> QED BY <1>3, <1>4

LEMMA PollResolvePreserves ==
  ASSUME ControlInv, NEW p \in Pollers, PollResolve(p)
  PROVE  ControlInv'
<1>1. PICK r \in Requests :
        r = poller[p].request /\ Claimed(r) /\ p \in DOMAIN poller /\ poller[p].result \in Outcomes
  BY PollerHolds DEF PollResolve, ControlInv, TypeOK, ResolveSteps
<1>2. UNCHANGED <<identity, order, handler, runs, named, checkRuns, checkOf, checker>>
  BY DEF PollResolve
<1>3. CASE CanResolve(r, poller[p].row.run)
  <2> DEFINE s == AfterResolve(Latest, rows'[Latest])
  <2>1. rows' = Resolved(r, poller[p].result) /\ poller' = [poller EXCEPT ![p] = s]
    BY <1>1, <1>3 DEF PollResolve
  <2>2. Rewrites(r)
    BY <1>1, <2>1, ResolveRewrites
  <2>3. PICK q \in Requests, x \in Row :
          q = Latest /\ x = rows'[Latest] /\ Claimed(q) /\ SoundRow(q, x)'
    BY <1>1, <1>2, <2>2, LatestAfter
  <2>4. GoesOn(s, q, x) /\ s.at # "record"
    BY <2>3, AfterGoesOn DEF RunStates
  <2> HIDE DEF s
  <2>5. \E z \in Requests, y \in Row :
          Claimed(z) /\ SoundRow(z, y)' /\ GoesOn(s, z, y) /\ s.at # "record"
    BY <2>3, <2>4
  <2> QED BY <1>1, <1>2, <2>1, <2>2, <2>5, PollerWrites
<1>4. CASE ~CanResolve(r, poller[p].row.run)
  <2>1. rows' = rows /\ poller' = [poller EXCEPT ![p] = Idle]
    BY <1>1, <1>4 DEF PollResolve
  <2>2. Rewrites(r)
    BY <1>1, <2>1, RewriteNothing
  <2> QED BY <1>1, <1>2, <2>1, <2>2, PollerWrites
<1> QED BY <1>3, <1>4

LEMMA PollResolveCheckPreserves ==
  ASSUME ControlInv, NEW p \in Pollers, PollResolveCheck(p)
  PROVE  ControlInv'
<1>1. PICK r \in Requests : r = poller[p].request /\ Claimed(r) /\ poller[p].result \in Outcomes
  BY PollerHolds DEF PollResolveCheck, ResolveSteps
<1>2. /\ UNCHANGED <<identity, order, handler, runs, named, checkRuns, checkOf, checker>>
      /\ poller' = [poller EXCEPT ![p] = Idle]
  BY DEF PollResolveCheck
<1>3. rows' = Resolved(r, poller[p].result) \/ rows' = rows
  BY <1>1 DEF PollResolveCheck
<1>4. Rewrites(r)
  BY <1>1, <1>3, ResolveRewrites, RewriteNothing
<1> QED BY <1>1, <1>2, <1>4, PollerWrites

\* How a poller goes on with a check's result.
ToResolveCheck(st, r, row) == [st EXCEPT !.at = "resolveCheck", !.request = r, !.row = row]

LEMMA GoesOnToResolve ==
  ASSUME NEW st \in [at : {"resolve", "recordCheck", "resolveCheck"}, request : Requests,
                     row : Row, result : RunStates],
         NEW q \in Requests, NEW x \in Row, NEW s, s = ToResolveCheck(st, q, x)
  PROVE  /\ s \in PollerStates /\ s # Idle /\ s.request = q /\ s.row = x
         /\ s.at = "resolveCheck" /\ s.result = st.result
<1>1. /\ s \in [at : {"resolve", "recordCheck", "resolveCheck"}, request : Requests,
               row : Row, result : RunStates]
      /\ s.at = "resolveCheck" /\ s.request = q /\ s.row = x /\ s.result = st.result
  BY DEF ToResolveCheck
<1> QED BY <1>1 DEF PollerStates, Idle

LEMMA PollRecordCheckPreserves ==
  ASSUME ControlInv, NEW p \in Pollers, PollRecordCheck(p)
  PROVE  ControlInv'
<1>1. PICK r \in Requests, c \in Checks :
        /\ r = poller[p].request /\ Claimed(r) /\ checkOf[c] = r /\ c = poller[p].row.details.check
        /\ p \in DOMAIN poller /\ poller[p].result \in RunStates
  <2>1. /\ poller[p].request \in Requests /\ Claimed(poller[p].request) /\ poller[p].row \in Row
        /\ poller[p].row.details.check # None /\ SoundRow(poller[p].request, poller[p].row)
        /\ p \in DOMAIN poller /\ poller[p].result \in RunStates
    BY PollerHolds, PollerFields DEF PollRecordCheck, CheckSteps, ControlInv, TypeOK
  <2> QED BY <2>1 DEF SoundRow, Row, Details
<1> DEFINE complete == poller[p].result # "running"
<1>2. UNCHANGED <<identity, order, handler, runs, named, checkRuns, checkOf, checker>>
  BY DEF PollRecordCheck
<1>3. CASE CanRecordCheck(r, c, c)
  <2>1. rows' = RecordedCheck(r, c, complete)
    BY <1>1, <1>3 DEF PollRecordCheck
  <2>2. Rewrites(r) /\ r = Latest
    BY <1>1, <1>3, <2>1, RecordCheckRewrites
  <2>3. PICK q \in Requests, x \in Row :
          q = Latest /\ x = rows'[Latest] /\ Claimed(q) /\ SoundRow(q, x)'
    BY <1>1, <1>2, <2>2, LatestAfter
  <2>4. x.details.check = c
    <3>1. rows[r] \in Row /\ rows \in [Requests -> Row \cup {NoRow}]
      BY <1>1 DEF ControlInv, TypeOK, Claimed
    <3>2. rows'[r].details = [rows[r].details EXCEPT !.checkRun = IF c = None THEN @ ELSE c, !.complete = @ \/ complete]
      BY <1>1, <2>1, <2>2, <3>1 DEF RecordedCheck, Row
    <3>3. rows[r].details \in Details /\ rows[r].details.check = c
      BY <1>3, <2>2, <3>1 DEF Row, CanRecordCheck
    <3> QED BY <2>2, <2>3, <3>2, <3>3 DEF Details
  <2> DEFINE s == ToResolveCheck(poller[p], q, x)
  <2>5. [rows'[Latest] EXCEPT !.details.check = c] = x
    BY <2>3, <2>4 DEF Row, Details
  <2>6. \/ poller' = [poller EXCEPT ![p] = s] /\ poller[p].result \in Outcomes
        \/ poller' = [poller EXCEPT ![p] = Idle]
    BY <1>1, <1>3, <2>3, <2>5 DEF PollRecordCheck, ToResolveCheck
  <2>7. CASE poller' = [poller EXCEPT ![p] = s] /\ poller[p].result \in Outcomes
    <3>1. PICK st \in [at : {"resolve", "recordCheck", "resolveCheck"}, request : Requests,
                       row : Row, result : RunStates] : st = poller[p]
      BY PollerHolds DEF PollRecordCheck, PollerStates
    <3>2. s = ToResolveCheck(st, q, x)
      BY <3>1
    <3> HIDE DEF s
    <3>3. /\ s \in PollerStates /\ s # Idle /\ s.request = q /\ s.row = x
          /\ s.at = "resolveCheck" /\ s.result = st.result
      BY <3>2, GoesOnToResolve
    <3>4. GoesOn(s, q, x) /\ s.at # "record"
      BY <2>4, <1>1, <2>7, <3>1, <3>3, ControlNulls DEF GoesOn
    <3> HIDE DEF complete
    <3>5. \E z \in Requests, y \in Row :
            Claimed(z) /\ SoundRow(z, y)' /\ GoesOn(s, z, y) /\ s.at # "record"
      BY <2>3, <3>4
    <3> QED BY <1>1, <1>2, <2>2, <2>7, <3>5, PollerWrites
  <2>8. CASE poller' = [poller EXCEPT ![p] = Idle]
    BY <1>1, <1>2, <2>2, <2>8, PollerWrites
  <2> QED BY <2>6, <2>7, <2>8
<1>4. CASE ~CanRecordCheck(r, c, c)
  <2>1. rows' = rows /\ poller' = [poller EXCEPT ![p] = Idle]
    BY <1>1, <1>4 DEF PollRecordCheck
  <2>2. Rewrites(r)
    BY <1>1, <2>1, RewriteNothing
  <2> QED BY <1>1, <1>2, <2>1, <2>2, PollerWrites
<1> QED BY <1>3, <1>4

\* A check is begun for the latest request, and it has never been used before.
LEMMA BeginCheckPreserves ==
  ASSUME ControlInv, NEW c \in Checks, BeginCheck(c)
  PROVE  ControlInv'
<1>1. PICK r \in Requests :
        /\ r = Latest /\ Claimed(r) /\ rows[r] \in Row /\ SoundRow(r, rows[r])
        /\ rows[r].details.platform = r /\ rows[r].phase \in Resolvable
  BY LatestIs DEF BeginCheck, CanBeginCheck, SoundRow
<1>2. /\ checkOf' = [checkOf EXCEPT ![c] = r] /\ checkOf[c] = None /\ order # <<>>
      /\ checker' = [checker EXCEPT ![c] = "dispatching"] /\ rows' = Begun(r, c)
      /\ UNCHANGED <<identity, order, handler, runs, named, checkRuns, poller>>
  BY <1>1 DEF BeginCheck
<1> DEFINE d == [rows[r].details EXCEPT !.check = c, !.checkRun = None, !.complete = FALSE]
<1>3. d \in Details /\ d.platform = r /\ d.check = c
  BY <1>1 DEF Row, Details
<1> HIDE DEF d
<1>4. PICK row \in Row :
        /\ rows' = [rows EXCEPT ![r] = row]
        /\ row.run = rows[r].run /\ row.phase = rows[r].phase
        /\ row.details.platform = r /\ row.details.check = c
  <2>1. rows' = [rows EXCEPT ![r] = [rows[r] EXCEPT !.details = d]]
    <3>1. r \in DOMAIN rows
      BY DEF ControlInv, TypeOK
    <3> QED BY <1>1, <1>2, <3>1 DEF Begun, d
  <2> QED BY <1>1, <1>3, <2>1, WithDetails
<1>6. /\ rows' \in [Requests -> Row \cup {NoRow}] /\ rows'[r] = row /\ row # NoRow
      /\ \A q \in Requests \ {r} : rows'[q] = rows[q]
  BY <1>4, ControlRows DEF ControlInv, TypeOK
<1>7. /\ checkOf' \in [Checks -> Requests \cup {None}] /\ checkOf'[c] = r
      /\ \A x \in Checks \ {c} : checkOf'[x] = checkOf[x]
  BY <1>2 DEF ControlInv, TypeOK
<1>8. Keeps
  BY <1>1, <1>2, <1>6, <1>7 DEF Keeps, Claimed
<1>9. \A q \in Requests : Claimed(q) <=> Claimed(q)'
  BY <1>1, <1>6 DEF Claimed
<1>10. \A q \in Requests : Claimed(q) => SoundRow(q, rows[q])'
  <2>1. SoundRow(r, row)'
    BY <1>1, <1>2, <1>4, <1>7, ControlNulls DEF SoundRow
  <2>2. \A q \in Requests \ {r} : Claimed(q) => SoundRow(q, rows[q])'
    BY <1>6, <1>8, SoundStays DEF ControlInv, TypeOK, RowsAreSound, SoundRow, Claimed
  <2> QED BY <1>6, <2>1, <2>2 DEF SoundRow
<1>11. Latest' = Latest
  BY <1>2 DEF Latest
<1>12. RowsAreSound'
  <2>1. (order # <<>> => Claimed(Latest))'
    BY <1>1, <1>9, <1>11 DEF Claimed
  <2>2. (\A q \in Requests : Claimed(q) => order # <<>> /\ SoundRow(q, rows[q]))'
    BY <1>2, <1>9, <1>10 DEF Claimed
  <2>3. (\A q \in Requests : Open(q) => q = Latest)'
    BY <1>1, <1>4, <1>6, <1>11 DEF ControlInv, RowsAreSound, Open, Claimed
  <2> QED BY <2>1, <2>2, <2>3 DEF RowsAreSound
<1>13. HandlersAreSound'
  BY <1>2, <1>9 DEF ControlInv, HandlersAreSound
<1>14. PollersAreSound'
  BY <1>2, <1>8, SoundStays DEF PollersAreSound
<1>15. TypeOK'
  BY <1>2, <1>6, <1>7 DEF ControlInv, TypeOK, HandlerStates
<1> QED BY <1>12, <1>13, <1>14, <1>15 DEF ControlInv

\* The handler of a check records its run id, or that it was refused.
LEMMA RecordCheckDispatchPreserves ==
  ASSUME ControlInv, NEW c \in Checks, NEW r \in Requests, RecordCheckDispatch(c, r)
  PROVE  ControlInv'
<1>1. Claimed(r) /\ checkOf[c] = r
  BY ControlNulls DEF RecordCheckDispatch, ControlInv, RowsAreSound, SoundRow
<1>2. Rewrites(r)
  <2> DEFINE run == IF checker[c] = "accepted" THEN c ELSE None
             complete == checker[c] = "rejected"
  <2>1. CASE CanRecordCheck(r, c, run)
    <3>1. rows' = RecordedCheck(r, run, complete) /\ run \in {None, c} /\ complete \in BOOLEAN
      BY <2>1 DEF RecordCheckDispatch
    <3> HIDE DEF run, complete
    <3> QED BY <1>1, <2>1, <3>1, RecordCheckRewrites
  <2>2. CASE ~CanRecordCheck(r, c, run)
    BY <1>1, <2>2, RewriteNothing DEF RecordCheckDispatch
  <2> QED BY <2>1, <2>2
<1>3. /\ UNCHANGED <<identity, order, handler, runs, named, checkRuns, checkOf, poller>>
      /\ checker' \in [Checks -> HandlerStates] /\ handler' \in [Requests -> HandlerStates]
      /\ \A q \in Requests : handler'[q] \in {handler[q], "done"} /\ (handler[q] = "idle" => handler'[q] = "idle")
  BY DEF RecordCheckDispatch, ControlInv, TypeOK, HandlerStates
<1>4. PollersAreSound' /\ poller' \in [Pollers -> PollerStates]
  BY <1>1, <1>2, <1>3, RewriteKeeps DEF ControlInv, TypeOK
<1> QED BY <1>1, <1>2, <1>3, <1>4, RewritePreserves

LEMMA StutterKeepsControl == ASSUME ControlInv, UNCHANGED vars PROVE ControlInv'
<1>1. UNCHANGED <<identity, rows, order, handler, runs, named, checkRuns, checkOf, checker, poller>>
  BY DEF vars
<1>2. TypeOK'
  BY <1>1 DEF ControlInv, TypeOK
<1>3. RowsAreSound'
  BY <1>1 DEF ControlInv, RowsAreSound, SoundRow, Claimed, Open, Latest
<1>4. HandlersAreSound'
  BY <1>1 DEF ControlInv, HandlersAreSound, Claimed
<1>5. PollersAreSound'
  BY <1>1 DEF ControlInv, PollersAreSound, PollerIsSound, SoundRow, Claimed
<1> QED BY <1>2, <1>3, <1>4, <1>5 DEF ControlInv

LEMMA NextKeepsControl == ASSUME ControlInv, [Next]_vars PROVE ControlInv'
<1>1. ASSUME NEW r \in Requests, NEW o \in Operations, Claim(r, o) PROVE ControlInv'
  BY <1>1, ClaimPreserves
<1>2. ASSUME NEW r \in Requests, Dispatch(r) \/ RecordDispatch(r) PROVE ControlInv'
  BY <1>2, DispatchPreserves, RecordDispatchPreserves
<1>3. CASE \/ \E r \in Requests, s \in Reports \cup {"unknown"} : CompleteRun(r, s)
           \/ \E c \in Checks, s \in Reports \cup {"unknown"} : CompleteCheck(c, s)
           \/ \E i \in Identities : ChangeIdentity(i)
           \/ \E c \in Checks : DispatchCheck(c)
  BY <1>3, GithubPreserves
<1>4. ASSUME NEW p \in Pollers, PollRead(p) PROVE ControlInv'
  BY <1>4, PollReadPreserves
<1>5. ASSUME NEW p \in Pollers, NEW b \in BOOLEAN, PollReceipt(p, b) \/ PollCheck(p, b)
      PROVE  ControlInv'
  BY <1>5, PollReceiptPreserves, PollCheckPreserves
<1>6. ASSUME NEW p \in Pollers, PollRecord(p) \/ PollCapture(p) \/ PollResolve(p) PROVE ControlInv'
  BY <1>6, PollRecordPreserves, PollCapturePreserves, PollResolvePreserves
<1>7. ASSUME NEW p \in Pollers, PollRecordCheck(p) \/ PollResolveCheck(p) PROVE ControlInv'
  BY <1>7, PollRecordCheckPreserves, PollResolveCheckPreserves
<1>8. ASSUME NEW c \in Checks, BeginCheck(c) PROVE ControlInv'
  BY <1>8, BeginCheckPreserves
<1>9. ASSUME NEW c \in Checks, NEW r \in Requests, RecordCheckDispatch(c, r) PROVE ControlInv'
  BY <1>9, RecordCheckDispatchPreserves
<1>10. CASE UNCHANGED vars
  BY <1>10, StutterKeepsControl
<1> QED BY <1>1, <1>2, <1>3, <1>4, <1>5, <1>6, <1>7, <1>8, <1>9, <1>10 DEF Next

THEOREM ControlInvariant == Spec => []ControlInv
<1>1. Init => ControlInv
  BY InitControlInv
<1>2. ControlInv /\ [Next]_vars => ControlInv'
  BY NextKeepsControl
<1> QED BY <1>1, <1>2, PTL DEF Spec

----------------------------------------------------------------------------
(* Theorems *)

LEMMA ControlInvOwns == ASSUME ControlInv PROVE RequestsAreTheirOwn
<1>1. OneOpenRequest
  BY DEF ControlInv, RowsAreSound, OneOpenRequest
<1>2. RunIsItsOwn
  BY DEF ControlInv, RowsAreSound, SoundRow, RunIsItsOwn
<1>3. DetailsAreItsOwn
  BY DEF ControlInv, RowsAreSound, SoundRow, DetailsAreItsOwn
<1> QED BY <1>1, <1>2, <1>3 DEF RequestsAreTheirOwn, ControlInv

\* However claims, pollers, checks and registry commands interleave, a target has
\* one open request, and a request has the run, the platform run and the check
\* that were made for it (runtime_control_claim, _record, _capture, _begin_check,
\* _record_check and _resolve of worker.js).
THEOREM OwnRequests == Spec => []RequestsAreTheirOwn
<1>1. ControlInv => RequestsAreTheirOwn
  BY ControlInvOwns
<1> QED BY <1>1, ControlInvariant, PTL

\* Only the claim of an unknown id has a workflow dispatched, and it does so once:
\* a retry of the POST finds the request claimed (runtime_control_claim).
THEOREM SentOnce == Spec => NeverResent
<1>1. ASSUME ControlInv, [Next]_vars
      PROVE  [\A r \in Requests :
                handler[r] # "idle" /\ handler'[r] = "dispatching" => handler[r] = "dispatching"]_vars
  <2> SUFFICES ASSUME NEW r \in Requests, handler[r] # "idle", handler'[r] = "dispatching",
                      handler[r] # "dispatching"
               PROVE  FALSE
    OBVIOUS
  <2>1. Claimed(r) /\ handler \in [Requests -> HandlerStates]
    BY <1>1 DEF ControlInv, HandlersAreSound, TypeOK
  <2>2. handler' # handler
    OBVIOUS
  <2>3. ASSUME NEW q \in Requests, NEW o \in Operations, Claim(q, o) PROVE FALSE
    BY <2>1, <2>3 DEF Claim
  <2>4. ASSUME NEW q \in Requests, Dispatch(q) \/ RecordDispatch(q) PROVE FALSE
    BY <2>1, <2>4 DEF Dispatch, RecordDispatch
  <2> QED
    BY <1>1, <2>2, <2>3, <2>4
    DEF Next, vars, CompleteRun, CompleteCheck, ChangeIdentity, PollRead, PollReceipt, PollCheck,
        PollRecord, PollCapture, PollResolve, PollRecordCheck, PollResolveCheck, BeginCheck,
        DispatchCheck, RecordCheckDispatch
<1> QED BY <1>1, ControlInvariant, PTL DEF Spec, NeverResent

\* No command changes the phase of a request that is closed.
KeepsClosed(r) == Claimed(r) /\ ~Open(r) => rows'[r].phase = rows[r].phase

LEMMA CommandsKeepClosed ==
  ASSUME TypeOK, NEW q \in Requests, NEW phase, NEW run, NEW d,
         \/ rows' = Recorded(q, phase, run) \/ rows' = Resolved(q, phase)
         \/ rows' = [rows EXCEPT ![q].details = d] \/ rows' = rows
  PROVE  \A r \in Requests : KeepsClosed(r)
<1> SUFFICES ASSUME NEW r \in Requests, Claimed(r), ~Open(r)
             PROVE  rows'[r].phase = rows[r].phase
  BY DEF KeepsClosed
<1>1. rows[r] \in Row /\ r \in DOMAIN rows
  BY DEF TypeOK, Claimed
<1>2. rows[r].phase \notin OpenPhases
  BY DEF Open
<1>3. CASE rows' = Recorded(q, phase, run)
  BY <1>1, <1>2, <1>3 DEF Recorded, Row, OpenPhases
<1>4. CASE rows' = Resolved(q, phase)
  BY <1>1, <1>2, <1>4 DEF Resolved, Row, OpenPhases, Resolvable
<1>5. CASE rows' = [rows EXCEPT ![q].details = d]
  BY <1>1, <1>5 DEF Row
<1> QED BY <1>3, <1>4, <1>5

LEMMA HandlersKeepClosed ==
  ASSUME TypeOK, \/ \E r \in Requests, o \in Operations : Claim(r, o)
                 \/ \E r \in Requests : RecordDispatch(r)
                 \/ \E c \in Checks, r \in Requests : RecordCheckDispatch(c, r)
                 \/ \E c \in Checks : BeginCheck(c)
  PROVE  \A r \in Requests : KeepsClosed(r)
<1>1. ASSUME NEW q \in Requests, NEW o \in Operations, Claim(q, o)
      PROVE  \A r \in Requests : KeepsClosed(r)
  BY <1>1 DEF Claim, Claimed, KeepsClosed, TypeOK
<1>2. ASSUME NEW q \in Requests, RecordDispatch(q) PROVE \A r \in Requests : KeepsClosed(r)
  <2>1. \E run : rows' = Recorded(q, handler[q], run) \/ rows' = rows
    BY <1>2 DEF RecordDispatch
  <2> QED BY <2>1, CommandsKeepClosed
<1>3. ASSUME NEW c \in Checks, NEW q \in Requests, RecordCheckDispatch(c, q)
      PROVE  \A r \in Requests : KeepsClosed(r)
  <2>1. \E d : rows' = [rows EXCEPT ![q].details = d] \/ rows' = rows
    BY <1>3 DEF RecordCheckDispatch, RecordedCheck
  <2> QED BY <2>1, CommandsKeepClosed
<1>4. ASSUME NEW c \in Checks, BeginCheck(c) PROVE \A r \in Requests : KeepsClosed(r)
  <2>1. PICK q \in Requests : q = Latest
    BY <1>4 DEF BeginCheck, TypeOK, Latest
  <2>2. \E d : rows' = [rows EXCEPT ![q].details = d]
    BY <1>4, <2>1 DEF BeginCheck, Begun
  <2> QED BY <2>2, CommandsKeepClosed
<1> QED BY <1>1, <1>2, <1>3, <1>4

LEMMA PollersKeepClosed ==
  ASSUME ControlInv, NEW p \in Pollers,
         PollRecord(p) \/ PollCapture(p) \/ PollResolve(p) \/ PollRecordCheck(p) \/ PollResolveCheck(p)
  PROVE  \A r \in Requests : KeepsClosed(r)
<1>1. PICK q \in Requests : q = poller[p].request
  BY PollerHolds DEF PollRecord, PollCapture, PollResolve, PollRecordCheck, PollResolveCheck
<1>2. TypeOK
  BY DEF ControlInv
<1>3. CASE PollRecord(p)
  <2>1. rows' = Recorded(q, "unknown", q) \/ rows' = rows
    BY <1>1, <1>3 DEF PollRecord
  <2> QED BY <1>2, <2>1, CommandsKeepClosed
<1>4. CASE PollCapture(p)
  <2>1. \E d : rows' = [rows EXCEPT ![q].details = d] \/ rows' = rows
    BY <1>1, <1>4 DEF PollCapture, Captured
  <2> QED BY <1>2, <2>1, CommandsKeepClosed
<1>5. CASE PollResolve(p) \/ PollResolveCheck(p)
  <2>1. rows' = Resolved(q, poller[p].result) \/ rows' = rows
    BY <1>1, <1>5 DEF PollResolve, PollResolveCheck
  <2> QED BY <1>2, <2>1, CommandsKeepClosed
<1>6. CASE PollRecordCheck(p)
  <2>1. \E d : rows' = [rows EXCEPT ![q].details = d] \/ rows' = rows
    BY <1>1, <1>6 DEF PollRecordCheck, RecordedCheck
  <2> QED BY <1>2, <2>1, CommandsKeepClosed
<1> QED BY <1>3, <1>4, <1>5, <1>6

\* A request that is applied, protected or rejected stays so: a dispatch outcome
\* recorded late, a poller with an old record or a check that ends after the
\* request was resolved rewrites no outcome (runtime_control_record and _resolve).
THEOREM ClosedStays == Spec => ClosedIsFinal
<1>1. ASSUME ControlInv, [Next]_vars
      PROVE  [\A r \in Requests : Claimed(r) /\ ~Open(r) => rows'[r].phase = rows[r].phase]_vars
  <2>0. TypeOK
    BY <1>1 DEF ControlInv
  <2>1. CASE UNCHANGED rows
    BY <2>1
  <2>2. CASE \/ \E r \in Requests, o \in Operations : Claim(r, o)
             \/ \E r \in Requests : RecordDispatch(r)
             \/ \E c \in Checks, r \in Requests : RecordCheckDispatch(c, r)
             \/ \E c \in Checks : BeginCheck(c)
    BY <2>0, <2>2, HandlersKeepClosed DEF KeepsClosed
  <2>3. ASSUME NEW p \in Pollers,
               PollRecord(p) \/ PollCapture(p) \/ PollResolve(p) \/ PollRecordCheck(p) \/ PollResolveCheck(p)
        PROVE  \A r \in Requests : KeepsClosed(r)
    BY <1>1, <2>3, PollersKeepClosed
  <2>4. \/ UNCHANGED rows
        \/ \E r \in Requests, o \in Operations : Claim(r, o)
        \/ \E r \in Requests : RecordDispatch(r)
        \/ \E c \in Checks, r \in Requests : RecordCheckDispatch(c, r)
        \/ \E c \in Checks : BeginCheck(c)
        \/ \E p \in Pollers : \/ PollRecord(p) \/ PollCapture(p) \/ PollResolve(p)
                              \/ PollRecordCheck(p) \/ PollResolveCheck(p)
    BY <1>1 DEF Next, vars, Dispatch, CompleteRun, CompleteCheck, ChangeIdentity, PollRead,
       PollReceipt, PollCheck, DispatchCheck
  <2> QED BY <2>1, <2>2, <2>3, <2>4 DEF KeepsClosed
<1> QED BY <1>1, ControlInvariant, PTL DEF Spec, ClosedIsFinal
=============================================================================
