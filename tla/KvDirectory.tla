----------------------------- MODULE KvDirectory -----------------------------
(***************************************************************************)
(* The discovery manifest of the console's KV records (kv_directory.js): a *)
(* durable object registers the key of every record it publishes, scans    *)
(* the namespace for the keys other writers left, one page per call and a  *)
(* bounded number of pages a day, and keeps a mirror of the manifest in KV *)
(* itself.  Commands run one at a time over awaited calls, each of which   *)
(* may fail or be cut short by a crash.                                    *)
(***************************************************************************)
EXTENDS Naturals, FiniteSets

CONSTANTS
  IndexedKeys, \* indexed KV keys, numbered in the order KV lists them
  Callers,     \* commands that may be waiting or running
  PageSize,    \* keys a listed page holds
  Budget,      \* list attempts a day (100 in the code)
  MaxKeys,     \* KV_DIRECTORY_MAX_KEYS
  DayTicks,    \* clock ticks in a day, and in KV_DIRECTORY_RECONCILE_SECONDS
  MaxClock,    \* bound of the clock
  MaxLate,     \* bound of the records others write since a scan began
  NoDirectory

ASSUME DirectoryNumbers ==
  /\ IndexedKeys \subseteq Nat \ {0} /\ IsFiniteSet(IndexedKeys)
  /\ {PageSize, Budget, MaxKeys, DayTicks} \subseteq Nat \ {0} /\ {MaxClock, MaxLate} \subseteq Nat

VARIABLES
  clock,      \* the time, in units of the shortest delay
  store,      \* keys of the records in KV
  mirror,     \* the manifest's copy in KV
  saved,      \* the manifest in the object's storage
  running,    \* what each caller's command is doing
  written,    \* history: keys of records the directory itself wrote
  registeredKeys, \* history: keys that publishers registered
  listed,     \* history: list calls made on today's account
  scanLate,   \* history: keys others wrote since the running scan's first page
  lateKeys    \* history: the same for the last complete scan

directoryVars == <<clock, store, mirror, saved, running, written, registeredKeys, listed, scanLate, lateKeys>>
histories == <<written, registeredKeys, listed, scanLate, lateKeys>>

Manifest ==
  [keys : SUBSET IndexedKeys, complete : BOOLEAN, cursor : IndexedKeys \cup {0},
   retry_at : Nat, scanned_at : Nat, mirror_dirty : BOOLEAN,
   list_day : Nat, list_attempts : 0..Budget]

Empty ==
  [keys |-> {}, complete |-> FALSE, cursor |-> 0, retry_at |-> 0, scanned_at |-> 0,
   mirror_dirty |-> FALSE, list_day |-> 0, list_attempts |-> 0]

DirectoryJob ==
  [state : Manifest, key : IndexedKeys \cup {0}, mirrors : BOOLEAN, scanned : BOOLEAN,
   failed : BOOLEAN,
   pc : {"register", "record", "mirror", "clean", "attempt", "list", "save", "copy"}]

\* No manifest and no command: the value names neither.
ASSUME NoDirectoryIsNone == NoDirectory \notin Manifest /\ NoDirectory \notin DirectoryJob

DirectoryTypeOK ==
  /\ clock \in 0..MaxClock
  /\ store \subseteq IndexedKeys
  /\ mirror = NoDirectory \/ mirror \in Manifest
  /\ saved = NoDirectory \/ saved \in Manifest
  /\ running \in [Callers -> DirectoryJob \cup {NoDirectory}]
  /\ written \subseteq store /\ registeredKeys \subseteq IndexedKeys
  /\ scanLate \subseteq store /\ lateKeys \subseteq store
  /\ listed \in Nat

\* What a command finds: the object's own manifest, or the adopted mirror.
Directory ==
  IF saved # NoDirectory THEN saved ELSE IF mirror # NoDirectory THEN mirror ELSE Empty

DirectoryDay == clock \div DayTicks
At(c, pc) == running[c] # NoDirectory /\ running[c].pc = pc

\* The queue of the object: a command starts when none is running.
MayStart(c) == \A other \in Callers : running[other] = NoDirectory

\* An awaited call took effect, and the command goes on or dies there.
Awaited(c, next) == running' = [running EXCEPT ![c] = next] \/ running' = [running EXCEPT ![c] = NoDirectory]

----------------------------------------------------------------------------
(* put *)

\* A new key is registeredKeys first; a known one goes straight to its record.
StartPut(c, k) ==
  /\ MayStart(c)
  /\ k \in Directory.keys \/ Cardinality(Directory.keys) < MaxKeys
  /\ LET new == k \notin Directory.keys IN
     running' = [running EXCEPT ![c] =
       [state |-> [Directory EXCEPT !.keys = @ \cup {k},
                                    !.mirror_dirty = @ \/ new],
        key |-> k, mirrors |-> FALSE, scanned |-> FALSE, failed |-> FALSE,
        pc |-> IF new THEN "register" ELSE "record"]]
  /\ UNCHANGED <<clock, store, mirror, saved, histories>>

RegisterClean(c) ==
  /\ At(c, "register")
  /\ saved' = [running[c].state EXCEPT !.mirror_dirty = FALSE]
  /\ registeredKeys' = registeredKeys \cup {running[c].key}
  /\ Awaited(c, [running[c] EXCEPT !.pc = "record"])
  /\ UNCHANGED <<clock, store, mirror, written, listed, scanLate, lateKeys>>

Register(c) ==
  /\ At(c, "register")
  /\ saved' = running[c].state
  /\ registeredKeys' = registeredKeys \cup {running[c].key}
  /\ Awaited(c, [running[c] EXCEPT !.pc = "record"])
  /\ UNCHANGED <<clock, store, mirror, written, listed, scanLate, lateKeys>>

WriteRecord(c) ==
  /\ At(c, "record")
  /\ store' = store \cup {running[c].key}
  /\ written' = written \cup {running[c].key}
  /\ Awaited(c, IF running[c].state.mirror_dirty THEN [running[c] EXCEPT !.pc = "mirror"] ELSE NoDirectory)
  /\ UNCHANGED <<clock, mirror, saved, registeredKeys, listed, scanLate, lateKeys>>

MirrorPut(c) ==
  /\ At(c, "mirror")
  /\ mirror' = [running[c].state EXCEPT !.mirror_dirty = FALSE]
  /\ Awaited(c, [running[c] EXCEPT !.pc = "clean"])
  /\ UNCHANGED <<clock, store, saved, histories>>

Clean(c) ==
  /\ At(c, "clean")
  /\ saved' = [running[c].state EXCEPT !.mirror_dirty = FALSE]
  /\ running' = [running EXCEPT ![c] = NoDirectory]
  /\ UNCHANGED <<clock, store, mirror, histories>>

----------------------------------------------------------------------------
(* maintain *)

\* A complete directory is scanned again when a day has passed, or on request
\* after the shortest while; one that waits after a page or a failure is left.
ScanDue(d, refresh) ==
  /\ d.complete /\ d.cursor = 0 =>
       /\ refresh \/ clock >= d.scanned_at + DayTicks
       /\ clock >= d.scanned_at + 1
  /\ d.retry_at <= clock

\* The attempt is counted before the list call, and counts start anew each day.
Counted(d) ==
  [d EXCEPT !.list_day = DirectoryDay,
            !.list_attempts = (IF d.list_day = DirectoryDay THEN @ ELSE 0) + 1]

Exhausted(d) == d.list_day = DirectoryDay /\ d.list_attempts >= Budget

NextReset == (DirectoryDay + 1) * DayTicks + 1

\* The catch block: the directory is unavailable until the retry.
Failed(j, delay) ==
  [j EXCEPT !.state = [@ EXCEPT !.complete = FALSE, !.retry_at = delay],
            !.mirrors = TRUE, !.failed = TRUE, !.pc = "save"]

StartMaintain(c, refresh) ==
  /\ MayStart(c)
  /\ ScanDue(Directory, refresh)
  /\ LET start == [state |-> Directory, key |-> 0, mirrors |-> FALSE,
                   scanned |-> FALSE, failed |-> FALSE, pc |-> "attempt"]
     IN running' = [running EXCEPT ![c] = IF Exhausted(Directory)
                                  THEN Failed(start, NextReset)
                                  ELSE [start EXCEPT !.state = Counted(@)]]
  /\ UNCHANGED <<clock, store, mirror, saved, histories>>

SaveAttempt(c) ==
  /\ At(c, "attempt")
  /\ saved' = running[c].state
  /\ Awaited(c, [running[c] EXCEPT !.pc = "list"])
  /\ UNCHANGED <<clock, store, mirror, histories>>

\* The page after the cursor: its keys, with none left behind it or not.
PastCursor(cursor) == {k \in store : k > cursor}
ListedPage(cursor) == {k \in PastCursor(cursor) : Cardinality({i \in PastCursor(cursor) : i <= k}) <= PageSize}
LastOf(page) == CHOOSE k \in page : \A i \in page : i <= k

ScannedOnly(d, found, finished) ==
  [d EXCEPT !.keys = @ \cup found,
            !.complete = finished,
            !.scanned_at = IF finished THEN clock ELSE @,
            !.cursor = IF finished THEN 0 ELSE LastOf(found),
            !.retry_at = IF finished THEN 0 ELSE clock + 1]

\* The keys found are added; a directory that was complete stays so.
Scanned(d, found, finished) ==
  [d EXCEPT !.keys = @ \cup found,
            !.complete = finished \/ @,
            !.scanned_at = IF finished THEN clock ELSE @,
            !.cursor = IF finished THEN 0 ELSE LastOf(found),
            !.retry_at = IF finished THEN 0 ELSE clock + 1]

\* mirrorStateChanged, or a directory that is not complete.
Mirrors(before, after) ==
  \/ ~after.complete
  \/ Cardinality(before.keys) # Cardinality(after.keys)
  \/ before.complete # after.complete
  \/ before.scanned_at # after.scanned_at

\* A call that is made after midnight on an attempt counted before it is the
\* old day's.
Charged(c) == IF running[c].state.list_day = DirectoryDay THEN listed + 1 ELSE listed

\* A list call that answers; a directory that would grow too large fails.
List(c) ==
  /\ At(c, "list")
  /\ LET d == running[c].state
         page == ListedPage(d.cursor)
         finished == page = PastCursor(d.cursor)
         after == Scanned(d, page, finished)
     IN /\ scanLate' = IF d.cursor = 0 THEN {} ELSE scanLate
        /\ Awaited(c, IF Cardinality(after.keys) > MaxKeys
                      THEN Failed(running[c], clock + 1)
                      ELSE [running[c] EXCEPT !.state = after, !.mirrors = Mirrors(d, after),
                                          !.scanned = finished, !.pc = "save"])
  /\ listed' = Charged(c)
  /\ UNCHANGED <<clock, store, mirror, saved, written, registeredKeys, lateKeys>>

\* The list call fails, for the day's quota or anything else.
ListFails(c) ==
  /\ At(c, "list")
  /\ \E retry \in {NextReset, clock + 1} :
       running' = [running EXCEPT ![c] = Failed(running[c], retry)]
  /\ listed' = Charged(c)
  /\ UNCHANGED <<clock, store, mirror, saved, written, registeredKeys, scanLate, lateKeys>>

\* So does storing the attempt; the same catch block stores it again.
AttemptFails(c) ==
  /\ At(c, "attempt")
  /\ running' = [running EXCEPT ![c] = Failed(running[c], clock + 1)]
  /\ UNCHANGED <<clock, store, mirror, saved, histories>>

SaveScan(c) ==
  /\ At(c, "save")
  /\ saved' = running[c].state
  /\ lateKeys' = IF running[c].scanned THEN scanLate ELSE lateKeys
  /\ Awaited(c, IF running[c].mirrors THEN [running[c] EXCEPT !.pc = "copy"] ELSE NoDirectory)
  /\ UNCHANGED <<clock, store, mirror, written, registeredKeys, listed, scanLate>>

CopyToMirror(c) ==
  /\ At(c, "copy")
  /\ mirror' = [running[c].state EXCEPT !.mirror_dirty = FALSE]
  /\ running' = [running EXCEPT ![c] = NoDirectory]
  /\ UNCHANGED <<clock, store, saved, histories>>

----------------------------------------------------------------------------

\* An awaited call fails without effect, or the object is evicted.
Abort(c) ==
  /\ running[c] # NoDirectory
  /\ running' = [running EXCEPT ![c] = NoDirectory]
  /\ UNCHANGED <<clock, store, mirror, saved, histories>>

\* A writer that does not go through the directory.
WriteBeside(k) ==
  /\ k \notin store /\ Cardinality(lateKeys) < MaxLate
  /\ store' = store \cup {k}
  /\ lateKeys' = lateKeys \cup {k}
  /\ scanLate' = scanLate \cup {k}
  /\ UNCHANGED <<clock, mirror, saved, running, written, registeredKeys, listed>>

DirectoryTick ==
  /\ clock < MaxClock
  /\ clock' = clock + 1
  /\ listed' = IF (clock + 1) \div DayTicks = DirectoryDay THEN listed ELSE 0
  /\ UNCHANGED <<store, mirror, saved, running, written, registeredKeys, scanLate, lateKeys>>

\* The mirror a receiver before this one left by its own scan: none, the first
\* page, or everything there was.
Adoptable ==
  LET all == [Empty EXCEPT !.keys = store, !.complete = TRUE]
      first == [Empty EXCEPT !.keys = ListedPage(0), !.cursor = LastOf(ListedPage(0)), !.retry_at = 1]
  IN {NoDirectory} \cup {m \in {all} \cup (IF ListedPage(0) = store THEN {} ELSE {first}) :
                   Cardinality(m.keys) <= MaxKeys}

DirectoryInit ==
  /\ clock = 0
  /\ store \in SUBSET IndexedKeys
  /\ mirror \in Adoptable
  /\ saved = NoDirectory
  /\ running = [c \in Callers |-> NoDirectory]
  /\ written = {} /\ registeredKeys = {} /\ listed = 0
  /\ scanLate = {} /\ lateKeys = {}

PutStep(c) == Register(c) \/ WriteRecord(c) \/ MirrorPut(c) \/ Clean(c)
MaintainStep(c) ==
  SaveAttempt(c) \/ AttemptFails(c) \/ List(c) \/ ListFails(c) \/ SaveScan(c) \/ CopyToMirror(c)

DirectoryNext ==
  \/ \E c \in Callers, k \in IndexedKeys : StartPut(c, k)
  \/ \E c \in Callers, refresh \in BOOLEAN : StartMaintain(c, refresh)
  \/ \E c \in Callers : PutStep(c) \/ MaintainStep(c) \/ Abort(c)
  \/ \E k \in IndexedKeys : WriteBeside(k)
  \/ DirectoryTick

DirectorySpec == DirectoryInit /\ [][DirectoryNext]_directoryVars

----------------------------------------------------------------------------
(* Properties *)

\* A record the directory published can be discovered: its key is in the
\* manifest before the record is in KV, whatever runs, fails or crashes.
PublishedIsListed == written \subseteq Directory.keys

\* A complete directory lists every record, but for those other writers added
\* since its last complete scan began; so an answer without a record is no
\* empty success.
CompleteCovers == Directory.complete => store \subseteq Directory.keys \cup lateKeys

\* The namespace is listed at most Budget times on a day's account, crashes,
\* failed calls and requested scans included.
ListsWithinBudget == listed <= Budget

\* A registeredKeys key that the mirror lacks is marked for the next publisher, when
\* no command is at work on it.
DebtIsMarked ==
  (\A c \in Callers : running[c] = NoDirectory)
    => \A k \in registeredKeys :
         (mirror # NoDirectory => k \notin mirror.keys) => saved # NoDirectory /\ saved.mirror_dirty

\* A directory that was complete goes on serving its last complete list while a
\* new scan pages; only a failed scan takes it away.
ServesStep ==
  Directory.complete /\ ~Directory'.complete
    => \E c \in Callers : running[c] # NoDirectory /\ running[c].failed

\* kv-directory.md: "a failed mirror write leaves a persisted dirty marker for
\* retry", for every key of the manifest.
EveryDebtIsMarked ==
  (\A c \in Callers : running[c] = NoDirectory) /\ saved # NoDirectory
    => \A k \in saved.keys :
         (mirror # NoDirectory => k \notin mirror.keys) => saved.mirror_dirty
=============================================================================
