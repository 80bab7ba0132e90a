------------------------------ MODULE StoreProofs ------------------------------
(* Theorems about the discovery directory of KV and about what is stored of the   *)
(* reports of other systems, for any keys, publishers, reports and bounds.        *)
EXTENDS MCStores, FiniteSetTheorems, TLAPS

\* At most one command is at work.
OneAtWork ==
  \A c, other \in Callers :
    running[c] # NoDirectory /\ running[other] # NoDirectory => c = other

\* Every key up to the cursor is listed, but for what came while the scan ran.
Frontier(d) == \A k \in store : k <= d.cursor => k \in d.keys \cup scanLate

\* A complete manifest lists the records, but for what came since its last scan.
Covers(d) == d.complete => store \subseteq d.keys \cup lateKeys

\* The list calls of the day are on the manifest's account.
OnAccount(d, calls) == IF d.list_day = DirectoryDay THEN calls <= d.list_attempts ELSE listed = 0

\* The manifest a command finds is true of the records.
ManifestIsTrue ==
  /\ written \cup registeredKeys \subseteq Directory.keys
  /\ Frontier(Directory) /\ Covers(Directory) /\ OnAccount(Directory, listed)

\* Keys are registered in the object's own manifest, and a mirror is clean.
MirrorIsClean ==
  /\ saved = NoDirectory => registeredKeys = {}
  /\ mirror # NoDirectory => ~mirror.mirror_dirty

\* A registered key the mirror lacks is marked, also while commands run.
DebtIsKept ==
  \A k \in registeredKeys :
    (mirror # NoDirectory => k \notin mirror.keys) => saved # NoDirectory /\ saved.mirror_dirty

\* What the manifest of a command keeps of the one it found.
GoesOn(j) ==
  /\ Directory.keys \subseteq j.state.keys
  /\ Directory.mirror_dirty => j.state.mirror_dirty
  /\ Directory.complete /\ ~j.failed => j.state.complete

\* What a command holds is true of the records.
HoldsTrue(j) ==
  /\ Frontier(j.state)
  /\ IF j.pc = "save" /\ j.scanned
     THEN store \subseteq j.state.keys \cup scanLate
     ELSE Covers(j.state)
  /\ IF j.pc \in {"attempt", "list"}
     THEN j.state.list_attempts >= 1 /\ OnAccount(j.state, listed + 1)
     ELSE OnAccount(j.state, listed)

\* Where a command stands.
Stands(j) ==
  /\ j.pc \in {"register", "record"} => j.key \in j.state.keys /\ j.key \in IndexedKeys
  /\ j.pc = "register" => j.state.mirror_dirty
  /\ j.pc = "record" => /\ j.key \in Directory.keys
                        /\ j.state.mirror_dirty => saved # NoDirectory
  /\ j.pc \in {"mirror", "clean", "list", "copy"} => saved # NoDirectory
  /\ j.pc \in {"attempt", "list"} => ~j.scanned
  /\ j.pc = "list" => saved = j.state
  /\ j.pc = "clean" => mirror # NoDirectory /\ registeredKeys \subseteq mirror.keys

CommandsAreSound ==
  \A c \in Callers : running[c] # NoDirectory =>
    GoesOn(running[c]) /\ HoldsTrue(running[c]) /\ Stands(running[c])

DirectoryInvariant ==
  /\ DirectoryTypeOK /\ OneAtWork
  /\ ManifestIsTrue /\ MirrorIsClean /\ DebtIsKept
  /\ CommandsAreSound

----------------------------------------------------------------------------
(* Finite sets of numbers, and the page a list call answers *)

LessThan == {x \in Nat \X Nat : x[1] < x[2]}

\* A set of numbers that is not empty has a least.
LEMMA LeastOf ==
  ASSUME NEW S, S \subseteq Nat, S # {}
  PROVE  \E x \in S : \A y \in S : x <= y
<1>1. IsWellFoundedOn(LessThan, Nat)
  BY NatLessThanWellFounded DEF OpToRel, LessThan
<1>2. PICK x \in S : \A y \in S : ~(<<y, x>> \in LessThan)
  BY <1>1, WFMin
<1>3. ASSUME NEW y \in S PROVE x <= y
  <2>1. /\ <<y, x>> \in Nat \X Nat /\ <<y, x>>[1] = y /\ <<y, x>>[2] = x
        /\ x \in Int /\ y \in Int
    OBVIOUS
  <2>2. ~(y < x)
    BY <1>2, <2>1, Zenon DEF LessThan
  <2> QED BY <2>1, <2>2
<1> QED BY <1>3

\* A finite one has a greatest: if each number had a next, the map to it would be
\* an injection of the set into itself that misses the least.
LEMMA GreatestOf ==
  ASSUME NEW S, S \subseteq Nat, S # {}, IsFiniteSet(S)
  PROVE  \E x \in S : \A y \in S : y <= x
<1>1. SUFFICES ASSUME \A x \in S : \E y \in S : ~(y <= x) PROVE FALSE
  OBVIOUS
<1>2. \A x \in S : \E y \in S : x < y /\ \A z \in S : x < z => y <= z
  <2>1. TAKE x \in S
  <2>2. PICK T : T = {y \in S : x < y}
    OBVIOUS
  <2>3. T # {} /\ T \subseteq Nat
    <3>1. PICK y \in S : ~(y <= x)
      BY <1>1, <2>1
    <3>2. x < y
      BY <3>1
    <3> QED BY <2>2, <3>2
  <2>4. PICK y \in T : \A z \in T : y <= z
    BY <2>3, LeastOf
  <2> QED BY <2>2, <2>4
<1>3. PICK f \in [S -> S] : \A x \in S : x < f[x] /\ \A z \in S : x < z => f[x] <= z
  <2>1. [x \in S |-> CHOOSE y \in S : x < y /\ \A z \in S : x < z => y <= z] \in [S -> S]
    BY <1>2
  <2> QED BY <1>2, <2>1
<1>4. f \in Injection(S, S)
  <2>1. \A x, y \in S : f[x] = f[y] => x = y
    <3>1. ASSUME NEW x \in S, NEW y \in S, f[x] = f[y], x < y PROVE FALSE
      <4>1. f[x] <= y /\ y < f[y] /\ f[x] \in Nat /\ y \in Nat
        BY <1>3, <3>1
      <4> QED BY <4>1, <3>1
    <3> QED BY <3>1
  <2> QED BY <2>1 DEF Injection, IsInjective
<1>5. f \in Surjection(S, S)
  BY <1>4, FS_Injection
<1>6. PICK x \in S : \A y \in S : x <= y
  BY LeastOf
<1>7. PICK y \in S : f[y] = x
  BY <1>5 DEF Surjection
<1>8. y < x /\ x <= y
  BY <1>3, <1>6, <1>7
<1> QED BY <1>8

\* A page past a cursor: if any key is left it has one, and it holds every key past
\* the cursor up to its last.
LEMMA PageIsNext ==
  ASSUME store \subseteq IndexedKeys, NEW cursor \in Nat, PastCursor(cursor) # {}
  PROVE  /\ ListedPage(cursor) # {} /\ LastOf(ListedPage(cursor)) \in ListedPage(cursor)
         /\ \A k \in PastCursor(cursor) : k <= LastOf(ListedPage(cursor)) => k \in ListedPage(cursor)
<1> DEFINE past == PastCursor(cursor)
           upTo(k) == {i \in past : i <= k}
<1>1. past \subseteq Nat /\ IsFiniteSet(past)
  BY DirectoryNumbers, FS_Subset DEF PastCursor
<1>2. \A k \in past : IsFiniteSet(upTo(k)) /\ Cardinality(upTo(k)) \in Nat
  BY <1>1, FS_Subset, FS_CardinalityType
<1>3. ListedPage(cursor) # {}
  <2>1. PICK k \in past : \A i \in past : k <= i
    BY <1>1, LeastOf
  <2>2. upTo(k) = {k}
    BY <1>1, <2>1
  <2>3. Cardinality(upTo(k)) <= PageSize
    BY <2>2, FS_Singleton, DirectoryNumbers
  <2> QED BY <2>3 DEF ListedPage
<1>4. ListedPage(cursor) \subseteq past
  BY DEF ListedPage
<1>5. IsFiniteSet(ListedPage(cursor))
  BY <1>1, <1>4, FS_Subset
<1>6. PICK last \in ListedPage(cursor) : \A i \in ListedPage(cursor) : i <= last
  BY <1>1, <1>3, <1>4, <1>5, GreatestOf
<1>7. LastOf(ListedPage(cursor)) \in ListedPage(cursor)
  BY <1>6 DEF LastOf
<1>8. ASSUME NEW k \in past, NEW last2 \in ListedPage(cursor), k <= last2
      PROVE  k \in ListedPage(cursor)
  <2>1. upTo(k) \subseteq upTo(last2)
    BY <1>1, <1>4, <1>8
  <2>2. Cardinality(upTo(k)) <= Cardinality(upTo(last2))
    BY <1>2, <1>4, <2>1, FS_Subset
  <2>3. Cardinality(upTo(last2)) <= PageSize
    BY DEF ListedPage
  <2>4. Cardinality(upTo(k)) <= PageSize
    BY <1>2, <1>4, <2>2, <2>3, DirectoryNumbers
  <2> QED BY <2>4 DEF ListedPage
<1> QED BY <1>3, <1>7, <1>8

----------------------------------------------------------------------------
(* What a command finds and holds *)

LEMMA DirectoryTyped ==
  ASSUME DirectoryTypeOK
  PROVE  Directory \in Manifest
<1>1. Empty \in Manifest
  BY DirectoryNumbers DEF Empty, Manifest
<1> QED BY <1>1 DEF DirectoryTypeOK, Directory

\* A command at work is the only one, and it and its manifest are sound.
LEMMA AtWork ==
  ASSUME DirectoryInvariant, NEW c \in Callers, running[c] # NoDirectory
  PROVE  /\ running[c] \in DirectoryJob /\ running[c].state \in Manifest
         /\ \A other \in Callers \ {c} : running[other] = NoDirectory
         /\ GoesOn(running[c]) /\ HoldsTrue(running[c]) /\ Stands(running[c])
<1>1. running[c] \in DirectoryJob
  BY DEF DirectoryInvariant, DirectoryTypeOK
<1>2. running[c].state \in Manifest
  BY <1>1 DEF DirectoryJob
<1>3. \A other \in Callers \ {c} : running[other] = NoDirectory
  BY DEF DirectoryInvariant, OneAtWork
<1>4. GoesOn(running[c]) /\ HoldsTrue(running[c]) /\ Stands(running[c])
  BY DEF DirectoryInvariant, CommandsAreSound
<1> QED BY <1>1, <1>2, <1>3, <1>4

\* After a step of the only command, the commands are sound when what it became is.
LEMMA Onward ==
  ASSUME DirectoryInvariant, NEW c \in Callers,
         \A other \in Callers \ {c} : running[other] = NoDirectory,
         NEW j \in DirectoryJob, Awaited(c, j), GoesOn(j)', HoldsTrue(j)', Stands(j)'
  PROVE  /\ running' \in [Callers -> DirectoryJob \cup {NoDirectory}]
         /\ OneAtWork' /\ CommandsAreSound'
<1>1. /\ running' \in [Callers -> DirectoryJob \cup {NoDirectory}]
      /\ running'[c] \in {j, NoDirectory}
      /\ \A other \in Callers \ {c} : running'[other] = NoDirectory
  BY DEF Awaited, DirectoryInvariant, DirectoryTypeOK
<1>2. OneAtWork'
  BY <1>1 DEF OneAtWork
<1>3. CommandsAreSound'
  <2>1. \A d \in Callers : running'[d] # NoDirectory => running'[d] = j
    BY <1>1
  <2> QED BY <2>1 DEF CommandsAreSound, GoesOn, HoldsTrue, Stands, Frontier, Covers, OnAccount
<1> QED BY <1>1, <1>2, <1>3

\* The command ends.
LEMMA Ended ==
  ASSUME DirectoryInvariant, NEW c \in Callers,
         \A other \in Callers \ {c} : running[other] = NoDirectory,
         running' = [running EXCEPT ![c] = NoDirectory]
  PROVE  /\ running' \in [Callers -> DirectoryJob \cup {NoDirectory}]
         /\ OneAtWork' /\ CommandsAreSound'
<1>1. /\ running' \in [Callers -> DirectoryJob \cup {NoDirectory}]
      /\ \A other \in Callers : running'[other] = NoDirectory
  BY DEF DirectoryInvariant, DirectoryTypeOK
<1>2. OneAtWork' /\ CommandsAreSound'
  BY <1>1 DEF OneAtWork, CommandsAreSound
<1> QED BY <1>1, <1>2

----------------------------------------------------------------------------
(* Init *)

LEMMA DirectoryStarts == DirectoryInit => DirectoryInvariant
<1> SUFFICES ASSUME DirectoryInit PROVE DirectoryInvariant
  OBVIOUS
<1>1. /\ clock = 0 /\ store \subseteq IndexedKeys /\ saved = NoDirectory
      /\ running = [c \in Callers |-> NoDirectory]
      /\ written = {} /\ registeredKeys = {} /\ listed = 0 /\ scanLate = {} /\ lateKeys = {}
  BY DEF DirectoryInit
<1>2. Empty \in Manifest
  BY DirectoryNumbers DEF Empty, Manifest
<1>3. \/ mirror = NoDirectory
      \/ mirror = [Empty EXCEPT !.keys = store, !.complete = TRUE]
      \/ /\ ListedPage(0) # store
         /\ mirror = [Empty EXCEPT !.keys = ListedPage(0), !.cursor = LastOf(ListedPage(0)), !.retry_at = 1]
  BY DEF DirectoryInit, Adoptable
<1>4. ListedPage(0) \subseteq store
  BY DEF ListedPage, PastCursor
<1>5. PastCursor(0) = store
  <2>1. \A k \in store : k \in Nat /\ k > 0
    BY <1>1, DirectoryNumbers
  <2> QED BY <2>1 DEF PastCursor
<1>6. IF mirror = NoDirectory THEN Directory = Empty ELSE Directory = mirror
  BY <1>1 DEF Directory
<1>7. /\ Directory \in Manifest /\ ~Directory.mirror_dirty
      /\ Directory.list_attempts = 0 /\ Directory.list_day = 0
      /\ Directory.complete => Directory.keys = store
      /\ Directory.cursor # 0 => /\ store # {} /\ Directory.keys = ListedPage(0)
                                 /\ Directory.cursor = LastOf(ListedPage(0))
  <2>1. CASE mirror = NoDirectory
    <3>1. Directory = Empty
      BY <1>6, <2>1
    <3> QED BY <1>2, <3>1 DEF Empty
  <2>2. CASE mirror = [Empty EXCEPT !.keys = store, !.complete = TRUE]
    BY <1>1, <1>2, <1>6, <2>2, NoDirectoryIsNone DEF Empty, Manifest
  <2>3. CASE /\ ListedPage(0) # store
             /\ mirror = [Empty EXCEPT !.keys = ListedPage(0), !.cursor = LastOf(ListedPage(0)), !.retry_at = 1]
    <3>1. LastOf(ListedPage(0)) \in IndexedKeys /\ store # {}
      BY <1>1, <1>4, <1>5, <2>3, PageIsNext
    <3>2. mirror \in Manifest
      BY <1>1, <1>2, <1>4, <2>3, <3>1 DEF Empty, Manifest
    <3> QED BY <1>6, <2>3, <3>1, <3>2, NoDirectoryIsNone DEF Empty
  <2> QED BY <1>3, <2>1, <2>2, <2>3
<1>8. DirectoryTypeOK
  <2>1. mirror # NoDirectory => mirror \in Manifest
    BY <1>6, <1>7
  <2> QED BY <1>1, <2>1, DirectoryNumbers DEF DirectoryTypeOK
<1>9. Frontier(Directory)
  <2>1. CASE Directory.cursor = 0
    BY <1>1, <2>1, DirectoryNumbers DEF Frontier
  <2>2. CASE Directory.cursor # 0
    BY <1>1, <1>5, <1>7, <2>2, PageIsNext DEF Frontier
  <2> QED BY <2>1, <2>2
<1>10. ManifestIsTrue
  BY <1>1, <1>7, <1>9 DEF ManifestIsTrue, Covers, OnAccount
<1>11. MirrorIsClean /\ DebtIsKept /\ OneAtWork /\ CommandsAreSound
  BY <1>1, <1>6, <1>7 DEF MirrorIsClean, DebtIsKept, OneAtWork, CommandsAreSound
<1> QED BY <1>8, <1>10, <1>11 DEF DirectoryInvariant

----------------------------------------------------------------------------
(* put *)

\* A step that changes nothing but what runs keeps the rest.
LEMMA OnlyRunning ==
  ASSUME DirectoryInvariant, UNCHANGED <<clock, store, mirror, saved, histories>>,
         running' \in [Callers -> DirectoryJob \cup {NoDirectory}], OneAtWork', CommandsAreSound'
  PROVE  DirectoryInvariant'
<1>1. DirectoryTypeOK'
  BY DEF DirectoryInvariant, DirectoryTypeOK, histories
<1>2. ManifestIsTrue' /\ MirrorIsClean' /\ DebtIsKept'
  BY DEF DirectoryInvariant, ManifestIsTrue, MirrorIsClean, DebtIsKept, histories, Directory,
         Frontier, Covers, OnAccount, DirectoryDay
<1> QED BY <1>1, <1>2 DEF DirectoryInvariant

LEMMA StartPutKeeps ==
  ASSUME DirectoryInvariant, NEW c \in Callers, NEW k \in IndexedKeys, StartPut(c, k)
  PROVE  DirectoryInvariant'
<1>1. PICK d : d = Directory
  OBVIOUS
<1>2. d \in Manifest
  BY <1>1, DirectoryTyped DEF DirectoryInvariant
<1>3. PICK new \in BOOLEAN : new = (k \notin d.keys)
  OBVIOUS
<1>4. PICK s \in Manifest : s = [d EXCEPT !.keys = @ \cup {k}, !.mirror_dirty = @ \/ new]
  BY <1>2 DEF Manifest
<1>5. /\ s.keys = d.keys \cup {k} /\ s.mirror_dirty = (d.mirror_dirty \/ new)
      /\ s.complete = d.complete /\ s.cursor = d.cursor
      /\ s.list_day = d.list_day /\ s.list_attempts = d.list_attempts
  BY <1>2, <1>4 DEF Manifest
<1>6. PICK j : j = [state |-> s, key |-> k, mirrors |-> FALSE, scanned |-> FALSE, failed |-> FALSE,
                    pc |-> IF new THEN "register" ELSE "record"]
  OBVIOUS
<1>7. /\ j \in DirectoryJob /\ j.state = s /\ j.key = k
      /\ j.scanned = FALSE /\ j.pc = IF new THEN "register" ELSE "record"
  BY <1>6 DEF DirectoryJob
<1>8. running' = [running EXCEPT ![c] = j] /\ UNCHANGED <<clock, store, mirror, saved, histories>>
  BY <1>1, <1>3, <1>4, <1>6 DEF StartPut
<1>9. Directory' = d
  BY <1>1, <1>8 DEF Directory
<1>10. GoesOn(j)'
  BY <1>5, <1>7, <1>9 DEF GoesOn
<1>11. HoldsTrue(j)'
  <2>1. Frontier(d) /\ Covers(d) /\ OnAccount(d, listed)
    BY <1>1 DEF DirectoryInvariant, ManifestIsTrue
  <2>2. Frontier(s) /\ Covers(s) /\ OnAccount(s, listed)
    BY <2>1, <1>5 DEF Frontier, Covers, OnAccount
  <2> QED BY <2>2, <1>7, <1>8 DEF HoldsTrue, Frontier, Covers, OnAccount, DirectoryDay, histories
<1>12. Stands(j)'
  <2>1. d.mirror_dirty => saved # NoDirectory
    BY <1>1 DEF Directory, DirectoryInvariant, MirrorIsClean, Empty
  <2> QED BY <2>1, <1>3, <1>5, <1>7, <1>8, <1>9 DEF Stands
<1>13. \A other \in Callers \ {c} : running[other] = NoDirectory
  BY DEF StartPut, MayStart
<1>14. Awaited(c, j)
  BY <1>8 DEF Awaited
<1> QED BY <1>7, <1>8, <1>10, <1>11, <1>12, <1>13, <1>14, Onward, OnlyRunning

\* Storing a command's manifest makes it the directory.
LEMMA StoredIsFound ==
  ASSUME NEW s \in Manifest, saved' = s
  PROVE  Directory' = s /\ saved' # NoDirectory
BY NoDirectoryIsNone DEF Directory

LEMMA RegisterKeeps ==
  ASSUME DirectoryInvariant, NEW c \in Callers, Register(c)
  PROVE  DirectoryInvariant'
<1>1. PICK i : i = running[c]
  OBVIOUS
<1>2. i # NoDirectory /\ i.pc = "register"
  BY <1>1 DEF Register, At
<1>3. /\ i \in DirectoryJob /\ i.state \in Manifest
      /\ \A other \in Callers \ {c} : running[other] = NoDirectory
      /\ GoesOn(i) /\ HoldsTrue(i) /\ Stands(i)
  BY <1>1, <1>2, AtWork
<1>4. PICK s \in Manifest : s = i.state
  BY <1>3
<1>5. PICK j \in DirectoryJob : j = [i EXCEPT !.pc = "record"]
  BY <1>3 DEF DirectoryJob
<1>6. j.pc = "record" /\ j.state = s /\ j.key = i.key /\ j.scanned = i.scanned /\ j.failed = i.failed
  BY <1>3, <1>4, <1>5 DEF DirectoryJob
<1>7. /\ saved' = s /\ registeredKeys' = registeredKeys \cup {i.key} /\ Awaited(c, j)
      /\ UNCHANGED <<clock, store, mirror, written, listed, scanLate, lateKeys>>
  BY <1>1, <1>4, <1>5 DEF Register
<1>8. Directory' = s /\ saved' # NoDirectory
  BY <1>7, StoredIsFound
<1>9. Directory.keys \subseteq s.keys /\ i.key \in s.keys /\ i.key \in IndexedKeys /\ s.mirror_dirty
  BY <1>2, <1>3, <1>4 DEF GoesOn, Stands
<1>10. Frontier(s) /\ Covers(s) /\ OnAccount(s, listed)
  BY <1>2, <1>3, <1>4 DEF HoldsTrue
<1>11. (Frontier(s) /\ Covers(s) /\ OnAccount(s, listed))'
  BY <1>7, <1>10 DEF Frontier, Covers, OnAccount, DirectoryDay
<1>12. ManifestIsTrue'
  BY <1>7, <1>8, <1>9, <1>11 DEF ManifestIsTrue, DirectoryInvariant
<1>13. MirrorIsClean' /\ DebtIsKept'
  BY <1>7, <1>8, <1>9 DEF MirrorIsClean, DebtIsKept, DirectoryInvariant
<1>14. GoesOn(j)' /\ HoldsTrue(j)' /\ Stands(j)'
  BY <1>6, <1>8, <1>9, <1>11 DEF GoesOn, HoldsTrue, Stands
<1>15. running' \in [Callers -> DirectoryJob \cup {NoDirectory}] /\ OneAtWork' /\ CommandsAreSound'
  BY <1>3, <1>7, <1>14, Onward
<1>16. DirectoryTypeOK'
  BY <1>7, <1>9, <1>15 DEF DirectoryTypeOK, DirectoryInvariant
<1> QED BY <1>12, <1>13, <1>15, <1>16 DEF DirectoryInvariant

LEMMA WriteRecordKeeps ==
  ASSUME DirectoryInvariant, NEW c \in Callers, WriteRecord(c)
  PROVE  DirectoryInvariant'
<1>1. PICK i : i = running[c]
  OBVIOUS
<1>2. i # NoDirectory /\ i.pc = "record"
  BY <1>1 DEF WriteRecord, At
<1>3. /\ i \in DirectoryJob /\ i.state \in Manifest
      /\ \A other \in Callers \ {c} : running[other] = NoDirectory
      /\ GoesOn(i) /\ HoldsTrue(i) /\ Stands(i)
  BY <1>1, <1>2, AtWork
<1>4. PICK s \in Manifest : s = i.state
  BY <1>3
<1>5. PICK j \in DirectoryJob : j = [i EXCEPT !.pc = "mirror"]
  BY <1>3 DEF DirectoryJob
<1>6. j.pc = "mirror" /\ j.state = s /\ j.key = i.key /\ j.scanned = i.scanned /\ j.failed = i.failed
  BY <1>3, <1>4, <1>5 DEF DirectoryJob
<1>7. /\ store' = store \cup {i.key} /\ written' = written \cup {i.key}
      /\ UNCHANGED <<clock, mirror, saved, registeredKeys, listed, scanLate, lateKeys>>
      /\ \/ running' = [running EXCEPT ![c] = NoDirectory]
         \/ s.mirror_dirty /\ Awaited(c, j)
  BY <1>1, <1>4, <1>5 DEF WriteRecord, Awaited
<1>8. Directory' = Directory
  BY <1>7 DEF Directory
<1>9. /\ i.key \in IndexedKeys /\ i.key \in s.keys /\ i.key \in Directory.keys
      /\ s.mirror_dirty => saved # NoDirectory
  BY <1>2, <1>3, <1>4 DEF Stands
<1>10. Frontier(s) /\ Covers(s) /\ OnAccount(s, listed)
  BY <1>2, <1>3, <1>4 DEF HoldsTrue
<1>11. (Frontier(s) /\ Covers(s) /\ OnAccount(s, listed))'
  BY <1>7, <1>9, <1>10 DEF Frontier, Covers, OnAccount, DirectoryDay
<1>12. ManifestIsTrue'
  <2>1. written' \cup registeredKeys' \subseteq Directory.keys
    BY <1>7, <1>9 DEF ManifestIsTrue, DirectoryInvariant
  <2>2. (Frontier(Directory) /\ Covers(Directory) /\ OnAccount(Directory, listed))'
    BY <1>7, <1>8, <1>9 DEF ManifestIsTrue, DirectoryInvariant, Frontier, Covers, OnAccount, DirectoryDay
  <2> QED BY <1>8, <2>1, <2>2 DEF ManifestIsTrue
<1>13. MirrorIsClean' /\ DebtIsKept'
  BY <1>7 DEF MirrorIsClean, DebtIsKept, DirectoryInvariant
<1>14. s.mirror_dirty => GoesOn(j)' /\ HoldsTrue(j)' /\ Stands(j)'
  BY <1>3, <1>4, <1>6, <1>7, <1>8, <1>9, <1>11 DEF GoesOn, HoldsTrue, Stands
<1>15. running' \in [Callers -> DirectoryJob \cup {NoDirectory}] /\ OneAtWork' /\ CommandsAreSound'
  BY <1>3, <1>7, <1>14, Onward, Ended
<1>16. DirectoryTypeOK'
  BY <1>7, <1>9, <1>15 DEF DirectoryTypeOK, DirectoryInvariant
<1> QED BY <1>12, <1>13, <1>15, <1>16 DEF DirectoryInvariant

\* A mirror that is written while the object has its own manifest changes nothing
\* a command finds.
LEMMA MirrorWritten ==
  ASSUME DirectoryInvariant, NEW s \in Manifest, GoesOn([state |-> s, failed |-> TRUE]),
         mirror' = [s EXCEPT !.mirror_dirty = FALSE], saved # NoDirectory,
         UNCHANGED <<clock, store, saved, histories>>
  PROVE  /\ mirror' \in Manifest /\ registeredKeys \subseteq mirror'.keys
         /\ Directory' = Directory /\ ManifestIsTrue' /\ MirrorIsClean' /\ DebtIsKept'
<1>1. /\ mirror' \in Manifest /\ mirror'.keys = s.keys /\ mirror'.mirror_dirty = FALSE
  BY DEF Manifest
<1>2. Directory' = Directory
  BY DEF Directory
<1>3. registeredKeys \subseteq s.keys
  BY DEF GoesOn, DirectoryInvariant, ManifestIsTrue
<1>4. ManifestIsTrue'
  BY <1>2 DEF DirectoryInvariant, ManifestIsTrue, Frontier, Covers, OnAccount, DirectoryDay, histories
<1>5. MirrorIsClean' /\ DebtIsKept'
  BY <1>1, <1>3, NoDirectoryIsNone DEF MirrorIsClean, DebtIsKept, DirectoryInvariant, histories
<1> QED BY <1>1, <1>2, <1>3, <1>4, <1>5

LEMMA MirrorPutKeeps ==
  ASSUME DirectoryInvariant, NEW c \in Callers, MirrorPut(c)
  PROVE  DirectoryInvariant'
<1>1. PICK i : i = running[c]
  OBVIOUS
<1>2. i # NoDirectory /\ i.pc = "mirror"
  BY <1>1 DEF MirrorPut, At
<1>3. /\ i \in DirectoryJob /\ i.state \in Manifest
      /\ \A other \in Callers \ {c} : running[other] = NoDirectory
      /\ GoesOn(i) /\ HoldsTrue(i) /\ Stands(i)
  BY <1>1, <1>2, AtWork
<1>4. PICK s \in Manifest : s = i.state
  BY <1>3
<1>5. PICK j \in DirectoryJob : j = [i EXCEPT !.pc = "clean"]
  BY <1>3 DEF DirectoryJob
<1>6. j.pc = "clean" /\ j.state = s /\ j.key = i.key /\ j.scanned = i.scanned /\ j.failed = i.failed
  BY <1>3, <1>4, <1>5 DEF DirectoryJob
<1>7. /\ mirror' = [s EXCEPT !.mirror_dirty = FALSE] /\ Awaited(c, j)
      /\ UNCHANGED <<clock, store, saved, histories>>
  BY <1>1, <1>4, <1>5 DEF MirrorPut
<1>8. saved # NoDirectory /\ GoesOn([state |-> s, failed |-> TRUE])
  BY <1>2, <1>3, <1>4 DEF Stands, GoesOn
<1>9. /\ mirror' \in Manifest /\ registeredKeys \subseteq mirror'.keys
      /\ Directory' = Directory /\ ManifestIsTrue' /\ MirrorIsClean' /\ DebtIsKept'
  BY <1>7, <1>8, MirrorWritten
<1>10. GoesOn(j)' /\ HoldsTrue(j)'
  BY <1>2, <1>3, <1>4, <1>6, <1>7, <1>9
     DEF GoesOn, HoldsTrue, Frontier, Covers, OnAccount, DirectoryDay, histories
<1>11. Stands(j)'
  BY <1>6, <1>7, <1>8, <1>9, NoDirectoryIsNone DEF Stands, histories
<1>12. running' \in [Callers -> DirectoryJob \cup {NoDirectory}] /\ OneAtWork' /\ CommandsAreSound'
  BY <1>3, <1>7, <1>10, <1>11, Onward
<1>13. DirectoryTypeOK'
  BY <1>7, <1>9, <1>12 DEF DirectoryTypeOK, DirectoryInvariant, histories
<1> QED BY <1>9, <1>12, <1>13 DEF DirectoryInvariant

LEMMA CleanKeeps ==
  ASSUME DirectoryInvariant, NEW c \in Callers, Clean(c)
  PROVE  DirectoryInvariant'
<1>1. PICK i : i = running[c]
  OBVIOUS
<1>2. i # NoDirectory /\ i.pc = "clean"
  BY <1>1 DEF Clean, At
<1>3. /\ i \in DirectoryJob /\ i.state \in Manifest
      /\ \A other \in Callers \ {c} : running[other] = NoDirectory
      /\ GoesOn(i) /\ HoldsTrue(i) /\ Stands(i)
  BY <1>1, <1>2, AtWork
<1>4. PICK s \in Manifest : s = [i.state EXCEPT !.mirror_dirty = FALSE]
  BY <1>3 DEF Manifest
<1>5. /\ s.keys = i.state.keys /\ s.complete = i.state.complete /\ s.cursor = i.state.cursor
      /\ s.list_day = i.state.list_day /\ s.list_attempts = i.state.list_attempts
  BY <1>3, <1>4 DEF Manifest
<1>6. /\ saved' = s /\ running' = [running EXCEPT ![c] = NoDirectory]
      /\ UNCHANGED <<clock, store, mirror, histories>>
  BY <1>1, <1>4 DEF Clean
<1>7. Directory' = s /\ saved' # NoDirectory
  BY <1>6, StoredIsFound
<1>8. /\ Directory.keys \subseteq s.keys
      /\ mirror # NoDirectory /\ registeredKeys \subseteq mirror.keys
  BY <1>2, <1>3, <1>5 DEF GoesOn, Stands
<1>9. Frontier(s) /\ Covers(s) /\ OnAccount(s, listed)
  BY <1>2, <1>3, <1>5 DEF HoldsTrue, Frontier, Covers, OnAccount
<1>10. (Frontier(s) /\ Covers(s) /\ OnAccount(s, listed))'
  BY <1>6, <1>9 DEF Frontier, Covers, OnAccount, DirectoryDay, histories
<1>11. ManifestIsTrue'
  BY <1>6, <1>7, <1>8, <1>10 DEF ManifestIsTrue, DirectoryInvariant, histories
<1>12. MirrorIsClean' /\ DebtIsKept'
  BY <1>6, <1>7, <1>8 DEF MirrorIsClean, DebtIsKept, DirectoryInvariant, histories
<1>13. running' \in [Callers -> DirectoryJob \cup {NoDirectory}] /\ OneAtWork' /\ CommandsAreSound'
  BY <1>3, <1>6, Ended
<1>14. DirectoryTypeOK'
  BY <1>6, <1>13 DEF DirectoryTypeOK, DirectoryInvariant, histories
<1> QED BY <1>11, <1>12, <1>13, <1>14 DEF DirectoryInvariant

----------------------------------------------------------------------------
(* maintain *)

\* A command that fails keeps the keys, the cursor and the account it holds.
LEMMA FailedJob ==
  ASSUME NEW i \in DirectoryJob, NEW delay \in Nat
  PROVE  /\ Failed(i, delay) \in DirectoryJob
         /\ Failed(i, delay).pc = "save" /\ Failed(i, delay).failed = TRUE
         /\ Failed(i, delay).scanned = i.scanned
         /\ Failed(i, delay).state.complete = FALSE
         /\ Failed(i, delay).state.keys = i.state.keys
         /\ Failed(i, delay).state.cursor = i.state.cursor
         /\ Failed(i, delay).state.mirror_dirty = i.state.mirror_dirty
         /\ Failed(i, delay).state.list_day = i.state.list_day
         /\ Failed(i, delay).state.list_attempts = i.state.list_attempts
<1>1. PICK s : s = i.state
  OBVIOUS
<1>2. s \in Manifest
  BY <1>1 DEF DirectoryJob
<1>3. PICK t \in Manifest : t = [s EXCEPT !.complete = FALSE, !.retry_at = delay]
  BY <1>2 DEF Manifest
<1>4. /\ t.complete = FALSE /\ t.keys = s.keys /\ t.cursor = s.cursor /\ t.mirror_dirty = s.mirror_dirty
      /\ t.list_day = s.list_day /\ t.list_attempts = s.list_attempts
  BY <1>2, <1>3 DEF Manifest
<1>5. Failed(i, delay) = [i EXCEPT !.state = t, !.mirrors = TRUE, !.failed = TRUE, !.pc = "save"]
  BY <1>1, <1>3 DEF Failed, DirectoryJob
<1>6. PICK f \in DirectoryJob : f = [i EXCEPT !.state = t, !.mirrors = TRUE, !.failed = TRUE, !.pc = "save"]
  BY DEF DirectoryJob
<1>7. f.pc = "save" /\ f.failed = TRUE /\ f.scanned = i.scanned /\ f.state = t
  BY <1>6 DEF DirectoryJob
<1> QED BY <1>1, <1>4, <1>5, <1>6, <1>7

\* The times of a retry are numbers.
LEMMA RetryTimes ==
  ASSUME DirectoryTypeOK
  PROVE  DirectoryDay \in Nat /\ NextReset \in Nat /\ clock + 1 \in Nat
<1>1. clock \in Nat /\ DayTicks \in Nat \ {0} /\ MaxClock \in Nat
  BY DirectoryNumbers DEF DirectoryTypeOK
<1>2. clock \div DayTicks \in Nat
  BY <1>1
<1> QED BY <1>1, <1>2 DEF NextReset, DirectoryDay

\* Counting an attempt puts one more call than were made on the day's account.
LEMMA CountedAttempt ==
  ASSUME DirectoryTypeOK, NEW d \in Manifest, ~Exhausted(d), OnAccount(d, listed)
  PROVE  /\ Counted(d) \in Manifest /\ Counted(d).list_attempts >= 1 /\ OnAccount(Counted(d), listed + 1)
         /\ Counted(d).keys = d.keys /\ Counted(d).complete = d.complete /\ Counted(d).cursor = d.cursor
         /\ Counted(d).mirror_dirty = d.mirror_dirty
<1>1. PICK day \in Nat : day = DirectoryDay
  BY RetryTimes
<1>2. PICK n : n = (IF d.list_day = day THEN d.list_attempts ELSE 0) + 1
  OBVIOUS
<1>3. /\ d.list_attempts \in 0..Budget /\ d.list_day \in Nat /\ Budget \in Nat \ {0} /\ listed \in Nat
      /\ d.list_day = day => d.list_attempts < Budget
  BY <1>1, DirectoryNumbers DEF Manifest, Exhausted, DirectoryTypeOK
<1>4. n \in 0..Budget /\ n >= 1
  BY <1>2, <1>3
<1>5. Counted(d) = [d EXCEPT !.list_day = day, !.list_attempts = n]
  BY <1>1, <1>2 DEF Counted, Manifest
<1>6. PICK e \in Manifest : e = [d EXCEPT !.list_day = day, !.list_attempts = n]
  BY <1>4 DEF Manifest
<1>7. /\ e.keys = d.keys /\ e.complete = d.complete /\ e.cursor = d.cursor
      /\ e.mirror_dirty = d.mirror_dirty /\ e.list_day = day /\ e.list_attempts = n
  BY <1>6 DEF Manifest
<1>8. listed + 1 <= n
  BY <1>1, <1>2, <1>3 DEF OnAccount
<1> QED BY <1>1, <1>4, <1>5, <1>6, <1>7, <1>8 DEF OnAccount

LEMMA StartMaintainKeeps ==
  ASSUME DirectoryInvariant, NEW c \in Callers, NEW refresh \in BOOLEAN, StartMaintain(c, refresh)
  PROVE  DirectoryInvariant'
<1>1. PICK d : d = Directory
  OBVIOUS
<1>2. /\ d \in Manifest /\ DirectoryTypeOK
      /\ Frontier(d) /\ Covers(d) /\ OnAccount(d, listed)
  BY <1>1, DirectoryTyped DEF DirectoryInvariant, ManifestIsTrue
<1>3. PICK start \in DirectoryJob :
        start = [state |-> d, key |-> 0, mirrors |-> FALSE, scanned |-> FALSE, failed |-> FALSE, pc |-> "attempt"]
  BY <1>2 DEF DirectoryJob
<1>4. PICK j : j = IF Exhausted(d) THEN Failed(start, NextReset) ELSE [start EXCEPT !.state = Counted(@)]
  OBVIOUS
<1>5. running' = [running EXCEPT ![c] = j] /\ UNCHANGED <<clock, store, mirror, saved, histories>>
  BY <1>1, <1>3, <1>4 DEF StartMaintain
<1>6. Directory' = d
  BY <1>1, <1>5 DEF Directory
<1>7. j \in DirectoryJob /\ GoesOn(j)' /\ HoldsTrue(j)' /\ Stands(j)'
  <2>1. CASE Exhausted(d)
    <3>0. /\ j = Failed(start, NextReset) /\ start.state = d /\ start.scanned = FALSE /\ NextReset \in Nat
      BY <1>2, <1>3, <1>4, <2>1, RetryTimes
    <3>1. /\ j \in DirectoryJob /\ j.pc = "save" /\ j.failed = TRUE /\ j.scanned = FALSE
          /\ j.state.complete = FALSE /\ j.state.keys = d.keys /\ j.state.cursor = d.cursor
          /\ j.state.mirror_dirty = d.mirror_dirty
          /\ j.state.list_day = d.list_day /\ j.state.list_attempts = d.list_attempts
      BY <3>0, FailedJob
    <3>2. GoesOn(j)' /\ Stands(j)'
      BY <3>1, <1>6 DEF GoesOn, Stands
    <3>3. HoldsTrue(j)'
      BY <3>1, <1>2, <1>5 DEF HoldsTrue, Frontier, Covers, OnAccount, DirectoryDay, histories
    <3> QED BY <3>1, <3>2, <3>3
  <2>2. CASE ~Exhausted(d)
    <3>1. PICK e \in Manifest : e = Counted(d)
      BY <1>2, <2>2, CountedAttempt
    <3>2. /\ e.list_attempts >= 1 /\ OnAccount(e, listed + 1)
          /\ e.keys = d.keys /\ e.complete = d.complete /\ e.cursor = d.cursor
          /\ e.mirror_dirty = d.mirror_dirty
      BY <3>1, <1>2, <2>2, CountedAttempt
    <3>3. j = [state |-> e, key |-> 0, mirrors |-> FALSE, scanned |-> FALSE, failed |-> FALSE, pc |-> "attempt"]
      BY <1>3, <1>4, <2>2, <3>1
    <3>4. /\ j \in DirectoryJob /\ j.pc = "attempt" /\ j.failed = FALSE /\ j.scanned = FALSE /\ j.state = e
      BY <3>3 DEF DirectoryJob
    <3>5. GoesOn(j)' /\ Stands(j)'
      BY <3>2, <3>4, <1>6 DEF GoesOn, Stands
    <3>6. HoldsTrue(j)'
      BY <3>2, <3>4, <1>2, <1>5 DEF HoldsTrue, Frontier, Covers, OnAccount, DirectoryDay, histories
    <3> QED BY <3>4, <3>5, <3>6
  <2> QED BY <2>1, <2>2
<1>8. \A other \in Callers \ {c} : running[other] = NoDirectory
  BY DEF StartMaintain, MayStart
<1>9. Awaited(c, j)
  BY <1>5 DEF Awaited
<1> QED BY <1>5, <1>7, <1>8, <1>9, Onward, OnlyRunning

LEMMA SaveAttemptKeeps ==
  ASSUME DirectoryInvariant, NEW c \in Callers, SaveAttempt(c)
  PROVE  DirectoryInvariant'
<1>1. PICK i : i = running[c]
  OBVIOUS
<1>2. i # NoDirectory /\ i.pc = "attempt"
  BY <1>1 DEF SaveAttempt, At
<1>3. /\ i \in DirectoryJob /\ i.state \in Manifest
      /\ \A other \in Callers \ {c} : running[other] = NoDirectory
      /\ GoesOn(i) /\ HoldsTrue(i) /\ Stands(i)
  BY <1>1, <1>2, AtWork
<1>4. PICK s \in Manifest : s = i.state
  BY <1>3
<1>5. PICK j \in DirectoryJob : j = [i EXCEPT !.pc = "list"]
  BY <1>3 DEF DirectoryJob
<1>6. j.pc = "list" /\ j.state = s /\ j.key = i.key /\ j.scanned = i.scanned /\ j.failed = i.failed
  BY <1>3, <1>4, <1>5 DEF DirectoryJob
<1>7. /\ saved' = s /\ Awaited(c, j) /\ UNCHANGED <<clock, store, mirror, histories>>
  BY <1>1, <1>4, <1>5 DEF SaveAttempt
<1>8. Directory' = s /\ saved' # NoDirectory
  BY <1>7, StoredIsFound
<1>9. /\ Directory.keys \subseteq s.keys
      /\ Directory.mirror_dirty => s.mirror_dirty
      /\ i.scanned = FALSE
  BY <1>2, <1>3, <1>4 DEF GoesOn, Stands, DirectoryJob
<1>10. Frontier(s) /\ Covers(s) /\ s.list_attempts >= 1 /\ OnAccount(s, listed + 1) /\ OnAccount(s, listed)
  <2>1. Frontier(s) /\ Covers(s) /\ s.list_attempts >= 1 /\ OnAccount(s, listed + 1)
    BY <1>2, <1>3, <1>4 DEF HoldsTrue
  <2>2. listed \in Nat /\ s.list_attempts \in Nat
    BY DirectoryNumbers DEF DirectoryInvariant, DirectoryTypeOK, Manifest
  <2> QED BY <2>1, <2>2 DEF OnAccount
<1>11. (/\ Frontier(s) /\ Covers(s) /\ s.list_attempts >= 1
        /\ OnAccount(s, listed + 1) /\ OnAccount(s, listed))'
  BY <1>7, <1>10 DEF Frontier, Covers, OnAccount, DirectoryDay, histories
<1>12. ManifestIsTrue'
  <2>1. written \cup registeredKeys \subseteq s.keys
    BY <1>9 DEF ManifestIsTrue, DirectoryInvariant
  <2>2. written' \cup registeredKeys' \subseteq s.keys
    BY <2>1, <1>7 DEF histories
  <2> QED BY <1>8, <1>11, <2>2 DEF ManifestIsTrue
<1>13. MirrorIsClean' /\ DebtIsKept'
  <2>1. DebtIsKept'
    <3>1. \A k \in registeredKeys : (mirror # NoDirectory => k \notin mirror.keys) => s.mirror_dirty
      <4>1. saved # NoDirectory => saved = Directory
        BY DEF Directory
      <4> QED BY <4>1, <1>9 DEF DebtIsKept, DirectoryInvariant
    <3> QED BY <3>1, <1>7, <1>8 DEF DebtIsKept, histories
  <2> QED BY <2>1, <1>7, <1>8 DEF MirrorIsClean, DirectoryInvariant, histories
<1>14. GoesOn(j)' /\ HoldsTrue(j)' /\ Stands(j)'
  BY <1>6, <1>7, <1>8, <1>9, <1>11 DEF GoesOn, HoldsTrue, Stands
<1>15. running' \in [Callers -> DirectoryJob \cup {NoDirectory}] /\ OneAtWork' /\ CommandsAreSound'
  BY <1>3, <1>7, <1>14, Onward
<1>16. DirectoryTypeOK'
  BY <1>7, <1>15 DEF DirectoryTypeOK, DirectoryInvariant, histories
<1> QED BY <1>12, <1>13, <1>15, <1>16 DEF DirectoryInvariant

LEMMA AttemptFailsKeeps ==
  ASSUME DirectoryInvariant, NEW c \in Callers, AttemptFails(c)
  PROVE  DirectoryInvariant'
<1>1. PICK i : i = running[c]
  OBVIOUS
<1>2. i # NoDirectory /\ i.pc = "attempt"
  BY <1>1 DEF AttemptFails, At
<1>3. /\ i \in DirectoryJob /\ i.state \in Manifest
      /\ \A other \in Callers \ {c} : running[other] = NoDirectory
      /\ GoesOn(i) /\ HoldsTrue(i) /\ Stands(i)
  BY <1>1, <1>2, AtWork
<1>4. clock + 1 \in Nat
  BY RetryTimes DEF DirectoryInvariant
<1>5. PICK j : j = Failed(i, clock + 1)
  OBVIOUS
<1>6. /\ j \in DirectoryJob /\ j.pc = "save" /\ j.failed = TRUE /\ j.scanned = i.scanned
      /\ j.state.complete = FALSE /\ j.state.keys = i.state.keys /\ j.state.cursor = i.state.cursor
      /\ j.state.mirror_dirty = i.state.mirror_dirty
      /\ j.state.list_day = i.state.list_day /\ j.state.list_attempts = i.state.list_attempts
  BY <1>3, <1>4, <1>5, FailedJob
<1>7. /\ running' = [running EXCEPT ![c] = j] /\ UNCHANGED <<clock, store, mirror, saved, histories>>
  BY <1>1, <1>5 DEF AttemptFails
<1>8. Directory' = Directory
  BY <1>7 DEF Directory
<1>9. i.scanned = FALSE
  BY <1>2, <1>3 DEF Stands, DirectoryJob
<1>10. OnAccount(j.state, listed)
  <2>1. OnAccount(i.state, listed + 1)
    BY <1>2, <1>3 DEF HoldsTrue
  <2>2. listed \in Nat /\ i.state.list_attempts \in Nat
    BY <1>3, DirectoryNumbers DEF DirectoryInvariant, DirectoryTypeOK, Manifest
  <2> QED BY <2>1, <2>2, <1>6 DEF OnAccount
<1>11. GoesOn(j)' /\ Stands(j)'
  BY <1>3, <1>6, <1>8, <1>9 DEF GoesOn, Stands
<1>12. HoldsTrue(j)'
  BY <1>3, <1>6, <1>7, <1>9, <1>10 DEF HoldsTrue, Frontier, Covers, OnAccount, DirectoryDay, histories
<1>13. Awaited(c, j)
  BY <1>7 DEF Awaited
<1> QED BY <1>3, <1>6, <1>7, <1>11, <1>12, <1>13, Onward, OnlyRunning

\* The call that was made is on the account it was counted on.
LEMMA ChargedAttempt ==
  ASSUME DirectoryInvariant, NEW c \in Callers, NEW i, i = running[c], At(c, "list"),
         listed' = Charged(c), clock' = clock
  PROVE  /\ i \in DirectoryJob /\ i.state \in Manifest /\ i.scanned = FALSE
         /\ saved = i.state /\ listed' \in Nat /\ OnAccount(i.state, listed)'
<1>1. i # NoDirectory /\ i.pc = "list"
  BY DEF At
<1>2. i \in DirectoryJob /\ i.state \in Manifest /\ HoldsTrue(i) /\ Stands(i)
  BY <1>1, AtWork
<1>3. OnAccount(i.state, listed + 1)
  BY <1>1, <1>2 DEF HoldsTrue
<1>4. listed \in Nat
  BY DEF DirectoryInvariant, DirectoryTypeOK
<1>5. listed' = IF i.state.list_day = DirectoryDay THEN listed + 1 ELSE listed
  BY DEF Charged
<1>6. OnAccount(i.state, listed)'
  BY <1>3, <1>4, <1>5 DEF OnAccount, DirectoryDay
<1>7. i.scanned = FALSE /\ saved = i.state
  BY <1>1, <1>2 DEF Stands, DirectoryJob
<1> QED BY <1>2, <1>4, <1>5, <1>6, <1>7

\* A list call disturbs no manifest and no mirror: what a command finds is what
\* the command that listed had stored.
LEMMA ListedKeeps ==
  ASSUME DirectoryInvariant, NEW c \in Callers, NEW i, i = running[c], At(c, "list"),
         listed' = Charged(c), UNCHANGED <<clock, store, mirror, saved, written, registeredKeys, lateKeys>>,
         scanLate' = scanLate \/ (i.state.cursor = 0 /\ scanLate' = {})
  PROVE  /\ Directory' = i.state /\ Directory = i.state
         /\ ManifestIsTrue' /\ MirrorIsClean' /\ DebtIsKept'
<1>1. /\ i \in DirectoryJob /\ i.state \in Manifest
      /\ saved = i.state /\ OnAccount(i.state, listed)'
  BY ChargedAttempt
<1>2. Directory' = i.state /\ Directory = i.state
  BY <1>1, NoDirectoryIsNone DEF Directory
<1>3. Frontier(i.state)'
  <2>1. Frontier(i.state)
    BY <1>2 DEF DirectoryInvariant, ManifestIsTrue
  <2>2. \A k \in store : ~(k <= 0)
    <3>1. \A k \in store : k \in Nat \ {0}
      BY DirectoryNumbers DEF DirectoryInvariant, DirectoryTypeOK
    <3> QED BY <3>1
  <2> QED BY <2>1, <2>2 DEF Frontier
<1>4. Covers(i.state)'
  BY <1>2 DEF DirectoryInvariant, ManifestIsTrue, Covers
<1>5. ManifestIsTrue'
  <2>1. written' \cup registeredKeys' \subseteq i.state.keys
    BY <1>2 DEF DirectoryInvariant, ManifestIsTrue
  <2> QED BY <2>1, <1>1, <1>2, <1>3, <1>4 DEF ManifestIsTrue
<1>6. MirrorIsClean' /\ DebtIsKept'
  BY DEF DirectoryInvariant, MirrorIsClean, DebtIsKept
<1> QED BY <1>2, <1>5, <1>6

\* A command whose list call failed.
LEMMA ListFailed ==
  ASSUME DirectoryInvariant, NEW c \in Callers, NEW i, i = running[c], At(c, "list"),
         NEW delay \in Nat, NEW j, j = Failed(i, delay),
         listed' = Charged(c), UNCHANGED <<clock, store, mirror, saved, written, registeredKeys, lateKeys>>,
         scanLate' = scanLate \/ (i.state.cursor = 0 /\ scanLate' = {})
  PROVE  j \in DirectoryJob /\ GoesOn(j)' /\ HoldsTrue(j)' /\ Stands(j)'
<1>1. /\ i \in DirectoryJob /\ i.scanned = FALSE /\ OnAccount(i.state, listed)'
  BY ChargedAttempt
<1>2. /\ Directory' = i.state /\ Frontier(i.state)'
  BY ListedKeeps DEF ManifestIsTrue
<1>3. /\ j \in DirectoryJob /\ j.pc = "save" /\ j.failed = TRUE /\ j.scanned = FALSE
      /\ j.state.complete = FALSE /\ j.state.keys = i.state.keys /\ j.state.cursor = i.state.cursor
      /\ j.state.mirror_dirty = i.state.mirror_dirty
      /\ j.state.list_day = i.state.list_day /\ j.state.list_attempts = i.state.list_attempts
  BY <1>1, FailedJob
<1>4. GoesOn(j)' /\ Stands(j)'
  BY <1>2, <1>3 DEF GoesOn, Stands
<1>5. HoldsTrue(j)'
  BY <1>1, <1>2, <1>3 DEF HoldsTrue, Frontier, Covers, OnAccount
<1> QED BY <1>3, <1>4, <1>5

LEMMA ListFailsKeeps ==
  ASSUME DirectoryInvariant, NEW c \in Callers, ListFails(c)
  PROVE  DirectoryInvariant'
<1>1. PICK i : i = running[c]
  OBVIOUS
<1>2. /\ At(c, "list") /\ listed' = Charged(c)
      /\ UNCHANGED <<clock, store, mirror, saved, written, registeredKeys, scanLate, lateKeys>>
  BY DEF ListFails
<1>3. PICK delay \in Nat : running' = [running EXCEPT ![c] = Failed(i, delay)]
  BY <1>1, RetryTimes DEF ListFails, DirectoryInvariant
<1>4. PICK j : j = Failed(i, delay)
  OBVIOUS
<1>5. /\ j \in DirectoryJob /\ GoesOn(j)' /\ HoldsTrue(j)' /\ Stands(j)'
      /\ ManifestIsTrue' /\ MirrorIsClean' /\ DebtIsKept' /\ listed' \in Nat
  BY <1>1, <1>2, <1>4, ListFailed, ListedKeeps, ChargedAttempt
<1>6. Awaited(c, j) /\ \A other \in Callers \ {c} : running[other] = NoDirectory
  BY <1>2, <1>3, <1>4, AtWork DEF Awaited, At
<1>7. running' \in [Callers -> DirectoryJob \cup {NoDirectory}] /\ OneAtWork' /\ CommandsAreSound'
  BY <1>5, <1>6, Onward
<1>8. DirectoryTypeOK'
  BY <1>2, <1>5, <1>7 DEF DirectoryTypeOK, DirectoryInvariant
<1> QED BY <1>5, <1>7, <1>8 DEF DirectoryInvariant

\* What reading the page past the cursor of a manifest makes of it, and the keys up
\* to the cursor of a manifest being listed.
ReadsPage(d, page, finished, after) ==
  /\ page = ListedPage(d.cursor)
  /\ finished \in BOOLEAN /\ finished = (page = PastCursor(d.cursor))
  /\ after = Scanned(d, page, finished)
ListedUpTo(d, late) == \A k \in store : k <= d.cursor => k \in d.keys \cup late

\* A page that is read carries the frontier to its last key, and one that ends the
\* namespace leaves only what came since the first page.
LEMMA PageIsRead ==
  ASSUME DirectoryTypeOK, NEW d \in Manifest, NEW late \in SUBSET IndexedKeys,
         ListedUpTo(d, late), NEW page, NEW finished, NEW after, ReadsPage(d, page, finished, after)
  PROVE  /\ after \in Manifest
         /\ d.keys \subseteq after.keys /\ after.mirror_dirty = d.mirror_dirty
         /\ after.complete = (finished \/ d.complete)
         /\ after.list_day = d.list_day /\ after.list_attempts = d.list_attempts
         /\ ListedUpTo(after, late)
         /\ finished => store \subseteq after.keys \cup late
<1>0. /\ page = ListedPage(d.cursor) /\ after = Scanned(d, page, finished)
      /\ finished \in BOOLEAN /\ finished = (page = PastCursor(d.cursor))
  BY DEF ReadsPage
<1>1. /\ store \subseteq IndexedKeys /\ d.cursor \in Nat /\ \A k \in store : k \in Nat
      /\ clock \in Nat /\ d.keys \subseteq IndexedKeys /\ d.cursor \in IndexedKeys \cup {0}
  <2>1. IndexedKeys \subseteq Nat
    BY DirectoryNumbers
  <2>2. d.keys \subseteq IndexedKeys /\ d.cursor \in IndexedKeys \cup {0}
    BY DEF Manifest
  <2>3. store \subseteq IndexedKeys /\ clock \in Nat
    BY DirectoryNumbers DEF DirectoryTypeOK
  <2>4. d.cursor \in Nat
    <3>1. \A n : n \in IndexedKeys \cup {0} => n \in Nat
      BY ONLY <2>1
    <3> QED BY ONLY <2>2, <3>1, Zenon
  <2>5. \A k \in store : k \in Nat
    BY ONLY <2>1, <2>3
  <2> QED BY ONLY <2>2, <2>3, <2>4, <2>5, Zenon
<1>2. page \subseteq PastCursor(d.cursor) /\ page \subseteq IndexedKeys
  BY <1>0, <1>1 DEF ListedPage, PastCursor
<1>3. ~finished => /\ LastOf(page) \in page
                   /\ \A k \in PastCursor(d.cursor) : k <= LastOf(page) => k \in page
  BY <1>0, <1>1, <1>2, PageIsNext
<1>4. PICK cursor \in IndexedKeys \cup {0} : cursor = IF finished THEN 0 ELSE LastOf(page)
  BY <1>2, <1>3
<1>5. PICK at \in Nat : at = IF finished THEN clock ELSE d.scanned_at
  BY <1>1 DEF Manifest
<1>6. PICK retry \in Nat : retry = IF finished THEN 0 ELSE clock + 1
  BY <1>1
<1>7. after = [d EXCEPT !.keys = d.keys \cup page, !.complete = finished \/ d.complete,
                        !.scanned_at = at, !.cursor = cursor, !.retry_at = retry]
  BY <1>0, <1>4, <1>5, <1>6 DEF Scanned, Manifest
<1>8. PICK e \in Manifest :
        e = [d EXCEPT !.keys = d.keys \cup page, !.complete = finished \/ d.complete,
                      !.scanned_at = at, !.cursor = cursor, !.retry_at = retry]
  BY <1>1, <1>2 DEF Manifest
<1>9. /\ e.keys = d.keys \cup page /\ e.complete = (finished \/ d.complete) /\ e.cursor = cursor
      /\ e.mirror_dirty = d.mirror_dirty
      /\ e.list_day = d.list_day /\ e.list_attempts = d.list_attempts
  BY <1>8 DEF Manifest
<1>10. \A k \in store : k <= d.cursor \/ k \in PastCursor(d.cursor)
  BY <1>1 DEF PastCursor
<1>11. finished => store \subseteq e.keys \cup late
  BY <1>0, <1>9, <1>10 DEF ListedUpTo
<1>12. ListedUpTo(e, late)
  <2>1. CASE finished
    BY <2>1, <1>11 DEF ListedUpTo
  <2>2. CASE ~finished
    BY <2>2, <1>0, <1>3, <1>4, <1>9, <1>10 DEF ListedUpTo
  <2> QED BY <2>1, <2>2
<1> QED BY <1>0, <1>7, <1>8, <1>9, <1>11, <1>12

LEMMA ListKeeps ==
  ASSUME DirectoryInvariant, NEW c \in Callers, List(c)
  PROVE  DirectoryInvariant'
<1>1. PICK i : i = running[c]
  OBVIOUS
<1>2. PICK d : d = i.state
  OBVIOUS
<1>3. PICK page : page = ListedPage(d.cursor)
  OBVIOUS
<1>4. PICK finished \in BOOLEAN : finished = (page = PastCursor(d.cursor))
  OBVIOUS
<1>5. PICK after : after = Scanned(d, page, finished)
  OBVIOUS
<1>6. PICK j : j = IF Cardinality(after.keys) > MaxKeys
                   THEN Failed(i, clock + 1)
                   ELSE [i EXCEPT !.state = after, !.mirrors = Mirrors(d, after),
                                  !.scanned = finished, !.pc = "save"]
  OBVIOUS
<1>7. /\ At(c, "list") /\ listed' = Charged(c)
      /\ scanLate' = IF d.cursor = 0 THEN {} ELSE scanLate
      /\ UNCHANGED <<clock, store, mirror, saved, written, registeredKeys, lateKeys>>
  BY <1>1, <1>2 DEF List
<1>8. Awaited(c, j)
  <2>1. finished = (page = PastCursor(d.cursor))
    BY <1>4
  <2> QED BY <2>1, <1>1, <1>2, <1>3, <1>5, <1>6 DEF List
<1>9. /\ i \in DirectoryJob /\ d \in Manifest /\ saved = d /\ listed' \in Nat /\ OnAccount(d, listed)'
      /\ Directory' = d /\ Directory = d
      /\ ManifestIsTrue' /\ MirrorIsClean' /\ DebtIsKept'
  BY <1>1, <1>2, <1>7, ChargedAttempt, ListedKeeps
<1>10. PICK late \in SUBSET IndexedKeys : late = scanLate'
  BY <1>7 DEF DirectoryInvariant, DirectoryTypeOK
<1>11. ListedUpTo(d, late) /\ ReadsPage(d, page, finished, after)
  <2>1. ListedUpTo(d, late)
    BY <1>7, <1>9, <1>10 DEF ManifestIsTrue, Frontier, ListedUpTo
  <2> QED BY <2>1, <1>3, <1>4, <1>5 DEF ReadsPage
<1>12. j \in DirectoryJob /\ GoesOn(j)' /\ HoldsTrue(j)' /\ Stands(j)'
  <2>1. CASE Cardinality(after.keys) > MaxKeys
    <3>1. j = Failed(i, clock + 1) /\ clock + 1 \in Nat
      BY <1>6, <2>1, RetryTimes DEF DirectoryInvariant
    <3> QED BY <3>1, <1>1, <1>2, <1>7, ListFailed
  <2>2. CASE ~(Cardinality(after.keys) > MaxKeys)
    <3>1. /\ after \in Manifest
          /\ d.keys \subseteq after.keys /\ after.mirror_dirty = d.mirror_dirty
          /\ after.complete = (finished \/ d.complete)
          /\ after.list_day = d.list_day /\ after.list_attempts = d.list_attempts
          /\ ListedUpTo(after, late)
          /\ finished => store \subseteq after.keys \cup late
      <4>1. DirectoryTypeOK /\ d \in Manifest
        BY <1>9 DEF DirectoryInvariant
      <4> QED BY ONLY <4>1, <1>10, <1>11, PageIsRead
    <3>2. PICK mirrors \in BOOLEAN : mirrors = Mirrors(d, after)
      BY DEF Mirrors
    <3>3. j = [i EXCEPT !.state = after, !.mirrors = mirrors, !.scanned = finished, !.pc = "save"]
      BY <1>6, <2>2, <3>2
    <3>4. PICK e \in DirectoryJob :
            e = [i EXCEPT !.state = after, !.mirrors = mirrors, !.scanned = finished, !.pc = "save"]
      BY <1>9, <3>1 DEF DirectoryJob
    <3>5. j = e /\ j.pc = "save" /\ j.state = after /\ j.scanned = finished
      BY <1>9, <3>3, <3>4 DEF DirectoryJob
    <3>6. GoesOn(j)' /\ Stands(j)'
      BY <1>9, <3>1, <3>5 DEF GoesOn, Stands
    <3>7. Frontier(after)' /\ OnAccount(after, listed)'
      BY <1>7, <1>9, <1>10, <3>1 DEF Frontier, OnAccount, ListedUpTo
    <3>8. finished => (store \subseteq after.keys \cup scanLate)'
      BY <1>7, <1>10, <3>1
    <3>9. ~finished => Covers(after)'
      BY <1>9, <3>1 DEF Covers, ManifestIsTrue
    <3>10. HoldsTrue(j)'
      BY <3>5, <3>7, <3>8, <3>9 DEF HoldsTrue
    <3> QED BY <3>4, <3>5, <3>6, <3>10
  <2> QED BY <2>1, <2>2
<1>13. \A other \in Callers \ {c} : running[other] = NoDirectory
  BY <1>7, AtWork DEF At
<1>14. running' \in [Callers -> DirectoryJob \cup {NoDirectory}] /\ OneAtWork' /\ CommandsAreSound'
  BY <1>8, <1>12, <1>13, Onward
<1>15. DirectoryTypeOK'
  BY <1>7, <1>9, <1>14 DEF DirectoryTypeOK, DirectoryInvariant
<1> QED BY <1>9, <1>14, <1>15 DEF DirectoryInvariant

LEMMA SaveScanKeeps ==
  ASSUME DirectoryInvariant, NEW c \in Callers, SaveScan(c)
  PROVE  DirectoryInvariant'
<1>1. PICK i : i = running[c]
  OBVIOUS
<1>2. i # NoDirectory /\ i.pc = "save"
  BY <1>1 DEF SaveScan, At
<1>3. /\ i \in DirectoryJob /\ i.state \in Manifest
      /\ \A other \in Callers \ {c} : running[other] = NoDirectory
      /\ GoesOn(i) /\ HoldsTrue(i) /\ Stands(i)
  BY <1>1, <1>2, AtWork
<1>4. PICK s \in Manifest : s = i.state
  BY <1>3
<1>5. PICK j \in DirectoryJob : j = [i EXCEPT !.pc = "copy"]
  BY <1>3 DEF DirectoryJob
<1>6. j.pc = "copy" /\ j.state = s /\ j.key = i.key /\ j.scanned = i.scanned /\ j.failed = i.failed
  BY <1>3, <1>4, <1>5 DEF DirectoryJob
<1>7. /\ saved' = s /\ lateKeys' = (IF i.scanned THEN scanLate ELSE lateKeys)
      /\ UNCHANGED <<clock, store, mirror, written, registeredKeys, listed, scanLate>>
      /\ running' = [running EXCEPT ![c] = NoDirectory] \/ Awaited(c, j)
  BY <1>1, <1>4, <1>5 DEF SaveScan, Awaited
<1>8. Directory' = s /\ saved' # NoDirectory
  BY <1>7, StoredIsFound
<1>9. /\ Directory.keys \subseteq s.keys
      /\ Directory.mirror_dirty => s.mirror_dirty
  BY <1>3, <1>4 DEF GoesOn
<1>10. (Frontier(s) /\ Covers(s) /\ OnAccount(s, listed))'
  <2>1. Frontier(s) /\ OnAccount(s, listed)
    BY <1>2, <1>3, <1>4 DEF HoldsTrue
  <2>2. IF i.scanned THEN store \subseteq s.keys \cup scanLate ELSE Covers(s)
    BY <1>2, <1>3, <1>4 DEF HoldsTrue
  <2> QED BY <1>7, <2>1, <2>2 DEF Frontier, Covers, OnAccount, DirectoryDay
<1>11. ManifestIsTrue'
  <2>1. written \cup registeredKeys \subseteq s.keys
    BY <1>9 DEF ManifestIsTrue, DirectoryInvariant
  <2> QED BY <1>7, <1>8, <1>10, <2>1 DEF ManifestIsTrue
<1>12. MirrorIsClean' /\ DebtIsKept'
  <2>1. saved # NoDirectory => saved = Directory
    BY DEF Directory
  <2>2. \A k \in registeredKeys : (mirror # NoDirectory => k \notin mirror.keys) => s.mirror_dirty
    BY <2>1, <1>9 DEF DebtIsKept, DirectoryInvariant
  <2> QED BY <2>2, <1>7, <1>8 DEF MirrorIsClean, DebtIsKept, DirectoryInvariant
<1>13. GoesOn(j)' /\ HoldsTrue(j)' /\ Stands(j)'
  BY <1>6, <1>8, <1>10 DEF GoesOn, HoldsTrue, Stands
<1>14. running' \in [Callers -> DirectoryJob \cup {NoDirectory}] /\ OneAtWork' /\ CommandsAreSound'
  BY <1>3, <1>7, <1>13, Onward, Ended
<1>15. DirectoryTypeOK'
  BY <1>7, <1>14 DEF DirectoryTypeOK, DirectoryInvariant
<1> QED BY <1>11, <1>12, <1>14, <1>15 DEF DirectoryInvariant

LEMMA CopyToMirrorKeeps ==
  ASSUME DirectoryInvariant, NEW c \in Callers, CopyToMirror(c)
  PROVE  DirectoryInvariant'
<1>1. PICK i : i = running[c]
  OBVIOUS
<1>2. i # NoDirectory /\ i.pc = "copy"
  BY <1>1 DEF CopyToMirror, At
<1>3. /\ i \in DirectoryJob /\ i.state \in Manifest
      /\ \A other \in Callers \ {c} : running[other] = NoDirectory
      /\ GoesOn(i) /\ Stands(i)
  BY <1>1, <1>2, AtWork
<1>4. PICK s \in Manifest : s = i.state
  BY <1>3
<1>5. /\ mirror' = [s EXCEPT !.mirror_dirty = FALSE] /\ running' = [running EXCEPT ![c] = NoDirectory]
      /\ UNCHANGED <<clock, store, saved, histories>>
  BY <1>1, <1>4 DEF CopyToMirror
<1>6. saved # NoDirectory /\ GoesOn([state |-> s, failed |-> TRUE])
  BY <1>2, <1>3, <1>4 DEF Stands, GoesOn
<1>7. mirror' \in Manifest /\ ManifestIsTrue' /\ MirrorIsClean' /\ DebtIsKept'
  BY <1>5, <1>6, MirrorWritten
<1>8. running' \in [Callers -> DirectoryJob \cup {NoDirectory}] /\ OneAtWork' /\ CommandsAreSound'
  BY <1>3, <1>5, Ended
<1>9. DirectoryTypeOK'
  BY <1>5, <1>7, <1>8 DEF DirectoryTypeOK, DirectoryInvariant, histories
<1> QED BY <1>7, <1>8, <1>9 DEF DirectoryInvariant

LEMMA AbortKeeps ==
  ASSUME DirectoryInvariant, NEW c \in Callers, Abort(c)
  PROVE  DirectoryInvariant'
<1>1. \A other \in Callers \ {c} : running[other] = NoDirectory
  BY AtWork DEF Abort
<1> QED BY <1>1, Ended, OnlyRunning DEF Abort

----------------------------------------------------------------------------
(* Other writers, and time *)

LEMMA WriteBesideKeeps ==
  ASSUME DirectoryInvariant, NEW k \in IndexedKeys, WriteBeside(k)
  PROVE  DirectoryInvariant'
<1>1. /\ store' = store \cup {k} /\ lateKeys' = lateKeys \cup {k} /\ scanLate' = scanLate \cup {k}
      /\ UNCHANGED <<clock, mirror, saved, running, written, registeredKeys, listed>>
  BY DEF WriteBeside
<1>2. Directory' = Directory
  BY <1>1 DEF Directory
<1>3. DirectoryTypeOK'
  BY <1>1 DEF DirectoryInvariant, DirectoryTypeOK
<1>4. ManifestIsTrue'
  <2>1. PICK d : d = Directory
    OBVIOUS
  <2>2. written \cup registeredKeys \subseteq d.keys /\ Frontier(d) /\ Covers(d) /\ OnAccount(d, listed)
    BY <2>1 DEF DirectoryInvariant, ManifestIsTrue
  <2>3. (Frontier(d) /\ Covers(d) /\ OnAccount(d, listed))'
    BY <2>2, <1>1 DEF Frontier, Covers, OnAccount, DirectoryDay
  <2> QED BY <2>1, <2>2, <2>3, <1>1, <1>2 DEF ManifestIsTrue
<1>5. MirrorIsClean' /\ DebtIsKept' /\ OneAtWork'
  BY <1>1 DEF DirectoryInvariant, MirrorIsClean, DebtIsKept, OneAtWork
<1>6. CommandsAreSound'
  <2>1. ASSUME NEW c \in Callers, NEW j, j = running[c], j # NoDirectory
        PROVE  GoesOn(j)' /\ HoldsTrue(j)' /\ Stands(j)'
    <3>1. GoesOn(j) /\ HoldsTrue(j) /\ Stands(j)
      BY <2>1, AtWork
    <3>2. GoesOn(j)' /\ Stands(j)'
      BY <3>1, <1>1, <1>2 DEF GoesOn, Stands
    <3>3. HoldsTrue(j)'
      BY <3>1, <1>1 DEF HoldsTrue, Frontier, Covers, OnAccount, DirectoryDay
    <3> QED BY <3>2, <3>3
  <2> QED BY <2>1, <1>1 DEF CommandsAreSound
<1> QED BY <1>3, <1>4, <1>5, <1>6 DEF DirectoryInvariant

\* A new day starts with no calls made, so nothing is owed to any account.
LEMMA DirectoryTickKeeps ==
  ASSUME DirectoryInvariant, DirectoryTick
  PROVE  DirectoryInvariant'
<1>1. /\ clock < MaxClock /\ clock' = clock + 1
      /\ listed' = IF DirectoryDay' = DirectoryDay THEN listed ELSE 0
      /\ UNCHANGED <<store, mirror, saved, running, written, registeredKeys, scanLate, lateKeys>>
  BY DEF DirectoryTick, DirectoryDay
<1>2. Directory' = Directory /\ Directory \in Manifest
  BY <1>1, DirectoryTyped DEF Directory, DirectoryInvariant
<1>3. DirectoryTypeOK'
  BY <1>1, DirectoryNumbers DEF DirectoryInvariant, DirectoryTypeOK
<1>4. ASSUME NEW d \in Manifest
      PROVE  /\ Frontier(d) => Frontier(d)'
             /\ Covers(d) => Covers(d)'
             /\ OnAccount(d, listed) => OnAccount(d, listed)'
             /\ d.list_attempts >= 1 /\ OnAccount(d, listed + 1) => OnAccount(d, listed + 1)'
  <2>1. d.list_attempts \in Nat
    BY DirectoryNumbers DEF Manifest
  <2>2. (Frontier(d) => Frontier(d)') /\ (Covers(d) => Covers(d)')
    BY <1>1 DEF Frontier, Covers
  <2>3. (OnAccount(d, listed) => OnAccount(d, listed)')
    BY <1>1, <2>1 DEF OnAccount
  <2>4. d.list_attempts >= 1 /\ OnAccount(d, listed + 1) => OnAccount(d, listed + 1)'
    BY <1>1, <2>1 DEF OnAccount
  <2> QED BY <2>2, <2>3, <2>4
<1>5. ManifestIsTrue'
  <2>1. PICK d \in Manifest : d = Directory
    BY <1>2
  <2>2. written \cup registeredKeys \subseteq d.keys /\ Frontier(d) /\ Covers(d) /\ OnAccount(d, listed)
    BY <2>1 DEF DirectoryInvariant, ManifestIsTrue
  <2>3. Frontier(d)' /\ Covers(d)' /\ OnAccount(d, listed)'
    BY <2>2, <1>4
  <2> QED BY <2>1, <2>2, <2>3, <1>1, <1>2 DEF ManifestIsTrue
<1>6. MirrorIsClean' /\ DebtIsKept' /\ OneAtWork'
  BY <1>1 DEF DirectoryInvariant, MirrorIsClean, DebtIsKept, OneAtWork
<1>7. CommandsAreSound'
  <2>1. ASSUME NEW c \in Callers, NEW j, j = running[c], j # NoDirectory
        PROVE  GoesOn(j)' /\ HoldsTrue(j)' /\ Stands(j)'
    <3>1. GoesOn(j) /\ HoldsTrue(j) /\ Stands(j) /\ j.state \in Manifest
      BY <2>1, AtWork
    <3>2. GoesOn(j)' /\ Stands(j)'
      BY <3>1, <1>1, <1>2 DEF GoesOn, Stands
    <3>3. PICK s \in Manifest : s = j.state
      BY <3>1
    <3>4. HoldsTrue(j)'
      BY <3>1, <3>3, <1>1, <1>4 DEF HoldsTrue
    <3> QED BY <3>2, <3>4
  <2> QED BY <2>1, <1>1 DEF CommandsAreSound
<1> QED BY <1>3, <1>5, <1>6, <1>7 DEF DirectoryInvariant

----------------------------------------------------------------------------
(* The theorems *)

LEMMA DirectoryStepKeeps ==
  DirectoryInvariant /\ [DirectoryNext]_directoryVars => DirectoryInvariant'
<1> SUFFICES ASSUME DirectoryInvariant, [DirectoryNext]_directoryVars PROVE DirectoryInvariant'
  OBVIOUS
<1>1. CASE UNCHANGED directoryVars
  BY <1>1 DEF directoryVars, DirectoryInvariant, DirectoryTypeOK, OneAtWork, ManifestIsTrue, MirrorIsClean,
              DebtIsKept, CommandsAreSound, GoesOn, HoldsTrue, Stands, Frontier, Covers, OnAccount,
              Directory, DirectoryDay
<1>2. CASE \E c \in Callers, k \in IndexedKeys : StartPut(c, k)
  BY <1>2, StartPutKeeps
<1>3. CASE \E c \in Callers, refresh \in BOOLEAN : StartMaintain(c, refresh)
  BY <1>3, StartMaintainKeeps
<1>4. ASSUME NEW c \in Callers, PutStep(c) PROVE DirectoryInvariant'
  BY <1>4, RegisterKeeps, WriteRecordKeeps, MirrorPutKeeps, CleanKeeps DEF PutStep
<1>5. ASSUME NEW c \in Callers, MaintainStep(c) PROVE DirectoryInvariant'
  BY <1>5, SaveAttemptKeeps, AttemptFailsKeeps, ListKeeps, ListFailsKeeps, SaveScanKeeps, CopyToMirrorKeeps
     DEF MaintainStep
<1>6. CASE \E c \in Callers : Abort(c)
  BY <1>6, AbortKeeps
<1>7. CASE (\E k \in IndexedKeys : WriteBeside(k)) \/ DirectoryTick
  BY <1>7, WriteBesideKeeps, DirectoryTickKeeps
<1> QED BY <1>1, <1>2, <1>3, <1>4, <1>5, <1>6, <1>7 DEF DirectoryNext

\* The inductive invariant of the directory holds in every behaviour: one command at
\* work, every manifest it holds true of the records, every debt to the mirror marked.
THEOREM DirectoryInvariantHolds == DirectorySpec => []DirectoryInvariant
BY DirectoryStarts, DirectoryStepKeeps, PTL DEF DirectorySpec

LEMMA InvariantIsEnough ==
  DirectoryInvariant => PublishedIsListed /\ CompleteCovers /\ ListsWithinBudget /\ DebtIsMarked
<1> SUFFICES ASSUME DirectoryInvariant
             PROVE  PublishedIsListed /\ CompleteCovers /\ ListsWithinBudget /\ DebtIsMarked
  OBVIOUS
<1>1. PublishedIsListed /\ CompleteCovers
  BY DEF DirectoryInvariant, ManifestIsTrue, PublishedIsListed, CompleteCovers, Covers
<1>2. ListsWithinBudget
  <2>1. PICK d \in Manifest : d = Directory
    BY DirectoryTyped DEF DirectoryInvariant
  <2>2. OnAccount(d, listed) /\ listed \in Nat /\ d.list_attempts \in 0..Budget /\ Budget \in Nat
    BY <2>1, DirectoryNumbers DEF DirectoryInvariant, ManifestIsTrue, DirectoryTypeOK, Manifest
  <2> QED BY <2>2 DEF OnAccount, ListsWithinBudget
<1>3. DebtIsMarked
  BY DEF DirectoryInvariant, DebtIsKept, DebtIsMarked
<1> QED BY <1>1, <1>2, <1>3

\* A manifest is only stored as not complete, where one that was complete is found, by
\* a command that failed.
LEMMA OnlyFailuresEndService ==
  DirectoryInvariant /\ [DirectoryNext]_directoryVars => ServesStep
<1> SUFFICES ASSUME DirectoryInvariant, [DirectoryNext]_directoryVars,
                    Directory.complete, ~Directory'.complete
             PROVE  \E c \in Callers : running[c] # NoDirectory /\ running[c].failed
  BY DEF ServesStep
<1>1. ASSUME saved' = saved, mirror' = mirror PROVE FALSE
  <2>1. Directory' = Directory
    BY <1>1 DEF Directory
  <2> QED BY <2>1
<1>2. ASSUME NEW c \in Callers, running[c] # NoDirectory,
             running[c].pc \in {"mirror", "copy"}, saved' = saved
      PROVE  FALSE
  <2>1. saved # NoDirectory
    BY <1>2, AtWork DEF Stands
  <2>2. Directory' = Directory
    BY <1>2, <2>1 DEF Directory
  <2> QED BY <2>2
<1>3. ASSUME NEW c \in Callers, running[c] # NoDirectory,
             saved' = running[c].state \/ saved' = [running[c].state EXCEPT !.mirror_dirty = FALSE]
      PROVE  running[c].failed
  <2>1. PICK i : i = running[c]
    OBVIOUS
  <2>2. i \in DirectoryJob /\ i.state \in Manifest /\ GoesOn(i)
    BY <1>3, <2>1, AtWork
  <2>3. PICK t \in Manifest : t = [i.state EXCEPT !.mirror_dirty = FALSE]
    BY <2>2 DEF Manifest
  <2>4. t.complete = i.state.complete
    BY <2>2, <2>3 DEF Manifest
  <2>5. PICK s \in Manifest : saved' = s /\ s.complete = i.state.complete
    BY <1>3, <2>1, <2>2, <2>3, <2>4
  <2>6. Directory' = s
    BY <2>5, StoredIsFound
  <2> QED BY <2>1, <2>2, <2>5, <2>6 DEF GoesOn, DirectoryJob
<1>4. CASE UNCHANGED directoryVars
  BY <1>1, <1>4 DEF directoryVars
<1>5. CASE \E c \in Callers, k \in IndexedKeys : StartPut(c, k)
  BY <1>1, <1>5 DEF StartPut
<1>6. CASE \E c \in Callers, refresh \in BOOLEAN : StartMaintain(c, refresh)
  BY <1>1, <1>6 DEF StartMaintain
<1>7. CASE \E c \in Callers : Register(c) \/ Clean(c) \/ SaveAttempt(c) \/ SaveScan(c)
  BY <1>3, <1>7 DEF Register, Clean, SaveAttempt, SaveScan, At
<1>8. CASE \E c \in Callers : MirrorPut(c) \/ CopyToMirror(c)
  BY <1>2, <1>8 DEF MirrorPut, CopyToMirror, At
<1>9. CASE \E c \in Callers : \/ WriteRecord(c) \/ AttemptFails(c) \/ List(c) \/ ListFails(c) \/ Abort(c)
  BY <1>1, <1>9 DEF WriteRecord, AttemptFails, List, ListFails, Abort
<1>10. CASE (\E k \in IndexedKeys : WriteBeside(k)) \/ DirectoryTick
  BY <1>1, <1>10 DEF WriteBeside, DirectoryTick
<1> QED BY <1>4, <1>5, <1>6, <1>7, <1>8, <1>9, <1>10 DEF DirectoryNext, PutStep, MaintainStep

\* Among the stores, the invariant is kept where the directory is what runs.
LEMMA DirectoryAmongStores == Spec => [](part = "directory" => DirectoryInvariant)
<1>1. Init => (part = "directory" => DirectoryInvariant)
  BY DirectoryStarts DEF Init
<1>2. (part = "directory" => DirectoryInvariant) /\ [Next]_vars
        => (part = "directory" => DirectoryInvariant)'
  <2> SUFFICES ASSUME part = "directory" => DirectoryInvariant, [Next]_vars, part' = "directory"
               PROVE  DirectoryInvariant'
    OBVIOUS
  <2>1. part = "directory" /\ [DirectoryNext]_directoryVars
    BY DEF Next, vars
  <2> QED BY <2>1, DirectoryStepKeeps
<1> QED BY <1>1, <1>2, PTL DEF Spec

\* A record the directory published is listed; a complete directory lists every record
\* but what came since its last scan; the listings of a day stay within its budget; and
\* a registered key the mirror lacks is marked.
THEOREM DirectoryIsTrue == Spec => []DirectoryHolds
<1>1. (part = "directory" => DirectoryInvariant) => DirectoryHolds
  BY InvariantIsEnough DEF DirectoryHolds
<1> QED BY <1>1, DirectoryAmongStores, PTL

\* A directory that was complete goes on serving its list while a new scan pages; only
\* a failed command takes it away.
THEOREM DirectoryGoesOnServing == Spec => DirectoryServes
<1>1. (part = "directory" => DirectoryInvariant) /\ [Next]_vars
        => [part = "directory" => ServesStep]_directoryVars
  <2> SUFFICES ASSUME part = "directory", DirectoryInvariant, [Next]_vars, directoryVars' # directoryVars
               PROVE  ServesStep
    OBVIOUS
  <2>1. [DirectoryNext]_directoryVars
    BY DEF Next, vars
  <2> QED BY <2>1, OnlyFailuresEndService
<1> QED BY <1>1, DirectoryAmongStores, PTL DEF Spec, DirectoryServes

-----------------------------------------------------------------------------
(* The ledger of research hypotheses.                                             *)

\* An envelope holds what the builder makes of its snapshot.
EnvelopeStands(e) == e.artifact \in M0Snapshots /\ \E t \in Int : e.ledger = Aggregate(e.artifact, t)
IsArchived(l) == \E r \in m0Archive : r.envelope.ledger = l
\* What a request relies on until it has written: what it read, and what it archived.
LedgerSyncStands(h) ==
  /\ h = [record |-> h.record, seen |-> h.seen, archived |-> h.archived]
  /\ h.record.envelope \in envelopes
  /\ \A r \in h.seen : r.envelope \in envelopes /\ ~ReplayError(r.envelope, h.record.envelope)
  /\ h.archived => IsArchived(h.record.envelope.ledger)
LedgerInv ==
  /\ m0Now \in Int
  /\ \A e \in envelopes : EnvelopeStands(e)
  /\ \A h \in m0Syncs : LedgerSyncStands(h)
  /\ \A r \in m0Current : r.envelope \in envelopes /\ IsArchived(r.envelope.ledger)
  /\ \A l \in m0Acked : IsArchived(l)

\* The builder's ledgers are consistent, whatever the snapshot and the time.
LEMMA AggregateIsConsistent ==
  ASSUME NEW s \in M0Snapshots, NEW t \in Int
  PROVE  /\ ConsistentLedger(Aggregate(s, t)) /\ Aggregate(s, t).computed = t
         /\ \A o \in Aggregate(s, t).observations :
              o.generated \in Int /\ (o.fresh = "fresh" => s.status = "ready")
              /\ o = [subject |-> o.subject, generated |-> o.generated, fresh |-> o.fresh]
<1> DEFINE l == Aggregate(s, t)
<1>1. l.computed = t /\ l.status = StatusOf(l.observations)
  BY DEF Aggregate
<1>2. ASSUME NEW o \in l.observations
      PROVE  ConsistentFreshness(o, t) /\ o.generated \in Int /\ (o.fresh = "fresh" => s.status = "ready")
             /\ o = [subject |-> o.subject, generated |-> o.generated, fresh |-> o.fresh]
  <2>1. PICK x \in s.hypotheses : o = [subject |-> x.subject, generated |-> x.generated, fresh |-> FreshnessOf(x, s.status, t)]
    BY <1>2 DEF Aggregate
  <2>2. x.generated \in Int /\ M0Week \in Int
    BY LedgerAssumption
  <2>3. o.generated = x.generated /\ o.fresh = FreshnessOf(x, s.status, t)
        /\ o = [subject |-> o.subject, generated |-> o.generated, fresh |-> o.fresh]
    BY <2>1
  <2> QED
    BY <2>2, <2>3 DEF FreshnessOf, ConsistentFreshness, Expiry
<1> QED
  BY <1>1, <1>2 DEF ConsistentLedger

LEMMA LedgerStarts == M0Init => LedgerInv
  BY DEF M0Init, LedgerInv

LEMMA BuildKeeps ==
  ASSUME LedgerInv, NEW s \in M0Snapshots, NEW run, BuildEnvelope(s, run)
  PROVE  LedgerInv'
<1>1. envelopes' = envelopes \cup {Envelope(s, run, m0Now)}
      /\ UNCHANGED <<m0Now, m0Current, m0Archive, m0Syncs, m0Acked>>
  BY DEF BuildEnvelope
<1>2. EnvelopeStands(Envelope(s, run, m0Now))
  BY DEF EnvelopeStands, Envelope, LedgerInv
<1>3. \A e \in envelopes' : EnvelopeStands(e)
  BY <1>1, <1>2 DEF LedgerInv
<1>4. ASSUME NEW h \in m0Syncs PROVE LedgerSyncStands(h)'
  <2>1. LedgerSyncStands(h)
    BY DEF LedgerInv
  <2> QED
    BY <1>1, <2>1 DEF LedgerSyncStands, IsArchived
<1> QED
  BY <1>1, <1>3, <1>4 DEF LedgerInv, EnvelopeStands, IsArchived

LEMMA BeginSyncKeeps ==
  ASSUME LedgerInv, NEW e \in envelopes, NEW seen \in {{}, m0Current}, BeginLedgerSync(e, seen)
  PROVE  LedgerInv'
<1>1. UNCHANGED <<m0Now, envelopes, m0Current, m0Archive>>
  BY DEF BeginLedgerSync
<1>2. \A r \in seen : r \in m0Current
  OBVIOUS
<1>3. \A l \in m0Acked' : IsArchived(l)
  BY <1>2 DEF BeginLedgerSync, LedgerInv
<1>4. ASSUME NEW h \in m0Syncs', h \notin m0Syncs PROVE LedgerSyncStands(h)
  <2>1. /\ \A r \in seen : ~ReplayError(r.envelope, e)
        /\ h = [record |-> [stored |-> m0Now, envelope |-> e], seen |-> seen, archived |-> FALSE]
    BY <1>4 DEF BeginLedgerSync
  <2>2. h.record.envelope = e /\ h.seen = seen /\ ~h.archived
        /\ h = [record |-> h.record, seen |-> h.seen, archived |-> h.archived]
    BY <2>1
  <2> QED
    BY <1>2, <2>1, <2>2 DEF LedgerSyncStands, LedgerInv
<1>5. \A h \in m0Syncs' : LedgerSyncStands(h)
  BY <1>4 DEF LedgerInv
<1>6. ASSUME NEW h \in m0Syncs' PROVE LedgerSyncStands(h)'
  <2>1. LedgerSyncStands(h)
    BY <1>5
  <2> QED
    BY <1>1, <2>1 DEF LedgerSyncStands, IsArchived
<1> QED
  BY <1>1, <1>3, <1>6 DEF LedgerInv, EnvelopeStands, IsArchived

LEMMA ArchiveKeeps ==
  ASSUME LedgerInv, NEW h \in m0Syncs, ArchiveLedger(h)
  PROVE  LedgerInv'
<1>1. /\ m0Syncs' = (m0Syncs \ {h}) \cup {[h EXCEPT !.archived = TRUE]}
      /\ m0Archive' = {r \in m0Archive : r.envelope.ledger # h.record.envelope.ledger} \cup {h.record}
      /\ UNCHANGED <<m0Now, envelopes, m0Current, m0Acked>>
  BY DEF ArchiveLedger
<1>2. ASSUME NEW l, IsArchived(l) PROVE IsArchived(l)'
  BY <1>1, <1>2 DEF IsArchived
<1>3. IsArchived(h.record.envelope.ledger)'
  BY <1>1 DEF IsArchived
<1>4. LedgerSyncStands(h)
  BY DEF LedgerInv
<1>5. PICK k : k = [h EXCEPT !.archived = TRUE]
  OBVIOUS
<1>6. k = [record |-> h.record, seen |-> h.seen, archived |-> TRUE]
  BY <1>4, <1>5 DEF LedgerSyncStands
<1>7. k.record = h.record /\ k.seen = h.seen /\ k = [record |-> k.record, seen |-> k.seen, archived |-> k.archived]
  BY <1>6
<1>8. LedgerSyncStands(k)'
  BY <1>1, <1>3, <1>4, <1>7 DEF LedgerSyncStands
<1>9. ASSUME NEW g \in m0Syncs PROVE LedgerSyncStands(g)'
  <2>1. LedgerSyncStands(g)
    BY DEF LedgerInv
  <2> QED
    BY <1>1, <1>2, <2>1 DEF LedgerSyncStands
<1>10. \A g \in m0Syncs' : LedgerSyncStands(g)'
  BY <1>1, <1>5, <1>8, <1>9
<1> QED
  BY <1>1, <1>2, <1>10 DEF LedgerInv, EnvelopeStands

LEMMA SetCurrentKeeps ==
  ASSUME LedgerInv, NEW h \in m0Syncs, SetCurrentLedger(h)
  PROVE  LedgerInv'
<1>1. /\ m0Syncs' = m0Syncs \ {h} /\ m0Current' = {h.record}
      /\ m0Acked' = m0Acked \cup {h.record.envelope.ledger}
      /\ UNCHANGED <<m0Now, envelopes, m0Archive>>
  BY DEF SetCurrentLedger
<1>2. h.record.envelope \in envelopes /\ IsArchived(h.record.envelope.ledger)
  BY DEF LedgerInv, LedgerSyncStands, SetCurrentLedger
<1>3. ASSUME NEW g \in m0Syncs' PROVE LedgerSyncStands(g)'
  <2>1. LedgerSyncStands(g)
    BY <1>1 DEF LedgerInv
  <2> QED
    BY <1>1, <2>1 DEF LedgerSyncStands, IsArchived
<1> QED
  BY <1>1, <1>2, <1>3 DEF LedgerInv, EnvelopeStands, IsArchived

\* A request that fails and the clock leave what was stored.
LEMMA LedgerRests ==
  ASSUME LedgerInv, m0Now' \in Int, m0Syncs' \subseteq m0Syncs, UNCHANGED <<envelopes, m0Current, m0Archive, m0Acked>>
  PROVE  LedgerInv'
<1>1. ASSUME NEW g \in m0Syncs' PROVE LedgerSyncStands(g)'
  <2>1. LedgerSyncStands(g)
    BY <1>1 DEF LedgerInv
  <2> QED
    BY <2>1 DEF LedgerSyncStands, IsArchived
<1> QED
  BY <1>1 DEF LedgerInv, EnvelopeStands, IsArchived

LEMMA LedgerKeeps == LedgerInv /\ [M0Next]_m0Vars => LedgerInv'
<1> SUFFICES ASSUME LedgerInv, [M0Next]_m0Vars PROVE LedgerInv'
  OBVIOUS
<1>1. ASSUME NEW s \in M0Snapshots, NEW run \in M0Runs, BuildEnvelope(s, run) PROVE LedgerInv'
  BY <1>1, BuildKeeps
<1>2. ASSUME NEW e \in envelopes, NEW seen \in {{}, m0Current}, BeginLedgerSync(e, seen) PROVE LedgerInv'
  BY <1>2, BeginSyncKeeps
<1>3. ASSUME NEW h \in m0Syncs, ArchiveLedger(h) PROVE LedgerInv'
  BY <1>3, ArchiveKeeps
<1>4. ASSUME NEW h \in m0Syncs, SetCurrentLedger(h) PROVE LedgerInv'
  BY <1>4, SetCurrentKeeps
<1>5. ASSUME NEW h \in m0Syncs, FailLedgerSync(h) PROVE LedgerInv'
  <2>1. m0Syncs' \subseteq m0Syncs /\ m0Now' = m0Now /\ UNCHANGED <<envelopes, m0Current, m0Archive, m0Acked>>
    BY <1>5 DEF FailLedgerSync
  <2> QED
    BY <2>1, LedgerRests DEF LedgerInv
<1>6. ASSUME M0Tick PROVE LedgerInv'
  <2>1. m0Syncs' \subseteq m0Syncs /\ m0Now' = m0Now + 1 /\ UNCHANGED <<envelopes, m0Current, m0Archive, m0Acked>>
    BY <1>6 DEF M0Tick
  <2> QED
    BY <2>1, LedgerRests DEF LedgerInv
<1>7. ASSUME UNCHANGED m0Vars PROVE LedgerInv'
  <2>1. m0Syncs' \subseteq m0Syncs /\ m0Now' = m0Now /\ UNCHANGED <<envelopes, m0Current, m0Archive, m0Acked>>
    BY <1>7 DEF m0Vars
  <2> QED
    BY <2>1, LedgerRests DEF LedgerInv
<1> QED
  BY <1>1, <1>2, <1>3, <1>4, <1>5, <1>6, <1>7 DEF M0Next, ResearchSnapshots

LEMMA LedgerOfInv == LedgerInv => LedgerIsSound
<1> SUFFICES ASSUME LedgerInv PROVE LedgerIsSound
  OBVIOUS
<1>1. ASSUME NEW e \in envelopes
      PROVE /\ ConsistentLedger(e.ledger)
            /\ \A o \in e.ledger.observations :
                 o.generated \in Int /\ (o.fresh = "fresh" => e.artifact.status = "ready")
                 /\ o = [subject |-> o.subject, generated |-> o.generated, fresh |-> o.fresh]
  <2>1. PICK t \in Int : e.ledger = Aggregate(e.artifact, t)
    BY DEF LedgerInv, EnvelopeStands
  <2>2. e.artifact \in M0Snapshots
    BY DEF LedgerInv, EnvelopeStands
  <2> QED
    BY <2>1, <2>2, AggregateIsConsistent
<1>2. BuildersAgree
  BY <1>1 DEF BuildersAgree
<1>3. ShownIsArchived
  BY DEF LedgerInv, IsArchived, ShownIsArchived
<1>4. ASSUME NEW r \in m0Current, NEW o \in Dashboard(r.envelope.ledger).observations, o.fresh = "fresh"
      PROVE  r.envelope.artifact.status = "ready" /\ o.generated <= m0Now /\ m0Now < o.generated + M0Week
  <2>1. PICK p \in r.envelope.ledger.observations : o = [p EXCEPT !.fresh =
           FreshnessOf(p, IF p.fresh = "fresh" THEN "ready" ELSE "stale", m0Now)]
    BY DEF Dashboard, Aged
  <2>2. r.envelope \in envelopes
    BY DEF LedgerInv
  <2>3. p.generated \in Int /\ (p.fresh = "fresh" => r.envelope.artifact.status = "ready")
    BY <1>1, <2>2
  <2>4. p = [subject |-> p.subject, generated |-> p.generated, fresh |-> p.fresh]
    BY <1>1, <2>2
  <2>5. o.generated = p.generated /\ o.fresh = FreshnessOf(p, IF p.fresh = "fresh" THEN "ready" ELSE "stale", m0Now)
    BY <2>1, <2>4
  <2> QED
    BY <1>4, <2>3, <2>5, LedgerAssumption DEF FreshnessOf, Expiry, LedgerInv
<1>5. FreshIsFresh
  BY <1>4 DEF FreshIsFresh
<1> QED
  BY <1>2, <1>3, <1>5 DEF LedgerIsSound

LEMMA LedgerSteps == LedgerInv /\ [M0Next]_m0Vars => ForwardLedger
<1> SUFFICES ASSUME LedgerInv, NEW old \in m0Current, NEW h \in m0Syncs, h.seen = {old}
             PROVE  h.record.envelope.ledger.computed > old.envelope.ledger.computed /\ h.record.envelope.run # old.envelope.run
  BY DEF ForwardLedger
<1>1. ~ReplayError(old.envelope, h.record.envelope) /\ old.envelope \in envelopes /\ h.record.envelope \in envelopes
  BY DEF LedgerInv, LedgerSyncStands
<1>2. \A e \in envelopes : e.ledger.computed \in Int
  BY AggregateIsConsistent DEF LedgerInv, EnvelopeStands
<1> QED
  BY <1>1, <1>2 DEF ReplayError

-----------------------------------------------------------------------------
(* Recovery and first enrolment.                                                  *)

\* Evidence has one answer.
AnsweredOnce == \A a, b \in rcAnswers : a.key = b.key => a = b

LEMMA AnswersAreEarned ==
  ASSUME [RecoveryNext]_recoveryVars
  PROVE  rcAnswers' = rcAnswers \/ \E d \in rcAsked : /\ rcAnswers' = rcAnswers \cup {d} /\ AnswerTo(d.key) = {}
                                                     /\ \E m \in Current(d.key.id) : m.key = d.key
<1>1. ASSUME NEW i \in RecoverySources, NEW s \in Publishable, BeginRecoverySync(i, s) PROVE rcAnswers' = rcAnswers
  BY <1>1 DEF BeginRecoverySync
<1>2. ASSUME NEW p \in rcSending, StoreRecovery(p) \/ LoseRecovery(p) PROVE rcAnswers' = rcAnswers
  BY <1>2 DEF StoreRecovery, LoseRecovery
<1>3. ASSUME NEW e \in Listed, SeeRecovery(e) \/ \E answer \in {"approve", "reject"} : AskDecision(e, answer)
      PROVE  rcAnswers' = rcAnswers
  BY <1>3 DEF SeeRecovery, AskDecision
<1>4. ASSUME NEW d \in rcAsked, RecordDecision(d)
      PROVE  rcAnswers' = rcAnswers \/ /\ rcAnswers' = rcAnswers \cup {d} /\ AnswerTo(d.key) = {}
                                       /\ \E m \in Current(d.key.id) : m.key = d.key
  BY <1>4 DEF RecordDecision
<1>5. ASSUME NEW a \in EnrolledAccounts, RebindAccount(a) PROVE rcAnswers' = rcAnswers
  BY <1>5 DEF RebindAccount
<1>6. ASSUME RecoveryTick \/ UNCHANGED recoveryVars PROVE rcAnswers' = rcAnswers
  BY <1>6 DEF RecoveryTick, recoveryVars
<1> QED
  BY <1>1, <1>2, <1>3, <1>4, <1>5, <1>6 DEF RecoveryNext

LEMMA RecoveryKeeps == AnsweredOnce /\ [RecoveryNext]_recoveryVars => AnsweredOnce'
  BY AnswersAreEarned DEF AnsweredOnce, AnswerTo

LEMMA GivenOfInv == AnsweredOnce => GivenIsCurrent
<1> SUFFICES ASSUME AnsweredOnce, NEW g \in Given
             PROVE /\ g.answer.key = KeyOf(g.entry.request)
                   /\ rcNow - g.entry.request.last <= RecoveryTtl
                   /\ ~g.entry.request.blocked /\ BoundRequest(g.entry.request)
                   /\ g.entry.request.mode = "recovery" => g.entry.request.waiting /\ g.entry.request.samples >= 1
                   /\ \A i, j \in RecoverySources :
                        (\E s \in rcStore[i] : \E x \in s.requests : AcceptedSnapshot(s) /\ x.id = g.answer.key.id)
                        /\ (\E s \in rcStore[j] : \E x \in s.requests : AcceptedSnapshot(s) /\ x.id = g.answer.key.id) => i = j
                   /\ [key |-> g.answer.key, answer |-> "reject"] \notin rcAnswers
  BY DEF GivenIsCurrent
<1>1. PICK e, a : e = g.entry /\ a = g.answer
  OBVIOUS
<1>2. e \in Listed /\ OpenRequest(e) /\ a \in ShownAnswer(e) /\ a.answer = "approve" /\ a \in rcAnswers
  BY <1>1 DEF Given
<1>3. a.key = KeyOf(e.request)
  BY <1>2 DEF ShownAnswer
<1>4. /\ rcNow - e.request.last <= RecoveryTtl /\ ~e.request.blocked
      /\ e.request.mode = "recovery" => e.request.waiting /\ e.request.samples >= 1
      /\ Sole(e)
  BY <1>2 DEF OpenRequest, EvidenceFresh
<1>5. BoundRequest(e.request)
  <2>1. PICK i \in RecoverySources : \E s \in ReadSource(i) : \E x \in s.requests : e = [request |-> x, snapshot |-> s]
    BY <1>2 DEF Listed
  <2> QED
    BY <2>1 DEF ReadSource, AcceptedSnapshot
<1>6. a.key.id = e.request.id
  BY <1>3 DEF KeyOf
<1>7. ASSUME NEW i \in RecoverySources, NEW j \in RecoverySources,
             \E s \in rcStore[i] : \E x \in s.requests : AcceptedSnapshot(s) /\ x.id = a.key.id,
             \E s \in rcStore[j] : \E x \in s.requests : AcceptedSnapshot(s) /\ x.id = a.key.id
      PROVE  i = j
  BY <1>4, <1>6, <1>7 DEF Sole, ReadSource
<1>8. [key |-> a.key, answer |-> "reject"] \notin rcAnswers
  <2>1. PICK r : r = [key |-> a.key, answer |-> "reject"]
    OBVIOUS
  <2>2. r.key = a.key /\ r.answer = "reject"
    BY <2>1
  <2>3. r \notin rcAnswers
    BY <1>2, <2>2 DEF AnsweredOnce
  <2> QED
    BY <2>1, <2>3
<1> QED
  BY <1>1, <1>3, <1>4, <1>5, <1>7, <1>8

LEMMA RecoverySteps == [RecoveryNext]_recoveryVars => RecoveryStep
<1> SUFFICES ASSUME [RecoveryNext]_recoveryVars PROVE RecoveryStep
  OBVIOUS
<1>1. ASSUME NEW d \in rcAsked, AnswerTo(d.key) = {}, NEW m \in Current(d.key.id)
      PROVE  Cardinality(Holding(d.key.id)) = 1
  BY DEF Current
<1> QED
  BY <1>1, AnswersAreEarned DEF RecoveryStep

-----------------------------------------------------------------------------
(* The daily runs: one record per target and day, whose reading has a time; a     *)
(* strict record says what it said when it was admitted; a request in flight is   *)
(* later than what it read.                                                       *)

\* What a strict target's record said when it was admitted, whatever the time is now.
SaidStrictly(r) ==
  r.target \in StrictTargets =>
    ValidSchedule(r.day) /\ ValidSummary(r.day) /\ \A x \in r.day.runs : ValidRun(x, r.day, TRUE)
\* A record with a fingerprint was posted by the source of the account it was written for.
WasBound(c) == RegisteredBindings(c) \cup BuiltInBindings(c)
OwnerIsNamed(r) ==
  r.bound # NoPrint =>
    \E c \in DailyConfigs : \E b \in WasBound(c) : b.print = r.bound /\ b.account = r.account /\ b.source = r.source
RecordStands(r) == r.day.observed \in Int /\ SaidStrictly(r) /\ OwnerIsNamed(r)
OneRecordADay == \A r, s \in dayRecords : r.target = s.target /\ r.date = s.date => r = s
SyncIsLater(s) ==
  /\ RecordStands(s.record)
  /\ \A r \in s.seen : r.day.observed \in Int /\ s.record.day.observed > r.day.observed
DailyInv ==
  /\ dayConfig \in DailyConfigs
  /\ OneRecordADay
  /\ \A r \in dayRecords : RecordStands(r)
  /\ \A s \in daySyncs : SyncIsLater(s)

LEMMA DailyStarts == DailyInit => DailyInv
  BY DEF DailyInit, DailyInv, Configurable, OneRecordADay

\* What a request does: it is admitted later than the record it has read.
LEMMA SyncBegins ==
  ASSUME DailyInv, NEW r \in DailyReports, BeginDailySync(r)
  PROVE  /\ dayConfig' = dayConfig /\ dayRecords' = dayRecords
         /\ \E s : daySyncs' = daySyncs \cup {s} /\ SyncIsLater(s)
<1> USE DailyAssumption
<1>1. PICK b \in BindingsOf(dayConfig, r.target) :
        /\ Supersedes(StoredFor(r.target, r.day.date), r.day)
        /\ daySyncs' = daySyncs \cup {[seen |-> StoredFor(r.target, r.day.date), record |->
             [target |-> r.target, date |-> r.day.date, bound |-> b.print, day |-> r.day,
              account |-> b.account, source |-> r.source]]}
        /\ b.print # NoPrint => r.source = b.source
  BY DEF BeginDailySync
<1>2. PICK seen, rec : /\ seen = StoredFor(r.target, r.day.date)
                       /\ rec = [target |-> r.target, date |-> r.day.date, bound |-> b.print, day |-> r.day,
                                 account |-> b.account, source |-> r.source]
  OBVIOUS
<1>3. /\ rec.target = r.target /\ rec.date = r.day.date /\ rec.day = r.day
      /\ rec.bound = b.print /\ rec.account = b.account /\ rec.source = r.source
  BY <1>2
<1>4. RecordStands(rec)
  <2>1. r.target \in StrictTargets =>
          ValidSchedule(r.day) /\ ValidSummary(r.day) /\ \A x \in r.day.runs : ValidRun(x, r.day, TRUE)
    BY DEF BeginDailySync, AcceptedDay
  <2>2. OwnerIsNamed(rec)
    BY <1>1, <1>3 DEF OwnerIsNamed, BindingsOf, WasBound, DailyInv
  <2> QED
    BY <2>1, <2>2, <1>3 DEF RecordStands, SaidStrictly
<1>5. \A q \in seen : q.day.observed \in Int /\ rec.day.observed > q.day.observed
  BY <1>1, <1>2, <1>3 DEF Supersedes, StoredFor, DailyInv, RecordStands
<1>6. PICK s : s = [seen |-> seen, record |-> rec]
  OBVIOUS
<1>7. s.seen = seen /\ s.record = rec
  BY <1>6
<1>8. SyncIsLater(s)
  BY <1>7, <1>4, <1>5 DEF SyncIsLater
<1>9. daySyncs' = daySyncs \cup {s}
  BY <1>1, <1>2, <1>6
<1> QED
  BY <1>8, <1>9 DEF BeginDailySync

LEMMA SyncKeeps ==
  ASSUME DailyInv, NEW r \in DailyReports, BeginDailySync(r)
  PROVE  DailyInv'
<1>1. PICK s : daySyncs' = daySyncs \cup {s} /\ SyncIsLater(s)
  BY SyncBegins
<1>2. dayConfig' = dayConfig /\ dayRecords' = dayRecords
  BY SyncBegins
<1>3. ASSUME NEW x PROVE RecordStands(x)' <=> RecordStands(x)
  BY Zenon DEF RecordStands, SaidStrictly, OwnerIsNamed
<1>4. ASSUME NEW x \in daySyncs' PROVE SyncIsLater(x)'
  <2>1. SyncIsLater(x)
    BY <1>1, Zenon DEF DailyInv
  <2> QED
    BY <2>1, <1>3, Zenon DEF SyncIsLater
<1>5. OneRecordADay' /\ dayConfig' \in DailyConfigs /\ \A x \in dayRecords' : RecordStands(x)'
  BY <1>2, <1>3, Zenon DEF DailyInv, OneRecordADay
<1> QED
  BY <1>4, <1>5, Zenon DEF DailyInv

LEMMA FinishKeeps ==
  ASSUME DailyInv, NEW s \in daySyncs, FinishDailySync(s)
  PROVE  DailyInv'
<1>1. PICK rec : rec = s.record
  OBVIOUS
<1>2. dayRecords' = (dayRecords \ StoredFor(rec.target, rec.date)) \cup {rec}
  BY <1>1 DEF FinishDailySync
<1>3. RecordStands(rec)
  BY <1>1 DEF DailyInv, SyncIsLater
<1>4. OneRecordADay'
  BY <1>2 DEF OneRecordADay, DailyInv, StoredFor
<1>5. \A r \in dayRecords' : RecordStands(r)
  BY <1>2, <1>3 DEF DailyInv
<1>6. daySyncs' \subseteq daySyncs /\ dayConfig' = dayConfig
  BY DEF FinishDailySync
<1> QED
  BY <1>4, <1>5, <1>6 DEF DailyInv, SyncIsLater, RecordStands, SaidStrictly, OwnerIsNamed

LEMMA DailyKeeps ==
  ASSUME DailyInv, [DailyNext]_dailyVars
  PROVE  DailyInv'
<1>1. ASSUME NEW r \in DailyReports, BeginDailySync(r) PROVE DailyInv'
  BY <1>1, SyncKeeps
<1>2. ASSUME NEW s \in daySyncs, FinishDailySync(s) PROVE DailyInv'
  BY <1>2, FinishKeeps
<1>3. ASSUME NEW s \in daySyncs, LoseDailySync(s) PROVE DailyInv'
  BY <1>3 DEF LoseDailySync, DailyInv, OneRecordADay
<1>4. ASSUME NEW c \in DailyConfigs, ConfigureDaily(c) PROVE DailyInv'
  BY <1>4 DEF ConfigureDaily, DailyInv, OneRecordADay
<1>5. CASE DailyTick \/ UNCHANGED dailyVars
  BY <1>5 DEF DailyTick, dailyVars, DailyInv, OneRecordADay
<1> QED
  BY <1>1, <1>2, <1>3, <1>4, <1>5 DEF DailyNext, Postable, Configurable

\* A record gives way to an older one only where two requests overlapped.
LEMMA DailySteps == DailyInv /\ [DailyNext]_dailyVars => DayStep
<1> SUFFICES ASSUME DailyInv, [DailyNext]_dailyVars, NEW old \in dayRecords, NEW new \in dayRecords',
                    old # new, old.target = new.target, old.date = new.date, new.day.observed <= old.day.observed
             PROVE  \E s \in daySyncs : s.record = new /\ old \notin s.seen
  BY DEF DayStep
<1>1. new \notin dayRecords
  BY DEF DailyInv, OneRecordADay
<1>2. ASSUME NEW s \in daySyncs, FinishDailySync(s) PROVE s.record = new /\ old \notin s.seen
  <2>1. s.record = new
    BY <1>1, <1>2 DEF FinishDailySync
  <2>2. ASSUME old \in s.seen PROVE FALSE
    <3>1. new.day.observed \in Int /\ old.day.observed \in Int /\ new.day.observed > old.day.observed
      BY <2>1, <2>2 DEF DailyInv, SyncIsLater, RecordStands
    <3> QED
      BY <3>1
  <2> QED
    BY <2>1, <2>2
<1>3. \/ \E s \in daySyncs : FinishDailySync(s)
      \/ dayRecords' = dayRecords
  BY DEF DailyNext, BeginDailySync, LoseDailySync, ConfigureDaily, DailyTick, dailyVars
<1> QED
  BY <1>1, <1>2, <1>3

\* A fingerprint names the account and the source it was made for.
LEMMA PrintNames ==
  ASSUME NEW c, NEW d, NEW b \in WasBound(c), NEW x \in WasBound(d), b.print = x.print, b.print # NoPrint
  PROVE  b.account = x.account /\ b.source = x.source
<1> DEFINE Named(y) ==
      \/ \E e : y.print[1] = {e} /\ y.account = e.account /\ y.source = e.source
      \/ y.print[1] = {} /\ \E p : y.print[2] = {p} /\ y.account = p.account /\ y.source = p.source
<1>1. ASSUME NEW k, NEW y \in WasBound(k), y.print # NoPrint PROVE Named(y)
  <2>1. CASE y \in RegisteredBindings(k)
    <3>1. PICK e \in BoundEntries(k) :
            y = [target |-> e.target, account |-> e.account, source |-> e.source, print |-> <<{e}, FactsFor(k, e)>>]
      BY <2>1 DEF RegisteredBindings
    <3>2. y.print = <<{e}, FactsFor(k, e)>> /\ y.account = e.account /\ y.source = e.source
      BY <3>1
    <3> QED
      BY <3>2
  <2>2. CASE y \in BuiltInBindings(k)
    <3>1. PICK p \in StrictBindings(k) :
            y = [target |-> p.target, account |-> p.account, source |-> p.source, print |-> <<{}, {p}>>]
      BY <1>1, <2>2 DEF BuiltInBindings
    <3>2. y.print = <<{}, {p}>> /\ y.account = p.account /\ y.source = p.source
      BY <3>1
    <3> QED
      BY <3>2
  <2> QED
    BY <1>1, <2>1, <2>2 DEF WasBound
<1>2. Named(b) /\ Named(x)
  BY <1>1
<1> QED
  BY <1>2

\* An account whose reader has a binding is bound without conflict.
LEMMA BoundIsSettled ==
  ASSUME NEW a, NEW b \in ReadBindings(a)
  PROVE  ~Conflicting(a) /\ b \in AllBindings(a) /\ b \in WasBound(dayConfig) /\ b.account = a
<1>1. b \in AllBindings(a) /\ b \in WasBound(dayConfig) /\ b.account = a
  BY DEF ReadBindings, AllBindings, WasBound
<1>2. ASSUME NEW e \in dayConfig.registry, e \notin BoundEntries(dayConfig), e.account = a PROVE FALSE
  <2>1. b \in RegisteredBindings(dayConfig)
    BY <1>1, <1>2 DEF ReadBindings, Registered, WasBound
  <2>2. PICK f \in BoundEntries(dayConfig) :
          b = [target |-> f.target, account |-> f.account, source |-> f.source, print |-> <<{f}, FactsFor(dayConfig, f)>>]
    BY <2>1 DEF RegisteredBindings
  <2>3. f.account = a
    BY <1>1, <2>2
  <2> QED
    BY <2>3, <1>2 DEF BoundEntries, Collides
<1> QED
  BY <1>1, <1>2 DEF Conflicting

\* The row of an account that has a record shown and is not bound twice tells of it.
LEMMA RowTells ==
  ASSUME DailyInv, NEW a, NEW r \in Shown(a, DateAt(dayNow)), ~BoundTwice(a)
  PROVE  \E st \in {"stale", "ok", "partial"} :
           Row(a) = [status |-> st, activity |-> r.day.status, complete |-> Whole(r.day),
                     failing |-> ~r.day.clean, runs |-> PublicRuns(r)]
<1>1. r \in OfAccount(a, DateAt(dayNow))
  BY DEF Shown
<1>2. PICK b \in ReadBindings(a) : b.target = r.target
  BY <1>1 DEF OfAccount
<1>3. ~Conflicting(a) /\ ~BoundTwice(a) /\ AllBindings(a) # {}
  BY <1>2, BoundIsSettled
<1>4. ASSUME NEW q \in OfAccount(a, DateAt(dayNow)) PROVE q = r
  <2>1. PICK c \in ReadBindings(a) : c.target = q.target
    BY <1>4 DEF OfAccount
  <2>2. b = c
    BY <1>2, <2>1, BoundIsSettled DEF BoundTwice
  <2> QED
    BY <1>1, <1>2, <1>4, <2>1, <2>2 DEF OfAccount, DailyInv, OneRecordADay
<1>5. Shown(a, DateAt(dayNow)) = {r} /\ Unreadable(a, DateAt(dayNow)) = {}
  BY <1>4 DEF Shown, Unreadable
<1>6. (CHOOSE x \in Shown(a, DateAt(dayNow)) : TRUE) = r
  BY <1>5
<1> DEFINE st == IF DataStatus(r) # "fresh" THEN "stale" ELSE IF Whole(r.day) THEN "ok" ELSE "partial"
<1>7. Row(a) = [status |-> st, activity |-> r.day.status, complete |-> Whole(r.day),
                failing |-> ~r.day.clean, runs |-> PublicRuns(r)]
  BY <1>3, <1>5, <1>6 DEF Row
<1>8. st \in {"stale", "ok", "partial"}
  OBVIOUS
<1> QED
  BY <1>7, <1>8

\* An account that is bound twice is never told to have succeeded.
LEMMA BoundTwiceIsPartial ==
  ASSUME NEW a, BoundTwice(a)
  PROVE  PanelState(Row(a)) # "succeeded"
<1>1. PICK row : row = Row(a)
  OBVIOUS
<1>2. row = [status |-> "partial", activity |-> "none", complete |-> FALSE, failing |-> FALSE, runs |-> {}]
  BY <1>1 DEF Row, NoRow
<1>3. row.complete = FALSE
  BY <1>2
<1>4. RunStatus(row) # "succeeded"
  BY <1>3 DEF RunStatus
<1> QED
  BY <1>1, <1>4 DEF PanelState, ScheduleOnly

LEMMA DayIsOwnOfInv == DailyInv => DayIsOwn
<1> SUFFICES ASSUME DailyInv PROVE DayIsOwn
  OBVIOUS
<1> USE DailyAssumption
<1>1. ASSUME NEW a \in DailyAccounts, NEW r \in dayRecords, r.bound # NoPrint, r \in Shown(a, r.date)
      PROVE  r.account = a /\ \E b \in ReadBindings(a) : b.target = r.target /\ b.source = r.source
  <2>1. PICK b \in ReadBindings(a) : b.target = r.target /\ r.bound = b.print
    BY <1>1 DEF Shown, ReadableUnder
  <2>2. PICK c, x : x \in WasBound(c) /\ x.print = r.bound /\ x.account = r.account /\ x.source = r.source
    BY <1>1 DEF DailyInv, RecordStands, OwnerIsNamed
  <2>3. b \in WasBound(dayConfig) /\ b.account = a
    BY BoundIsSettled
  <2>4. b.account = x.account /\ b.source = x.source
    BY <1>1, <2>1, <2>2, <2>3, PrintNames
  <2> QED
    BY <2>1, <2>2, <2>3, <2>4
<1>2. ASSUME NEW e \in BoundEntries(dayConfig), NEW f \in BoundEntries(dayConfig), e.account # f.account,
             e.account \in IbkrAccounts, f.account \in IbkrAccounts
      PROVE  SelectorsOf(e.account) \cap SelectorsOf(f.account) = {}
  <2>1. PICK p \in dayConfig.facts : p \in FactsFor(dayConfig, e) /\ p.account = e.account
    BY DEF BoundEntries, FactsFor
  <2>2. ASSUME NEW x \in SelectorsOf(e.account), x \in SelectorsOf(f.account) PROVE FALSE
    <3>1. x = p.selector
      BY <2>1, <2>2 DEF SelectorsOf, DailyInv
    <3>2. PICK q \in dayConfig.facts : q.account = f.account /\ q.selector = x
      BY <2>2 DEF SelectorsOf
    <3>3. f \in dayConfig.registry /\ q.account = f.account /\ q.selector = p.selector
      BY <3>1, <3>2 DEF BoundEntries
    <3>4. SharesPhysical(dayConfig, e)
      BY <1>2, <2>1, <3>3 DEF SharesPhysical
    <3> QED
      BY <3>4 DEF BoundEntries
  <2> QED
    BY <2>2
<1> QED
  BY <1>1, <1>2 DEF DayIsOwn

\* What an admitted day that counts as completed says of its runs.
LEMMA CompletedIsProved ==
  ASSUME NEW r, AcceptedDay(r.day, r.target), r.day.status \in Completed
  PROVE  Proved(r)
<1>1. \A x \in r.day.runs : RunIssue(x, r.target \in StrictTargets) = "none"
  BY DEF AcceptedDay
<1>2. ASSUME NEW x \in r.day.runs PROVE ~x.errors /\ ~x.pending /\ x.activity \in Completed
  BY <1>1 DEF RunIssue
<1>3. ASSUME r.target \in StrictTargets
      PROVE  /\ \E x \in r.day.runs : x.from >= r.day.due /\ x.lane = "live"
             /\ \A x \in r.day.runs : x.receipt = x.activity
  <2>1. ValidSummary(r.day) /\ \A x \in r.day.runs : ValidRun(x, r.day, TRUE)
    BY <1>3 DEF AcceptedDay
  <2>2. Covering(r.day) # {} /\ \A x \in Covering(r.day) : x.lane = "live"
    BY <2>1 DEF ValidSummary
  <2>3. \E x \in r.day.runs : x.from >= r.day.due /\ x.lane = "live"
    BY <2>2 DEF Covering
  <2>4. \A x \in r.day.runs : x.receipt = x.activity
    BY <2>1, <1>2 DEF ValidRun
  <2> QED
    BY <2>3, <2>4
<1> QED
  BY <1>2, <1>3 DEF Proved

LEMMA SuccessOfInv == DailyInv => SuccessIsProved
<1> SUFFICES ASSUME DailyInv PROVE SuccessIsProved
  OBVIOUS
<1>1. ASSUME NEW a \in DailyAccounts, NEW r \in Shown(a, DateAt(dayNow))
      PROVE  /\ PanelState(Row(a)) = "succeeded" => Proved(r)
             /\ CellKind(r) = "failed" /\ ~BoundTwice(a) => RunStatus(Row(a)) = "failed"
  <2>1. CASE BoundTwice(a)
    BY <2>1, BoundTwiceIsPartial
  <2>2. CASE ~BoundTwice(a)
    <3>1. PICK st \in {"stale", "ok", "partial"} :
            Row(a) = [status |-> st, activity |-> r.day.status, complete |-> Whole(r.day),
                      failing |-> ~r.day.clean, runs |-> PublicRuns(r)]
      BY <2>2, RowTells
    <3>2. PICK row : row = Row(a)
      OBVIOUS
    <3>3. row.status = st /\ row.activity = r.day.status /\ row.runs = PublicRuns(r)
      BY <3>1, <3>2
    <3>4. ASSUME PanelState(row) = "succeeded" PROVE row.activity \in Completed
      <4>1. RunStatus(row) = "succeeded"
        BY <3>4 DEF PanelState, ScheduleOnly
      <4> QED
        BY <4>1 DEF RunStatus, Completed, Quiet
    <3>5. PanelState(row) = "succeeded" => Proved(r)
      BY <3>3, <3>4, CompletedIsProved DEF Shown
    <3>6. ASSUME CellKind(r) = "failed" PROVE RunStatus(row) = "failed"
      <4>1. /\ r.day.status # "blocked"
            /\ r.day.status = "failed" \/ \E x \in PublicRuns(r) : x.activity # "blocked" /\ x.issue = "failure"
        BY <3>6 DEF CellKind
      <4> QED
        BY <4>1, <3>3 DEF RunStatus
    <3> QED
      BY <3>2, <3>5, <3>6
  <2> QED
    BY <2>1, <2>2
<1>2. ASSUME NEW r \in dayRecords, AcceptedDay(r.day, r.target), CellKind(r) = "ok" PROVE Proved(r)
  <2>1. r.day.status \in Completed
    BY <1>2 DEF CellKind
  <2> QED
    BY <1>2, <2>1, CompletedIsProved
<1> QED
  BY <1>1, <1>2 DEF SuccessIsProved

LEMMA QuietOfInv == DailyInv => QuietIsQuiet
<1> SUFFICES ASSUME DailyInv, NEW r \in dayRecords, r.target \in StrictTargets, r.day.status \in Quiet,
                    NEW x \in r.day.runs, x.from >= r.day.due, DateAt(x.from) = r.day.date
             PROVE  x.activity \in Quiet
  BY DEF QuietIsQuiet
<1>1. PICK d : d = r.day
  OBVIOUS
<1>2. ValidSchedule(d) /\ ValidSummary(d) /\ ValidRun(x, d, TRUE)
  BY <1>1 DEF DailyInv, RecordStands, SaidStrictly
<1>3. d.state \in {"due", "within_grace"} /\ \A y \in Covering(d) : y.activity = d.status
  BY <1>1, <1>2 DEF ValidSummary, Completed
<1>4. d.due > 0
  BY <1>2, <1>3 DEF ValidSchedule
<1>5. x.to <= d.observed
  BY <1>2 DEF ValidRun
<1>6. x \in Covering(d)
  BY <1>1, <1>4, <1>5 DEF Covering
<1> QED
  BY <1>1, <1>3, <1>6

LEMMA DailyOfInv == DailyInv => DailyIsTrue
  BY DayIsOwnOfInv, SuccessOfInv, QuietOfInv DEF DailyIsTrue

-----------------------------------------------------------------------------
(* The evidence sources: what is stored was accepted, names no item when it is    *)
(* not available, and its candidates for the owner are registered.                *)

\* A number is the least of a set if it is in it and none is less.
LEMMA MinIsLeast ==
  ASSUME NEW S, S \subseteq Nat, S # {}
  PROVE  Min(S) \in S /\ \A y \in S : Min(S) <= y
  BY LeastOf DEF Min

LEMMA MaxOfTwo ==
  ASSUME NEW a \in Nat, NEW b \in Nat
  PROVE  Max({a, b}) \in {a, b}
<1>1. \E x \in {a, b} : \A y \in {a, b} : x >= y
  <2>1. a >= b \/ b >= a
    OBVIOUS
  <2> QED BY <2>1
<1> QED BY <1>1 DEF Max

\* What the collectors of the platforms make of the reports.
LEMMA CountableIsLatest ==
  ASSUME NEW rs \in SUBSET EvReports, NEW t
  PROVE  /\ Countable(rs, t) \subseteq rs
         /\ \A r, q \in Countable(rs, t) : r.id = q.id => r = q
<1> DEFINE eligible == {r \in rs : ReportProjects(r) /\ r.at <= t + EvSkew /\ r.at >= t - EvReportAge}
           lastOf(i) == {r \in eligible : r.id = i /\ \A q \in eligible : q.id = i => q.at <= r.at}
           named == {r.id : r \in eligible}
<1>1. Countable(rs, t) = {CHOOSE r \in lastOf(i) : TRUE : i \in named}
  BY DEF Countable
<1>2. ASSUME NEW i \in named PROVE lastOf(i) # {}
  <2> DEFINE mine == {r \in eligible : r.id = i}
             times == {r.at : r \in mine}
  <2>1. mine \subseteq EvReports /\ mine # {} /\ IsFiniteSet(mine)
    BY EvAssumption, FS_Subset
  <2>2. times \subseteq Nat /\ times # {} /\ IsFiniteSet(times)
    <3>1. \A r \in mine : r.at \in Nat
      BY <2>1, EvAssumption
    <3> DEFINE f == [r \in mine |-> r.at]
    <3>2. f \in Surjection(mine, times)
      BY DEF Surjection
    <3> HIDE DEF f
    <3>3. IsFiniteSet(times)
      <4> HIDE DEF mine, times
      <4> QED BY <2>1, <3>2, FS_Surjection
    <3> QED BY <2>1, <3>1, <3>3
  <2>3. PICK x \in times : \A y \in times : y <= x
    BY <2>2, GreatestOf
  <2>4. PICK r \in mine : r.at = x
    BY <2>3
  <2>5. \A q \in mine : q.at <= r.at
    BY <2>3, <2>4
  <2> QED BY <2>4, <2>5
<1>3. \A i \in named : (CHOOSE r \in lastOf(i) : TRUE) \in lastOf(i)
  BY <1>2
<1>4. \A i : lastOf(i) \subseteq rs /\ \A r \in lastOf(i) : r.id = i
  OBVIOUS
<1>5. \A r \in Countable(rs, t) : r \in rs /\ r = CHOOSE q \in lastOf(r.id) : TRUE
  <2> HIDE DEF lastOf, named
  <2> QED BY <1>1, <1>3, <1>4
<1> QED
  <2> HIDE DEF lastOf, named
  <2> QED BY <1>5

\* What a stored snapshot says of its items.
DeploymentsStand(s) ==
  /\ AcceptedDeployments(s.items)
  /\ \A d \in s.items : d.observed \in Nat /\ (d.observed = 0 \/ (s.generated > 0 /\ s.generated <= d.observed))
SnapshotStands(s) ==
  /\ s.status \in {"ready", "stale", "unavailable"} /\ s.generated \in Nat /\ s.computed \in Nat
  /\ evFeed = "candidates" => \E r \in EvRuns : r > s.generated /\ r > s.computed
  /\ evFeed = "deployments" => DeploymentsStand(s)
  /\ evFeed = "targets" =>
       \A t \in s.items : t.configured \in {"enabled", "disabled"} /\ \A d \in t.deployment : d.enabled \in BOOLEAN
AllRegistered(x, s) == \A c \in OwnerCandidates(Kept(s).items) : [source |-> x, id |-> c.id] \in registered
StoredStands(x, s) ==
  /\ SnapshotStands(s)
  /\ s.status = "unavailable" => s.items = {}
  /\ evFeed = "candidates" => AllRegistered(x, s)
EvSyncStands(h) ==
  evFeed = "candidates" /\ h.source \in EvSources /\ h.snapshot \in EvSnapshots(evFeed) /\ AllRegistered(h.source, h.snapshot)
EvInv ==
  /\ evFeed \in EvFeeds /\ evNow \in Nat /\ evNow > 0
  /\ published = [x \in EvSources |-> published[x]]
  /\ \A x \in EvSources : \A s \in published[x] : StoredStands(x, s)
  /\ \A h \in syncing : EvSyncStands(h)
  /\ evFeed # "candidates" => retired = {}

LEMMA DeploymentIsAccepted ==
  ASSUME NEW r \in EvReports
  PROVE  /\ Deployment(r).recommended = "parked" /\ Deployment(r).id = r.id /\ Deployment(r).observed = r.at
         /\ \A outcome \in Deployment(r).receipt : Deployment(r).execution = ExpectedExecution(outcome)
<1>1. PICK d : d = Deployment(r)
  OBVIOUS
<1>2. /\ d.recommended = "parked" /\ d.id = r.id /\ d.observed = r.at
      /\ d.receipt = {x.outcome : x \in r.receipt} /\ d.execution = ReceiptEvidence(r)
  BY <1>1 DEF Deployment
<1>3. ASSUME NEW x \in r.receipt PROVE ReceiptEvidence(r) = ExpectedExecution(x.outcome)
  <2>1. {ExpectedExecution(y.outcome) : y \in r.receipt} = {ExpectedExecution(x.outcome)}
    BY EvAssumption
  <2> QED BY <2>1, <1>3 DEF ReceiptEvidence
<1> QED BY <1>1, <1>2, <1>3

LEMMA CollectedIsSound ==
  ASSUME NEW rs \in SUBSET EvReports, NEW t \in Nat
  PROVE  /\ Collected(rs, t).status \in {"ready", "unavailable"}
         /\ Collected(rs, t).generated \in Nat /\ Collected(rs, t).computed \in Nat
         /\ DeploymentsStand(Collected(rs, t))
         /\ \A i, j \in Collected(rs, t).items : i.id = j.id => i = j
         /\ Collected(rs, t).status = "unavailable" => Collected(rs, t).items = {}
         /\ Collected(rs, t).status = "ready" =>
              Collected(rs, t).items # {} /\ Collected(rs, t).generated > 0 /\ Collected(rs, t).computed = t
<1>1. PICK inc : inc = Countable(rs, t)
  OBVIOUS
<1>2. inc \subseteq EvReports /\ \A r, q \in inc : r.id = q.id => r = q
  BY <1>1, CountableIsLatest
<1>3. PICK c : c = Collected(rs, t)
  OBVIOUS
<1>4. /\ c.status = IF inc = {} THEN "unavailable" ELSE "ready"
      /\ c.computed = t /\ c.items = {Deployment(r) : r \in inc}
      /\ c.generated = IF inc = {} THEN 0 ELSE DatedByOldest(inc)
  BY <1>1, <1>3 DEF Collected
<1>5. \A i, j \in c.items : i.id = j.id => i = j
  BY <1>2, <1>4, DeploymentIsAccepted
<1>6. c.generated \in Nat /\ \A r \in inc : c.generated > 0 /\ c.generated <= r.at
  <2>1. CASE inc = {}
    BY <2>1, <1>4
  <2>2. CASE inc # {}
    <3>1. PICK S : S = {r.at : r \in inc}
      OBVIOUS
    <3>2. S \subseteq Nat \ {0} /\ S # {}
      BY <3>1, <2>2, <1>2, EvAssumption
    <3>3. Min(S) \in S /\ \A y \in S : Min(S) <= y
      BY <3>2, MinIsLeast
    <3>4. c.generated = Min(S)
      BY <3>1, <2>2, <1>4 DEF DatedByOldest
    <3>5. c.generated \in Nat \ {0} /\ \A y \in S : c.generated <= y
      BY ONLY <3>2, <3>3, <3>4
    <3>6. \A r \in inc : r.at \in S
      BY <3>1
    <3> QED BY <3>5, <3>6
  <2> QED BY <2>1, <2>2
<1>7. AcceptedDeployments(c.items)
  BY <1>2, <1>4, DeploymentIsAccepted DEF AcceptedDeployments
<1>8. DeploymentsStand(c)
  BY <1>2, <1>4, <1>6, <1>7, DeploymentIsAccepted, EvAssumption DEF DeploymentsStand
<1>9. c.status = "ready" => c.items # {} /\ c.generated > 0
  BY <1>4, <1>6
<1> QED BY <1>3, <1>4, <1>5, <1>6, <1>8, <1>9

LEMMA EvStarts == EvInit => EvInv
  BY DEF EvInit, EvInv

LEMMA KeptStands ==
  ASSUME NEW s, SnapshotStands(s)
  PROVE  /\ SnapshotStands(Kept(s))
         /\ Kept(s).status = "unavailable" => Kept(s).items = {}
         /\ Kept(Kept(s)) = Kept(s)
<1>1. PICK k : k = Kept(s)
  OBVIOUS
<1>2. /\ k.status = s.status /\ k.generated = s.generated /\ k.computed = s.computed
      /\ k.items = IF s.status = "unavailable" THEN {} ELSE s.items
  BY <1>1 DEF Kept
<1>3. SnapshotStands(k)
  BY <1>2 DEF SnapshotStands, DeploymentsStand, AcceptedDeployments
<1>4. Kept(k) = k
  BY <1>1, <1>2 DEF Kept
<1> QED BY <1>1, <1>2, <1>3, <1>4

LEMMA SentStands ==
  ASSUME evFeed \in EvFeeds, NEW s \in EvSnapshots(evFeed), evFeed = "deployments" => AcceptedDeployments(s.items)
  PROVE  SnapshotStands(s)
  BY EvAssumption DEF SnapshotStands, DeploymentsStand

LEMMA StoreKeeps ==
  ASSUME EvInv, NEW x \in EvSources, NEW s, SnapshotStands(s), Store(x, s),
         evFeed = "candidates" => AllRegistered(x, s),
         syncing' \subseteq syncing, UNCHANGED <<evFeed, evNow, registered, retired>>
  PROVE  EvInv'
<1>1. PICK k : k = Kept(s)
  OBVIOUS
<1>2. published' = [published EXCEPT ![x] = {k}]
  BY <1>1 DEF Store
<1>3. SnapshotStands(k) /\ (k.status = "unavailable" => k.items = {})
  BY <1>1, KeptStands
<1>4. evFeed = "candidates" => AllRegistered(x, k)
  BY <1>1, KeptStands DEF AllRegistered
<1>5. StoredStands(x, k)
  BY <1>1, <1>4, KeptStands DEF StoredStands
<1>6. published' = [y \in EvSources |-> published'[y]]
  BY <1>2 DEF EvInv
<1>7. ASSUME NEW y \in EvSources, NEW q \in published'[y] PROVE StoredStands(y, q)
  BY <1>2, <1>5, <1>7 DEF EvInv
<1>8. \A h \in syncing' : EvSyncStands(h)
  BY DEF EvInv
<1> QED BY <1>6, <1>7, <1>8 DEF EvInv, StoredStands, EvSyncStands, AllRegistered, SnapshotStands

LEMMA PublishKeeps ==
  ASSUME EvInv, NEW which, NEW x \in EvSources, NEW s, NEW accepted, SnapshotStands(s), which # "candidates",
         Publish(which, x, s, accepted)
  PROVE  EvInv'
  BY StoreKeeps DEF Publish

LEMMA RegisterCandidatesKeeps ==
  ASSUME EvInv, NEW x \in EvSources, NEW s \in EvSnapshots(evFeed), NEW validation, RegisterCandidates(x, s, validation)
  PROVE  EvInv'
<1>1. PICK h : h = [source |-> x, snapshot |-> s]
  OBVIOUS
<1>2. h.source = x /\ h.snapshot = s /\ syncing' = syncing \cup {h}
  BY <1>1 DEF RegisterCandidates
<1>3. registered \subseteq registered' /\ AllRegistered(x, s)'
  BY DEF RegisterCandidates, AllRegistered
<1>4. \A y, q : AllRegistered(y, q) => AllRegistered(y, q)'
  BY <1>3 DEF AllRegistered
<1>5. \A g \in syncing' : EvSyncStands(g)'
  BY <1>2, <1>3, <1>4 DEF EvInv, EvSyncStands, RegisterCandidates
<1>6. \A y \in EvSources : \A q \in published'[y] : StoredStands(y, q)'
  BY <1>4 DEF EvInv, StoredStands, SnapshotStands, RegisterCandidates
<1> QED BY <1>5, <1>6 DEF EvInv, RegisterCandidates

LEMMA EvKeeps ==
  ASSUME EvInv, [EvNext]_evVars
  PROVE  EvInv'
<1>1. ASSUME NEW x \in EvSources, NEW s \in EvSnapshots(evFeed), NEW validation \in BOOLEAN, RegisterCandidates(x, s, validation)
      PROVE  EvInv'
  BY <1>1, RegisterCandidatesKeeps
<1>2. ASSUME NEW x \in EvSources, NEW s \in EvSnapshots(evFeed), PublishTasks(x, s) PROVE EvInv'
  BY <1>2, SentStands, PublishKeeps DEF PublishTasks, Publish, EvInv
<1>3. ASSUME NEW x \in EvSources, NEW s \in EvSnapshots(evFeed), PublishDeployments(x, s) PROVE EvInv'
  <2>1. AcceptedDeployments(s.items)
    BY <1>3 DEF PublishDeployments, Publish, Admit
  <2> QED BY <1>3, <2>1, SentStands, PublishKeeps DEF PublishDeployments, EvInv
<1>4. ASSUME NEW x \in EvSources, NEW s \in EvSnapshots(evFeed), PublishTargets(x, s) PROVE EvInv'
  BY <1>4, SentStands, PublishKeeps DEF PublishTargets, Publish, EvInv
<1>5. ASSUME NEW x \in EvSources, NEW s \in EvSnapshots(evFeed), PublishSelection(x, s) PROVE EvInv'
  BY <1>5, SentStands, PublishKeeps DEF PublishSelection, Publish, EvInv
<1>6. ASSUME NEW x \in EvSources, NEW rs \in SUBSET EvReports, NEW t \in 1..MaxEvTime, PublishCollected(x, rs, t)
      PROVE  EvInv'
  <2>1. PICK c : c = Collected(rs, t)
    OBVIOUS
  <2>2. t \in Nat
    OBVIOUS
  <2>3. evFeed = "deployments"
    BY <1>6 DEF PublishCollected, PublishDeployments, Publish
  <2>4. SnapshotStands(c)
    BY <2>1, <2>2, <2>3, CollectedIsSound DEF SnapshotStands
  <2> QED BY <1>6, <2>1, <2>4, PublishKeeps DEF PublishCollected, PublishDeployments
<1>7. ASSUME NEW h \in syncing, StoreCandidates(h) PROVE EvInv'
  <2>1. EvSyncStands(h)
    BY DEF EvInv
  <2>2. SnapshotStands(h.snapshot)
    BY <2>1, SentStands DEF EvSyncStands, EvInv
  <2> QED BY <1>7, <2>1, <2>2, StoreKeeps DEF StoreCandidates, EvSyncStands
<1>8. ASSUME NEW h \in syncing, LoseCandidates(h) PROVE EvInv'
  BY <1>8 DEF LoseCandidates, EvInv, StoredStands, EvSyncStands, AllRegistered, SnapshotStands
<1>9. CASE Retire
  BY <1>9 DEF Retire, EvInv, StoredStands, EvSyncStands, AllRegistered, SnapshotStands
<1>10. CASE EvTick
  BY <1>10 DEF EvTick, EvInv, StoredStands, EvSyncStands, AllRegistered, SnapshotStands
<1>11. CASE UNCHANGED evVars
  BY <1>11 DEF evVars, EvInv, StoredStands, EvSyncStands, AllRegistered, SnapshotStands
<1> QED
  BY <1>1, <1>2, <1>3, <1>4, <1>5, <1>6, <1>7, <1>8, <1>9, <1>10, <1>11 DEF EvNext, Reportable

\* What is shown comes from the snapshot of a live source, and no other live one names it.
ComesFrom(e, live) ==
  /\ e.source \in live /\ e.item \in Latest(e.source).items
  /\ evFeed = "selections" \/ \A y \in live \ {e.source} : \A i \in Latest(y).items : i.id # e.item.id

LEMMA ShownIsView ==
  ASSUME EvInv, NEW unread
  PROVE  \/ ShownWithout(unread) = View(Live(unread)) /\ (evFeed = "candidates" => retired # {"invalid"})
         \/ ShownWithout(unread) = EmptyView
<1>1. evFeed \in {"candidates", "tasks", "deployments", "targets", "selections"}
  BY EvAssumption DEF EvInv
<1>2. evFeed # "candidates" => ShownWithout(unread) = View(Live(unread))
  BY <1>1 DEF ShownWithout, TaskView, DeploymentView, TargetView, SelectionView
<1>3. evFeed = "candidates" => ShownWithout(unread) = CandidateView(unread)
  BY DEF ShownWithout
<1> QED BY <1>2, <1>3 DEF CandidateView

LEMMA ViewItem ==
  ASSUME NEW live, NEW e \in View(live).items
  PROVE  ComesFrom(e, live)
<1> DEFINE named(x) == {i.id : i \in Latest(x).items}
           unique(x) == {i \in Latest(x).items : evFeed = "selections" \/ \A y \in live \ {x} : i.id \notin named(y)}
<1>1. View(live).items = UNION {{[source |-> x, item |-> i] : i \in unique(x)} : x \in live}
  BY DEF View
<1>2. PICK x \in live : \E i \in unique(x) : e = [source |-> x, item |-> i]
  BY <1>1
<1>3. e.source = x /\ e.item \in unique(x)
  BY <1>2
<1> QED BY <1>3 DEF ComesFrom

LEMMA LiveIsRead ==
  ASSUME EvInv, NEW unread, NEW x \in Live(unread)
  PROVE  x \in EvSources /\ Latest(x) \in published[x] /\ StoredStands(x, Latest(x))
  BY DEF Live, Readable, Latest, EvInv

LEMMA ShownItem ==
  ASSUME EvInv, NEW unread, NEW e \in ShownWithout(unread).items
  PROVE  /\ ShownWithout(unread) = View(Live(unread)) /\ (evFeed = "candidates" => retired # {"invalid"})
         /\ ComesFrom(e, Live(unread)) /\ StoredStands(e.source, Latest(e.source))
<1>1. EmptyView.items = {}
  BY DEF EmptyView
<1> QED BY <1>1, ShownIsView, ViewItem, LiveIsRead DEF ComesFrom

LEMMA ShownOnceOfInv == EvInv => ShownOnce
<1> SUFFICES ASSUME EvInv, evFeed # "selections", NEW unread \in SUBSET EvSources, NEW e \in ShownWithout(unread).items
             PROVE  /\ e.source \notin retired
                    /\ \A y \in Readable(unread) \ (retired \cup {e.source}) : \A i \in Latest(y).items : i.id # e.item.id
  BY DEF ShownOnce
<1>1. ComesFrom(e, Live(unread))
  BY ShownItem
<1>2. Live(unread) = Readable(unread) \ retired
  BY DEF Live, EvInv
<1> QED BY <1>1, <1>2 DEF ComesFrom

\* In a ready view every source that has items called itself ready and is in time.
LEMMA ReadyIsFresh ==
  ASSUME EvInv, NEW unread, NEW e \in ShownWithout(unread).items, ShownWithout(unread).status = "ready"
  PROVE  Latest(e.source).status = "ready" /\ Freshness(Latest(e.source)) = "ready"
<1>1. PICK s : s = Latest(e.source)
  OBVIOUS
<1>2. /\ ShownWithout(unread) = View(Live(unread)) /\ e.source \in Live(unread)
      /\ e.item \in s.items /\ StoredStands(e.source, s)
  BY <1>1, ShownItem DEF ComesFrom
<1>3. "stale" \notin {Freshness(Latest(x)) : x \in Live(unread)}
  BY <1>2 DEF View
<1>4. Freshness(s) # "stale"
  BY <1>1, <1>2, <1>3
<1>5. Freshness(s) \in {s.status, "stale"}
  BY DEF Freshness, ResearchFreshness, SnapshotFreshness
<1>6. s.status = "ready"
  BY <1>2, <1>4, <1>5 DEF StoredStands, SnapshotStands
<1> QED BY <1>1, <1>4, <1>5, <1>6

LEMMA OldestIsLeast ==
  ASSUME NEW s, s.generated \in Nat, s.computed \in Nat, Stated(s) # {}
  PROVE  OldestTime(s) \in Stated(s) /\ \A t \in Stated(s) : OldestTime(s) <= t /\ t \in Nat /\ t > 0
<1>1. Stated(s) \subseteq Nat
  BY DEF Stated
<1>2. Min(Stated(s)) \in Stated(s) /\ \A y \in Stated(s) : Min(Stated(s)) <= y
  BY <1>1, MinIsLeast
<1> QED BY <1>1, <1>2 DEF OldestTime, Stated

LEMMA ReadyIsEarnedOfInv == EvInv => ReadyIsEarned
<1> SUFFICES ASSUME EvInv, NEW unread \in SUBSET EvSources, ShownWithout(unread).status = "ready",
                    NEW e \in ShownWithout(unread).items, NEW t \in Stated(Latest(e.source))
             PROVE  /\ Latest(e.source).status = "ready"
                    /\ \/ evNow <= t + EvTtl
                       \/ evFeed = "candidates" /\ \E r \in EvRuns : t < r /\ evNow <= r + EvGrace
  BY DEF ReadyIsEarned
<1>1. PICK s : s = Latest(e.source)
  OBVIOUS
<1>2. s.status = "ready" /\ Freshness(s) = "ready"
  BY <1>1, ReadyIsFresh
<1>3. SnapshotStands(s) /\ t \in Stated(s)
  BY <1>1, ShownItem DEF StoredStands
<1>4. PICK o : o = OldestTime(s)
  OBVIOUS
<1>5. o \in Nat /\ t \in Nat /\ o <= t
  BY <1>3, <1>4, OldestIsLeast DEF SnapshotStands
<1>6. evNow \in Nat /\ EvTtl \in Nat /\ EvGrace \in Nat
  BY EvAssumption DEF EvInv
<1>7. CASE evFeed # "candidates"
  <2>1. evNow <= o + EvTtl
    BY <1>2, <1>4, <1>7 DEF Freshness, SnapshotFreshness, FreshBy
  <2> QED BY <2>1, <1>1, <1>2, <1>5, <1>6
<1>8. CASE evFeed = "candidates"
  <2>1. PICK n : n = NextRun(o)
    OBVIOUS
  <2>2. o \in {s.generated, s.computed} /\ t \in {s.generated, s.computed}
    BY <1>3, <1>4, OldestIsLeast DEF SnapshotStands, Stated
  <2>3. PICK late \in EvRuns : late > o /\ late > t
    BY <1>3, <1>8, <2>2 DEF SnapshotStands
  <2>4. n \in EvRuns /\ n > o /\ \A r \in EvRuns : r > o => n <= r
    <3>1. PICK S : S = {r \in EvRuns : r > o}
      OBVIOUS
    <3>2. S \subseteq Nat /\ S # {}
      BY <3>1, <2>3, EvAssumption
    <3>3. Min(S) \in S /\ \A y \in S : Min(S) <= y
      BY <3>2, MinIsLeast
    <3> QED BY <3>1, <3>3, <2>1 DEF NextRun
  <2>5. n \in Nat /\ late \in Nat
    BY <2>3, <2>4, EvAssumption
  <2>6. evNow <= Max({o + EvTtl, n + EvGrace})
    BY <1>2, <1>4, <1>8, <2>1 DEF Freshness, ResearchFreshness, FreshBy
  <2>7. Max({o + EvTtl, n + EvGrace}) \in {o + EvTtl, n + EvGrace}
    <3>1. o + EvTtl \in Nat /\ n + EvGrace \in Nat
      BY <1>5, <1>6, <2>5
    <3> QED BY <3>1, MaxOfTwo
  <2>8. CASE evNow <= o + EvTtl
    BY <2>8, <1>1, <1>2, <1>5, <1>6
  <2>9. CASE evNow <= n + EvGrace
    <3>1. n <= late
      BY <2>3, <2>4
    <3>2. evNow <= late + EvGrace /\ t < late
      BY <3>1, <2>3, <2>5, <2>9, <1>5, <1>6
    <3> QED BY <3>2, <1>1, <1>2, <1>8
  <2> QED BY <2>6, <2>7, <2>8, <2>9
<1> QED BY <1>7, <1>8

LEMMA CollectorsOfInv == EvInv => CollectorsAgree
<1> SUFFICES ASSUME EvInv PROVE CollectorsAgree
  OBVIOUS
<1>1. ASSUME NEW rs \in SUBSET EvReports
      PROVE  AcceptedDeployments(Collected(rs, evNow).items) /\ Acceptable(Collected(rs, evNow))
  <2>1. PICK c : c = Collected(rs, evNow)
    OBVIOUS
  <2>2. /\ DeploymentsStand(c) /\ \A i, j \in c.items : i.id = j.id => i = j
        /\ c.status = "unavailable" => c.items = {}
        /\ c.status \in {"ready", "unavailable"}
        /\ c.status = "ready" => c.items # {} /\ c.generated > 0 /\ c.computed = evNow
        /\ c.generated \in Nat
    BY <2>1, CollectedIsSound DEF EvInv
  <2>3. c.status # "unavailable" => c.items # {} /\ 0 \notin {c.generated, c.computed}
    BY <2>2 DEF EvInv
  <2> QED BY <2>1, <2>2, <2>3 DEF DeploymentsStand, Acceptable
<1>2. ASSUME NEW configured \in {"enabled", "disabled"},
             NEW guard \in {"pass", "attention", "not_due", "unavailable"},
             NEW heartbeat \in {"pass", "attention", "not_due", "unavailable", "not_applicable"},
             configured = "disabled" => heartbeat = "not_applicable",
             Describable(configured, guard, heartbeat)
      PROVE  AcceptedTargets({[configured |-> configured, guard |-> guard, heartbeat |-> heartbeat,
                               disposition |-> Disposition(configured, guard, heartbeat)]})
  <2>1. PICK d : d = Disposition(configured, guard, heartbeat)
    OBVIOUS
  <2>2. d = IF \/ "attention" \in {guard, heartbeat}
               \/ guard = "unavailable" \/ (configured = "enabled" /\ heartbeat = "unavailable")
            THEN "parked" ELSE configured
    BY <1>2, <2>1 DEF Disposition
  <2> QED BY <1>2, <2>1, <2>2 DEF AcceptedTargets
<1> QED BY <1>1, <1>2 DEF CollectorsAgree

LEMMA AskedOfInv == EvInv => AskedIsRegistered
<1> SUFFICES ASSUME EvInv, evFeed = "candidates", NEW e \in ShownWithout({}).items, e.item.stage = "P6"
             PROVE  [source |-> e.source, id |-> e.item.id] \in registered
  BY DEF AskedIsRegistered
<1>1. PICK s : s = Latest(e.source)
  OBVIOUS
<1>2. /\ e.item \in s.items
      /\ s.status = "unavailable" => s.items = {}
      /\ AllRegistered(e.source, s)
  BY <1>1, ShownItem DEF ComesFrom, StoredStands
<1>3. Kept(s).items = s.items
  BY <1>2 DEF Kept
<1> QED BY <1>2, <1>3 DEF AllRegistered, OwnerCandidates

LEMMA ClaimsOfInv == EvInv => ClaimsAreEvidenced
<1> SUFFICES ASSUME EvInv, NEW e \in ShownWithout({}).items
             PROVE  /\ evFeed = "deployments" =>
                       /\ e.item.recommended = "canary" => e.item.receipt \cap {"failed", "no_signal"} = {}
                       /\ ShownWithout({}).status = "ready" /\ e.item.observed > 0 => evNow <= e.item.observed + EvTtl
                    /\ evFeed = "targets" =>
                       (Health(e.source, e.item) = "normal" =>
                         \E d \in e.item.deployment : evNow <= d.at + EvTtl /\ d.enabled = (e.item.configured = "enabled"))
  BY DEF ClaimsAreEvidenced
<1>1. PICK s : s = Latest(e.source)
  OBVIOUS
<1>2. PICK i : i = e.item
  OBVIOUS
<1>3. i \in s.items /\ SnapshotStands(s)
  BY <1>1, <1>2, ShownItem DEF ComesFrom, StoredStands
<1>4. ASSUME evFeed = "deployments", i.recommended = "canary" PROVE i.receipt \cap {"failed", "no_signal"} = {}
  <2>1. i.execution = "verified" /\ \A outcome \in i.receipt : i.execution = ExpectedExecution(outcome)
    BY <1>3, <1>4 DEF SnapshotStands, DeploymentsStand, AcceptedDeployments
  <2>2. ExpectedExecution("failed") = "unavailable" /\ ExpectedExecution("no_signal") = "not_applicable"
    BY DEF ExpectedExecution
  <2> QED BY <2>1, <2>2
<1>5. ASSUME evFeed = "deployments", ShownWithout({}).status = "ready", i.observed > 0
      PROVE  evNow <= i.observed + EvTtl
  <2>1. i.observed \in Nat /\ (i.observed = 0 \/ (s.generated > 0 /\ s.generated <= i.observed))
    BY <1>3, <1>5 DEF SnapshotStands, DeploymentsStand
  <2>2. i.observed \in Nat /\ s.generated > 0 /\ s.generated <= i.observed
    BY <2>1, <1>5
  <2>3. s.generated \in Stated(s) /\ s.generated \in Nat /\ s.computed \in Nat
    BY <2>2, <1>3 DEF Stated, SnapshotStands
  <2>4. s.status = "ready" /\ Freshness(s) = "ready"
    BY <1>1, <1>5, ReadyIsFresh
  <2>5. evNow <= OldestTime(s) + EvTtl
    BY <2>4, <1>5 DEF Freshness, SnapshotFreshness, FreshBy
  <2>6. OldestTime(s) <= s.generated /\ OldestTime(s) \in Nat
    BY <2>3, OldestIsLeast
  <2> QED BY <2>2, <2>3, <2>5, <2>6, EvAssumption DEF EvInv
<1>6. ASSUME evFeed = "targets", Health(e.source, i) = "normal"
      PROVE  \E d \in i.deployment : evNow <= d.at + EvTtl /\ d.enabled = (i.configured = "enabled")
  <2>1. Activation(i) = i.configured
    BY <1>6 DEF Health
  <2>2. i.configured \in {"enabled", "disabled"} /\ \A d \in i.deployment : d.enabled \in BOOLEAN
    BY <1>3, <1>6 DEF SnapshotStands
  <2>3. CASE i.configured = "enabled"
    <3>1. PICK d \in i.deployment : ObservedFresh(d) /\ d.enabled
      BY <2>1, <2>3 DEF Activation
    <3>2. d.enabled = TRUE
      BY <2>2, <3>1
    <3> QED BY <2>3, <3>1, <3>2 DEF ObservedFresh
  <2>4. CASE i.configured = "disabled"
    <3>1. PICK d \in i.deployment : ObservedFresh(d) /\ ~d.enabled
      BY <2>1, <2>4 DEF Activation
    <3>2. d.enabled = FALSE
      BY <2>2, <3>1
    <3> QED BY <2>4, <3>1, <3>2 DEF ObservedFresh
  <2> QED BY <2>2, <2>3, <2>4
<1> QED BY <1>2, <1>4, <1>5, <1>6

LEMMA SourcesOfInv == EvInv => SourcesAreTrue
  BY ShownOnceOfInv, ReadyIsEarnedOfInv, CollectorsOfInv, AskedOfInv, ClaimsOfInv DEF SourcesAreTrue

-----------------------------------------------------------------------------
(* What is published, each in its part.                                           *)

PublishedInv ==
  /\ part = "sources" => EvInv
  /\ part = "ledger" => LedgerInv
  /\ part = "daily" => DailyInv
  /\ part = "recovery" => AnsweredOnce

LEMMA RecoveryStarts == RecoveryInit => AnsweredOnce
  BY DEF RecoveryInit, AnsweredOnce

LEMMA PublishedStarts == Init => PublishedInv
<1> SUFFICES ASSUME Init PROVE PublishedInv
  OBVIOUS
<1>1. /\ part = "sources" => EvInit
      /\ part = "ledger" => M0Init
      /\ part = "daily" => DailyInit
      /\ part = "recovery" => RecoveryInit
  BY DEF Init
<1> QED BY <1>1, EvStarts, LedgerStarts, DailyStarts, RecoveryStarts DEF PublishedInv

\* A step of the stores is a step of the part that runs.
LEMMA PublishedStep ==
  ASSUME [Next]_vars
  PROVE  /\ part' = part
         /\ part = "sources" => [EvNext]_evVars
         /\ part = "ledger" => [M0Next]_m0Vars
         /\ part = "daily" => [DailyNext]_dailyVars
         /\ part = "recovery" => [RecoveryNext]_recoveryVars
  BY DEF Next, vars

LEMMA PublishedKeeps ==
  ASSUME PublishedInv, [Next]_vars
  PROVE  PublishedInv'
<1>1. ASSUME part' = "sources" PROVE EvInv'
  BY <1>1, PublishedStep, EvKeeps DEF PublishedInv
<1>2. ASSUME part' = "ledger" PROVE LedgerInv'
  BY <1>2, PublishedStep, LedgerKeeps DEF PublishedInv
<1>3. ASSUME part' = "daily" PROVE DailyInv'
  BY <1>3, PublishedStep, DailyKeeps DEF PublishedInv
<1>4. ASSUME part' = "recovery" PROVE AnsweredOnce'
  BY <1>4, PublishedStep, RecoveryKeeps DEF PublishedInv
<1> QED BY <1>1, <1>2, <1>3, <1>4 DEF PublishedInv

\* Of what is stored of other systems' reports: every stored snapshot was accepted, dated
\* by the oldest report behind it, and its candidates are registered; every envelope's
\* aggregate is of its artifact and archived; there is one record per target and day; and
\* evidence has one answer.
THEOREM PublishedInvariant == Spec => []PublishedInv
<1>1. PublishedInv /\ [Next]_vars => PublishedInv'
  BY PublishedKeeps
<1> QED BY PublishedStarts, <1>1, PTL DEF Spec

\* What the console publishes is what the publishers said: a ready view is in time and no
\* item of it is claimed twice, what the owner is asked is registered, a day shown as a
\* success is proved by its runs and is the account's own, the research ledger tells of its
\* artifact, and what the controller is given was approved for the evidence of now.
THEOREM PublishedAlwaysTrue == Spec => []PublishedIsTrue
<1>1. PublishedInv => PublishedIsTrue
  BY SourcesOfInv, LedgerOfInv, DailyOfInv, GivenOfInv DEF PublishedInv, PublishedIsTrue
<1> QED BY PublishedInvariant, <1>1, PTL

\* No step takes back what was published: where a request still finds the aggregate it has
\* read it stores a later one of another run, a day's record gives way to an older reading
\* only where two requests overlapped, and an answer is recorded once, for the one piece of
\* evidence it was asked for, and stays.
THEOREM PublishedNeverTakenBack == Spec => PublishedGoesForward
<1>1. PublishedInv /\ [Next]_vars => /\ part = "ledger" => ForwardLedger
                                     /\ part = "daily" => DayStep
                                     /\ part = "recovery" => RecoveryStep
  BY PublishedStep, LedgerSteps, DailySteps, RecoverySteps DEF PublishedInv
<1> QED BY PublishedInvariant, <1>1, PTL DEF Spec, PublishedGoesForward

-----------------------------------------------------------------------------
(* The health of a runtime's cycles: the books of a target's faults say what the  *)
(* log of their attempts says.                                                    *)

LogEntry == [binding : CycleBindings, receipt : {r \in Receipts : r.rank > 0}, resolved : BOOLEAN]
Attempt == [receipt : Receipts, resolved : BOOLEAN]
Incident == [rank : Nat, active : Nat, latest : Nat, count : Nat]
Summary == [incidents : Nat, attempts : Nat, unresolved : Nat, severity : Nat, active : Nat, latest : Nat]
IncidentTable == [CycleBindings -> [Cycles -> Incident]]

IsLog(log) == log \in Seq(LogEntry)
In(log, b) == {i \in DOMAIN log : log[i].binding = b}
IsOpen(e) == ~e.resolved
OpenIn(log, b) == {i \in In(log, b) : IsOpen(log[i])}
CyclesOf(log, S) == {log[i].receipt.cycle : i \in S}
RanksOf(log, S) == {log[i].receipt.rank : i \in S}
TimesOf(log, S) == {log[i].receipt.at : i \in S}

\* What the summary of a binding and its incidents tell is what the log tells.
Tells(log, b, s) ==
  /\ s.incidents = Cardinality(CyclesOf(log, In(log, b)))
  /\ s.attempts = Cardinality(In(log, b))
  /\ s.unresolved = Cardinality(CyclesOf(log, OpenIn(log, b)))
  /\ s.severity = MaxOf(RanksOf(log, In(log, b)))
  /\ s.active = MaxOf(RanksOf(log, OpenIn(log, b)))
  /\ s.latest = MaxOf(TimesOf(log, In(log, b)))
Incidental(log, incs, b, s) ==
  \A c \in Cycles :
    /\ incs[b][c].rank # 0 <=> c \in CyclesOf(log, In(log, b))
    /\ incs[b][c].active # 0 <=> c \in CyclesOf(log, OpenIn(log, b))
    /\ incs[b][c].rank <= s.severity /\ incs[b][c].active <= s.active
Told(log, incs, b, s) == s \in Summary /\ Tells(log, b, s) /\ Incidental(log, incs, b, s)

BooksHold(x, b) ==
  /\ x = [conflict |-> x.conflict, log |-> x.log, incidents |-> x.incidents, state |-> x.state]
  /\ IsLog(x.log) /\ x.incidents \in IncidentTable
  /\ Told(x.log, x.incidents, b, x.state)

-----------------------------------------------------------------------------
LEMMA MaxIs ==
  ASSUME NEW S, S \subseteq Nat, S # {}, IsFiniteSet(S)
  PROVE  Max(S) \in S /\ \A y \in S : y <= Max(S)
<1>1. \E x \in S : \A y \in S : x >= y
  BY GreatestOf
<1> QED BY <1>1 DEF Max

LEMMA MaxOfIs ==
  ASSUME NEW S, S \subseteq Nat, IsFiniteSet(S)
  PROVE  MaxOf(S) \in Nat /\ (\A y \in S : y <= MaxOf(S)) /\ (S # {} => MaxOf(S) \in S) /\ (S = {} => MaxOf(S) = 0)
  BY MaxIs DEF MaxOf

LEMMA LargerGrows ==
  ASSUME NEW S, S \subseteq Nat, IsFiniteSet(S), NEW n \in Nat
  PROVE  MaxOf(S \cup {n}) = Larger(n, MaxOf(S))
<1>1. PICK m : m = MaxOf(S)
  OBVIOUS
<1>2. m \in Nat /\ (\A y \in S : y <= m) /\ (S # {} => m \in S) /\ (S = {} => m = 0)
  BY <1>1, MaxOfIs
<1>3. PICK T : T = S \cup {n}
  OBVIOUS
<1>4. T \subseteq Nat /\ IsFiniteSet(T) /\ T # {} /\ n \in T /\ S \subseteq T
  BY <1>3, FS_AddElement
<1>5. MaxOf(T) \in T /\ MaxOf(T) \in Nat /\ \A y \in T : y <= MaxOf(T)
  BY <1>4, MaxOfIs
<1>6. MaxOf(T) = Larger(n, m)
  <2>1. MaxOf(T) = n \/ MaxOf(T) \in S
    BY <1>3, <1>5
  <2>2. n <= MaxOf(T) /\ (S # {} => m <= MaxOf(T))
    BY <1>2, <1>4, <1>5
  <2> QED BY <1>2, <1>5, <2>1, <2>2 DEF Larger
<1> QED BY <1>1, <1>3, <1>6

\* The sets that are counted and compared are finite, and of numbers.
LEMMA LogSets ==
  ASSUME NEW log, IsLog(log), NEW S, S \subseteq DOMAIN log
  PROVE  /\ IsFiniteSet(S)
         /\ IsFiniteSet(CyclesOf(log, S)) /\ CyclesOf(log, S) \subseteq Cycles
         /\ IsFiniteSet(RanksOf(log, S)) /\ RanksOf(log, S) \subseteq Nat /\ \A n \in RanksOf(log, S) : n > 0
         /\ IsFiniteSet(TimesOf(log, S)) /\ TimesOf(log, S) \subseteq Nat
<1>1. DOMAIN log = 1 .. Len(log) /\ Len(log) \in Nat
  BY DEF IsLog
<1>2. IsFiniteSet(1 .. Len(log))
  BY <1>1, FS_Interval
<1>3. IsFiniteSet(S)
  BY <1>1, <1>2, FS_Subset
<1>4. \A i \in S : log[i] \in LogEntry
  BY <1>1 DEF IsLog
<1>5. \A i \in S : log[i].receipt \in Receipts /\ log[i].receipt.rank > 0
  BY <1>4 DEF LogEntry
<1>6. IsFiniteSet(CyclesOf(log, S))
  <2>1. PICK f : f = [i \in S |-> log[i].receipt.cycle]
    OBVIOUS
  <2>2. f \in Surjection(S, CyclesOf(log, S))
    BY <2>1 DEF Surjection, CyclesOf
  <2> QED BY <1>3, <2>2, FS_Surjection
<1>7. IsFiniteSet(RanksOf(log, S))
  <2>1. PICK f : f = [i \in S |-> log[i].receipt.rank]
    OBVIOUS
  <2>2. f \in Surjection(S, RanksOf(log, S))
    BY <2>1 DEF Surjection, RanksOf
  <2> QED BY <1>3, <2>2, FS_Surjection
<1>8. IsFiniteSet(TimesOf(log, S))
  <2>1. PICK f : f = [i \in S |-> log[i].receipt.at]
    OBVIOUS
  <2>2. f \in Surjection(S, TimesOf(log, S))
    BY <2>1 DEF Surjection, TimesOf
  <2> QED BY <1>3, <2>2, FS_Surjection
<1>9. CyclesOf(log, S) \subseteq Cycles
  BY <1>5 DEF CyclesOf, Cycles
<1>10. RanksOf(log, S) \subseteq Nat /\ \A n \in RanksOf(log, S) : n > 0
  BY <1>5, CycleAssumption DEF RanksOf
<1>11. TimesOf(log, S) \subseteq Nat
  BY <1>5, CycleAssumption DEF TimesOf
<1> QED BY <1>3, <1>6, <1>7, <1>8, <1>9, <1>10, <1>11


Appended(log, e, after, n) == after = Append(log, e) /\ n = Len(log) + 1
\* An entry at the end of the log.
LEMMA Entered ==
  ASSUME NEW log, NEW e, NEW after, NEW n, NEW D, IsLog(log), e \in LogEntry, Appended(log, e, after, n), D = DOMAIN log
  PROVE  /\ IsLog(after) /\ Len(after) = n /\ n \in Nat
         /\ DOMAIN after = D \cup {n} /\ n \notin D
         /\ \A i \in D : after[i] = log[i]
         /\ after[n] = e
<1>1. DOMAIN log = 1 .. Len(log) /\ DOMAIN after = 1 .. n /\ Len(log) \in Nat /\ n \in Nat
  BY DEF IsLog, Appended
<1> QED BY <1>1 DEF IsLog, Appended


LEMMA GrownIn ==
  ASSUME NEW log, NEW e, NEW after, NEW n, NEW b, NEW D, D = DOMAIN log, DOMAIN after = D \cup {n}, n \notin D,
         \A i \in D : after[i] = log[i], after[n] = e, e.binding = b
  PROVE  In(after, b) = In(log, b) \cup {n}
  BY DEF In
LEMMA SameIn ==
  ASSUME NEW log, NEW e, NEW after, NEW n, NEW b, NEW D, D = DOMAIN log, DOMAIN after = D \cup {n}, n \notin D,
         \A i \in D : after[i] = log[i], after[n] = e, e.binding # b
  PROVE  In(after, b) = In(log, b)
  BY DEF In
LEMMA GrownOpenIn ==
  ASSUME NEW log, NEW e, NEW after, NEW n, NEW b, NEW D, D = DOMAIN log, DOMAIN after = D \cup {n}, n \notin D,
         \A i \in D : after[i] = log[i], after[n] = e, e.binding = b, IsOpen(e)
  PROVE  OpenIn(after, b) = OpenIn(log, b) \cup {n}
  BY DEF In, OpenIn
LEMMA SameOpenIn ==
  ASSUME NEW log, NEW e, NEW after, NEW n, NEW b, NEW D, D = DOMAIN log, DOMAIN after = D \cup {n}, n \notin D,
         \A i \in D : after[i] = log[i], after[n] = e, e.binding # b \/ ~IsOpen(e)
  PROVE  OpenIn(after, b) = OpenIn(log, b)
  BY DEF In, OpenIn
LEMMA ToldSame ==
  ASSUME NEW log, NEW after, NEW S, \A i \in S : after[i] = log[i]
  PROVE  CyclesOf(after, S) = CyclesOf(log, S) /\ RanksOf(after, S) = RanksOf(log, S) /\ TimesOf(after, S) = TimesOf(log, S)
  BY DEF CyclesOf, RanksOf, TimesOf

\* One attempt more for the binding: what its log, its incident and its summary become.
OneMore(log, incs, b, s, e, c, p, active, inc, after, n, table, t) ==
  /\ IsLog(log) /\ incs \in IncidentTable /\ b \in CycleBindings /\ Told(log, incs, b, s)
  /\ e \in LogEntry /\ e.binding = b /\ Appended(log, e, after, n)
  /\ c = e.receipt.cycle /\ p = incs[b][c]
  /\ active = (IF IsOpen(e) THEN Larger(e.receipt.rank, p.active) ELSE p.active)
  /\ inc \in Incident /\ inc.rank = Larger(e.receipt.rank, p.rank) /\ inc.active = active
  /\ table = [incs EXCEPT ![b] = [@ EXCEPT ![c] = inc]]
  /\ t = [incidents |-> s.incidents + (IF p.rank = 0 THEN 1 ELSE 0),
          attempts |-> s.attempts + 1,
          unresolved |-> s.unresolved + (IF active # 0 /\ p.active = 0 THEN 1 ELSE 0),
          severity |-> Larger(e.receipt.rank, s.severity),
          active |-> Larger(active, s.active),
          latest |-> Larger(e.receipt.at, s.latest)]

\* Then they still tell the same story.
LEMMA EnteredTold ==
  ASSUME NEW log, NEW incs, NEW b, NEW s, NEW e, NEW c, NEW p, NEW active, NEW inc, NEW after, NEW n,
         NEW incsAfter, NEW t, OneMore(log, incs, b, s, e, c, p, active, inc, after, n, incsAfter, t)
  PROVE  Told(after, incsAfter, b, t)
<1>01. /\ IsLog(log) /\ incs \in IncidentTable /\ b \in CycleBindings /\ Told(log, incs, b, s)
       /\ e \in LogEntry /\ e.binding = b /\ Appended(log, e, after, n) /\ c = e.receipt.cycle
  BY DEF OneMore
<1>02. p = incs[b][c]
  BY DEF OneMore
<1>03. active = (IF IsOpen(e) THEN Larger(e.receipt.rank, p.active) ELSE p.active)
  BY DEF OneMore
<1>04. inc \in Incident /\ inc.rank = Larger(e.receipt.rank, p.rank) /\ inc.active = active
  BY DEF OneMore
<1>05. incsAfter = [incs EXCEPT ![b] = [@ EXCEPT ![c] = inc]]
  BY DEF OneMore
<1>06. t = [incidents |-> s.incidents + (IF p.rank = 0 THEN 1 ELSE 0),
            attempts |-> s.attempts + 1,
            unresolved |-> s.unresolved + (IF active # 0 /\ p.active = 0 THEN 1 ELSE 0),
            severity |-> Larger(e.receipt.rank, s.severity),
            active |-> Larger(active, s.active),
            latest |-> Larger(e.receipt.at, s.latest)]
  BY DEF OneMore
<1> PICK rank, at : rank = e.receipt.rank /\ at = e.receipt.at
  OBVIOUS
<1>1. /\ rank \in Nat /\ rank > 0 /\ at \in Nat /\ c \in Cycles 
  BY <1>01, CycleAssumption DEF LogEntry, Cycles
<1>2. p.rank \in Nat /\ p.active \in Nat /\ p.latest \in Nat /\ p.count \in Nat
  BY <1>01, <1>02, <1>1 DEF IncidentTable, Incident
<1>3. /\ s.incidents \in Nat /\ s.attempts \in Nat /\ s.unresolved \in Nat
      /\ s.severity \in Nat /\ s.active \in Nat /\ s.latest \in Nat
  BY <1>01 DEF Told, Summary
<1>4. active \in Nat /\ Larger(rank, s.severity) \in Nat /\ Larger(at, s.latest) \in Nat
  BY <1>03, <1>1, <1>2, <1>3 DEF Larger
<1>5. Larger(active, s.active) \in Nat
  BY <1>3, <1>4 DEF Larger
<1>6. /\ t.incidents = s.incidents + (IF p.rank = 0 THEN 1 ELSE 0)
      /\ t.attempts = s.attempts + 1
      /\ t.unresolved = s.unresolved + (IF active # 0 /\ p.active = 0 THEN 1 ELSE 0)
      /\ t.severity = Larger(rank, s.severity) /\ t.active = Larger(active, s.active) /\ t.latest = Larger(at, s.latest)
  BY <1>06
<1>7. t \in Summary
  <2>1. s.incidents + (IF p.rank = 0 THEN 1 ELSE 0) \in Nat
    BY ONLY <1>3
  <2>2. s.unresolved + (IF active # 0 /\ p.active = 0 THEN 1 ELSE 0) \in Nat
    BY ONLY <1>3
  <2>3. /\ t = [incidents |-> t.incidents, attempts |-> t.attempts, unresolved |-> t.unresolved,
                severity |-> t.severity, active |-> t.active, latest |-> t.latest]
        /\ t.incidents \in Nat /\ t.attempts \in Nat /\ t.unresolved \in Nat
        /\ t.severity \in Nat /\ t.active \in Nat /\ t.latest \in Nat
    <3>1. t = [incidents |-> t.incidents, attempts |-> t.attempts, unresolved |-> t.unresolved,
               severity |-> t.severity, active |-> t.active, latest |-> t.latest]
      BY <1>06
    <3>2. t.incidents \in Nat /\ t.attempts \in Nat /\ t.unresolved \in Nat
      BY ONLY <1>3, <1>6, <2>1, <2>2
    <3>3. t.severity \in Nat /\ t.active \in Nat /\ t.latest \in Nat
      BY ONLY <1>4, <1>5, <1>6
    <3> QED BY ONLY <3>1, <3>2, <3>3
  <2> QED BY ONLY <2>3 DEF Summary
<1>70. PICK all, open : all = In(log, b) /\ open = OpenIn(log, b)
  OBVIOUS
<1>8. /\ IsLog(after) /\ n \in Nat
      /\ \A i \in DOMAIN log : after[i] = log[i]
      /\ after[n] = e /\ n \notin DOMAIN log
      /\ In(after, b) = all \cup {n}
      /\ OpenIn(after, b) = IF IsOpen(e) THEN open \cup {n} ELSE open
  <2>1. PICK D : D = DOMAIN log
    OBVIOUS
  <2>2. /\ IsLog(after) /\ n \in Nat /\ DOMAIN after = D \cup {n} /\ n \notin D
        /\ \A i \in D : after[i] = log[i]
        /\ after[n] = e
    BY <1>01, <2>1, Entered
  <2>8. e.binding = b
    BY <1>01
  <2>9. /\ DOMAIN after = D \cup {n} /\ n \notin D
        /\ \A i \in D : after[i] = log[i]
        /\ after[n] = e /\ e.binding = b
    BY ONLY <2>2, <2>8
  <2>3. In(after, b) = all \cup {n}
    <3>1. In(after, b) = In(log, b) \cup {n}
      BY ONLY <2>1, <2>9, GrownIn
    <3> QED BY ONLY <3>1, <1>70
  <2>4. CASE IsOpen(e)
    <3>1. OpenIn(after, b) = OpenIn(log, b) \cup {n}
      BY ONLY <2>1, <2>9, <2>4, GrownOpenIn
    <3> QED BY ONLY <1>70, <2>1, <2>2, <2>3, <2>4, <3>1
  <2>5. CASE ~IsOpen(e)
    <3>1. OpenIn(after, b) = OpenIn(log, b)
      BY ONLY <2>1, <2>9, <2>5, SameOpenIn
    <3> QED BY ONLY <1>70, <2>1, <2>2, <2>3, <2>5, <3>1
  <2> QED BY <2>4, <2>5
<1>9. all \subseteq DOMAIN log /\ open \subseteq DOMAIN log
  BY <1>70 DEF In, OpenIn
<1>10. /\ s.incidents = Cardinality(CyclesOf(log, all)) /\ s.attempts = Cardinality(all)
       /\ s.unresolved = Cardinality(CyclesOf(log, open)) /\ s.severity = MaxOf(RanksOf(log, all))
       /\ s.active = MaxOf(RanksOf(log, open)) /\ s.latest = MaxOf(TimesOf(log, all))
  BY <1>01, <1>70 DEF Told, Tells
<1>11. /\ p.rank # 0 <=> c \in CyclesOf(log, all)
       /\ p.active # 0 <=> c \in CyclesOf(log, open)
       /\ p.rank <= s.severity /\ p.active <= s.active
  BY <1>01, <1>02, <1>1, <1>70 DEF Told, Incidental
<1>12. /\ CyclesOf(after, all \cup {n}) = CyclesOf(log, all) \cup {c}
       /\ RanksOf(after, all \cup {n}) = RanksOf(log, all) \cup {rank}
       /\ TimesOf(after, all \cup {n}) = TimesOf(log, all) \cup {at}
  <2>1. after[n].receipt.cycle = c /\ after[n].receipt.rank = rank /\ after[n].receipt.at = at
    BY <1>01, <1>8
  <2>2. \A i \in all : after[i] = log[i]
    BY <1>8, <1>9
  <2>3. CyclesOf(after, all \cup {n}) = CyclesOf(log, all) \cup {c}
    BY ONLY <2>1, <2>2 DEF CyclesOf
  <2>4. RanksOf(after, all \cup {n}) = RanksOf(log, all) \cup {rank}
    BY ONLY <2>1, <2>2 DEF RanksOf
  <2>5. TimesOf(after, all \cup {n}) = TimesOf(log, all) \cup {at}
    BY ONLY <2>1, <2>2 DEF TimesOf
  <2> QED BY ONLY <2>3, <2>4, <2>5
<1>13. /\ CyclesOf(after, open) = CyclesOf(log, open) /\ CyclesOf(after, open \cup {n}) = CyclesOf(log, open) \cup {c}
       /\ RanksOf(after, open) = RanksOf(log, open) /\ RanksOf(after, open \cup {n}) = RanksOf(log, open) \cup {rank}
  <2>1. after[n].receipt.cycle = c /\ after[n].receipt.rank = rank
    BY <1>01, <1>8
  <2>2. \A i \in open : after[i] = log[i]
    BY <1>8, <1>9
  <2>3. CyclesOf(after, open \cup {n}) = CyclesOf(log, open) \cup {c}
    BY ONLY <2>1, <2>2 DEF CyclesOf
  <2>4. RanksOf(after, open \cup {n}) = RanksOf(log, open) \cup {rank}
    BY ONLY <2>1, <2>2 DEF RanksOf
  <2>5. CyclesOf(after, open) = CyclesOf(log, open) /\ RanksOf(after, open) = RanksOf(log, open)
    BY ONLY <2>2, ToldSame
  <2> QED BY ONLY <2>3, <2>4, <2>5
<1>14. t.attempts = Cardinality(In(after, b))
  <2>1. IsFiniteSet(all) /\ n \notin all
    BY <1>01, <1>8, <1>9, LogSets
  <2>2. Cardinality(all \cup {n}) = Cardinality(all) + 1
    BY ONLY <2>1, FS_AddElement
  <2> QED BY ONLY <1>6, <1>8, <1>10, <2>2
<1>15. t.incidents = Cardinality(CyclesOf(after, In(after, b)))
  <2>1. IsFiniteSet(CyclesOf(log, all))
    BY <1>01, <1>9, LogSets
  <2>2. Cardinality(CyclesOf(log, all) \cup {c}) = s.incidents + (IF p.rank = 0 THEN 1 ELSE 0)
    <3>1. Cardinality(CyclesOf(log, all) \cup {c}) = Cardinality(CyclesOf(log, all)) + (IF c \in CyclesOf(log, all) THEN 0 ELSE 1)
      BY ONLY <2>1, FS_AddElement, FS_CardinalityType
    <3> QED BY ONLY <1>3, <1>10, <1>11, <3>1
  <2> QED BY <1>6, <1>8, <1>12, <2>2
<1>16. t.severity = MaxOf(RanksOf(after, In(after, b)))
  <2>1. IsFiniteSet(RanksOf(log, all)) /\ RanksOf(log, all) \subseteq Nat
    BY <1>01, <1>9, LogSets
  <2>2. MaxOf(RanksOf(log, all) \cup {rank}) = Larger(rank, MaxOf(RanksOf(log, all)))
    BY <1>1, <2>1, LargerGrows
  <2> QED BY <1>6, <1>8, <1>10, <1>12, <2>2
<1>17. t.latest = MaxOf(TimesOf(after, In(after, b)))
  <2>1. IsFiniteSet(TimesOf(log, all)) /\ TimesOf(log, all) \subseteq Nat
    BY <1>01, <1>9, LogSets
  <2>2. MaxOf(TimesOf(log, all) \cup {at}) = Larger(at, MaxOf(TimesOf(log, all)))
    BY <1>1, <2>1, LargerGrows
  <2> QED BY <1>6, <1>8, <1>10, <1>12, <2>2
<1>18. t.unresolved = Cardinality(CyclesOf(after, OpenIn(after, b)))
  <2>1. IsFiniteSet(CyclesOf(log, open))
    BY <1>01, <1>9, LogSets
  <2>2. Cardinality(CyclesOf(log, open) \cup {c}) = s.unresolved + (IF p.active = 0 THEN 1 ELSE 0)
    <3>1. Cardinality(CyclesOf(log, open) \cup {c}) = Cardinality(CyclesOf(log, open)) + (IF c \in CyclesOf(log, open) THEN 0 ELSE 1)
      BY ONLY <2>1, FS_AddElement, FS_CardinalityType
    <3> QED BY ONLY <1>3, <1>10, <1>11, <3>1
  <2>3. CASE ~IsOpen(e)
    <3>1. active = p.active /\ t.unresolved = s.unresolved
      BY <1>03, <1>2, <1>3, <1>6, <2>3
    <3> QED BY <1>8, <1>10, <1>13, <2>3, <3>1
  <2>4. CASE IsOpen(e)
    <3>9. active = Larger(rank, p.active)
      BY <1>03, <2>4
    <3>1. active # 0
      BY ONLY <1>1, <1>2, <3>9 DEF Larger
    <3>2. t.unresolved = s.unresolved + (IF p.active = 0 THEN 1 ELSE 0)
      BY <1>6, <3>1
    <3> QED BY <1>8, <1>13, <2>2, <2>4, <3>2
  <2> QED BY <2>3, <2>4
<1>19. t.active = MaxOf(RanksOf(after, OpenIn(after, b)))
  <2>1. IsFiniteSet(RanksOf(log, open)) /\ RanksOf(log, open) \subseteq Nat
    BY <1>01, <1>9, LogSets
  <2>2. MaxOf(RanksOf(log, open) \cup {rank}) = Larger(rank, s.active)
    BY <1>1, <1>10, <2>1, LargerGrows
  <2>3. CASE ~IsOpen(e)
    <3>1. active = p.active
      BY <1>03, <2>3
    <3>2. t.active = s.active
      BY ONLY <1>2, <1>3, <1>6, <1>11, <3>1 DEF Larger
    <3> QED BY <1>8, <1>10, <1>13, <2>3, <3>2
  <2>4. CASE IsOpen(e)
    <3>1. active = Larger(rank, p.active)
      BY <1>03, <2>4
    <3>2. Larger(active, s.active) = Larger(rank, s.active)
      BY ONLY <1>1, <1>2, <1>3, <1>11, <3>1 DEF Larger
    <3> QED BY ONLY <1>6, <1>8, <1>13, <2>2, <2>4, <3>2
  <2> QED BY <2>3, <2>4
<1>20. Tells(after, b, t)
  BY <1>14, <1>15, <1>16, <1>17, <1>18, <1>19 DEF Tells
<1>21. \A d \in Cycles : incsAfter[b][d] = IF d = c THEN inc ELSE incs[b][d]
  BY <1>01, <1>05, <1>1 DEF IncidentTable
<1>22. s.severity <= t.severity /\ s.active <= t.active /\ rank <= t.severity /\ active <= t.active
  BY ONLY <1>1, <1>3, <1>4, <1>5, <1>6 DEF Larger
<1>23. Incidental(after, incsAfter, b, t)
  <2> SUFFICES ASSUME NEW d \in Cycles
               PROVE  /\ incsAfter[b][d].rank # 0 <=> d \in CyclesOf(after, In(after, b))
                      /\ incsAfter[b][d].active # 0 <=> d \in CyclesOf(after, OpenIn(after, b))
                      /\ incsAfter[b][d].rank <= t.severity /\ incsAfter[b][d].active <= t.active
    BY DEF Incidental
  <2>1. CASE d # c
    <3>1. incsAfter[b][d] = incs[b][d] /\ incs[b][d].rank \in Nat /\ incs[b][d].active \in Nat
      BY <1>01, <1>21, <2>1 DEF IncidentTable, Incident
    <3>2. /\ incs[b][d].rank # 0 <=> d \in CyclesOf(log, all)
          /\ incs[b][d].active # 0 <=> d \in CyclesOf(log, open)
          /\ incs[b][d].rank <= s.severity /\ incs[b][d].active <= s.active
      BY <1>01, <1>70 DEF Told, Incidental
    <3>3. incs[b][d].rank <= t.severity /\ incs[b][d].active <= t.active
      <4>1. t.severity \in Nat /\ t.active \in Nat
        BY ONLY <1>7 DEF Summary
      <4> QED BY ONLY <1>3, <1>22, <3>1, <3>2, <4>1
    <3>4. d \in CyclesOf(after, In(after, b)) <=> d \in CyclesOf(log, all)
      BY ONLY <1>8, <1>12, <2>1
    <3>5. d \in CyclesOf(after, OpenIn(after, b)) <=> d \in CyclesOf(log, open)
      BY ONLY <1>8, <1>13, <2>1
    <3> QED BY <3>1, <3>2, <3>3, <3>4, <3>5
  <2>2. CASE d = c
    <3>1. incsAfter[b][d] = inc
      BY <1>21, <2>2
    <3>2. inc.rank # 0 /\ inc.rank <= t.severity
      <4>1. p.rank <= t.severity
        BY ONLY <1>2, <1>3, <1>4, <1>6, <1>11, <1>22
      <4>2. inc.rank = IF rank > p.rank THEN rank ELSE p.rank
        BY <1>04 DEF Larger
      <4> QED BY ONLY <1>1, <1>2, <1>22, <4>1, <4>2
    <3>3. d \in CyclesOf(after, In(after, b))
      BY <1>8, <1>12, <2>2
    <3>4. active # 0 <=> d \in CyclesOf(after, OpenIn(after, b))
      <4>1. CASE ~IsOpen(e)
        <5>1. active = p.active
          BY <1>03, <4>1
        <5> QED BY <1>8, <1>11, <1>13, <2>2, <4>1, <5>1
      <4>2. CASE IsOpen(e)
        <5>2. active = Larger(rank, p.active)
          BY <1>03, <4>2
        <5>1. active # 0
          BY ONLY <1>1, <1>2, <5>2 DEF Larger
        <5> QED BY <1>8, <1>13, <2>2, <4>2, <5>1
      <4> QED BY <4>1, <4>2
    <3> QED BY <1>04, <1>22, <3>1, <3>2, <3>3, <3>4
  <2> QED BY <2>1, <2>2
<1> QED BY <1>7, <1>20, <1>23 DEF Told

\* One attempt more for another binding changes nothing of what is told.
LEMMA OthersTold ==
  ASSUME NEW log, IsLog(log), NEW incs, NEW incsAfter, NEW x, NEW s, Told(log, incs, x, s),
         NEW e \in LogEntry, e.binding # x, NEW after, NEW n, Appended(log, e, after, n), incsAfter[x] = incs[x]
  PROVE  Told(after, incsAfter, x, s)
<1>1. /\ \A i \in DOMAIN log : after[i] = log[i]
      /\ In(after, x) = In(log, x) /\ OpenIn(after, x) = OpenIn(log, x)
  <2>1. PICK D : D = DOMAIN log
    OBVIOUS
  <2>2. /\ DOMAIN after = D \cup {n} /\ n \notin D
        /\ \A i \in D : after[i] = log[i]
        /\ after[n] = e
    BY <2>1, Entered
  <2>3. In(after, x) = In(log, x)
    BY <2>1, <2>2, SameIn
  <2>4. OpenIn(after, x) = OpenIn(log, x)
    BY <2>1, <2>2, SameOpenIn
  <2> QED BY <2>1, <2>2, <2>3, <2>4
<1>2. In(log, x) \subseteq DOMAIN log /\ OpenIn(log, x) \subseteq DOMAIN log
  BY DEF In, OpenIn
<1>3. /\ CyclesOf(after, In(log, x)) = CyclesOf(log, In(log, x)) /\ RanksOf(after, In(log, x)) = RanksOf(log, In(log, x))
      /\ TimesOf(after, In(log, x)) = TimesOf(log, In(log, x))
      /\ CyclesOf(after, OpenIn(log, x)) = CyclesOf(log, OpenIn(log, x))
      /\ RanksOf(after, OpenIn(log, x)) = RanksOf(log, OpenIn(log, x))
  <2>1. (\A i \in In(log, x) : after[i] = log[i]) /\ \A i \in OpenIn(log, x) : after[i] = log[i]
    BY <1>1, <1>2
  <2> QED BY <2>1, ToldSame
<1>4. Tells(after, x, s)
  BY <1>1, <1>3 DEF Told, Tells
<1>5. Incidental(after, incsAfter, x, s)
  BY <1>1, <1>3 DEF Told, Incidental
<1> QED BY <1>4, <1>5 DEF Told

LEMMA RecordKeeps ==
  ASSUME NEW b \in CycleBindings, NEW acc, BooksHold(acc, b), NEW r \in Receipts, NEW resolved \in BOOLEAN,
         NEW res, res = RecordAttempt(b, acc, r, resolved)
  PROVE  /\ BooksHold(res, b) /\ Len(res.log) >= Len(acc.log)
         /\ \A x \in CycleBindings \ {b} : \A s :
              Told(acc.log, acc.incidents, x, s) => Told(res.log, res.incidents, x, s)
<1>0. r.rank \in Nat /\ r.at \in Nat /\ r.cycle \in Cycles
  BY CycleAssumption DEF Cycles
<1>1. PICK c, p : c = r.cycle /\ p = acc.incidents[b][c]
  OBVIOUS
<1>2. PICK active : active = IF resolved THEN p.active ELSE Larger(r.rank, p.active)
  OBVIOUS
<1>3. PICK e : e = [binding |-> b, receipt |-> r, resolved |-> resolved]
  OBVIOUS
<1>4. PICK inc : inc = [rank |-> Larger(r.rank, p.rank), active |-> active,
                        latest |-> Larger(r.at, p.latest), count |-> p.count + 1]
  OBVIOUS
<1>5. PICK s : s = acc.state
  OBVIOUS
<1>6. PICK t : t = [incidents |-> s.incidents + (IF p.rank = 0 THEN 1 ELSE 0),
                    attempts |-> s.attempts + 1,
                    unresolved |-> s.unresolved + (IF active # 0 /\ p.active = 0 THEN 1 ELSE 0),
                    severity |-> Larger(r.rank, s.severity),
                    active |-> Larger(active, s.active),
                    latest |-> Larger(r.at, s.latest)]
  OBVIOUS
<1>7. PICK log, incs : log = acc.log /\ incs = acc.incidents
  OBVIOUS
<1>8. PICK told : told = {x \in Range(log) : x.binding = b /\ x.receipt.key = r.key}
  OBVIOUS
<1>9. acc = [conflict |-> acc.conflict, log |-> log, incidents |-> incs, state |-> s]
      /\ IsLog(log) /\ incs \in IncidentTable /\ Told(log, incs, b, s)
  BY <1>5, <1>7 DEF BooksHold
<1>10. CASE told # {} \/ r.rank = 0
  <2>1. /\ res = [conflict |-> res.conflict, log |-> res.log, incidents |-> res.incidents, state |-> res.state]
        /\ res.log = log /\ res.incidents = incs /\ res.state = s
    <3>1. CASE told # {}
      <4>1. PICK v : v = (acc.conflict \/ \E x \in told : x.receipt # r)
        OBVIOUS
      <4>2. res = [acc EXCEPT !.conflict = v]
        BY <1>7, <1>8, <3>1, <4>1 DEF RecordAttempt
      <4> QED BY <1>9, <4>2
    <3>2. CASE told = {} /\ r.rank = 0
      <4>1. res = acc
        BY <1>7, <1>8, <3>2 DEF RecordAttempt
      <4> QED BY <1>9, <4>1
    <3> QED BY <1>10, <3>1, <3>2
  <2> QED BY <1>7, <1>9, <2>1 DEF BooksHold
<1>11. CASE told = {} /\ r.rank # 0
  <2>1. PICK after, n, table : after = Append(log, e) /\ n = Len(log) + 1 /\ table = [incs EXCEPT ![b] = [@ EXCEPT ![c] = inc]]
    OBVIOUS
  <2>2. res = [conflict |-> acc.conflict, log |-> after, incidents |-> table, state |-> t]
    BY <1>1, <1>2, <1>3, <1>4, <1>5, <1>6, <1>7, <1>8, <1>11, <2>1 DEF RecordAttempt
  <2>3. e \in LogEntry /\ e.binding = b /\ e.receipt = r /\ e.resolved = resolved /\ Appended(log, e, after, n)
        /\ (IsOpen(e) <=> ~resolved)
    BY <1>0, <1>3, <1>11, <2>1 DEF LogEntry, Appended, IsOpen
  <2>4. p.rank \in Nat /\ p.active \in Nat /\ p.latest \in Nat /\ p.count \in Nat
    BY <1>0, <1>1, <1>7, <1>9 DEF IncidentTable, Incident
  <2>5. inc \in Incident /\ inc.rank = Larger(r.rank, p.rank) /\ inc.active = active
    <3>1. active \in Nat /\ Larger(r.rank, p.rank) \in Nat /\ Larger(r.at, p.latest) \in Nat
      BY <1>0, <1>2, <2>4 DEF Larger
    <3> QED BY <1>4, <2>4, <3>1 DEF Incident
  <2>6. Told(after, table, b, t)
    <3>1. c = e.receipt.cycle /\ p = incs[b][c] /\ active = (IF IsOpen(e) THEN Larger(e.receipt.rank, p.active) ELSE p.active)
      BY <1>1, <1>2, <1>7, <2>3
    <3>2. inc.rank = Larger(e.receipt.rank, p.rank) /\ inc.active = active /\ inc \in Incident
      BY <2>3, <2>5
    <3>3. t = [incidents |-> s.incidents + (IF p.rank = 0 THEN 1 ELSE 0),
               attempts |-> s.attempts + 1,
               unresolved |-> s.unresolved + (IF active # 0 /\ p.active = 0 THEN 1 ELSE 0),
               severity |-> Larger(e.receipt.rank, s.severity),
               active |-> Larger(active, s.active),
               latest |-> Larger(e.receipt.at, s.latest)]
      BY <1>6, <2>3
    <3>4. b \in CycleBindings
      OBVIOUS
    <3>5. OneMore(log, incs, b, s, e, c, p, active, inc, after, n, table, t)
      BY ONLY <1>9, <2>1, <2>3, <3>1, <3>2, <3>3, <3>4 DEF OneMore
    <3> QED BY ONLY <3>5, EnteredTold
  <2>7. table \in IncidentTable /\ \A x \in CycleBindings \ {b} : table[x] = incs[x]
    BY <1>0, <1>1, <1>9, <2>1, <2>5 DEF IncidentTable
  <2>8. IsLog(after) /\ Len(after) >= Len(log)
    BY <1>9, <2>1, <2>3 DEF IsLog
  <2>9. \A x \in CycleBindings \ {b} : \A d : Told(log, incs, x, d) => Told(after, table, x, d)
    BY <1>9, <2>1, <2>3, <2>7, OthersTold
  <2> QED BY <1>7, <2>2, <2>6, <2>7, <2>8, <2>9 DEF BooksHold
<1> QED BY <1>10, <1>11

\* The books after each of the reported of a list.
IsTrace(b, books, reported, n, f) ==
  f = [i \in 0 .. n |-> IF i = 0 THEN books
                        ELSE RecordAttempt(b, f[i - 1], reported[i].receipt, reported[i].resolved)]

LEMMA TracesExist ==
  ASSUME NEW b, NEW books, NEW reported, NEW n \in Nat
  PROVE  \E f : IsTrace(b, books, reported, n, f)
<1> DEFINE B == {m \in Nat : ~\E f : IsTrace(b, books, reported, m, f)}
<1>1. SUFFICES ASSUME B # {} PROVE FALSE
  OBVIOUS
<1>2. PICK m \in B : \A y \in B : m <= y
  BY <1>1, LeastOf
<1>3. m # 0
  <2>1. [i \in 0 .. 0 |-> books] = [i \in 0 .. 0 |-> IF i = 0 THEN books
           ELSE RecordAttempt(b, [j \in 0 .. 0 |-> books][i - 1], reported[i].receipt, reported[i].resolved)]
    OBVIOUS
  <2> QED BY <2>1 DEF IsTrace
<1>4. m \in Nat /\ m - 1 \in Nat /\ m - 1 \notin B
  BY <1>2, <1>3
<1>5. PICK g : IsTrace(b, books, reported, m - 1, g)
  BY <1>4
<1>6. PICK f : f = [i \in 0 .. m |-> IF i < m THEN g[i]
                                      ELSE RecordAttempt(b, g[m - 1], reported[m].receipt, reported[m].resolved)]
  OBVIOUS
<1> HIDE DEF B
<1>7. \A i \in 0 .. m - 1 : g[i] = (IF i = 0 THEN books
                        ELSE RecordAttempt(b, g[i - 1], reported[i].receipt, reported[i].resolved))
  BY <1>5 DEF IsTrace
<1>8. \A i \in 0 .. m : f[i] = (IF i = 0 THEN books
                        ELSE RecordAttempt(b, f[i - 1], reported[i].receipt, reported[i].resolved))
  <2> SUFFICES ASSUME NEW i \in 0 .. m
               PROVE f[i] = (IF i = 0 THEN books
                        ELSE RecordAttempt(b, f[i - 1], reported[i].receipt, reported[i].resolved))
    OBVIOUS
  <2>1. i # 0 => f[i - 1] = g[i - 1]
    BY <1>4, <1>6
  <2>2. CASE i < m
    BY <1>4, <1>6, <1>7, <2>1, <2>2
  <2>3. CASE i = m
    BY <1>3, <1>4, <1>6, <2>1, <2>3
  <2> QED BY <1>4, <2>2, <2>3
<1>9. f = [i \in 0 .. m |-> f[i]]
  BY <1>6
<1>10. IsTrace(b, books, reported, m, f)
  BY <1>8, <1>9 DEF IsTrace
<1> QED BY <1>2, <1>10 DEF B

LEMMA RecordAllIs ==
  ASSUME NEW b, NEW books, NEW reported, Len(reported) \in Nat
  PROVE  \E f : IsTrace(b, books, reported, Len(reported), f) /\ RecordAll(b, books, reported) = f[Len(reported)]
<1>1. PICK f : f = CHOOSE g : IsTrace(b, books, reported, Len(reported), g)
  OBVIOUS
<1>2. IsTrace(b, books, reported, Len(reported), f)
  BY <1>1, TracesExist
<1>3. RecordAll(b, books, reported) = f[Len(reported)]
  BY <1>1 DEF RecordAll, IsTrace
<1> QED BY <1>2, <1>3

\* What entering reported of a binding keeps.
Recorded(b, books, acc) ==
  /\ BooksHold(acc, b) /\ Len(acc.log) >= Len(books.log)
  /\ \A x \in CycleBindings \ {b} : \A s :
       Told(books.log, books.incidents, x, s) => Told(acc.log, acc.incidents, x, s)

IsList(reported) == reported \in Seq(Attempt)

LEMMA KeptOnce ==
  ASSUME NEW b \in CycleBindings, NEW books, IsLog(books.log), NEW acc, Recorded(b, books, acc), NEW r \in Receipts, NEW resolved \in BOOLEAN
  PROVE  Recorded(b, books, RecordAttempt(b, acc, r, resolved))
<1>1. PICK res : res = RecordAttempt(b, acc, r, resolved)
  OBVIOUS
<1>2. BooksHold(acc, b)
  BY DEF Recorded
<1>3. /\ BooksHold(res, b) /\ Len(res.log) >= Len(acc.log)
      /\ \A x \in CycleBindings \ {b} : \A s :
           Told(acc.log, acc.incidents, x, s) => Told(res.log, res.incidents, x, s)
  BY <1>1, <1>2, RecordKeeps
<1>4. Len(res.log) \in Nat /\ Len(acc.log) \in Nat /\ Len(books.log) \in Nat
  BY <1>2, <1>3 DEF BooksHold, IsLog
<1> QED BY <1>1, <1>3, <1>4 DEF Recorded

LEMMA RecordAllKeeps ==
  ASSUME NEW b \in CycleBindings, NEW books, BooksHold(books, b), NEW reported, IsList(reported)
  PROVE  Recorded(b, books, RecordAll(b, books, reported))
<1>1. PICK n : n = Len(reported)
  OBVIOUS
<1>2. n \in Nat /\ \A i \in 1 .. n : reported[i].receipt \in Receipts /\ reported[i].resolved \in BOOLEAN
  <2>1. reported \in Seq(Attempt)
    BY DEF IsList
  <2>2. n \in Nat /\ \A i \in 1 .. n : reported[i] \in Attempt
    BY ONLY <1>1, <2>1
  <2> QED BY ONLY <2>2 DEF Attempt
<1>3. PICK f : IsTrace(b, books, reported, n, f) /\ RecordAll(b, books, reported) = f[n]
  BY <1>1, <1>2, RecordAllIs
<1>4. /\ f[0] = books
      /\ \A i \in 1 .. n : f[i] = RecordAttempt(b, f[i - 1], reported[i].receipt, reported[i].resolved)
  <2>1. f = [i \in 0 .. n |-> IF i = 0 THEN books
                ELSE RecordAttempt(b, f[i - 1], reported[i].receipt, reported[i].resolved)]
    BY <1>3 DEF IsTrace
  <2>2. \A i \in 0 .. n : f[i] = IF i = 0 THEN books
                ELSE RecordAttempt(b, f[i - 1], reported[i].receipt, reported[i].resolved)
    BY ONLY <2>1
  <2> QED BY ONLY <1>2, <2>2
<1>5. IsLog(books.log) /\ Recorded(b, books, books)
  BY DEF BooksHold, Recorded, IsLog
<1> DEFINE B == {i \in 0 .. n : ~Recorded(b, books, f[i])}
<1>6. SUFFICES ASSUME B # {} PROVE FALSE
  BY <1>2, <1>3
<1>7. PICK m \in B : \A y \in B : m <= y
  <2>1. B \subseteq Nat /\ B # {}
    BY <1>2, <1>6
  <2> HIDE DEF B
  <2> QED BY ONLY <2>1, LeastOf
<1>8. m # 0
  BY <1>4, <1>5
<1>9. m \in 1 .. n /\ m - 1 \in 0 .. n
  BY <1>2, <1>7, <1>8
<1>10. Recorded(b, books, f[m - 1])
  BY <1>2, <1>7, <1>9
<1> HIDE DEF B
<1>11. reported[m].receipt \in Receipts /\ reported[m].resolved \in BOOLEAN
  BY <1>2, <1>9
<1>12. Recorded(b, books, RecordAttempt(b, f[m - 1], reported[m].receipt, reported[m].resolved))
  BY <1>5, <1>10, <1>11, KeptOnce
<1>13. Recorded(b, books, f[m])
  BY <1>4, <1>9, <1>12
<1> QED BY <1>7, <1>13 DEF B

Observation == Scans \cup {NoObservation}
Admitted == [revision : Nat \ {0}, binding : CycleBindings, config : CycleConfigs, required : Nat \ {0},
             observation : Observation, checkpoint : Nat]
LegacyRow == [version : {1}, revision : Nat, config : CycleConfigs, required : Nat \ {0}, baseline : BOOLEAN,
              attempts : Seq(Attempt)]
SummaryRow == [version : {2}, revision : Nat, config : CycleConfigs, required : Nat \ {0}, baseline : BOOLEAN,
               covered : Nat, complete : BOOLEAN, state : Summary]
IsLegacy(k) == k \in LegacyRow
IsSummed(k) == k \in SummaryRow
StateOf(k) == IF k.version = 2 THEN k.state ELSE EmptyCycleState

IsBased(k) == k.baseline /\ k.covered # 0
IsComplete(k) == k.complete
\* What a checkpoint says of its coverage was scanned.
Vouched(k, done) ==
  /\ IsBased(k) => k.covered >= k.required /\ k.required .. (k.covered - 1) \subseteq done[k.config]
  /\ IsComplete(k) => k.covered # 0
RowHolds(k, done) ==
  \/ k = NoCheckpoint
  \/ IsLegacy(k)
  \/ IsSummed(k) /\ Vouched(k, done)

WalkHolds ==
  /\ walk = [binding |-> walk.binding, through |-> walk.through, after |-> walk.after, seen |-> walk.seen, open |-> walk.open]
  /\ walk.after \in Nat /\ walk.through \in Nat /\ walk.through <= Len(faultLog)
  /\ walk.seen = [i \in 1 .. walk.after |-> i]
  /\ walk.open => walk.after < walk.through
  /\ ~walk.open => walk.after = walk.through

\* A row of the first version is the only one, and nothing is in the log yet.
LegacyIsAlone ==
  \A l \in Legacy :
    /\ faultLog = <<>> /\ \A x \in CycleBindings \ {l} : ckpt[x] = NoCheckpoint
    /\ source # NoSource /\ source.binding = l => Segments(source.observation) \subseteq scanned[l][ckpt[l].config]

CycleInv ==
  /\ source = NoSource \/ source \in Admitted
  /\ \A b \in CycleBindings : RowHolds(ckpt[b], scanned[b])
  /\ scanned \in [CycleBindings -> [CycleConfigs -> SUBSET Int]]
  /\ IsLog(faultLog) /\ incidents \in IncidentTable
  /\ \A b \in CycleBindings : Told(faultLog, incidents, b, StateOf(ckpt[b]))
  /\ LegacyIsAlone
  /\ WalkHolds

LEMMA EmptyIsSummary == EmptyCycleState \in Summary
  BY DEF EmptyCycleState, Summary

LEMMA NothingTold ==
  ASSUME NEW incs, NEW b, \A c \in Cycles : incs[b][c] = NoIncident
  PROVE  Told(<<>>, incs, b, EmptyCycleState)
<1>1. In(<<>>, b) = {} /\ OpenIn(<<>>, b) = {}
  BY DEF In, OpenIn
<1>2. CyclesOf(<<>>, {}) = {} /\ RanksOf(<<>>, {}) = {} /\ TimesOf(<<>>, {}) = {}
  BY DEF CyclesOf, RanksOf, TimesOf
<1>3. Cardinality({}) = 0 /\ MaxOf({}) = 0
  BY FS_EmptySet DEF MaxOf
<1>4. Tells(<<>>, b, EmptyCycleState)
  BY ONLY <1>1, <1>2, <1>3 DEF Tells, EmptyCycleState
<1>5. Incidental(<<>>, incs, b, EmptyCycleState)
  <2>1. CyclesOf(<<>>, In(<<>>, b)) = {} /\ CyclesOf(<<>>, OpenIn(<<>>, b)) = {}
    BY <1>1, <1>2
  <2>2. \A c \in Cycles : incs[b][c].rank = 0 /\ incs[b][c].active = 0
    BY DEF NoIncident
  <2>3. EmptyCycleState.severity = 0 /\ EmptyCycleState.active = 0
    BY DEF EmptyCycleState
  <2> QED BY ONLY <2>1, <2>2, <2>3 DEF Incidental
<1> QED BY <1>4, <1>5, EmptyIsSummary DEF Told

\* What a row is of, by its version.
LEMMA RowKinds ==
  ASSUME NEW k, NEW done, RowHolds(k, done)
  PROVE  /\ k.version = 1 <=> IsLegacy(k)
         /\ k.version = 2 <=> IsSummed(k)
         /\ k.version = 0 <=> k = NoCheckpoint
         /\ k.version \in {0, 1, 2}
  BY DEF RowHolds, IsLegacy, IsSummed, NoCheckpoint, LegacyRow, SummaryRow

LEMMA BooksOf ==
  ASSUME IsLog(faultLog), incidents \in IncidentTable, NEW b, NEW s, Told(faultLog, incidents, b, s)
  PROVE  BooksHold(Books(s), b)
<1>1. PICK x : x = Books(s)
  OBVIOUS
<1>2. x.log = faultLog /\ x.incidents = incidents /\ x.state = s /\ x.conflict = FALSE
      /\ x = [conflict |-> x.conflict, log |-> x.log, incidents |-> x.incidents, state |-> x.state]
  BY <1>1 DEF Books
<1> QED BY <1>1, <1>2 DEF BooksHold

\* What the books carry over after the migrations: as they were.
Carries(b, books) ==
  /\ BooksHold(books, b) /\ Len(books.log) >= Len(faultLog)
  /\ books.state = StateOf(Migrated(b))
  /\ \A x \in CycleBindings : Told(books.log, books.incidents, x, StateOf(Migrated(x)))

LEMMA CarriedAsIs ==
  ASSUME CycleInv, Legacy = {}, NEW b \in CycleBindings
  PROVE  Carries(b, CarriedBooks(b)) /\ Migrated(b) = ckpt[b]
<1>1. \A x \in CycleBindings : ckpt[x].version # 1 /\ Migrated(x) = ckpt[x]
  BY DEF Legacy, Migrated
<1>2. PICK s : s = StateOf(ckpt[b])
  OBVIOUS
<1>3. CarriedBooks(b) = Books(s)
  BY <1>1, <1>2 DEF CarriedBooks, MigratedBooks, StateOf
<1>4. BooksHold(Books(s), b)
  BY <1>2, BooksOf DEF CycleInv
<1>5. Books(s).log = faultLog /\ Books(s).incidents = incidents /\ Books(s).state = s
  BY DEF Books
<1>6. Len(faultLog) \in Nat
  BY DEF CycleInv, IsLog
<1>7. \A x \in CycleBindings : Told(faultLog, incidents, x, StateOf(ckpt[x]))
  BY DEF CycleInv
<1> QED BY <1>1, <1>2, <1>3, <1>4, <1>5, <1>6, <1>7 DEF Carries

LEMMA LegacyBooks ==
  ASSUME CycleInv, NEW l \in Legacy
  PROVE  /\ l \in CycleBindings /\ Legacy = {l} /\ IsLegacy(ckpt[l])
         /\ faultLog = <<>>
         /\ \A x \in CycleBindings \ {l} : ckpt[x] = NoCheckpoint
         /\ MigratedBooks(l) = RecordAll(l, Books(EmptyCycleState), ckpt[l].attempts)
         /\ Recorded(l, Books(EmptyCycleState), MigratedBooks(l))
<1>1. l \in CycleBindings /\ ckpt[l].version = 1
  BY DEF Legacy
<1>2. IsLegacy(ckpt[l])
  BY <1>1, RowKinds DEF CycleInv
<1>3. faultLog = <<>> /\ \A x \in CycleBindings \ {l} : ckpt[x] = NoCheckpoint
  BY DEF CycleInv, LegacyIsAlone
<1>4. Legacy = {l}
  BY <1>3 DEF Legacy, NoCheckpoint
<1>5. MigratedBooks(l) = RecordAll(l, Books(EmptyCycleState), ckpt[l].attempts)
  BY <1>1 DEF MigratedBooks
<1>6. BooksHold(Books(EmptyCycleState), l)
  <2>1. StateOf(ckpt[l]) = EmptyCycleState
    BY <1>1 DEF StateOf
  <2>2. Told(faultLog, incidents, l, EmptyCycleState) /\ IsLog(faultLog) /\ incidents \in IncidentTable
    BY <1>1, <2>1 DEF CycleInv
  <2> QED BY <2>2, BooksOf
<1>7. IsList(ckpt[l].attempts)
  BY <1>2 DEF IsLegacy, LegacyRow, IsList
<1>8. Recorded(l, Books(EmptyCycleState), MigratedBooks(l))
  BY <1>1, <1>5, <1>6, <1>7, RecordAllKeeps
<1> QED BY <1>1, <1>2, <1>3, <1>4, <1>5, <1>8

LEMMA CarriedFromLegacy ==
  ASSUME CycleInv, NEW l \in Legacy, NEW b \in CycleBindings
  PROVE  Carries(b, CarriedBooks(b))
<1>1. /\ l \in CycleBindings /\ Legacy = {l} /\ IsLegacy(ckpt[l])
      /\ faultLog = <<>>
      /\ \A x \in CycleBindings \ {l} : ckpt[x] = NoCheckpoint
      /\ Recorded(l, Books(EmptyCycleState), MigratedBooks(l))
  BY LegacyBooks
<1>2. PICK m : m = MigratedBooks(l)
  OBVIOUS
<1>3. PICK e : e = Books(EmptyCycleState)
  OBVIOUS
<1>4. e.log = faultLog /\ e.incidents = incidents /\ e.state = EmptyCycleState
  BY <1>3 DEF Books
<1>5. BooksHold(m, l) /\ Len(m.log) >= Len(faultLog)
      /\ \A x \in CycleBindings \ {l} : \A s : Told(faultLog, incidents, x, s) => Told(m.log, m.incidents, x, s)
  BY <1>1, <1>2, <1>3, <1>4 DEF Recorded
<1>6. ckpt[l].version = 1
  BY DEF Legacy
<1>7. StateOf(Migrated(l)) = m.state
  <2>1. Migrated(l).version = 2 /\ Migrated(l).state = MigratedBooks(l).state
    BY <1>6 DEF Migrated
  <2> QED BY <1>2, <2>1 DEF StateOf
<1>8. ASSUME NEW x \in CycleBindings \ {l} PROVE StateOf(Migrated(x)) = EmptyCycleState /\ Told(m.log, m.incidents, x, EmptyCycleState)
  <2>1. ckpt[x].version = 0 /\ Migrated(x) = ckpt[x]
    BY <1>1 DEF NoCheckpoint, Migrated
  <2>2. StateOf(ckpt[x]) = EmptyCycleState
    BY <2>1 DEF StateOf
  <2>3. Told(faultLog, incidents, x, EmptyCycleState)
    BY <2>2 DEF CycleInv
  <2> QED BY <1>5, <2>1, <2>2, <2>3
<1>9. Told(m.log, m.incidents, l, m.state)
  BY <1>5 DEF BooksHold
<1>10. \A x \in CycleBindings : Told(m.log, m.incidents, x, StateOf(Migrated(x)))
  BY <1>7, <1>8, <1>9
<1>11. CASE b = l
  <2>1. CarriedBooks(b) = m
    BY <1>2, <1>11 DEF CarriedBooks
  <2> QED BY <1>5, <1>7, <1>10, <1>11, <2>1 DEF Carries
<1>12. CASE b # l
  <2>1. ckpt[b].version = 0
    BY <1>1, <1>12 DEF NoCheckpoint
  <2>2. MigratedBooks(b) = e
    BY <1>3, <2>1 DEF MigratedBooks
  <2>3. Legacy # {} /\ b \notin Legacy /\ (CHOOSE x \in Legacy : TRUE) = l
    BY <1>1, <1>12
  <2>4. CarriedBooks(b) = [m EXCEPT !.state = EmptyCycleState]
    BY <1>2, <1>4, <2>2, <2>3 DEF CarriedBooks
  <2>5. PICK c : c = CarriedBooks(b)
    OBVIOUS
  <2>6. m = [conflict |-> m.conflict, log |-> m.log, incidents |-> m.incidents, state |-> m.state]
    BY <1>5 DEF BooksHold
  <2>7. c.log = m.log /\ c.incidents = m.incidents /\ c.state = EmptyCycleState
        /\ c = [conflict |-> c.conflict, log |-> c.log, incidents |-> c.incidents, state |-> c.state]
    BY <2>4, <2>5, <2>6
  <2>8. Told(m.log, m.incidents, b, EmptyCycleState) /\ StateOf(Migrated(b)) = EmptyCycleState
    BY <1>8, <1>12
  <2>9. IsLog(m.log) /\ m.incidents \in IncidentTable
    BY <1>5 DEF BooksHold
  <2>10. BooksHold(c, b)
    BY <2>7, <2>8, <2>9 DEF BooksHold
  <2> QED BY <1>5, <1>10, <2>5, <2>7, <2>8, <2>10 DEF Carries
<1> QED BY <1>11, <1>12

LEMMA Carried ==
  ASSUME CycleInv, NEW b \in CycleBindings
  PROVE  Carries(b, CarriedBooks(b))
<1>1. CASE Legacy = {}
  BY <1>1, CarriedAsIs
<1>2. CASE Legacy # {}
  <2>1. PICK l \in Legacy : TRUE
    BY <1>2
  <2> QED BY <2>1, CarriedFromLegacy
<1> QED BY <1>1, <1>2

\* A row is vouched for after its migration, too.
LEMMA MigratedHolds ==
  ASSUME CycleInv, NEW b \in CycleBindings
  PROVE  RowHolds(Migrated(b), scanned[b]) /\ ~IsLegacy(Migrated(b))
<1>1. PICK k : k = ckpt[b]
  OBVIOUS
<1>2. RowHolds(k, scanned[b])
  BY <1>1 DEF CycleInv
<1>3. CASE k.version # 1
  <2>1. Migrated(b) = k
    BY <1>1, <1>3 DEF Migrated
  <2> QED BY <1>2, <1>3, <2>1, RowKinds
<1>4. CASE k.version = 1
  <2>1. k \in LegacyRow
    BY <1>2, <1>4, RowKinds DEF IsLegacy
  <2>2. b \in Legacy
    BY <1>1, <1>4 DEF Legacy
  <2>3. PICK proven : proven = LegacyCoverageProven(b)
    OBVIOUS
  <2>4. PICK s : s = MigratedBooks(b).state
    OBVIOUS
  <2>5. s \in Summary
    <3>1. BooksHold(MigratedBooks(b), b)
      BY <2>2, LegacyBooks DEF Recorded
    <3> QED BY <2>4, <3>1 DEF BooksHold, Told
  <2>6. PICK covered : covered = IF LegacyCoverageProven(b) THEN source.observation.through ELSE 0
    OBVIOUS
  <2>7. PICK r : r = Migrated(b)
    OBVIOUS
  <2>8. r = [version |-> 2, revision |-> k.revision, config |-> k.config,
             required |-> k.required, baseline |-> k.baseline,
             covered |-> covered, complete |-> LegacyCoverageProven(b), state |-> s]
    BY <1>1, <1>4, <2>4, <2>6, <2>7 DEF Migrated
  <2>9. LegacyCoverageProven(b) \in BOOLEAN
    BY DEF LegacyCoverageProven
  <2>10. ASSUME LegacyCoverageProven(b)
         PROVE  /\ covered \in Nat /\ covered >= k.required /\ covered # 0
                /\ k.required .. (covered - 1) \subseteq scanned[b][k.config]
    <3>1. /\ source \in Admitted /\ source.binding = b /\ k.config = source.config /\ k.required = source.required
          /\ source.observation # NoObservation /\ source.observation.ok
          /\ source.observation.from <= source.required /\ source.observation.through >= source.required
          /\ source # NoSource
      BY <1>1, <2>10 DEF LegacyCoverageProven, CycleInv, NoSource
    <3>2. PICK o : o = source.observation
      OBVIOUS
    <3>3. o \in Scans /\ o.through \in Nat /\ o.from \in Nat
      BY <3>1, <3>2, CycleAssumption DEF Admitted, Observation
    <3>4. Segments(o) = o.from .. (o.through - 1) /\ Segments(o) \subseteq scanned[b][k.config]
      BY <1>1, <2>2, <3>1, <3>2 DEF Segments, CycleInv, LegacyIsAlone
    <3>5. k.required \in Nat \ {0} /\ covered = o.through
      BY <2>1, <2>6, <2>10, <3>2 DEF LegacyRow
    <3>6. o.from <= k.required /\ o.through >= k.required
      BY <3>1, <3>2
    <3> QED BY ONLY <3>3, <3>4, <3>5, <3>6
  <2>11. covered \in Nat /\ (~LegacyCoverageProven(b) => covered = 0)
    BY <2>6, <2>10
  <2>12. r.covered = covered /\ r.required = k.required /\ r.config = k.config /\ r.complete = LegacyCoverageProven(b)
    BY <2>8
  <2>13. IsSummed(r)
    <3>1. k.revision \in Nat /\ k.config \in CycleConfigs /\ k.required \in Nat \ {0} /\ k.baseline \in BOOLEAN
      BY <2>1 DEF LegacyRow
    <3> QED BY <2>5, <2>8, <2>9, <2>11, <3>1 DEF IsSummed, SummaryRow
  <2>14. Vouched(r, scanned[b])
    BY <2>10, <2>11, <2>12 DEF Vouched, IsBased, IsComplete
  <2>15. RowHolds(r, scanned[b])
    BY <2>13, <2>14 DEF RowHolds
  <2>16. ~IsLegacy(r)
    BY <2>8 DEF IsLegacy, LegacyRow
  <2> QED BY <2>7, <2>15, <2>16
<1> QED BY <1>3, <1>4

\* A scan carries a row on, and what the row says of its coverage stays vouched for.
LEMMA NextHolds ==
  ASSUME source \in Admitted, NEW done \in [CycleConfigs -> SUBSET Int], NEW k, RowHolds(k, done), ~IsLegacy(k),
         NEW o \in Scans, NEW s \in Summary,
         NEW after, after = [done EXCEPT ![source.config] = @ \cup Segments(o)]
  PROVE  RowHolds(NextCheckpoint(o, k, s), after) /\ IsSummed(NextCheckpoint(o, k, s))
<1>1. PICK c, req : c = source.config /\ req = source.required
  OBVIOUS
<1>2. c \in CycleConfigs /\ req \in Nat \ {0} /\ o.through \in Nat /\ o.from \in Nat
  BY <1>1, CycleAssumption DEF Admitted
<1>3. PICK r : r = NextCheckpoint(o, k, s)
  OBVIOUS
<1>4. PICK kept, goes : kept = (k.version # 0 /\ ~Transition(k)) /\ goes = Continuous(o, k)
  OBVIOUS
<1>5. PICK rev : rev = (IF k.version = 0 THEN 0 ELSE k.revision) + 1
  OBVIOUS
<1>6. PICK based : based = IF goes THEN ~kept \/ k.baseline \/ k.covered = 0 ELSE kept /\ k.baseline
  OBVIOUS
<1>7. PICK covered : covered = IF goes THEN o.through ELSE IF kept THEN k.covered ELSE 0
  OBVIOUS
<1>8. r = [version |-> 2, revision |-> rev, config |-> c, required |-> req, baseline |-> based,
           covered |-> covered, complete |-> goes, state |-> s]
  BY <1>1, <1>3, <1>4, <1>5, <1>6, <1>7 DEF NextCheckpoint
<1>9. k = NoCheckpoint \/ (IsSummed(k) /\ Vouched(k, done))
  BY DEF RowHolds
<1>10. kept => /\ IsSummed(k) /\ Vouched(k, done) /\ k.config = c /\ k.required = req
               /\ k.covered \in Nat /\ k.baseline \in BOOLEAN
  <2> SUFFICES ASSUME kept
               PROVE /\ IsSummed(k) /\ Vouched(k, done) /\ k.config = c /\ k.required = req
                     /\ k.covered \in Nat /\ k.baseline \in BOOLEAN
    OBVIOUS
  <2>1. k.version # 0 /\ ~Transition(k)
    BY <1>4
  <2>2. IsSummed(k) /\ Vouched(k, done)
    BY <1>9, <2>1 DEF NoCheckpoint
  <2>3. k.config = c /\ k.required = req
    BY <1>1, <2>1 DEF Transition
  <2>4. k.covered \in Nat /\ k.baseline \in BOOLEAN
    BY <2>2 DEF IsSummed, SummaryRow
  <2> QED BY <2>2, <2>3, <2>4
<1>11. kept \in BOOLEAN /\ goes \in BOOLEAN
  BY <1>4, CycleAssumption DEF Continuous
<1>12. rev \in Nat
  <2>1. k.version # 0 => k.revision \in Nat
    BY <1>9 DEF NoCheckpoint, IsSummed, SummaryRow
  <2> QED BY <1>5, <2>1
<1>13. covered \in Nat
  BY <1>2, <1>7, <1>10
<1>14. based \in BOOLEAN
  BY <1>6, <1>10, <1>11
<1>15. IsSummed(r)
  BY <1>2, <1>8, <1>11, <1>12, <1>13, <1>14 DEF IsSummed, SummaryRow
<1>16. r.covered = covered /\ r.required = req /\ r.config = c /\ r.complete = goes /\ r.baseline = based
  BY <1>8
<1>17. done[c] \subseteq after[c] /\ Segments(o) \subseteq after[c]
  BY <1>1, <1>2
<1>18. goes => /\ Segments(o) = o.from .. (o.through - 1)
               /\ o.from <= ExpectedFrom(k) /\ o.through >= ExpectedFrom(k)
  BY <1>4 DEF Continuous, Segments
<1>19. ExpectedFrom(k) = IF kept /\ k.covered # 0 THEN k.covered ELSE req
  BY <1>1, <1>4 DEF ExpectedFrom
<1>20. ASSUME goes PROVE covered # 0
  BY <1>2, <1>7, <1>10, <1>18, <1>19, <1>20
<1>21. ASSUME based, covered # 0 PROVE covered >= req /\ req .. (covered - 1) \subseteq after[c]
  <2>1. kept /\ k.baseline /\ k.covered # 0 => k.covered >= req /\ req .. (k.covered - 1) \subseteq done[c]
    BY <1>10 DEF Vouched, IsBased
  <2>2. CASE goes
    <3>1. covered = o.through
      BY <1>7, <2>2
    <3>2. CASE kept /\ k.covered # 0
      <4>1. k.baseline
        BY <1>6, <1>21, <2>2, <3>2
      <4>2. k.covered \in Nat /\ k.covered >= req /\ req .. (k.covered - 1) \subseteq after[c]
        BY <1>10, <1>17, <2>1, <3>2, <4>1
      <4>3. o.from <= k.covered /\ o.through >= k.covered /\ o.from .. (o.through - 1) \subseteq after[c]
        BY <1>17, <1>18, <1>19, <2>2, <3>2
      <4> QED BY ONLY <1>2, <3>1, <4>2, <4>3
    <3>3. CASE ~(kept /\ k.covered # 0)
      <4>1. o.from <= req /\ o.through >= req /\ o.from .. (o.through - 1) \subseteq after[c]
        BY <1>17, <1>18, <1>19, <2>2, <3>3
      <4> QED BY ONLY <1>2, <3>1, <4>1
    <3> QED BY <3>2, <3>3
  <2>3. CASE ~goes
    <3>1. kept /\ k.baseline /\ covered = k.covered
      BY <1>6, <1>7, <1>21, <2>3
    <3> QED BY <1>17, <1>21, <2>1, <3>1
  <2> QED BY <2>2, <2>3
<1>22. Vouched(r, after)
  BY <1>16, <1>20, <1>21 DEF Vouched, IsBased, IsComplete
<1> QED BY <1>3, <1>15, <1>22 DEF RowHolds

LEMMA RowStays ==
  ASSUME NEW k, NEW done, NEW after, RowHolds(k, done), \A c \in CycleConfigs : done[c] \subseteq after[c]
  PROVE  RowHolds(k, after)
<1>1. ASSUME IsSummed(k), Vouched(k, done) PROVE Vouched(k, after)
  <2>1. k.config \in CycleConfigs
    BY <1>1 DEF IsSummed, SummaryRow
  <2> QED BY <1>1, <2>1 DEF Vouched
<1> QED BY <1>1 DEF RowHolds

\* A page goes one entry on, to where the walk is to end.
LEMMA PageGoesOn ==
  ASSUME NEW log, Len(log) \in Nat, NEW cursor, NEW a, a = cursor.after, a \in Nat,
         cursor.seen = [i \in 1 .. a |-> i],
         NEW t, t = (IF cursor.open THEN cursor.through ELSE Len(log)), t \in Nat, t <= Len(log), a <= t,
         cursor.open => a < t,
         NEW w, w = HistoryPage(cursor, log)
  PROVE  /\ w = [binding |-> w.binding, through |-> w.through, after |-> w.after, seen |-> w.seen, open |-> w.open]
         /\ w.through = t /\ w.after \in Nat
         /\ w.seen = [i \in 1 .. w.after |-> i]
         /\ w.open => w.after < t
         /\ ~w.open => w.after = t
<1>1. PICK left : left = {i \in 1 .. Len(log) : i > a /\ i <= t}
  OBVIOUS
<1>2. PICK seen, after : /\ seen = (IF left = {} THEN cursor.seen ELSE Append(cursor.seen, Min(left)))
                         /\ after = (IF left = {} THEN a ELSE Min(left))
  OBVIOUS
<1>9. PICK open : open = (Cardinality(left) > 1)
  OBVIOUS
<1>3. w = [binding |-> source.binding, through |-> t, after |-> after, seen |-> seen, open |-> open]
  BY <1>1, <1>2, <1>9 DEF HistoryPage
<1>8. ASSUME NEW n \in Nat, Cardinality(left) = n PROVE open \in BOOLEAN /\ (open <=> n > 1)
  <2>1. open = (n > 1)
    BY <1>8, <1>9
  <2>2. CASE n > 1
    <3>1. (n > 1) = TRUE
      BY ONLY <2>2, n \in Nat
    <3>2. open = TRUE
      BY ONLY <2>1, <3>1
    <3> QED BY <2>2, <3>2
  <2>3. CASE ~(n > 1)
    <3>1. (n > 1) = FALSE
      BY ONLY <2>3, n \in Nat
    <3>2. open = FALSE
      BY ONLY <2>1, <3>1
    <3> QED BY <2>3, <3>2
  <2> QED BY <2>2, <2>3
<1>7. /\ w = [binding |-> w.binding, through |-> w.through, after |-> w.after, seen |-> w.seen, open |-> w.open]
      /\ w.through = t /\ w.after = after /\ w.seen = seen /\ (w.open <=> open)
  BY ONLY <1>3
<1>4. left = (a + 1) .. t
  BY <1>1
<1>5. CASE a = t
  <2>1. left = {} /\ Cardinality(left) = 0
    BY <1>4, <1>5, FS_EmptySet
  <2>3. after = a /\ seen = cursor.seen
    BY <1>2, <2>1
  <2>4. ~open
    BY ONLY <1>8, <2>1
  <2>2. after = a /\ seen = [i \in 1 .. a |-> i] /\ ~open
    BY <2>3, <2>4
  <2> QED BY <1>5, <1>7, <2>2
<1>6. CASE a < t
  <2>1. Min(left) = a + 1
    <3>1. a + 1 \in left /\ \A y \in left : a + 1 <= y
      BY <1>4, <1>6
    <3>2. \A x \in left : (\A y \in left : x <= y) => x = a + 1
      BY <1>4, <1>6
    <3> QED BY <3>1, <3>2 DEF Min
  <2>2. Cardinality(left) = t - a
    <3>1. PICK b : b = a + 1
      OBVIOUS
    <3>2. b \in Int /\ t \in Int
      BY <3>1
    <3>3. Cardinality(b .. t) = IF b > t THEN 0 ELSE t - b + 1
      BY ONLY <3>2, FS_Interval
    <3> QED BY <1>4, <1>6, <3>1, <3>3
  <2>3. after = a + 1 /\ seen = Append(cursor.seen, a + 1) /\ (open <=> t - a > 1)
    <3>1. left # {}
      <4>1. a + 1 \in left
        BY <1>4, <1>6
      <4> QED BY <4>1
    <3> QED BY <1>2, <1>8, <2>1, <2>2, <3>1
  <2>4. seen = [i \in 1 .. a + 1 |-> i]
    <3>1. PICK q : q = [i \in 1 .. a |-> i]
      OBVIOUS
    <3>2. q \in Seq(Nat) /\ Len(q) = a
      BY <3>1
    <3>3. Append(q, a + 1) = [i \in 1 .. a + 1 |-> i]
      BY <3>1, <3>2
    <3> QED BY <2>3, <3>1, <3>3
  <2>5. after \in Nat /\ after <= t /\ (open <=> after < t)
    BY <1>6, <2>3
  <2>6. ~open => after = t
    BY <1>6, <2>3
  <2>7. seen = [i \in 1 .. after |-> i]
    BY <2>3, <2>4
  <2> QED BY ONLY <1>7, <2>5, <2>6, <2>7
<1> QED BY <1>5, <1>6

LEMMA SegmentsAre == ASSUME NEW o \in Observation PROVE Segments(o) \subseteq Int
<1>1. CASE o \in Scans
  BY <1>1, CycleAssumption DEF Segments
<1>2. CASE o = NoObservation
  BY <1>2 DEF Segments, NoObservation
<1> QED BY <1>1, <1>2 DEF Observation

LEMMA AttemptedIsList ==
  ASSUME NEW l \in CycleLists, NEW R
  PROVE  IsList(Attempted(l, R))
<1>1. PICK s : s = Attempted(l, R)
  OBVIOUS
<1>2. s = [i \in DOMAIN l |-> [receipt |-> l[i], resolved |-> i \in R]]
  BY <1>1 DEF Attempted
<1>3. l \in Seq(Receipts)
  BY CycleAssumption
<1>4. DOMAIN l = 1 .. Len(l) /\ Len(l) \in Nat /\ \A i \in 1 .. Len(l) : l[i] \in Receipts
  BY <1>3
<1>5. \A i \in 1 .. Len(l) : s[i] \in Attempt
  <2> SUFFICES ASSUME NEW i \in 1 .. Len(l) PROVE s[i] \in Attempt
    OBVIOUS
  <2>1. s[i] = [receipt |-> l[i], resolved |-> i \in R]
    BY <1>2, <1>4
  <2>2. l[i] \in Receipts /\ (i \in R) \in BOOLEAN
    BY <1>4
  <2> QED BY ONLY <2>1, <2>2 DEF Attempt
<1>6. s = [i \in 1 .. Len(l) |-> s[i]]
  BY <1>2, <1>4
<1>7. s \in Seq(Attempt)
  BY ONLY <1>4, <1>5, <1>6
<1> QED BY <1>1, <1>7 DEF IsList

LEMMA CycleStarts == CycleInit => CycleInv
<1> SUFFICES ASSUME CycleInit PROVE CycleInv
  OBVIOUS
<1>1. /\ faultLog = <<>> /\ walk = NoWalk
      /\ incidents = [b \in CycleBindings |-> [c \in Cycles |-> NoIncident]]
  BY DEF CycleInit
<1>2. IsLog(faultLog) /\ incidents \in IncidentTable
  <2>1. NoIncident \in Incident
    BY DEF NoIncident, Incident
  <2>2. incidents \in IncidentTable
    BY <1>1, <2>1 DEF IncidentTable
  <2>3. IsLog(faultLog)
    BY <1>1 DEF IsLog
  <2> QED BY <2>2, <2>3
<1>3. \A b \in CycleBindings : Told(faultLog, incidents, b, EmptyCycleState)
  <2> TAKE b \in CycleBindings
  <2>1. \A c \in Cycles : incidents[b][c] = NoIncident
    BY <1>1
  <2> QED BY <1>1, <2>1, NothingTold
<1>4. WalkHolds
  <2>1. Len(faultLog) = 0 /\ <<>> = [i \in 1 .. 0 |-> i]
    BY <1>1
  <2> QED BY <1>1, <2>1 DEF WalkHolds, NoWalk
<1>5. CASE /\ source = NoSource
           /\ ckpt = [b \in CycleBindings |-> NoCheckpoint]
           /\ scanned = [b \in CycleBindings |-> [c \in CycleConfigs |-> {}]]
  <2>1. \A b \in CycleBindings : StateOf(ckpt[b]) = EmptyCycleState /\ RowHolds(ckpt[b], scanned[b]) /\ ckpt[b].version = 0
    BY <1>5 DEF StateOf, NoCheckpoint, RowHolds
  <2>2. LegacyIsAlone
    BY <2>1 DEF LegacyIsAlone, Legacy
  <2> QED BY <1>2, <1>3, <1>4, <1>5, <2>1, <2>2 DEF CycleInv
<1>6. ASSUME NEW b \in CycleBindings, NEW c \in CycleConfigs, NEW base \in BOOLEAN,
             NEW o \in {x \in Scans : x.computed = MaxTime - 1}, NEW s \in LegacyAttempts,
             /\ source = LegacySource(b, c, o)
             /\ ckpt = [x \in CycleBindings |-> IF x # b THEN NoCheckpoint ELSE
                         [version |-> 1, revision |-> 1, config |-> c, required |-> MaxTime - 1,
                          baseline |-> base, attempts |-> s]]
             /\ scanned = [x \in CycleBindings |-> [y \in CycleConfigs |->
                             IF x = b /\ y = c THEN Segments(o) ELSE {}]]
      PROVE CycleInv
  <2>1. o \in Scans
    OBVIOUS
  <2>3. s \in Seq(Attempt)
    <3>1. PICK l, R : l \in CycleLists /\ s = Attempted(l, R)
      BY DEF LegacyAttempts, Listable
    <3> QED BY <3>1, AttemptedIsList DEF IsList
  <2>4. MaxTime - 1 \in Nat \ {0}
    BY CycleAssumption
  <2>5. source \in Admitted /\ source.binding = b /\ source.observation = o
    BY <1>6, <2>1, <2>4 DEF LegacySource, Admitted, Observation
  <2>6. PICK k : k = [version |-> 1, revision |-> 1, config |-> c, required |-> MaxTime - 1,
                      baseline |-> base, attempts |-> s]
    OBVIOUS
  <2>7. ckpt[b] = k /\ IsLegacy(k) /\ k.version = 1 /\ k.config = c
    BY <1>6, <2>3, <2>4, <2>6 DEF IsLegacy, LegacyRow
  <2>8. \A x \in CycleBindings \ {b} : ckpt[x] = NoCheckpoint
    BY <1>6
  <2>9. Legacy = {b}
    BY <2>7, <2>8 DEF Legacy, NoCheckpoint
  <2>10. \A x \in CycleBindings : RowHolds(ckpt[x], scanned[x])
    BY <2>7, <2>8 DEF RowHolds
  <2>11. \A x \in CycleBindings : StateOf(ckpt[x]) = EmptyCycleState
    BY <2>7, <2>8 DEF StateOf, NoCheckpoint
  <2>12. scanned[b][c] = Segments(o)
    BY <1>6
  <2>13. scanned \in [CycleBindings -> [CycleConfigs -> SUBSET Int]]
    <3>1. Segments(o) \subseteq Int
      BY <2>1, SegmentsAre DEF Observation
    <3> QED BY <1>6, <3>1
  <2>14. LegacyIsAlone
    BY <1>1, <2>5, <2>7, <2>8, <2>9, <2>12 DEF LegacyIsAlone
  <2> QED BY <1>2, <1>3, <1>4, <2>5, <2>10, <2>11, <2>13, <2>14 DEF CycleInv
<1> QED BY <1>5, <1>6 DEF CycleInit

LEMMA ProvisionKeeps ==
  ASSUME CycleInv, NEW b \in CycleBindings, NEW c \in CycleConfigs, NEW req \in 1 .. (MaxTime - 1), NEW e, Provision(b, c, req, e)
  PROVE  CycleInv'
<1>1. /\ UNCHANGED <<ckpt, faultLog, incidents, walk, scanned>>
      /\ source' = [revision |-> source.revision + 1, binding |-> b, config |-> c, required |-> req,
                observation |-> IF source.revision > 0 /\ source.binding = b
                                THEN source.observation ELSE NoObservation,
                checkpoint |-> IF source.revision > 0 /\ source.binding = b
                               THEN source.checkpoint ELSE 0]
      /\ (source.revision = 0 \/ source.binding # b) => ckpt[b] = NoCheckpoint
  BY DEF Provision
<1>2. source.revision \in Nat /\ (source.revision > 0 => source \in Admitted /\ source # NoSource)
  BY DEF CycleInv, NoSource, Admitted
<1>3. source' \in Admitted
  <2>1. source.revision + 1 \in Nat \ {0}
    BY <1>2
  <2>2. req \in Nat \ {0}
    BY CycleAssumption
  <2>3. source.revision > 0 => source.observation \in Observation /\ source.checkpoint \in Nat
    BY <1>2 DEF Admitted
  <2>4. PICK o : o = IF source.revision > 0 /\ source.binding = b THEN source.observation ELSE NoObservation
    OBVIOUS
  <2>5. PICK k : k = IF source.revision > 0 /\ source.binding = b THEN source.checkpoint ELSE 0
    OBVIOUS
  <2>6. o \in Observation /\ k \in Nat
    BY <2>3, <2>4, <2>5 DEF Observation
  <2>7. source' = [revision |-> source.revision + 1, binding |-> b, config |-> c, required |-> req,
                   observation |-> o, checkpoint |-> k]
    BY <1>1, <2>4, <2>5
  <2> QED BY ONLY <2>1, <2>2, <2>6, <2>7, b \in CycleBindings, c \in CycleConfigs DEF Admitted
<1>4. LegacyIsAlone'
  <2>1. Legacy' = Legacy
    BY <1>1 DEF Legacy
  <2> SUFFICES ASSUME NEW l \in Legacy
               PROVE /\ faultLog = <<>> /\ \A x \in CycleBindings \ {l} : ckpt[x] = NoCheckpoint
                     /\ source'.binding = l => Segments(source'.observation) \subseteq scanned[l][ckpt[l].config]
    BY <1>1, <2>1 DEF LegacyIsAlone
  <2>2. /\ faultLog = <<>> /\ \A x \in CycleBindings \ {l} : ckpt[x] = NoCheckpoint
        /\ source # NoSource /\ source.binding = l => Segments(source.observation) \subseteq scanned[l][ckpt[l].config]
    BY DEF CycleInv, LegacyIsAlone
  <2>3. ASSUME b = l PROVE Segments(source'.observation) \subseteq scanned[l][ckpt[l].config]
    <3>1. ckpt[b].version = 1
      BY <2>3 DEF Legacy
    <3>2. source.revision > 0 /\ source.binding = b
      BY <1>1, <1>2, <3>1 DEF NoCheckpoint
    <3>3. source'.observation = source.observation
      BY <1>1, <3>2
    <3> QED BY <1>2, <2>2, <2>3, <3>2, <3>3
  <2>4. source'.binding = b
    BY <1>1
  <2> QED BY <2>2, <2>3, <2>4
<1>5. WalkHolds'
  BY <1>1 DEF CycleInv, WalkHolds
<1> QED BY <1>1, <1>3, <1>4, <1>5 DEF CycleInv

LEMMA PutKeeps ==
  ASSUME CycleInv, NEW b \in CycleBindings, NEW cfg \in CycleConfigs, NEW e, NEW o \in Scans, NEW l \in CycleLists,
         Put(b, cfg, e, o, l)
  PROVE  CycleInv'
<1>1. PICK k : k = Migrated(b)
  OBVIOUS
<1>2. PICK books : books = RecordAll(b, CarriedBooks(b), Attempted(l, {}))
  OBVIOUS
<1>3. PICK r : r = NextCheckpoint(o, k, books.state)
  OBVIOUS
<1>4. /\ source.revision > 0 /\ source.binding = b /\ cfg = source.config
      /\ source' = [source EXCEPT !.observation = o, !.checkpoint = r.revision]
      /\ ckpt' = [x \in CycleBindings |-> IF x = b THEN r ELSE Migrated(x)]
      /\ faultLog' = books.log
      /\ incidents' = books.incidents
      /\ scanned' = [scanned EXCEPT ![b][cfg] = @ \cup Segments(o)]
      /\ walk' = walk
  BY <1>1, <1>2, <1>3 DEF Put
<1>5. source \in Admitted
  BY <1>4 DEF CycleInv, NoSource
<1>6. PICK carried : carried = CarriedBooks(b)
  OBVIOUS
<1>7. Carries(b, carried)
  BY <1>6, Carried
<1>8. Recorded(b, carried, books)
  <2>1. BooksHold(carried, b)
    BY <1>7 DEF Carries
  <2>2. IsList(Attempted(l, {}))
    BY AttemptedIsList
  <2> QED BY <1>2, <1>6, <2>1, <2>2, RecordAllKeeps
<1>9. books.state \in Summary
  BY <1>8 DEF Recorded, BooksHold, Told
<1>10. PICK done, after : done = scanned[b] /\ after = scanned'[b]
  OBVIOUS
<1>11. done \in [CycleConfigs -> SUBSET Int]
  BY <1>10 DEF CycleInv
<1>12. Segments(o) \subseteq Int
  BY SegmentsAre DEF Observation
<1>13. after = [done EXCEPT ![source.config] = @ \cup Segments(o)]
  BY <1>4, <1>10 DEF CycleInv
<1>14. RowHolds(r, after) /\ IsSummed(r)
  <2>1. RowHolds(k, done) /\ ~IsLegacy(k)
    BY <1>1, <1>10, MigratedHolds
  <2> QED BY <1>3, <1>5, <1>9, <1>11, <1>13, <2>1, NextHolds
<1>15. r.version = 2 /\ r.revision \in Nat
  BY <1>14 DEF IsSummed, SummaryRow
<1>16. source' \in Admitted
  <2>1. source' = [revision |-> source.revision, binding |-> source.binding, config |-> source.config,
                   required |-> source.required, observation |-> o, checkpoint |-> r.revision]
    BY <1>4, <1>5 DEF Admitted
  <2>2. o \in Observation
    BY DEF Observation
  <2>3. source.revision \in Nat \ {0} /\ source.binding \in CycleBindings /\ source.config \in CycleConfigs
        /\ source.required \in Nat \ {0}
    BY <1>5 DEF Admitted
  <2> QED BY ONLY <1>15, <2>1, <2>2, <2>3 DEF Admitted
<1>17. scanned' \in [CycleBindings -> [CycleConfigs -> SUBSET Int]]
       /\ \A x \in CycleBindings : \A c \in CycleConfigs : scanned[x][c] \subseteq scanned'[x][c]
  BY <1>4, <1>12 DEF CycleInv
<1>18. ASSUME NEW x \in CycleBindings
       PROVE /\ RowHolds(ckpt'[x], scanned'[x]) /\ ckpt'[x].version # 1
             /\ Told(faultLog', incidents', x, StateOf(ckpt'[x]))
  <2>1. CASE x = b
    <3>1. ckpt'[x] = r /\ StateOf(r) = books.state
      BY <1>3, <1>4, <1>15, <2>1 DEF StateOf, NextCheckpoint
    <3>2. Told(books.log, books.incidents, b, books.state)
      BY <1>8 DEF Recorded, BooksHold
    <3> QED BY <1>4, <1>10, <1>14, <1>15, <2>1, <3>1, <3>2
  <2>2. CASE x # b
    <3>1. ckpt'[x] = Migrated(x)
      BY <1>4, <2>2
    <3>2. RowHolds(Migrated(x), scanned[x]) /\ ~IsLegacy(Migrated(x))
      BY MigratedHolds
    <3>3. RowHolds(Migrated(x), scanned'[x]) /\ Migrated(x).version # 1
      <4>1. PICK m, was, is : m = Migrated(x) /\ was = scanned[x] /\ is = scanned'[x]
        OBVIOUS
      <4>2. RowHolds(m, was) /\ ~IsLegacy(m) /\ \A c \in CycleConfigs : was[c] \subseteq is[c]
        BY <1>17, <3>2, <4>1
      <4>3. RowHolds(m, is)
        BY <4>2, RowStays
      <4>4. m.version # 1
        BY <4>2, RowKinds
      <4> QED BY <4>1, <4>3, <4>4
    <3>4. Told(carried.log, carried.incidents, x, StateOf(Migrated(x)))
      BY <1>7 DEF Carries
    <3>5. Told(books.log, books.incidents, x, StateOf(Migrated(x)))
      BY <1>8, <2>2, <3>4 DEF Recorded
    <3> QED BY <1>4, <3>1, <3>3, <3>5
  <2> QED BY <2>1, <2>2
<1>19. IsLog(faultLog') /\ incidents' \in IncidentTable /\ Len(faultLog') >= Len(faultLog)
  <2>1. Len(books.log) >= Len(carried.log) /\ Len(carried.log) >= Len(faultLog)
        /\ IsLog(books.log) /\ IsLog(carried.log) /\ books.incidents \in IncidentTable
    BY <1>7, <1>8 DEF Recorded, Carries, BooksHold
  <2>2. Len(books.log) \in Nat /\ Len(carried.log) \in Nat /\ Len(faultLog) \in Nat
    BY <2>1 DEF IsLog, CycleInv
  <2> QED BY <1>4, <2>1, <2>2
<1>20. Legacy' = {}
  BY <1>18 DEF Legacy
<1>21. LegacyIsAlone'
  BY <1>20 DEF LegacyIsAlone
<1>22. WalkHolds'
  <2>1. Len(faultLog) \in Nat /\ Len(faultLog') \in Nat
    BY <1>19 DEF IsLog, CycleInv
  <2> QED BY <1>4, <1>19, <2>1 DEF CycleInv, WalkHolds
<1> QED BY <1>16, <1>17, <1>18, <1>19, <1>21, <1>22 DEF CycleInv

LEMMA ReadKeeps ==
  ASSUME CycleInv, NEW carryOn \in BOOLEAN, Read(carryOn)
  PROVE  CycleInv'
<1>1. PICK b : b = source.binding
  OBVIOUS
<1>2. PICK carried : carried = CarriedBooks(b)
  OBVIOUS
<1>3. PICK cursor : cursor = IF carryOn THEN walk ELSE NoWalk
  OBVIOUS
<1>4. /\ source.revision > 0 /\ (carryOn => walk.open)
      /\ ckpt' = [x \in CycleBindings |-> Migrated(x)]
      /\ faultLog' = carried.log /\ incidents' = carried.incidents
      /\ walk' = HistoryPage(cursor, faultLog')
      /\ source' = source /\ scanned' = scanned
  BY <1>1, <1>2, <1>3 DEF Read
<1>5. b \in CycleBindings
  BY <1>1, <1>4 DEF CycleInv, NoSource, Admitted
<1>6. Carries(b, carried)
  BY <1>2, <1>5, Carried
<1>7. IsLog(faultLog') /\ incidents' \in IncidentTable /\ Len(faultLog') >= Len(faultLog)
      /\ Len(faultLog') \in Nat /\ Len(faultLog) \in Nat
  <2>1. IsLog(carried.log) /\ carried.incidents \in IncidentTable /\ Len(carried.log) >= Len(faultLog)
    BY <1>6 DEF Carries, BooksHold
  <2> QED BY <1>4, <2>1 DEF IsLog, CycleInv
<1>8. ASSUME NEW x \in CycleBindings
      PROVE /\ RowHolds(ckpt'[x], scanned'[x]) /\ ckpt'[x].version # 1
            /\ Told(faultLog', incidents', x, StateOf(ckpt'[x]))
  <2>1. ckpt'[x] = Migrated(x)
    BY <1>4
  <2>2. RowHolds(Migrated(x), scanned[x]) /\ ~IsLegacy(Migrated(x))
    BY MigratedHolds
  <2>3. Migrated(x).version # 1
    BY <2>2, RowKinds
  <2>4. Told(carried.log, carried.incidents, x, StateOf(Migrated(x)))
    BY <1>6 DEF Carries
  <2> QED BY <1>4, <2>1, <2>2, <2>3, <2>4
<1>9. LegacyIsAlone'
  <2>1. Legacy' = {}
    BY <1>8 DEF Legacy
  <2> QED BY <2>1 DEF LegacyIsAlone
<1>10. WalkHolds'
  <2>1. PICK w, log : w = walk' /\ log = faultLog'
    OBVIOUS
  <2>2. PICK a : a = cursor.after
    OBVIOUS
  <2>3. PICK t : t = IF cursor.open THEN cursor.through ELSE Len(log)
    OBVIOUS
  <2>4. /\ a \in Nat /\ cursor.seen = [i \in 1 .. a |-> i]
        /\ t \in Nat /\ t <= Len(log) /\ a <= t /\ (cursor.open => a < t)
    <3>1. CASE carryOn
      <4>1. /\ walk.after \in Nat /\ walk.through \in Nat /\ walk.through <= Len(faultLog)
            /\ walk.seen = [i \in 1 .. walk.after |-> i] /\ walk.open /\ walk.after < walk.through
        BY <1>4, <3>1 DEF CycleInv, WalkHolds
      <4>2. cursor = walk
        BY <1>3, <3>1
      <4> QED BY <1>7, <2>1, <2>2, <2>3, <4>1, <4>2
    <3>2. CASE ~carryOn
      <4>1. cursor = NoWalk
        BY <1>3, <3>2
      <4>2. a = 0 /\ t = Len(log) /\ ~cursor.open /\ cursor.seen = <<>>
        BY <2>2, <2>3, <4>1 DEF NoWalk
      <4> QED BY <1>7, <2>1, <4>2
    <3> QED BY <3>1, <3>2
  <2>5. Len(log) \in Nat /\ w = HistoryPage(cursor, log)
    BY <1>4, <1>7, <2>1
  <2>6. /\ w = [binding |-> w.binding, through |-> w.through, after |-> w.after, seen |-> w.seen, open |-> w.open]
        /\ w.through = t /\ w.after \in Nat
        /\ w.seen = [i \in 1 .. w.after |-> i]
        /\ w.open => w.after < t
        /\ ~w.open => w.after = t
    BY <2>2, <2>3, <2>4, <2>5, PageGoesOn
  <2>7. w.through \in Nat /\ w.through <= Len(log)
    BY <2>4, <2>6
  <2> QED BY <2>1, <2>6, <2>7 DEF WalkHolds
<1> QED BY <1>4, <1>7, <1>8, <1>9, <1>10 DEF CycleInv

LEMMA CycleKeeps ==
  ASSUME CycleInv, [CycleNext]_cycleVars
  PROVE  CycleInv'
<1>1. CASE UNCHANGED cycleVars
  <2>1. /\ source' = source /\ ckpt' = ckpt /\ faultLog' = faultLog /\ incidents' = incidents
        /\ walk' = walk /\ scanned' = scanned
    BY <1>1 DEF cycleVars
  <2>2. Legacy' = Legacy /\ (WalkHolds <=> WalkHolds')
    BY <2>1 DEF Legacy, WalkHolds
  <2>3. LegacyIsAlone'
    BY <2>1, <2>2 DEF CycleInv, LegacyIsAlone
  <2> QED BY <2>1, <2>2, <2>3 DEF CycleInv
<1> QED BY <1>1, ProvisionKeeps, PutKeeps, ReadKeeps DEF CycleNext, Listable

LEMMA CycleOfInv == CycleInv => SummaryIsHistory /\ CompleteIsCovered /\ WalkIsASnapshot
<1> SUFFICES ASSUME CycleInv PROVE SummaryIsHistory /\ CompleteIsCovered /\ WalkIsASnapshot
  OBVIOUS
<1>1. \A b \in CycleBindings : FaultsOf(b) = In(faultLog, b) /\ OpenFaults(b) = OpenIn(faultLog, b)
  BY DEF FaultsOf, In, OpenFaults, OpenIn, IsOpen
<1>2. \A S : CyclesIn(S) = CyclesOf(faultLog, S)
  BY DEF CyclesIn, CyclesOf
<1>3. SummaryIsHistory
  <2> SUFFICES ASSUME NEW b \in CycleBindings, ckpt[b].version = 2, NEW s, s = ckpt[b].state
               PROVE  /\ s.incidents = Cardinality(CyclesIn(FaultsOf(b)))
                      /\ s.attempts = Cardinality(FaultsOf(b))
                      /\ s.unresolved = Cardinality(CyclesIn(OpenFaults(b)))
                      /\ s.severity = MaxOf({faultLog[i].receipt.rank : i \in FaultsOf(b)})
                      /\ s.active = MaxOf({faultLog[i].receipt.rank : i \in OpenFaults(b)})
                      /\ s.latest = MaxOf({faultLog[i].receipt.at : i \in FaultsOf(b)})
    BY DEF SummaryIsHistory
  <2>1. StateOf(ckpt[b]) = s
    BY DEF StateOf
  <2>2. Tells(faultLog, b, s)
    BY <2>1 DEF CycleInv, Told
  <2> QED BY <1>1, <1>2, <2>2 DEF Tells, RanksOf, TimesOf
<1>4. CompleteIsCovered
  <2> SUFFICES ASSUME source.revision > 0, Legacy = {}, ReadStatus(FALSE) = "complete",
                      NEW b, b = source.binding, NEW k, k = ckpt[b]
               PROVE  /\ \A i \in DOMAIN faultLog : faultLog[i].resolved
                      /\ k.covered >= source.required
                      /\ source.required .. (k.covered - 1) \subseteq scanned[b][source.config]
    BY DEF CompleteIsCovered
  <2>1. source \in Admitted /\ b \in CycleBindings
    BY DEF CycleInv, NoSource, Admitted
  <2>2. /\ \A x \in CycleBindings \ {b} : ckpt[x].version = 0
        /\ k.version # 0 => ~(k.state.unresolved > 0)
        /\ ~(k.version # 0 /\ Transition(k)) /\ k.version # 0 /\ k.baseline /\ k.complete
    BY DEF ReadStatus
  <2>3. k.version # 1 /\ RowHolds(k, scanned[b])
    BY <2>1 DEF Legacy, CycleInv
  <2>4. IsSummed(k) /\ Vouched(k, scanned[b])
    BY <2>2, <2>3, RowKinds DEF RowHolds
  <2>5. k.config = source.config /\ k.required = source.required
    BY <2>2 DEF Transition
  <2>6. k.covered >= source.required /\ source.required .. (k.covered - 1) \subseteq scanned[b][source.config]
    BY <2>2, <2>4, <2>5 DEF Vouched, IsBased, IsComplete
  <2>7. ASSUME NEW i \in DOMAIN faultLog PROVE faultLog[i].resolved
    <3>1. PICK x : x = faultLog[i].binding
      OBVIOUS
    <3>2. IsLog(faultLog) /\ x \in CycleBindings
      <4>1. IsLog(faultLog)
        BY DEF CycleInv
      <4>2. faultLog[i] \in LogEntry
        BY <4>1 DEF IsLog
      <4> QED BY <3>1, <4>1, <4>2 DEF LogEntry
    <3>3. i \in In(faultLog, x)
      BY <3>1 DEF In
    <3>4. Told(faultLog, incidents, x, StateOf(ckpt[x]))
      BY <3>2 DEF CycleInv
    <3>5. CASE x # b
      <4>1. StateOf(ckpt[x]) = EmptyCycleState
        BY <2>2, <3>2, <3>5 DEF StateOf
      <4>2. Cardinality(In(faultLog, x)) = 0
        BY <3>4, <4>1 DEF Told, Tells, EmptyCycleState
      <4>3. IsFiniteSet(In(faultLog, x))
        <5>1. In(faultLog, x) \subseteq DOMAIN faultLog
          BY DEF In
        <5> QED BY <3>2, <5>1, LogSets
      <4> QED BY <3>3, <4>2, <4>3, FS_EmptySet
    <3>6. CASE x = b
      <4>1. k.version = 2
        BY <2>4 DEF IsSummed, SummaryRow
      <4>2. StateOf(ckpt[x]) = k.state
        BY <3>6, <4>1 DEF StateOf
      <4>3. k.state.unresolved = Cardinality(CyclesOf(faultLog, OpenIn(faultLog, x))) /\ k.state.unresolved \in Nat
        BY <3>4, <4>2 DEF Told, Tells, Summary
      <4>4. k.state.unresolved = 0
        BY <2>2, <4>3
      <4>5. IsFiniteSet(CyclesOf(faultLog, OpenIn(faultLog, x)))
        <5>1. OpenIn(faultLog, x) \subseteq DOMAIN faultLog
          BY DEF In, OpenIn
        <5> QED BY <3>2, <5>1, LogSets
      <4>6. CyclesOf(faultLog, OpenIn(faultLog, x)) = {}
        BY <4>3, <4>4, <4>5, FS_EmptySet
      <4>7. i \notin OpenIn(faultLog, x)
        BY <4>6 DEF CyclesOf
      <4> QED BY <3>3, <4>7 DEF OpenIn, IsOpen
    <3> QED BY <3>5, <3>6
  <2> QED BY <2>6, <2>7
<1>5. WalkIsASnapshot
  BY DEF WalkIsASnapshot, CycleInv, WalkHolds
<1> QED BY <1>3, <1>4, <1>5

-----------------------------------------------------------------------------
(* Sums over finite sets.                                                         *)

PickOf(s) == CHOOSE x \in s : TRUE
RestOf(s) == s \ {PickOf(s)}
\* h sums f over every subset of S, as the fold does.
AddsUp(f, S, h) == h = [s \in SUBSET S |-> IF s = {} THEN 0 ELSE f[PickOf(s)] + h[RestOf(s)]]
Sums(f, S) == CHOOSE h : AddsUp(f, S, h)

\* Among subsets of a finite set there is one that contains no other: the first-order
\* form of the induction over finite sets.
LEMMA LeastSubset ==
  ASSUME NEW S, IsFiniteSet(S), NEW B, B \subseteq SUBSET S, B # {}
  PROVE  \E m \in B : \A t \in B : t \subseteq m => t = m
<1>1. IsWellFoundedOn(StrictSubsetOrdering(S), SUBSET S)
  BY FS_StrictSubsetOrderingWellFounded, FS_FiniteSubsetsOfFinite
<1>2. PICK m \in B : \A t \in B : <<t, m>> \notin StrictSubsetOrdering(S)
  BY <1>1, WFMin
<1> QED
  BY <1>2 DEF StrictSubsetOrdering

LEMMA PickIsIn == ASSUME NEW s, s # {} PROVE PickOf(s) \in s /\ RestOf(s) \subseteq s /\ RestOf(s) # s
  BY DEF PickOf, RestOf

\* Sums over a set and over a part of it agree on the part.
LEMMA SumsAgree ==
  ASSUME NEW S, IsFiniteSet(S), NEW T, T \subseteq S, NEW f, NEW g, NEW h, AddsUp(f, S, g), AddsUp(f, T, h)
  PROVE  \A s \in SUBSET T : g[s] = h[s]
<1> DEFINE B == {s \in SUBSET T : g[s] # h[s]}
<1> SUFFICES ASSUME B # {} PROVE FALSE
  OBVIOUS
<1>1. PICK m \in B : \A t \in B : t \subseteq m => t = m
  <2>1. B \subseteq SUBSET S
    OBVIOUS
  <2> HIDE DEF B
  <2> QED
    BY <2>1, LeastSubset
<1>2. m \in SUBSET S /\ m \in SUBSET T /\ g[m] # h[m]
  OBVIOUS
<1>3. m # {}
  BY <1>2 DEF AddsUp
<1>4. g[m] = f[PickOf(m)] + g[RestOf(m)]
  BY <1>2, <1>3 DEF AddsUp
<1>5. h[m] = f[PickOf(m)] + h[RestOf(m)]
  BY <1>2, <1>3 DEF AddsUp
<1>6. RestOf(m) \in SUBSET T /\ RestOf(m) # m /\ RestOf(m) \subseteq m
  BY <1>2, <1>3, PickIsIn
<1>7. RestOf(m) \notin B
  BY <1>1, <1>6
<1> QED
  BY <1>2, <1>4, <1>5, <1>6, <1>7

\* What the recursion of the fold defines exists.
LEMMA SumsExist ==
  ASSUME NEW S, IsFiniteSet(S), NEW f
  PROVE  \E h : AddsUp(f, S, h)
<1> DEFINE B == {s \in SUBSET S : ~\E h : AddsUp(f, s, h)}
<1> SUFFICES ASSUME B # {} PROVE FALSE
  OBVIOUS
<1>1. PICK m \in B : \A t \in B : t \subseteq m => t = m
  <2>1. B \subseteq SUBSET S
    OBVIOUS
  <2> HIDE DEF B
  <2> QED
    BY <2>1, LeastSubset
<1> DEFINE G(s) == CHOOSE h : AddsUp(f, s, h)
           h == [s \in SUBSET m |-> IF s = {} THEN 0 ELSE f[PickOf(s)] + G(RestOf(s))[RestOf(s)]]
<1>2. ASSUME NEW s \in SUBSET m, s # m PROVE AddsUp(f, s, G(s))
  <2>1. s \notin B /\ s \in SUBSET S
    BY <1>1, <1>2
  <2>2. \E x : AddsUp(f, s, x)
    BY <2>1
  <2> QED
    BY <2>2
<1>3. ASSUME NEW s \in SUBSET m, s # {} PROVE h[RestOf(s)] = G(RestOf(s))[RestOf(s)]
  <2> DEFINE t == RestOf(s)
  <2>1. t \in SUBSET m /\ t # m /\ t \subseteq s
    BY <1>3, PickIsIn
  <2>2. AddsUp(f, t, G(t))
    BY <2>1, <1>2
  <2>3. CASE t = {}
    <3>1. h[t] = 0
      BY <2>1, <2>3
    <3>2. G(t)[t] = 0
      <4> HIDE DEF G, t
      <4> QED
        BY <2>2, <2>3 DEF AddsUp
    <3> QED
      BY <3>1, <3>2
  <2>4. CASE t # {}
    <3> DEFINE u == RestOf(t)
    <3>1. u \subseteq t /\ u # t /\ u \in SUBSET m /\ u # m
      BY <2>1, <2>4, PickIsIn
    <3>2. AddsUp(f, u, G(u))
      BY <3>1, <1>2
    <3>3. IsFiniteSet(t)
      BY <2>1, FS_Subset
    <3>4. G(t)[u] = G(u)[u]
      <4> HIDE DEF G, t, u
      <4> QED
        BY <2>2, <3>1, <3>2, <3>3, SumsAgree
    <3>5. G(t)[t] = f[PickOf(t)] + G(t)[u]
      <4> HIDE DEF G, t
      <4> QED
        BY <2>2, <2>4 DEF AddsUp
    <3>6. h[t] = f[PickOf(t)] + G(u)[u]
      BY <2>1, <2>4
    <3> QED
      BY <3>4, <3>5, <3>6
  <2> QED
    BY <2>3, <2>4
<1>4. AddsUp(f, m, h)
  <2>1. h = [s \in SUBSET m |-> IF s = {} THEN 0 ELSE f[PickOf(s)] + h[RestOf(s)]]
    <3>1. \A s \in SUBSET m : s # {} => h[RestOf(s)] = G(RestOf(s))[RestOf(s)]
      BY <1>3
    <3> HIDE DEF G
    <3>2. \A s \in SUBSET m : (IF s = {} THEN 0 ELSE f[PickOf(s)] + G(RestOf(s))[RestOf(s)])
                               = (IF s = {} THEN 0 ELSE f[PickOf(s)] + h[RestOf(s)])
      <4> HIDE DEF h
      <4> QED
        BY <3>1
    <3>3. h = [s \in SUBSET m |-> IF s = {} THEN 0 ELSE f[PickOf(s)] + G(RestOf(s))[RestOf(s)]]
      OBVIOUS
    <3> HIDE DEF h
    <3> QED
      BY <3>2, <3>3
  <2> HIDE DEF h
  <2> QED
    BY <2>1 DEF AddsUp
<1> QED
  BY <1>1, <1>4

LEMMA SumsHold ==
  ASSUME NEW S, IsFiniteSet(S), NEW f
  PROVE  AddsUp(f, S, Sums(f, S))
BY SumsExist DEF Sums

LEMMA SumIsInt ==
  ASSUME NEW S, IsFiniteSet(S), NEW f \in [S -> Int], NEW h, AddsUp(f, S, h)
  PROVE  \A s \in SUBSET S : h[s] \in Int
<1> DEFINE B == {s \in SUBSET S : h[s] \notin Int}
<1> SUFFICES ASSUME B # {} PROVE FALSE
  OBVIOUS
<1>1. PICK m \in B : \A t \in B : t \subseteq m => t = m
  <2>1. B \subseteq SUBSET S
    OBVIOUS
  <2> HIDE DEF B
  <2> QED
    BY <2>1, LeastSubset
<1>2. m \in SUBSET S /\ h[m] \notin Int
  OBVIOUS
<1>3. m # {}
  BY <1>2 DEF AddsUp
<1>4. h[m] = f[PickOf(m)] + h[RestOf(m)]
  BY <1>2, <1>3 DEF AddsUp
<1>5. RestOf(m) \in SUBSET S /\ RestOf(m) # m /\ RestOf(m) \subseteq m /\ f[PickOf(m)] \in Int
  BY <1>2, <1>3, PickIsIn
<1>7. RestOf(m) \notin B
  BY <1>1, <1>5
<1> QED
  BY <1>2, <1>4, <1>5, <1>7


\* It does not matter which member is taken first,
LEMMA TakeAny ==
  ASSUME NEW S, IsFiniteSet(S), NEW f \in [S -> Int], NEW h, AddsUp(f, S, h)
  PROVE  \A s \in SUBSET S : \A y \in s : h[s] = f[y] + h[s \ {y}]
<1> DEFINE B == {s \in SUBSET S : \E y \in s : h[s] # f[y] + h[s \ {y}]}
<1> SUFFICES ASSUME B # {} PROVE FALSE
  OBVIOUS
<1>1. PICK m \in B : \A t \in B : t \subseteq m => t = m
  <2>1. B \subseteq SUBSET S
    OBVIOUS
  <2> HIDE DEF B
  <2> QED BY <2>1, LeastSubset
<1>2. PICK y \in m : m \in SUBSET S /\ h[m] # f[y] + h[m \ {y}]
  OBVIOUS
<1>3. PICK x : x = PickOf(m)
  OBVIOUS
<1>4. x \in m /\ h[m] = f[x] + h[m \ {x}]
  <2>1. m # {}
    BY <1>2
  <2> QED BY <1>2, <1>3, <2>1, PickIsIn DEF AddsUp, RestOf
<1>5. x # y
  BY <1>2, <1>4
<1>6. PICK r : r = m \ {x, y}
  OBVIOUS
<1>7. m \ {x} \notin B /\ m \ {y} \notin B
  <2>1. m \ {x} \subseteq m /\ m \ {x} # m /\ m \ {y} \subseteq m /\ m \ {y} # m
    BY <1>2, <1>4
  <2> HIDE DEF B
  <2> QED BY <1>1, <2>1
<1>8. h[m \ {x}] = f[y] + h[r]
  <2>1. y \in m \ {x} /\ (m \ {x}) \ {y} = r /\ m \ {x} \in SUBSET S
    BY <1>2, <1>5, <1>6
  <2>2. \A z \in m \ {x} : h[m \ {x}] = f[z] + h[(m \ {x}) \ {z}]
    BY <1>7, <2>1
  <2> QED BY <2>1, <2>2
<1>9. h[m \ {y}] = f[x] + h[r]
  <2>1. x \in m \ {y} /\ (m \ {y}) \ {x} = r /\ m \ {y} \in SUBSET S
    BY <1>2, <1>4, <1>5, <1>6
  <2>2. \A z \in m \ {y} : h[m \ {y}] = f[z] + h[(m \ {y}) \ {z}]
    BY <1>7, <2>1
  <2> QED BY <2>1, <2>2
<1>10. f[x] \in Int /\ f[y] \in Int /\ h[r] \in Int
  <2>1. r \in SUBSET S
    BY <1>2, <1>6
  <2> QED BY <1>2, <1>4, <2>1, SumIsInt
<1> QED BY ONLY <1>2, <1>4, <1>8, <1>9, <1>10

\* so a sum is that of the same numbers under other names.
LEMMA SumsMatch ==
  ASSUME NEW S, IsFiniteSet(S), NEW T, IsFiniteSet(T), NEW f \in [S -> Int], NEW g \in [T -> Int], NEW n \in [T -> S],
         \A p, q \in T : n[p] = n[q] => p = q, \A a \in S : \E p \in T : n[p] = a, \A p \in T : g[p] = f[n[p]],
         NEW h, AddsUp(f, S, h), NEW k, AddsUp(g, T, k)
  PROVE  h[S] = k[T]
<1> DEFINE Names(t) == {n[p] : p \in t}
           B == {t \in SUBSET T : k[t] # h[Names(t)]}
<1>1. Names(T) = S
  OBVIOUS
<1>2. SUFFICES ASSUME B # {} PROVE FALSE
  BY <1>1
<1>3. PICK m \in B : \A t \in B : t \subseteq m => t = m
  <2>1. B \subseteq SUBSET T
    OBVIOUS
  <2> HIDE DEF B
  <2> QED BY <1>2, <2>1, LeastSubset
<1>4. m \in SUBSET T /\ k[m] # h[Names(m)]
  OBVIOUS
<1>5. m # {}
  <2>1. k[{}] = 0 /\ h[{}] = 0
    BY DEF AddsUp
  <2>2. Names({}) = {}
    OBVIOUS
  <2> HIDE DEF Names
  <2> QED BY <1>4, <2>1, <2>2
<1>6. PICK x : x = PickOf(m)
  OBVIOUS
<1>7. x \in m /\ k[m] = g[x] + k[m \ {x}]
  BY <1>4, <1>5, <1>6, PickIsIn DEF AddsUp, RestOf
<1>8. k[m \ {x}] = h[Names(m \ {x})]
  <2>1. m \ {x} \in SUBSET T /\ m \ {x} \subseteq m /\ m \ {x} # m
    BY <1>4, <1>7
  <2>2. m \ {x} \notin B
    <3> HIDE DEF B
    <3> QED BY <1>3, <2>1
  <2> HIDE DEF Names
  <2> QED BY <2>1, <2>2
<1>9. Names(m \ {x}) = Names(m) \ {n[x]} /\ n[x] \in Names(m) /\ Names(m) \in SUBSET S
  BY <1>4, <1>7
<1>10. h[Names(m)] = f[n[x]] + h[Names(m) \ {n[x]}]
  <2>1. PICK s, y : s = Names(m) /\ y = n[x]
    OBVIOUS
  <2>2. s \in SUBSET S /\ y \in s
    BY <1>9, <2>1
  <2>3. h[s] = f[y] + h[s \ {y}]
    BY <2>2, TakeAny, SMTT(60)
  <2> QED BY <2>1, <2>3
<1>11. g[x] = f[n[x]]
  BY <1>4, <1>7
<1> HIDE DEF Names, B
<1> QED BY <1>4, <1>7, <1>8, <1>9, <1>10, <1>11

-----------------------------------------------------------------------------
(* The returns a broker states: one interval, and of a source one row a day.       *)

NativeInv ==
  /\ \A q \in nativePending : q.report \in NativeReports
  /\ interval \subseteq NativeReports /\ rows \subseteq NativeReports
  /\ \A p, q \in interval : p = q
  /\ \A r, s \in rows : r.source = s.source /\ r.to = s.to => r = s
  /\ \A r \in rows : OneDay(r)
  /\ IsFiniteSet(rows)
  /\ \A p \in interval : OneDay(p) => p \in rows

LEMMA NativeStarts == NativeInit => NativeInv
  BY FS_EmptySet DEF NativeInit, NativeInv

LEMMA NativeKeeps ==
  ASSUME NativeInv, [NativeNext]_nativeVars
  PROVE  NativeInv'
<1>1. ASSUME NEW r \in NativeReports, NEW h \in BOOLEAN, NativeReport(r, h) PROVE NativeInv'
  BY <1>1 DEF NativeReport, NativeInv
<1>2. ASSUME NEW q \in nativePending, StoreNative(q) PROVE NativeInv'
  <2>1. PICK r \in NativeReports : r = q.report
    BY DEF NativeInv
  <2>2. rows' \in {rows, (rows \ StoredDay(r)) \cup {r}} /\ interval' \in {interval, {r}}
        /\ (rows' = rows \/ OneDay(r)) /\ nativePending' = nativePending \ {q}
    BY <1>2, <2>1 DEF StoreNative
  <2>3. IsFiniteSet(rows')
    <3>1. IsFiniteSet(rows)
      BY DEF NativeInv
    <3>2. IsFiniteSet(rows \ StoredDay(r))
      BY <3>1, FS_Subset
    <3>3. IsFiniteSet((rows \ StoredDay(r)) \cup {r})
      BY <3>2, FS_AddElement
    <3> QED BY <2>2, <3>1, <3>3
  <2>4. ASSUME NEW p \in interval', OneDay(p) PROVE p \in rows'
    <3>1. CASE ~Storable(q)
      <4>1. rows' = rows /\ interval' = interval
        BY <1>2, <3>1 DEF StoreNative
      <4> QED BY <2>4, <4>1 DEF NativeInv
    <3>2. CASE Storable(q)
      <4>1. /\ rows' = IF OneDay(r) THEN (rows \ StoredDay(r)) \cup {r} ELSE rows
            /\ interval' = IF q.historical /\ \E x \in Prior(q.config) : Behind(r, x) THEN interval ELSE {r}
        BY <1>2, <2>1, <3>2 DEF StoreNative
      <4>2. CASE interval' = {r}
        BY <2>4, <4>1, <4>2
      <4>3. CASE interval' = interval /\ interval' # {r}
        <5>1. p \in rows /\ p \in NativeReports /\ \A x \in interval : x = p
          BY <2>4, <4>3 DEF NativeInv
        <5>2. q.historical /\ OneDay(r)
          BY <2>1, <3>2, <4>1, <4>3 DEF Storable
        <5>3. PICK x \in interval : Behind(r, x)
          BY <4>1, <4>3 DEF Prior
        <5>4. Behind(r, p)
          BY <5>1, <5>3
        <5>5. p \notin StoredDay(r)
          <6> SUFFICES ASSUME p \in StoredDay(r) PROVE FALSE
            OBVIOUS
          <6>1. r.observed > p.observed \/ r = p
            BY <2>1, <3>2, <5>2 DEF Storable
          <6>2. p.to = r.to
            BY DEF StoredDay
          <6>3. r.observed < p.observed \/ r.to < p.to
            BY <5>4 DEF Behind
          <6>4. r.observed \in Int /\ p.observed \in Int /\ r.to \in Int /\ p.to \in Int
            BY <5>1, NativeAssumption
          <6> QED BY ONLY <6>1, <6>2, <6>3, <6>4
        <5> QED BY <4>1, <5>1, <5>2, <5>5
      <4> QED BY <4>1, <4>2, <4>3
    <3> QED BY <3>1, <3>2
  <2> QED BY <2>1, <2>2, <2>3, <2>4 DEF NativeInv, StoredDay
<1>3. CASE NativeTick \/ NativeRebind \/ UNCHANGED nativeVars
  BY <1>3 DEF NativeTick, NativeRebind, nativeVars, NativeInv
<1> QED BY <1>1, <1>2, <1>3 DEF NativeNext

\* The latest of finitely many reports.
LEMMA LatestOf ==
  ASSUME NEW S, S \subseteq NativeReports, IsFiniteSet(S), S # {}
  PROVE  \E r \in S : \A s \in S : s.observed <= r.observed
<1>1. PICK T : T = {r.observed : r \in S}
  OBVIOUS
<1>2. IsFiniteSet(T) /\ T # {} /\ T \subseteq Nat
  <2>1. PICK f : f = [r \in S |-> r.observed]
    OBVIOUS
  <2>2. f \in Surjection(S, T)
    BY <1>1, <2>1 DEF Surjection
  <2>3. IsFiniteSet(T)
    BY <2>2, FS_Surjection
  <2> QED BY <1>1, <2>3, NativeAssumption
<1>3. PICK n \in T : \A t \in T : t <= n
  BY <1>2, GreatestOf
<1>4. PICK r \in S : r.observed = n
  BY <1>1
<1> QED BY <1>1, <1>3, <1>4

\* What the console reads are the rows of the bound sources: an interval of one day is
\* among them.
LEMMA ReadAreRows ==
  ASSUME NativeInv
  PROVE  ReadRows = {r \in rows : r.source \in QualifiedSources(nativeConfig)}
  BY DEF NativeInv, ReadRows, Prior

LEMMA PreferredIsRow ==
  ASSUME NativeInv, NEW d, DayRows(d) # {}
  PROVE  Preferred(d) \in DayRows(d)
<1>1. DayRows(d) \subseteq rows
  BY ReadAreRows DEF DayRows
<1>2. PICK current : current = {r \in DayRows(d) : r.source = nativeConfig.source}
  OBVIOUS
<1>3. PICK pool : pool = IF current # {} THEN current ELSE DayRows(d)
  OBVIOUS
<1>4. pool # {} /\ pool \subseteq DayRows(d)
  BY <1>2, <1>3
<1>5. pool \subseteq NativeReports /\ IsFiniteSet(pool)
  BY <1>1, <1>4, FS_Subset DEF NativeInv
<1>6. \E r \in pool : \A s \in pool : s.observed <= r.observed
  BY <1>4, <1>5, LatestOf
<1>7. Preferred(d) = CHOOSE r \in pool : \A s \in pool : s.observed <= r.observed
  BY <1>2, <1>3 DEF Preferred
<1>8. Preferred(d) \in pool
  BY <1>6, <1>7
<1> QED BY <1>4, <1>8

\* What the console shows of a day is a row of that day, with its value, and its change
\* unless that is contradicted.
LEMMA ShownIsRow ==
  ASSUME NativeInv, NEW s \in ShownReturns
  PROVE  /\ ReadAvailable
         /\ \E r \in DayRows(s.to) : r.value = s.value /\ (s.nav = r.nav \/ s.nav = 0)
         /\ NavConflict(s.to) => s.nav = 0
<1>1. ReadAvailable
  BY DEF ShownReturns
<1>2. PICK d \in {r.to : r \in ReadRows} : s = [Preferred(d) EXCEPT !.nav = IF NavConflict(d) THEN 0 ELSE @]
  BY <1>1 DEF ShownReturns
<1>3. PICK r : r = Preferred(d)
  OBVIOUS
<1>4. r \in DayRows(d)
  BY <1>2, <1>3, PreferredIsRow DEF DayRows
<1>5. r \in NativeReports /\ r.to = d
  BY <1>4, ReadAreRows DEF DayRows, NativeInv
<1>6. s.to = d /\ s.value = r.value /\ s.nav = IF NavConflict(d) THEN 0 ELSE r.nav
  BY <1>2, <1>3, <1>5, NativeAssumption
<1> QED BY <1>1, <1>4, <1>6

LEMMA ReadersOfInv == NativeInv => ReadersAgree
<1> SUFFICES ASSUME NativeInv PROVE ReadersAgree
  OBVIOUS
<1>1. ASSUME ResearchAvailable, NEW d \in ResearchDays PROVE \E s \in ShownReturns : s.to = d
  <2>1. ReadRows = rows /\ ReadAvailable
    BY <1>1, ReadAreRows DEF ResearchAvailable, ReadAvailable
  <2>2. PICK r \in rows : r.to = d
    BY <1>1 DEF ResearchDays
  <2>3. PICK p : p = Preferred(d)
    OBVIOUS
  <2>4. p \in DayRows(d)
    BY <2>1, <2>2, <2>3, PreferredIsRow DEF DayRows
  <2>5. p \in NativeReports /\ p.to = d
    BY <2>1, <2>4 DEF DayRows, NativeInv
  <2>6. PICK s : s = [p EXCEPT !.nav = IF NavConflict(d) THEN 0 ELSE @]
    OBVIOUS
  <2>7. s \in ShownReturns
    BY <2>1, <2>2, <2>3, <2>6 DEF ShownReturns
  <2>8. s.to = d
    BY <2>5, <2>6, NativeAssumption
  <2> QED BY <2>7, <2>8
<1>2. ASSUME ResearchAvailable, NEW r \in rows, NEW s \in ShownReturns, r.to = s.to PROVE r.value = s.value
  <2>1. PICK p \in DayRows(s.to) : p.value = s.value
    BY ShownIsRow
  <2>2. p \in rows /\ p.to = s.to
    BY <2>1, ReadAreRows DEF DayRows
  <2> QED BY <1>2, <2>1, <2>2 DEF ResearchAvailable
<1>3. ASSUME NEW s \in ShownReturns, NEW r \in rows, r.source \in QualifiedSources(nativeConfig), r.to = s.to
      PROVE  r.value = s.value /\ (0 \in {r.nav, s.nav} \/ r.nav = s.nav)
  <2>1. PICK p \in DayRows(s.to) : p.value = s.value /\ (s.nav = p.nav \/ s.nav = 0)
    BY ShownIsRow
  <2>2. ReadAvailable /\ (NavConflict(s.to) => s.nav = 0)
    BY ShownIsRow
  <2>3. p \in ReadRows /\ p.to = s.to /\ r \in ReadRows /\ r \in DayRows(s.to)
    BY <1>3, <2>1, ReadAreRows DEF DayRows
  <2>4. r.value = s.value
    BY <1>3, <2>1, <2>2, <2>3 DEF ReadAvailable
  <2>5. 0 \in {r.nav, s.nav} \/ r.nav = s.nav
    BY <2>1, <2>2, <2>3 DEF NavConflict
  <2> QED BY <2>4, <2>5
<1> QED BY <1>1, <1>2, <1>3 DEF ReadersAgree

LEMMA NativeSteps == NativeInv /\ [NativeNext]_nativeVars => IntervalStep
<1> SUFFICES ASSUME NativeInv, [NativeNext]_nativeVars, NEW p \in interval, NEW q \in interval',
                    \A x \in nativePending : p.source \in QualifiedSources(x.config)
             PROVE  ~Behind(q, p)
  BY DEF IntervalStep
<1>1. \A r \in NativeReports : ~Behind(r, r)
  BY NativeAssumption DEF Behind
<1>2. ASSUME NEW x \in nativePending, StoreNative(x) PROVE ~Behind(q, p)
  <2>1. p \in Prior(x.config)
    BY DEF Prior
  <2>2. CASE interval' = interval
    BY <1>1, <2>2 DEF NativeInv
  <2>3. CASE interval' # interval
    <3>1. q = x.report /\ Storable(x) /\ ~(x.historical /\ \E y \in Prior(x.config) : Behind(x.report, y))
      BY <1>2, <2>3 DEF StoreNative
    <3> QED BY <2>1, <3>1 DEF Storable
  <2> QED BY <2>2, <2>3
<1>3. CASE interval' = interval
  BY <1>1, <1>3 DEF NativeInv
<1> QED BY <1>2, <1>3 DEF NativeNext, NativeReport, NativeTick, NativeRebind, nativeVars

-----------------------------------------------------------------------------
(* The snapshots of the accounts: what is stored is of the days and the latest.    *)

FactsInv ==
  /\ factConfig \in FactConfigs /\ factNow \in Int
  /\ latest = [a \in FactAccounts |-> latest[a]] /\ daily = [a \in FactAccounts |-> daily[a]]
  /\ \A r \in pending : r.snapshot \in FactSnapshots
  /\ \A a \in FactAccounts : latest[a] \subseteq FactSnapshots /\ daily[a] \subseteq FactSnapshots
  /\ \A a \in FactAccounts : \A s, t \in latest[a] : s = t
  /\ LatestDayIsKept

LEMMA FactsStart == FactsInit => FactsInv
  BY DEF FactsInit, FactsInv, LatestDayIsKept

LEMMA DateIsNumber == ASSUME NEW s \in FactSnapshots PROVE DateOf(s) \in Int /\ s.finished \in Int
  BY FactsAssumption DEF DateOf, DayOf

\* The archive of a day keeps the day of the snapshot it is given, no older than it.
LEMMA ArchiveKeepsDay ==
  ASSUME NEW days, NEW s \in FactSnapshots,
         \A d \in days : d \in FactSnapshots
  PROVE  \E d \in Archived(days, s) : DateOf(d) = DateOf(s) /\ d.finished >= s.finished
<1>1. Retained(DateOf(s), DateOf(s))
  BY DateIsNumber, FactsAssumption DEF Retained
<1>2. CASE \E d \in days : DateOf(d) = DateOf(s) /\ ~Superseded(d, s)
  <2>1. PICK d \in days : DateOf(d) = DateOf(s) /\ ~Superseded(d, s)
    BY <1>2
  <2>2. d.finished >= s.finished
    BY <2>1, DateIsNumber DEF Superseded
  <2>3. d \in Archived(days, s)
    BY <1>1, <2>1 DEF Archived
  <2> QED BY <2>1, <2>2, <2>3
<1>3. CASE ~\E d \in days : DateOf(d) = DateOf(s) /\ ~Superseded(d, s)
  <2>1. s \in Archived(days, s)
    BY <1>1, <1>3 DEF Archived
  <2> QED BY <2>1, DateIsNumber
<1> QED BY <1>2, <1>3

LEMMA FactsKeeps ==
  ASSUME FactsInv, [FactsNext]_factVars
  PROVE  FactsInv'
<1>1. ASSUME NEW s \in FactSnapshots, NEW h \in BOOLEAN, Report(s, h) PROVE FactsInv'
  <2>1. \A r \in pending' : r.snapshot \in FactSnapshots
    BY <1>1 DEF Report, FactsInv
  <2>2. UNCHANGED <<factNow, factConfig, latest, daily>>
    BY <1>1 DEF Report
  <2> QED BY <2>1, <2>2 DEF FactsInv, LatestDayIsKept
<1>2. ASSUME NEW r \in pending, StoreLatest(r) PROVE FactsInv'
  <2>1. PICK s \in FactSnapshots : s = r.snapshot
    BY DEF FactsInv
  <2>2. pending' \subseteq pending /\ UNCHANGED <<factNow, factConfig>>
    BY <1>2 DEF StoreLatest
  <2>3. CASE ~Accepted(r.account, r.snapshot)
    <3>1. latest' = latest /\ daily' = daily
      BY <1>2, <2>3 DEF StoreLatest
    <3> QED BY <2>2, <3>1 DEF FactsInv, LatestDayIsKept
  <2>4. CASE Accepted(r.account, r.snapshot) /\ r.account \in FactAccounts
    <3>1. PICK a \in FactAccounts : a = r.account
      BY <2>4
    <3>2. PICK days : days = Archived(daily[a], s)
      OBVIOUS
    <3>3. /\ latest' = [latest EXCEPT ![a] = {s}] /\ daily' = [daily EXCEPT ![a] = days]
      BY <1>2, <2>1, <2>4, <3>1, <3>2 DEF StoreLatest
    <3>4. days \subseteq FactSnapshots
      BY <3>2 DEF Archived, FactsInv
    <3>5. \E d \in days : DateOf(d) = DateOf(s) /\ d.finished >= s.finished
      BY <3>2, ArchiveKeepsDay DEF FactsInv
    <3>6. \A b \in FactAccounts : /\ latest'[b] = IF b = a THEN {s} ELSE latest[b]
                                  /\ daily'[b] = IF b = a THEN days ELSE daily[b]
      BY <3>3 DEF FactsInv
    <3>7. LatestDayIsKept'
      BY <3>5, <3>6 DEF LatestDayIsKept, FactsInv, DateOf, DayOf
    <3>8. latest' = [b \in FactAccounts |-> latest'[b]] /\ daily' = [b \in FactAccounts |-> daily'[b]]
      BY <3>3 DEF FactsInv
    <3> QED BY <2>2, <3>4, <3>6, <3>7, <3>8 DEF FactsInv
  <2>5. CASE Accepted(r.account, r.snapshot) /\ r.account \notin FactAccounts
    <3>1. latest' = latest /\ daily' = daily
      <4>1. latest' = [latest EXCEPT ![r.account] = {r.snapshot}]
            /\ daily' = [daily EXCEPT ![r.account] = Archived(@, r.snapshot)]
        BY <1>2, <2>5 DEF StoreLatest
      <4> QED BY <2>5, <4>1 DEF FactsInv
    <3> QED BY <2>2, <3>1 DEF FactsInv, LatestDayIsKept
  <2> QED BY <2>3, <2>4, <2>5
<1>3. ASSUME NEW r \in pending, StoreHistorical(r) PROVE FactsInv'
  <2>1. PICK s \in FactSnapshots : s = r.snapshot
    BY DEF FactsInv
  <2>2. pending' \subseteq pending /\ UNCHANGED <<factNow, factConfig>> /\ latest' = latest
    BY <1>3 DEF StoreHistorical
  <2>3. \A b \in FactAccounts : daily[b] \subseteq daily'[b] /\ daily'[b] \subseteq daily[b] \cup {s}
    BY <1>3, <2>1 DEF StoreHistorical, FactsInv
  <2>4. daily' = [b \in FactAccounts |-> daily'[b]]
    BY <1>3 DEF StoreHistorical, FactsInv
  <2>5. LatestDayIsKept'
    BY <2>2, <2>3 DEF LatestDayIsKept, FactsInv
  <2>6. \A b \in FactAccounts : daily'[b] \subseteq FactSnapshots
    BY <2>1, <2>3 DEF FactsInv
  <2> QED BY <2>2, <2>4, <2>5, <2>6 DEF FactsInv
<1>4. CASE FactTick \/ Rebind \/ UNCHANGED factVars
  BY <1>4 DEF FactTick, Rebind, factVars, FactsInv, LatestDayIsKept
<1> QED BY <1>1, <1>2, <1>3, <1>4 DEF FactsNext

LEMMA FactsSteps == FactsInv /\ [FactsNext]_factVars => ForwardStep
<1> SUFFICES ASSUME FactsInv, [FactsNext]_factVars PROVE ForwardStep
  OBVIOUS
<1>1. ASSUME NEW r \in pending, StoreLatest(r) PROVE ForwardStep
  <2>1. CASE latest' = latest
    BY <2>1 DEF ForwardStep
  <2>2. CASE latest' # latest
    <3>1. Accepted(r.account, r.snapshot) /\ latest' = [latest EXCEPT ![r.account] = {r.snapshot}]
      BY <1>1, <2>2 DEF StoreLatest
    <3>2. \A e \in latest[r.account] : e.finished < r.snapshot.finished \/ e = r.snapshot
      BY <3>1 DEF Accepted
    <3>3. \A a \in FactAccounts : latest'[a] = IF a = r.account THEN {r.snapshot} ELSE latest[a]
      BY <3>1 DEF FactsInv
    <3>4. r.snapshot \in FactSnapshots /\ \A a \in FactAccounts : latest[a] \subseteq FactSnapshots
      BY DEF FactsInv
    <3>5. \A e \in FactSnapshots : e.finished \in Int
      BY FactsAssumption
    <3> QED BY <3>2, <3>3, <3>4, <3>5 DEF ForwardStep
  <2> QED BY <2>1, <2>2
<1>2. CASE latest' = latest
  BY <1>2 DEF ForwardStep
<1> QED BY <1>1, <1>2 DEF FactsNext, FactTick, Rebind, Report, StoreHistorical, factVars

\* What of an account is shown in the total is a snapshot of it.
LEMMA VerifiedShows ==
  ASSUME FactsInv, NEW a \in Verified
  PROVE  /\ a \in FactAccounts /\ a \in MatchedAccounts /\ Bindings[a].physical # NoPhysical
         /\ Snapshot(a) \in FactSnapshots /\ Snapshot(a).finished \in Int /\ Snapshot(a).net \in Int
<1>1. a \in FactAccounts /\ ReadableFacts(a) # {} /\ Bindings[a].physical # NoPhysical
  BY DEF Verified
<1>2. a \in MatchedAccounts
  BY <1>1 DEF ReadableFacts
<1>3. Snapshot(a) \in ReadableFacts(a)
  BY <1>1 DEF Snapshot
<1>4. Snapshot(a) \in FactSnapshots
  BY <1>1, <1>2, <1>3 DEF ReadableFacts, FactsInv
<1> QED BY <1>1, <1>2, <1>4, FactsAssumption

\* In a group of accounts one is the newest.
LEMMA NewestIs ==
  ASSUME FactsInv, NEW g, g \subseteq Verified, g # {}
  PROVE  Newest(g) \in g /\ \A b \in g : Snapshot(b).finished <= Snapshot(Newest(g)).finished
<1>1. IsFiniteSet(g)
  <2>1. g \subseteq FactAccounts
    BY VerifiedShows
  <2> QED BY <2>1, FactsAssumption, FS_Subset
<1> DEFINE Below(s) == {b \in g : Snapshot(b).finished > Snapshot(s).finished}
<1> DEFINE B == {Below(s) : s \in g}
<1>2. B \subseteq SUBSET g /\ B # {}
  OBVIOUS
<1>3. PICK m \in B : \A t \in B : t \subseteq m => t = m
  <2> HIDE DEF B
  <2> QED BY <1>1, <1>2, LeastSubset
<1>4. PICK a \in g : m = Below(a)
  OBVIOUS
<1>5. \A b \in g : Snapshot(b).finished <= Snapshot(a).finished
  <2> SUFFICES ASSUME NEW b \in g, ~(Snapshot(b).finished <= Snapshot(a).finished) PROVE FALSE
    OBVIOUS
  <2>1. \A c \in g : Snapshot(c).finished \in Int
    BY VerifiedShows
  <2>2. b \in Below(a) /\ b \notin Below(b) /\ Below(b) \subseteq Below(a)
    BY <2>1
  <2>3. Below(b) \in B
    OBVIOUS
  <2> HIDE DEF B, Below
  <2> QED BY <1>3, <1>4, <2>2, <2>3
<1>6. \E x \in g : \A b \in g : Snapshot(b).finished <= Snapshot(x).finished
  BY <1>5
<1> HIDE DEF B, Below
<1> QED BY ONLY <1>6 DEF Newest

\* Of the accounts that are not paper, those of one identity are one group, which does not
\* contradict itself, and its newest is the one of them that is counted.
LEMMA RealGroups ==
  ASSUME FactsInv, TotalAvailable, NEW a \in RealAccounts, NEW g, g = Group(a), NEW n, n = Newest(g)
  PROVE  /\ a \in Verified /\ g = {b \in RealAccounts : Bindings[b].physical = Bindings[a].physical}
         /\ g \subseteq Verified /\ a \in g
         /\ n \in g /\ n \in Included
         /\ \A b \in g : /\ Snapshot(b).finished <= Snapshot(n).finished
                         /\ Snapshot(b).finished = Snapshot(n).finished => Snapshot(b).net = Snapshot(n).net
                         /\ b \in Included => b = n
<1>1. a \in FactAccounts /\ a \notin PaperAccounts
  BY DEF RealAccounts
<1>2. \A b \in RealAccounts : b \in Verified /\ ~Conflicted(Group(b))
  BY DEF RealAccounts, Included, Duplicates, TotalAvailable
<1>3. g = {b \in Verified : Bindings[b].physical = Bindings[a].physical} /\ a \in g /\ ~Conflicted(g)
  BY <1>2 DEF Group
<1>4. g \subseteq Verified /\ \A b \in g : b \in RealAccounts
  BY <1>1, <1>3, VerifiedShows DEF Conflicted, RealAccounts
<1>5. g = {b \in RealAccounts : Bindings[b].physical = Bindings[a].physical}
  BY <1>2, <1>3, <1>4
<1>6. n \in g /\ \A b \in g : Snapshot(b).finished <= Snapshot(n).finished
  BY <1>3, <1>4, NewestIs
<1>7. \A b \in g : Group(b) = g
  BY <1>3 DEF Group
<1>8. n \in Included
  BY <1>4, <1>6, <1>7 DEF Included, Duplicates, RealAccounts
<1>9. \A b \in g : b \in Included => b = n
  BY <1>3, <1>4, <1>7 DEF Included, Duplicates
<1>10. \A b \in g : Snapshot(b).finished = Snapshot(n).finished => Snapshot(b).net = Snapshot(n).net
  BY <1>3 DEF Conflicted
<1> QED BY <1>2, <1>3, <1>4, <1>5, <1>6, <1>8, <1>9, <1>10

\* The value of an identity is that of the account which is counted for it.
LEMMA NetsAre ==
  ASSUME FactsInv, TotalAvailable, NEW a \in RealAccounts, NEW p, p = Bindings[a].physical, NEW n, n = Newest(Group(a))
  PROVE  /\ n \in Included /\ Bindings[n].physical = p
         /\ NewestOf(p) = Snapshot(n).finished /\ NetsOf(p) = {Snapshot(n).net}
         /\ Max(NetsOf(p)) = Snapshot(n).net
<1>1. PICK g : g = Group(a)
  OBVIOUS
<1>2. /\ g = {b \in RealAccounts : Bindings[b].physical = p}
      /\ g \subseteq Verified /\ a \in g
      /\ n \in g /\ n \in Included
      /\ \A b \in g : /\ Snapshot(b).finished <= Snapshot(n).finished
                      /\ Snapshot(b).finished = Snapshot(n).finished => Snapshot(b).net = Snapshot(n).net
  BY <1>1, RealGroups
<1>3. \A b \in g : Snapshot(b).finished \in Int /\ Snapshot(b).net \in Int
  BY <1>2, VerifiedShows
<1>4. SnapshotsOf(p) = {Snapshot(b) : b \in g}
  BY <1>2 DEF SnapshotsOf
<1>5. PICK t : t = Snapshot(n)
  OBVIOUS
<1>6. NewestOf(p) = t.finished
  <2>1. PICK F : F = {s.finished : s \in SnapshotsOf(p)}
    OBVIOUS
  <2>2. t.finished \in F /\ (\A y \in F : y <= t.finished) /\ F \subseteq Int
    BY <1>2, <1>3, <1>4, <1>5, <2>1
  <2>3. \A x \in F : (\A y \in F : x >= y) => x = t.finished
    <3>1. PICK m : m = t.finished
      OBVIOUS
    <3>2. m \in F /\ (\A y \in F : y <= m) /\ F \subseteq Int
      BY ONLY <2>2, <3>1
    <3>3. \A x \in F : (\A y \in F : x >= y) => x = m
      <4>1. SUFFICES ASSUME NEW x \in F, \A y \in F : x >= y PROVE x = m
        OBVIOUS
      <4>2. x \in Int /\ m \in Int /\ x <= m /\ x >= m
        BY ONLY <3>2, <4>1
      <4> QED BY ONLY <4>2
    <3> QED BY ONLY <3>1, <3>3
  <2>4. t.finished \in F /\ \A y \in F : t.finished >= y
    BY <2>2
  <2>5. Max(F) = t.finished
    BY ONLY <2>3, <2>4 DEF Max
  <2> QED BY <2>1, <2>5 DEF NewestOf
<1>7. NetsOf(p) = {t.net}
  <2>1. NetsOf(p) = {s.net : s \in {x \in SnapshotsOf(p) : x.finished = t.finished}}
    BY <1>6 DEF NetsOf
  <2>2. \A x \in SnapshotsOf(p) : x.finished = t.finished => x.net = t.net
    BY <1>2, <1>4, <1>5
  <2>3. t \in SnapshotsOf(p)
    BY <1>2, <1>4, <1>5
  <2> QED BY ONLY <2>1, <2>2, <2>3
<1>8. Max({t.net}) = t.net
  <2>1. t.net \in Int
    BY <1>2, <1>3, <1>5
  <2>2. \A x \in {t.net} : x = t.net
    OBVIOUS
  <2>3. t.net \in {t.net} /\ \A y \in {t.net} : t.net >= y
    BY <2>1
  <2> QED BY ONLY <2>2, <2>3 DEF Max
<1> QED BY <1>2, <1>5, <1>6, <1>7, <1>8

\* A sum over a set, as the fold computes it.
LEMMA TotalIs ==
  ASSUME IsFiniteSet(Included), NEW f, f = [a \in Included |-> Snapshot(a).net]
  PROVE  \E h : AddsUp(f, Included, h) /\ Total = h[Included]
<1> DEFINE P(h) == h = [s \in SUBSET Included |-> IF s = {} THEN 0
                          ELSE Snapshot(CHOOSE x \in s : TRUE).net + h[s \ {CHOOSE x \in s : TRUE}]]
<1>1. PICK h : h = CHOOSE x : P(x)
  OBVIOUS
<1>2. Total = h[Included]
  BY <1>1 DEF Total, MapThenSumSet, MapThenFoldSet
<1>3. ASSUME NEW x PROVE P(x) <=> AddsUp(f, Included, x)
  <2>1. \A s \in SUBSET Included : s # {} => f[PickOf(s)] = Snapshot(PickOf(s)).net
    BY PickIsIn
  <2>2. [s \in SUBSET Included |-> IF s = {} THEN 0 ELSE Snapshot(PickOf(s)).net + x[RestOf(s)]]
        = [s \in SUBSET Included |-> IF s = {} THEN 0 ELSE f[PickOf(s)] + x[RestOf(s)]]
    BY <2>1
  <2>3. P(x) <=> x = [s \in SUBSET Included |-> IF s = {} THEN 0 ELSE Snapshot(PickOf(s)).net + x[RestOf(s)]]
    BY DEF PickOf, RestOf
  <2> HIDE DEF P
  <2> QED BY <2>2, <2>3 DEF AddsUp
<1> HIDE DEF P
<1>4. \E x : P(x)
  BY <1>3, SumsExist
<1>5. P(h)
  BY <1>1, <1>4
<1> QED BY <1>2, <1>3, <1>5

LEMMA NamedTotalIs ==
  ASSUME IsFiniteSet(Identities), NEW f, f = [p \in Identities |-> Max(NetsOf(p))]
  PROVE  \E h : AddsUp(f, Identities, h) /\ MapThenSumSet(LAMBDA p : Max(NetsOf(p)), Identities) = h[Identities]
<1> DEFINE P(h) == h = [s \in SUBSET Identities |-> IF s = {} THEN 0
                          ELSE Max(NetsOf(CHOOSE x \in s : TRUE)) + h[s \ {CHOOSE x \in s : TRUE}]]
<1>1. PICK h : h = CHOOSE x : P(x)
  OBVIOUS
<1>2. MapThenSumSet(LAMBDA p : Max(NetsOf(p)), Identities) = h[Identities]
  BY <1>1 DEF MapThenSumSet, MapThenFoldSet
<1>3. ASSUME NEW x PROVE P(x) <=> AddsUp(f, Identities, x)
  <2>1. \A s \in SUBSET Identities : s # {} => f[PickOf(s)] = Max(NetsOf(PickOf(s)))
    BY PickIsIn
  <2>2. [s \in SUBSET Identities |-> IF s = {} THEN 0 ELSE Max(NetsOf(PickOf(s))) + x[RestOf(s)]]
        = [s \in SUBSET Identities |-> IF s = {} THEN 0 ELSE f[PickOf(s)] + x[RestOf(s)]]
    BY <2>1
  <2>3. P(x) <=> x = [s \in SUBSET Identities |-> IF s = {} THEN 0 ELSE Max(NetsOf(PickOf(s))) + x[RestOf(s)]]
    BY DEF PickOf, RestOf
  <2> HIDE DEF P
  <2> QED BY <2>2, <2>3 DEF AddsUp
<1> HIDE DEF P
<1>4. \E x : P(x)
  BY <1>3, SumsExist
<1>5. P(h)
  BY <1>1, <1>4
<1> QED BY <1>2, <1>3, <1>5

LEMMA TotalOfInv == FactsInv => TotalCountsOnce
<1> SUFFICES ASSUME FactsInv, TotalAvailable
             PROVE  /\ RealAccounts \subseteq MatchedAccounts /\ NoPhysical \notin Identities
                    /\ \A p \in Identities : NewestOf(p) + FactWindow >= factNow /\ Cardinality(NetsOf(p)) = 1
                    /\ Total = MapThenSumSet(LAMBDA p : Max(NetsOf(p)), Identities)
  BY DEF TotalCountsOnce
<1>1. \A a \in RealAccounts : a \in Verified
  BY RealGroups
<1>2. RealAccounts \subseteq MatchedAccounts /\ NoPhysical \notin Identities
  BY <1>1, VerifiedShows DEF Identities
<1>3. \A p \in Identities : \E a \in RealAccounts : p = Bindings[a].physical
  BY DEF Identities
<1>4. ASSUME NEW p \in Identities PROVE NewestOf(p) + FactWindow >= factNow /\ Cardinality(NetsOf(p)) = 1
  <2>1. PICK a \in RealAccounts : p = Bindings[a].physical
    BY <1>3
  <2>2. PICK n : n = Newest(Group(a))
    OBVIOUS
  <2>3. n \in Included /\ NewestOf(p) = Snapshot(n).finished /\ NetsOf(p) = {Snapshot(n).net}
    BY <2>1, <2>2, NetsAre
  <2>4. n \in Verified /\ IsFresh(Snapshot(n))
    BY <2>3 DEF TotalAvailable
  <2>5. Snapshot(n).finished \in Int
    BY <2>4, VerifiedShows
  <2>6. factNow - Snapshot(n).finished <= FactWindow /\ factNow \in Int /\ FactWindow \in Int
    BY <2>4, FactsAssumption DEF IsFresh, FactsInv
  <2>7. Cardinality({Snapshot(n).net}) = 1
    BY FS_Singleton
  <2> QED BY <2>3, <2>5, <2>6, <2>7
<1>5. Included \subseteq RealAccounts /\ Included \subseteq Verified /\ IsFiniteSet(Included) /\ IsFiniteSet(RealAccounts)
  <2>1. Included \subseteq FactAccounts /\ RealAccounts \subseteq FactAccounts
    BY DEF Included, RealAccounts
  <2>2. Included \subseteq RealAccounts /\ Included \subseteq Verified
    BY DEF Included, RealAccounts, TotalAvailable
  <2> QED BY <2>1, <2>2, FactsAssumption, FS_Subset
<1>6. IsFiniteSet(Identities)
  <2>1. PICK m : m = [a \in RealAccounts |-> Bindings[a].physical]
    OBVIOUS
  <2>2. m \in Surjection(RealAccounts, Identities)
    BY <2>1 DEF Surjection, Identities
  <2> QED BY <1>5, <2>2, FS_Surjection
<1>7. PICK f : f = [a \in Included |-> Snapshot(a).net]
  OBVIOUS
<1>8. PICK h : AddsUp(f, Included, h) /\ Total = h[Included]
  BY <1>5, <1>7, TotalIs
<1>9. PICK g : g = [p \in Identities |-> Max(NetsOf(p))]
  OBVIOUS
<1>10. PICK k : AddsUp(g, Identities, k) /\ MapThenSumSet(LAMBDA p : Max(NetsOf(p)), Identities) = k[Identities]
  BY <1>6, <1>9, NamedTotalIs
<1>11. PICK one : one = [p \in Identities |-> CHOOSE n \in Included : Bindings[n].physical = p]
  OBVIOUS
<1>12. ASSUME NEW p \in Identities
       PROVE  /\ one[p] \in Included /\ Bindings[one[p]].physical = p
              /\ g[p] = Snapshot(one[p]).net
  <2>1. PICK a \in RealAccounts : p = Bindings[a].physical
    BY <1>3
  <2>2. PICK n : n = Newest(Group(a))
    OBVIOUS
  <2>3. n \in Included /\ Bindings[n].physical = p /\ Max(NetsOf(p)) = Snapshot(n).net
    BY <2>1, <2>2, NetsAre
  <2>4. one[p] \in Included /\ Bindings[one[p]].physical = p
    BY <1>11, <2>3
  <2>5. one[p] = n
    <3>1. Group(a) = {b \in RealAccounts : Bindings[b].physical = p} /\ \A b \in Group(a) : b \in Included => b = n
      BY <2>1, <2>2, RealGroups
    <3> QED BY <1>5, <2>4, <3>1
  <2> QED BY <1>9, <2>3, <2>4, <2>5
<1>13. f \in [Included -> Int]
  BY <1>5, <1>7, VerifiedShows
<1>14. one \in [Identities -> Included]
  BY <1>11, <1>12
<1>15. \A p \in Identities : g[p] = f[one[p]]
  BY <1>7, <1>12
<1>16. g \in [Identities -> Int]
  BY <1>9, <1>13, <1>14, <1>15
<1>17. \A p, q \in Identities : one[p] = one[q] => p = q
  BY <1>12
<1>18. \A a \in Included : \E p \in Identities : one[p] = a
  <2> SUFFICES ASSUME NEW a \in Included PROVE \E p \in Identities : one[p] = a
    OBVIOUS
  <2>1. PICK p : p = Bindings[a].physical
    OBVIOUS
  <2>2. a \in RealAccounts /\ p \in Identities
    BY <1>5, <2>1 DEF Identities
  <2>3. PICK x, n : x = one[p] /\ n = Newest(Group(a))
    OBVIOUS
  <2>4. x \in Included /\ Bindings[x].physical = p
    BY <1>12, <2>2, <2>3
  <2>5. Group(a) = {b \in RealAccounts : Bindings[b].physical = p} /\ a \in Group(a) /\ \A b \in Group(a) : b \in Included => b = n
    BY <2>1, <2>2, <2>3, RealGroups
  <2>6. x = a
    BY <1>5, <2>4, <2>5
  <2> QED BY <2>2, <2>3, <2>6
<1>19. h[Included] = k[Identities]
  <2>1. PICK S, T : S = Included /\ T = Identities
    OBVIOUS
  <2>2. /\ IsFiniteSet(S) /\ IsFiniteSet(T) /\ f \in [S -> Int] /\ g \in [T -> Int] /\ one \in [T -> S]
        /\ AddsUp(f, S, h) /\ AddsUp(g, T, k)
    BY <1>5, <1>6, <1>8, <1>10, <1>13, <1>14, <1>16, <2>1
  <2>3. /\ \A p, q \in T : one[p] = one[q] => p = q
        /\ \A a \in S : \E p \in T : one[p] = a
        /\ \A p \in T : g[p] = f[one[p]]
    BY <1>15, <1>17, <1>18, <2>1
  <2>4. h[S] = k[T]
    BY ONLY <2>2, <2>3, SumsMatch
  <2> QED BY <2>1, <2>4
<1> QED BY <1>2, <1>4, <1>8, <1>10, <1>19

LEMMA OwnersOfInv == OneOwnerPerSource
<1> SUFFICES ASSUME NEW a \in FactAccounts, NEW b \in FactAccounts, a # b,
                    NEW s \in ReadableFacts(a) \cup ShownDays(a), NEW t \in ReadableFacts(b) \cup ShownDays(b),
                    s.source = t.source
             PROVE  FALSE
  BY DEF OneOwnerPerSource
<1>1. a \in MatchedAccounts /\ s.source \in Sources(Bindings[a])
  BY DEF ReadableFacts, ShownDays, Sources
<1>2. b \in MatchedAccounts /\ t.source \in Sources(Bindings[b])
  BY DEF ReadableFacts, ShownDays, Sources
<1>3. Attributable(factConfig)
  BY <1>1 DEF MatchedAccounts, Bindings
<1> QED BY <1>1, <1>2, <1>3 DEF MatchedAccounts, Bindings, Attributable

-----------------------------------------------------------------------------
(* The benchmarks: a stored close is the first one or that of the last revision   *)
(* of its day, and a proposal's closes are there to replace others.               *)

Replacement == [day : Days, prior : Nat, close : Nat \ {0}]
RevisionOfDays(p) ==
  p \subseteq Replacement /\ IsFiniteSet(p) /\ \A e, f \in p : e.day = f.day => e = f
LedgerRow == [proposal : SUBSET Replacement, day : Days, prior : Nat, close : Nat \ {0}, replaced : Nat]

SyncHolds(x) ==
  /\ x = [phase |-> x.phase, candidates |-> x.candidates, post |-> x.post]
  /\ x.candidates \in [Days -> Nat]
  /\ x.phase = "planned" => x.post \subseteq {d \in Days : x.candidates[d] # 0}
RevisionJobHolds(x) ==
  /\ x = [phase |-> x.phase, seen |-> x.seen, proposal |-> x.proposal]
  /\ x.phase \in {"posted", "planned"} => x.proposal \in approved

BenchInv ==
  /\ upstream \in [Days -> Nat] /\ stored \in [Days -> Nat] /\ firstClose \in [Days -> Nat]
  /\ syncJob = [j \in SyncJobs |-> syncJob[j]] /\ \A j \in SyncJobs : SyncHolds(syncJob[j])
  /\ revJob = [j \in RevisionJobs |-> revJob[j]] /\ \A j \in RevisionJobs : RevisionJobHolds(revJob[j])
  /\ \A p \in proposed : RevisionOfDays(p)
  /\ approved \subseteq proposed
  /\ ledger \in Seq(LedgerRow)
  /\ EveryCloseIsTraced

LEMMA BenchStarts == BenchInit => BenchInv
<1> SUFFICES ASSUME BenchInit PROVE BenchInv
  OBVIOUS
<1>1. NoCandidates \in [Days -> Nat]
  BY DEF NoCandidates
<1>2. SyncHolds(IdleSync)
  BY <1>1 DEF SyncHolds, IdleSync
<1>3. RevisionJobHolds(IdleRevision)
  BY DEF RevisionJobHolds, IdleRevision
<1>4. ledger \in Seq(LedgerRow) /\ DOMAIN ledger = {}
  BY DEF BenchInit
<1>5. EveryCloseIsTraced
  BY <1>4 DEF EveryCloseIsTraced, BenchInit
<1> HIDE DEF SyncHolds, RevisionJobHolds
<1> QED BY <1>1, <1>2, <1>3, <1>4, <1>5 DEF BenchInv, BenchInit

\* What a day's revisions tell is not touched by what they do not concern.
LEMMA TracedRests ==
  ASSUME EveryCloseIsTraced, stored' = stored, firstClose' = firstClose, ledger' = ledger,
         approved \subseteq approved'
  PROVE  EveryCloseIsTraced'
  BY DEF EveryCloseIsTraced

LEMMA RevisionJobsRest ==
  ASSUME NEW x, RevisionJobHolds(x), approved \subseteq approved'
  PROVE  RevisionJobHolds(x)'
  BY DEF RevisionJobHolds

LEMMA BenchRests ==
  ASSUME BenchInv, upstream' \in [Days -> Nat], UNCHANGED <<stored, firstClose, ledger>>,
         syncJob' = [j \in SyncJobs |-> syncJob'[j]], \A j \in SyncJobs : SyncHolds(syncJob'[j]),
         revJob' = [j \in RevisionJobs |-> revJob'[j]],
         \A j \in RevisionJobs : revJob'[j] = revJob[j] \/ \E x : revJob'[j] = x /\ RevisionJobHolds(x)',
         \A p \in proposed' : p \in proposed \/ RevisionOfDays(p), proposed \subseteq proposed',
         approved \subseteq approved', approved' \subseteq proposed'
  PROVE  BenchInv'
<1>1. EveryCloseIsTraced'
  BY TracedRests DEF BenchInv
<1>2. \A j \in RevisionJobs : RevisionJobHolds(revJob[j])
  BY DEF BenchInv
<1>3. ASSUME NEW j \in RevisionJobs PROVE \E x : revJob'[j] = x /\ RevisionJobHolds(x)'
  <2>1. PICK x : x = revJob[j]
    OBVIOUS
  <2>2. RevisionJobHolds(x)'
    BY <1>2, <2>1, RevisionJobsRest
  <2> QED BY <2>1, <2>2
<1>4. \A p \in proposed' : RevisionOfDays(p)
  BY DEF BenchInv
<1>5. \A j \in RevisionJobs : RevisionJobHolds(revJob[j])'
  <2>1. TAKE j \in RevisionJobs
  <2>2. PICK x : revJob'[j] = x /\ RevisionJobHolds(x)'
    BY <1>3
  <2> QED BY <2>2 DEF RevisionJobHolds
<1>6. \A j \in SyncJobs : SyncHolds(syncJob[j])'
  <2>1. TAKE j \in SyncJobs
  <2>2. SyncHolds(syncJob'[j])
    OBVIOUS
  <2> QED BY <2>2 DEF SyncHolds
<1> HIDE DEF RevisionOfDays, RevisionJobHolds, SyncHolds, EveryCloseIsTraced
<1> QED BY <1>1, <1>4, <1>5, <1>6 DEF BenchInv

LEMMA IdleSyncHolds == SyncHolds(IdleSync)
<1>1. NoCandidates \in [Days -> Nat]
  BY DEF NoCandidates
<1> QED BY <1>1 DEF SyncHolds, IdleSync

LEMMA IdleRevisionHolds == RevisionJobHolds(IdleRevision) /\ RevisionJobHolds(IdleRevision)'
  BY DEF RevisionJobHolds, IdleRevision

\* A sync job that becomes another, the others resting.
LEMMA SyncMoves ==
  ASSUME BenchInv, NEW j \in SyncJobs, NEW y, syncJob' = [syncJob EXCEPT ![j] = y], SyncHolds(y)
  PROVE  syncJob' = [k \in SyncJobs |-> syncJob'[k]] /\ \A k \in SyncJobs : SyncHolds(syncJob'[k])
<1>1. syncJob' = [k \in SyncJobs |-> IF k = j THEN y ELSE syncJob[k]]
  BY DEF BenchInv
<1>2. \A k \in SyncJobs : SyncHolds(syncJob[k])
  BY DEF BenchInv
<1>3. ASSUME NEW k \in SyncJobs PROVE SyncHolds(syncJob'[k])
  <2>1. CASE k = j
    BY <1>1, <2>1
  <2>2. CASE k # j
    <3>1. syncJob'[k] = syncJob[k]
      BY <1>1, <2>2
    <3> QED BY <1>2, <3>1
  <2> QED BY <2>1, <2>2
<1> QED BY <1>1, <1>3

LEMMA SyncsRest ==
  ASSUME BenchInv, syncJob' = syncJob
  PROVE  syncJob' = [k \in SyncJobs |-> syncJob'[k]] /\ \A k \in SyncJobs : SyncHolds(syncJob'[k])
  BY DEF BenchInv

LEMMA RevisionsRest ==
  ASSUME BenchInv, revJob' = revJob
  PROVE  /\ revJob' = [k \in RevisionJobs |-> revJob'[k]]
         /\ \A k \in RevisionJobs : revJob'[k] = revJob[k] \/ \E x : revJob'[k] = x /\ RevisionJobHolds(x)'
  BY DEF BenchInv

LEMMA RevisionMoves ==
  ASSUME BenchInv, NEW j \in RevisionJobs, NEW y, revJob' = [revJob EXCEPT ![j] = y], RevisionJobHolds(y)'
  PROVE  /\ revJob' = [k \in RevisionJobs |-> revJob'[k]]
         /\ \A k \in RevisionJobs : revJob'[k] = revJob[k] \/ \E x : revJob'[k] = x /\ RevisionJobHolds(x)'
<1>1. revJob' = [k \in RevisionJobs |-> IF k = j THEN y ELSE revJob[k]]
  BY DEF BenchInv
<1> QED BY <1>1

LEMMA FetchKeeps ==
  ASSUME BenchInv, NEW j \in SyncJobs, NEW b \in Days, NEW t \in Days, FetchCandidates(j, b, t)
  PROVE  BenchInv'
<1>1. UNCHANGED <<upstream, stored, ledger, revJob, proposed, approved, firstClose>>
  BY DEF FetchCandidates
<1>2. PICK x : x = syncJob[j]
  OBVIOUS
<1>3. x = [phase |-> x.phase, candidates |-> x.candidates, post |-> x.post]
  BY <1>2 DEF BenchInv, SyncHolds
<1>4. PICK c : c = ClosedCandidates(b, t)
  OBVIOUS
<1>5. c \in [Days -> Nat]
  BY <1>4 DEF ClosedCandidates, BenchInv
<1>6. PICK y : y = [x EXCEPT !.phase = "fetched", !.candidates = c]
  OBVIOUS
<1>7. y = [phase |-> "fetched", candidates |-> c, post |-> x.post]
  BY <1>3, <1>6
<1>8. SyncHolds(y)
  BY <1>5, <1>7 DEF SyncHolds
<1>9. syncJob' = [syncJob EXCEPT ![j] = y]
  BY <1>2, <1>4, <1>6 DEF FetchCandidates
<1>10. syncJob' = [k \in SyncJobs |-> syncJob'[k]] /\ \A k \in SyncJobs : SyncHolds(syncJob'[k])
  BY <1>8, <1>9, SyncMoves
<1>11. upstream' \in [Days -> Nat] /\ approved' \subseteq proposed'
  BY <1>1 DEF BenchInv
<1> QED BY <1>1, <1>10, <1>11, RevisionsRest, BenchRests

LEMMA PlanSyncKeeps ==
  ASSUME BenchInv, NEW j \in SyncJobs, PlanSync(j)
  PROVE  BenchInv'
<1>1. UNCHANGED <<upstream, stored, ledger, revJob, proposed, approved, firstClose>>
  BY DEF PlanSync
<1>2. PICK x : x = syncJob[j]
  OBVIOUS
<1>3. SyncHolds(x)
  BY <1>2 DEF BenchInv
<1>4. PICK post : post = Unseen(x.candidates, stored) \cup Identical(x.candidates, stored)
  OBVIOUS
<1>5. PICK y : y = [x EXCEPT !.phase = "planned", !.post = post]
  OBVIOUS
<1>6. y = [phase |-> "planned", candidates |-> x.candidates, post |-> post]
  BY <1>3, <1>5 DEF SyncHolds
<1>7. post \subseteq {d \in Days : x.candidates[d] # 0}
  BY <1>4 DEF Unseen, Identical
<1>8. SyncHolds(y)
  BY <1>3, <1>6, <1>7 DEF SyncHolds
<1>9. PICK z : z = IF Differing(x.candidates, stored) # {} \/ post = {} THEN IdleSync ELSE y
  OBVIOUS
<1>10. SyncHolds(z)
  BY <1>8, <1>9, IdleSyncHolds
<1>11. syncJob' = [syncJob EXCEPT ![j] = z]
  BY <1>2, <1>4, <1>5, <1>9 DEF PlanSync
<1>12. syncJob' = [k \in SyncJobs |-> syncJob'[k]] /\ \A k \in SyncJobs : SyncHolds(syncJob'[k])
  BY <1>10, <1>11, SyncMoves
<1>13. upstream' \in [Days -> Nat] /\ approved' \subseteq proposed'
  BY <1>1 DEF BenchInv
<1> QED BY <1>1, <1>12, <1>13, RevisionsRest, BenchRests

\* A proposal replaces stored closes by closes that are there, of each day one.
LEMMA ProposalRevises ==
  ASSUME NEW cand \in [Days -> Nat], stored \in [Days -> Nat]
  PROVE  RevisionOfDays(ProposalOf(cand, stored))
<1>1. ProposalOf(cand, stored) \subseteq Replacement
  BY DEF ProposalOf, Differing, Replacement
<1>2. \A e, f \in ProposalOf(cand, stored) : e.day = f.day => e = f
  BY DEF ProposalOf
<1>3. IsFiniteSet(ProposalOf(cand, stored))
  <2>1. PICK D : D = Differing(cand, stored)
    OBVIOUS
  <2>2. IsFiniteSet(D)
    <3>1. IsFiniteSet(Days) /\ D \subseteq Days
      BY <2>1, BenchAssumption, FS_Interval DEF Days, Differing
    <3> QED BY <3>1, FS_Subset
  <2>3. PICK f : f = [d \in D |-> [day |-> d, prior |-> stored[d], close |-> cand[d]]]
    OBVIOUS
  <2>4. f \in Surjection(D, ProposalOf(cand, stored))
    BY <2>1, <2>3 DEF Surjection, ProposalOf
  <2> QED BY <2>2, <2>4, FS_Surjection
<1> QED BY <1>1, <1>2, <1>3 DEF RevisionOfDays

LEMMA DryRunKeeps ==
  ASSUME BenchInv, NEW j \in SyncJobs, DryRun(j)
  PROVE  BenchInv'
<1>1. UNCHANGED <<upstream, stored, ledger, revJob, approved, firstClose>>
  BY DEF DryRun
<1>2. PICK c : c = syncJob[j].candidates
  OBVIOUS
<1>3. c \in [Days -> Nat] /\ stored \in [Days -> Nat]
  BY <1>2 DEF BenchInv, SyncHolds
<1>4. proposed' \in {proposed, proposed \cup {ProposalOf(c, stored)}}
  BY <1>2 DEF DryRun
<1>5. \A p \in proposed' : p \in proposed \/ RevisionOfDays(p)
  BY <1>3, <1>4, ProposalRevises
<1>6. PICK y : y = IdleSync
  OBVIOUS
<1>7. SyncHolds(y) /\ syncJob' = [syncJob EXCEPT ![j] = y]
  BY <1>6, IdleSyncHolds DEF DryRun
<1>8. syncJob' = [k \in SyncJobs |-> syncJob'[k]] /\ \A k \in SyncJobs : SyncHolds(syncJob'[k])
  BY <1>7, SyncMoves
<1>9. upstream' \in [Days -> Nat] /\ approved' \subseteq proposed' /\ proposed \subseteq proposed'
  BY <1>1, <1>4 DEF BenchInv
<1> QED BY <1>1, <1>5, <1>8, <1>9, RevisionsRest, BenchRests

LEMMA ApproveKeeps ==
  ASSUME BenchInv, NEW p \in proposed, Approve(p)
  PROVE  BenchInv'
<1>1. UNCHANGED <<upstream, stored, ledger, syncJob, revJob, proposed, firstClose>>
  BY DEF Approve
<1>2. upstream' \in [Days -> Nat] /\ approved' \subseteq proposed' /\ approved \subseteq approved'
  BY <1>1 DEF BenchInv, Approve
<1> QED BY <1>1, <1>2, RevisionsRest, SyncsRest, BenchRests

LEMMA RevisionCommandKeeps ==
  ASSUME BenchInv, NEW j \in RevisionJobs,
         ReadForRevision(j) \/ (\E p \in approved, r \in BOOLEAN : PostRevision(j, p, r))
           \/ GiveUpRevision(j) \/ PlanRevision(j)
  PROVE  BenchInv'
<1>1. UNCHANGED <<upstream, stored, ledger, syncJob, proposed, approved, firstClose>>
  BY DEF ReadForRevision, PostRevision, GiveUpRevision, PlanRevision
<1>2. PICK x : x = revJob[j]
  OBVIOUS
<1>3. /\ x = [phase |-> x.phase, seen |-> x.seen, proposal |-> x.proposal]
      /\ x.phase \in {"posted", "planned"} => x.proposal \in approved
  BY <1>2 DEF BenchInv, RevisionJobHolds
<1>4. \E y : revJob' = [revJob EXCEPT ![j] = y] /\ RevisionJobHolds(y)
  <2>1. CASE ReadForRevision(j)
    <3>1. PICK y : y = [x EXCEPT !.phase = "read", !.seen = stored]
      OBVIOUS
    <3>2. y = [phase |-> "read", seen |-> stored, proposal |-> x.proposal]
      BY <1>3, <3>1
    <3>3. RevisionJobHolds(y)
      BY <3>2 DEF RevisionJobHolds
    <3>4. revJob' = [revJob EXCEPT ![j] = y]
      BY <1>2, <2>1, <3>1 DEF ReadForRevision
    <3> QED BY <3>3, <3>4
  <2>2. ASSUME NEW p \in approved, NEW r \in BOOLEAN, PostRevision(j, p, r)
        PROVE  \E y : revJob' = [revJob EXCEPT ![j] = y] /\ RevisionJobHolds(y)
    <3>1. PICK y : y = [phase |-> "posted", seen |-> NoCandidates, proposal |-> p]
      OBVIOUS
    <3>2. RevisionJobHolds(y)
      BY <3>1 DEF RevisionJobHolds
    <3>3. revJob' = [revJob EXCEPT ![j] = y]
      BY <2>2, <3>1 DEF PostRevision
    <3> QED BY <3>2, <3>3
  <2>3. CASE GiveUpRevision(j)
    BY <2>3, IdleRevisionHolds DEF GiveUpRevision
  <2>4. CASE PlanRevision(j)
    <3>1. PICK w : w = [x EXCEPT !.phase = "planned"]
      OBVIOUS
    <3>2. w = [phase |-> "planned", seen |-> x.seen, proposal |-> x.proposal]
      BY <1>3, <3>1
    <3>3. x.proposal \in approved
      BY <1>2, <1>3, <2>4 DEF PlanRevision
    <3>4. RevisionJobHolds(w)
      BY <3>2, <3>3 DEF RevisionJobHolds
    <3>5. PICK y : y = IF RevisionHolds(x.proposal, stored) THEN w ELSE IdleRevision
      OBVIOUS
    <3>6. revJob' = [revJob EXCEPT ![j] = y]
      BY <1>2, <2>4, <3>1, <3>5 DEF PlanRevision
    <3>7. RevisionJobHolds(y)
      BY <3>4, <3>5, IdleRevisionHolds
    <3> QED BY <3>6, <3>7
  <2> QED BY <2>1, <2>2, <2>3, <2>4
<1>5. PICK y : revJob' = [revJob EXCEPT ![j] = y] /\ RevisionJobHolds(y)
  BY <1>4
<1>6. RevisionJobHolds(y)'
  BY <1>1, <1>5, RevisionJobsRest
<1>7. upstream' \in [Days -> Nat] /\ approved' \subseteq proposed'
  BY <1>1 DEF BenchInv
<1> QED BY <1>1, <1>5, <1>6, <1>7, RevisionMoves, SyncsRest, BenchRests

\* The revisions of a day, and what they and the first close tell.
ToldOf(d) == {i \in DOMAIN ledger : ledger[i].day = d}
LastTold(d) == CHOOSE i \in ToldOf(d) : \A k \in ToldOf(d) : k <= i
ToldClose(d) == IF ToldOf(d) = {} THEN firstClose[d] ELSE ledger[LastTold(d)].close

LEMMA LastIsTold ==
  ASSUME BenchInv, NEW d \in Days, ToldOf(d) # {}
  PROVE  /\ LastTold(d) \in ToldOf(d) /\ \A k \in ToldOf(d) : k <= LastTold(d)
         /\ ledger[LastTold(d)].close \in Nat \ {0}
<1>1. Len(ledger) \in Nat /\ DOMAIN ledger = 1 .. Len(ledger) /\ \A i \in DOMAIN ledger : ledger[i] \in LedgerRow
  BY DEF BenchInv
<1>2. ToldOf(d) \subseteq Nat /\ ToldOf(d) \subseteq 1 .. Len(ledger)
  BY <1>1 DEF ToldOf
<1>3. IsFiniteSet(ToldOf(d))
  <2>1. IsFiniteSet(1 .. Len(ledger))
    BY <1>1, FS_Interval
  <2> QED BY <1>2, <2>1, FS_Subset
<1>4. \E i \in ToldOf(d) : \A k \in ToldOf(d) : k <= i
  BY <1>2, <1>3, GreatestOf
<1>5. LastTold(d) \in ToldOf(d) /\ \A k \in ToldOf(d) : k <= LastTold(d)
  BY <1>4 DEF LastTold
<1>6. LastTold(d) \in DOMAIN ledger
  BY <1>5 DEF ToldOf
<1> QED BY <1>1, <1>5, <1>6 DEF LedgerRow

LEMMA CloseIsTold == ASSUME BenchInv PROVE \A d \in Days : stored[d] = ToldClose(d)
  BY DEF BenchInv, EveryCloseIsTraced, ToldClose, LastTold, ToldOf

LEMMA PutPointsKeeps ==
  ASSUME BenchInv, NEW j \in SyncJobs, PutPoints(j)
  PROVE  BenchInv' /\ \A d \in Days : stored[d] # 0 => stored'[d] # 0
<1>1. UNCHANGED <<upstream, ledger, revJob, proposed, approved>>
  BY DEF PutPoints
<1>2. PICK c, post : c = syncJob[j].candidates /\ post = syncJob[j].post
  OBVIOUS
<1>3. c \in [Days -> Nat] /\ post \subseteq {d \in Days : c[d] # 0}
  BY <1>2 DEF BenchInv, SyncHolds, PutPoints
<1>4. \/ stored' = stored
      \/ /\ \A d \in post : stored[d] = 0 \/ stored[d] = c[d]
         /\ stored' = [d \in Days |-> IF d \in post THEN c[d] ELSE stored[d]]
  BY <1>2 DEF PutPoints
<1>5. firstClose' = [d \in Days |-> IF firstClose[d] = 0 THEN stored'[d] ELSE firstClose[d]]
  BY DEF PutPoints
<1>6. stored \in [Days -> Nat] /\ firstClose \in [Days -> Nat]
  BY DEF BenchInv
<1>7. stored' \in [Days -> Nat] /\ \A d \in Days : stored'[d] = stored[d] \/ (stored[d] = 0 /\ stored'[d] # 0)
  BY <1>3, <1>4, <1>6
<1>8. firstClose' \in [Days -> Nat]
  BY <1>5, <1>6, <1>7
<1>9. ASSUME NEW d \in Days PROVE stored'[d] = IF ToldOf(d) = {} THEN firstClose'[d] ELSE ledger[LastTold(d)].close
  <2>1. stored[d] = ToldClose(d)
    BY CloseIsTold
  <2>2. CASE ToldOf(d) # {}
    <3>1. stored[d] # 0 /\ stored[d] = ledger[LastTold(d)].close
      BY <2>1, <2>2, LastIsTold DEF ToldClose
    <3>2. stored'[d] = stored[d]
      BY <1>7, <3>1
    <3> QED BY <2>2, <3>1, <3>2
  <2>3. CASE ToldOf(d) = {}
    <3>1. stored[d] = firstClose[d]
      BY <2>1, <2>3 DEF ToldClose
    <3>2. firstClose'[d] = IF firstClose[d] = 0 THEN stored'[d] ELSE firstClose[d]
      BY <1>5
    <3> QED BY <1>7, <2>3, <3>1, <3>2
  <2> QED BY <2>2, <2>3
<1>10. EveryCloseIsTraced'
  <2>1. \A d \in Days : stored'[d] = IF ToldOf(d) = {} THEN firstClose'[d] ELSE ledger[LastTold(d)].close
    BY <1>9
  <2>2. \A i \in DOMAIN ledger :
          ledger[i].proposal \in approved
            /\ Cardinality({k \in DOMAIN ledger : ledger[k].proposal = ledger[i].proposal}) = Cardinality(ledger[i].proposal)
    BY DEF BenchInv, EveryCloseIsTraced
  <2>3. \A d \in Days :
          LET told == {i \in DOMAIN ledger' : ledger'[i].day = d} IN
          stored'[d] = IF told = {} THEN firstClose'[d]
                       ELSE ledger'[CHOOSE i \in told : \A k \in told : k <= i].close
    BY <1>1, <2>1 DEF ToldOf, LastTold
  <2>4. \A i \in DOMAIN ledger' :
          LET p == ledger'[i].proposal IN
          p \in approved' /\ Cardinality({k \in DOMAIN ledger' : ledger'[k].proposal = p}) = Cardinality(p)
    BY <1>1, <2>2
  <2> QED BY <2>3, <2>4 DEF EveryCloseIsTraced
<1>11. PICK y : y = IdleSync
  OBVIOUS
<1>12. SyncHolds(y) /\ syncJob' = [syncJob EXCEPT ![j] = y]
  BY <1>11, IdleSyncHolds DEF PutPoints
<1>13. syncJob' = [k \in SyncJobs |-> syncJob'[k]] /\ \A k \in SyncJobs : SyncHolds(syncJob'[k])
  BY <1>12, SyncMoves
<1>14. \A k \in SyncJobs : SyncHolds(syncJob[k])'
  BY <1>13 DEF SyncHolds
<1>15. \A k \in RevisionJobs : RevisionJobHolds(revJob[k])'
  BY <1>1 DEF BenchInv, RevisionJobHolds
<1>16. BenchInv'
  <2> HIDE DEF EveryCloseIsTraced, SyncHolds, RevisionJobHolds, RevisionOfDays
  <2>1. /\ upstream' \in [Days -> Nat] /\ revJob' = [k \in RevisionJobs |-> revJob'[k]]
        /\ \A p \in proposed' : RevisionOfDays(p)
        /\ approved' \subseteq proposed' /\ ledger' \in Seq(LedgerRow)
    BY <1>1 DEF BenchInv
  <2> QED BY <1>7, <1>8, <1>10, <1>13, <1>14, <1>15, <2>1 DEF BenchInv
<1> QED BY <1>7, <1>16

\* A proposal as a sequence: each of its entries once.
LEMMA SequenceOfSet ==
  ASSUME NEW p, IsFiniteSet(p)
  PROVE  /\ Cardinality(p) \in Nat
         /\ SetToSeq(p) \in [1 .. Cardinality(p) -> p]
         /\ \A i, k \in 1 .. Cardinality(p) : SetToSeq(p)[i] = SetToSeq(p)[k] => i = k
         /\ \A e \in p : \E i \in 1 .. Cardinality(p) : SetToSeq(p)[i] = e
<1>1. Cardinality(p) \in Nat /\ ExistsBijection(1 .. Cardinality(p), p)
  BY FS_CardinalityType
<1>2. PICK b : b \in Bijection(1 .. Cardinality(p), p)
  BY <1>1 DEF ExistsBijection
<1>3. b \in [1 .. Cardinality(p) -> p] /\ IsInjective(b)
  BY <1>2 DEF Bijection, Injection, IsInjective
<1>4. PICK o : o = SetToSeq(p)
  OBVIOUS
<1>5. o \in [1 .. Cardinality(p) -> p] /\ IsInjective(o)
  BY <1>3, <1>4 DEF SetToSeq
<1>6. \A i, k \in 1 .. Cardinality(p) : o[i] = o[k] => i = k
  BY <1>5 DEF IsInjective
<1>7. o \in Surjection(1 .. Cardinality(p), p)
  <2>1. o \in Injection(1 .. Cardinality(p), p)
    BY <1>5 DEF Injection
  <2>2. Cardinality(1 .. Cardinality(p)) = Cardinality(p)
    BY <1>1, FS_Interval
  <2> QED BY <2>1, <2>2, FS_Injection
<1>8. \A e \in p : \E i \in 1 .. Cardinality(p) : o[i] = e
  BY <1>7 DEF Surjection
<1> QED BY <1>1, <1>4, <1>5, <1>6, <1>8

\* What is appended to the ledger when a proposal is applied.
LEMMA RowsOfProposal ==
  ASSUME BenchInv, NEW p, RevisionOfDays(p)
  PROVE  /\ EntriesOf(p) \in Seq(LedgerRow) /\ Len(EntriesOf(p)) = Cardinality(p) /\ Cardinality(p) \in Nat
         /\ \A i \in 1 .. Cardinality(p) : /\ EntriesOf(p)[i].proposal = p
                                           /\ \E e \in p : EntriesOf(p)[i].day = e.day /\ EntriesOf(p)[i].close = e.close
         /\ \A e \in p : \E i \in 1 .. Cardinality(p) : EntriesOf(p)[i].day = e.day
         /\ \A i, k \in 1 .. Cardinality(p) : EntriesOf(p)[i].day = EntriesOf(p)[k].day => i = k
<1>1. PICK o, n : o = SetToSeq(p) /\ n = Cardinality(p)
  OBVIOUS
<1>2. /\ n \in Nat /\ o \in [1 .. n -> p]
      /\ \A i, k \in 1 .. n : o[i] = o[k] => i = k
      /\ \A e \in p : \E i \in 1 .. n : o[i] = e
  BY <1>1, SequenceOfSet DEF RevisionOfDays
<1>3. EntriesOf(p) = [i \in 1 .. n |-> [proposal |-> p, day |-> o[i].day, prior |-> o[i].prior,
                                        close |-> o[i].close, replaced |-> stored[o[i].day]]]
  <2>1. DOMAIN o = 1 .. n
    BY <1>2
  <2> QED BY <1>1, <2>1 DEF EntriesOf
<1>4. \A i \in 1 .. n : o[i] \in p /\ o[i] \in Replacement
  BY <1>2 DEF RevisionOfDays
<1>5. \A i \in 1 .. n : EntriesOf(p)[i] \in LedgerRow
  <2>1. TAKE i \in 1 .. n
  <2>2. o[i].day \in Days /\ o[i].prior \in Nat /\ o[i].close \in Nat \ {0}
    BY <1>4 DEF Replacement
  <2>3. stored[o[i].day] \in Nat
    BY <2>2 DEF BenchInv
  <2>4. p \in SUBSET Replacement
    BY DEF RevisionOfDays
  <2> QED BY <1>3, <2>2, <2>3, <2>4 DEF LedgerRow
<1>6. EntriesOf(p) \in Seq(LedgerRow) /\ Len(EntriesOf(p)) = n
  <2>1. EntriesOf(p) \in [1 .. n -> LedgerRow]
    BY <1>3, <1>5
  <2> QED BY <1>2, <2>1
<1>7. \A e, f \in p : e.day = f.day => e = f
  BY DEF RevisionOfDays
<1>8. \A i \in 1 .. n : EntriesOf(p)[i].proposal = p /\ EntriesOf(p)[i].day = o[i].day /\ EntriesOf(p)[i].close = o[i].close
  BY <1>3
<1>9. PICK r : r = EntriesOf(p)
  OBVIOUS
<1>10. \A i \in 1 .. n : r[i].proposal = p /\ \E e \in p : r[i].day = e.day /\ r[i].close = e.close
  BY ONLY <1>4, <1>8, <1>9
<1>11. \A e \in p : \E i \in 1 .. n : r[i].day = e.day
  BY ONLY <1>2, <1>8, <1>9
<1>12. \A i, k \in 1 .. n : r[i].day = r[k].day => i = k
  <2>1. TAKE i, k \in 1 .. n
  <2>2. HAVE r[i].day = r[k].day
  <2>3. o[i] = o[k]
    BY <1>4, <1>7, <1>8, <1>9, <2>2
  <2> QED BY <1>2, <2>3
<1>13. n = Cardinality(p)
  BY <1>1
<1> QED BY ONLY <1>2, <1>6, <1>9, <1>10, <1>11, <1>12, <1>13

LEMMA AppliedIsTraced ==
  ASSUME BenchInv, NEW p, RevisionOfDays(p), p \in approved, Applicable(p), UNCHANGED <<approved, firstClose>>,
         stored' = [d \in Days |-> IF \E e \in p : e.day = d THEN (CHOOSE e \in p : e.day = d).close ELSE stored[d]],
         ledger' = ledger \o EntriesOf(p)
  PROVE  /\ EveryCloseIsTraced' /\ ledger' \in Seq(LedgerRow) /\ stored' \in [Days -> Nat]
         /\ \A d \in Days : stored[d] # 0 => stored'[d] # 0
<1>1. PICK E, n : E = EntriesOf(p) /\ n = Cardinality(p)
  OBVIOUS
<1>2. /\ E \in Seq(LedgerRow) /\ Len(E) = n /\ n \in Nat
      /\ \A i \in 1 .. n : /\ E[i].proposal = p
                           /\ \E e \in p : E[i].day = e.day /\ E[i].close = e.close
      /\ \A e \in p : \E i \in 1 .. n : E[i].day = e.day
      /\ \A i, k \in 1 .. n : E[i].day = E[k].day => i = k
  <2>1. BenchInv /\ RevisionOfDays(p)
    OBVIOUS
  <2> QED BY ONLY <1>1, <2>1, RowsOfProposal
<1>3. PICK L, N : L = ledger' /\ N = Len(ledger)
  OBVIOUS
<1>4. ledger \in Seq(LedgerRow) /\ N \in Nat /\ DOMAIN ledger = 1 .. N
  BY <1>3 DEF BenchInv
<1>5. /\ L \in Seq(LedgerRow) /\ DOMAIN L = 1 .. (N + n)
      /\ \A i \in 1 .. N : L[i] = ledger[i]
      /\ \A i \in 1 .. n : L[N + i] = E[i]
  BY <1>1, <1>2, <1>3, <1>4
<1>6. \A e, f \in p : e.day = f.day => e = f
  BY DEF RevisionOfDays
<1>7. \A i \in 1 .. (N + n) : i \in 1 .. N \/ \E k \in 1 .. n : i = N + k
  <2>1. TAKE i \in 1 .. (N + n)
  <2>2. ~(i \in 1 .. N) => i - N \in 1 .. n /\ i = N + (i - N)
    BY <1>2, <1>4
  <2> QED BY <2>2
<1>8. ASSUME NEW d \in Days
      PROVE  LET told == {i \in DOMAIN L : L[i].day = d} IN
             stored'[d] = IF told = {} THEN firstClose[d] ELSE L[CHOOSE i \in told : \A k \in told : k <= i].close
  <2>1. PICK told : told = {i \in DOMAIN L : L[i].day = d}
    OBVIOUS
  <2>2. CASE \E e \in p : e.day = d
    <3>1. PICK e \in p : e.day = d
      BY <2>2
    <3>2. stored'[d] = e.close
      BY <1>6, <3>1
    <3>3. PICK i \in 1 .. n : E[i].day = d
      BY <1>2, <3>1
    <3>4. E[i].close = e.close
      BY <1>2, <1>6, <3>1, <3>3
    <3>5. PICK m : m = N + i
      OBVIOUS
    <3>6. m \in told /\ L[m].close = e.close
      <4>1. m \in DOMAIN L
        BY <1>2, <1>4, <1>5, <3>5
      <4> QED BY <1>5, <2>1, <3>3, <3>4, <3>5, <4>1
    <3>7. \A k \in told : k <= m
      <4>1. TAKE k \in told
      <4>2. CASE k \in 1 .. N
        BY <1>4, <3>5, <4>2
      <4>3. ASSUME NEW h \in 1 .. n, k = N + h PROVE k <= m
        <5>1. E[h].day = d
          BY <1>5, <2>1, <4>3
        <5>2. h = i
          BY <1>2, <3>3, <5>1
        <5> QED BY <1>4, <3>5, <4>3, <5>2
      <4> QED BY <1>5, <1>7, <2>1, <4>2, <4>3
    <3>8. told \subseteq Int
      BY <1>5, <2>1
    <3>9. \A x \in told : (\A k \in told : k <= x) => x = m
      BY <3>6, <3>7, <3>8
    <3>10. (CHOOSE x \in told : \A k \in told : k <= x) = m
      BY <3>6, <3>7, <3>9
    <3> QED BY <2>1, <3>2, <3>6, <3>10
  <2>3. CASE ~\E e \in p : e.day = d
    <3>1. stored'[d] = stored[d]
      BY <2>3
    <3>2. \A k \in 1 .. n : L[N + k].day # d
      <4>1. TAKE k \in 1 .. n
      <4>2. PICK e \in p : E[k].day = e.day
        BY <1>2, <4>1, SMTT(60)
      <4>3. L[N + k] = E[k]
        BY <1>5, <4>1
      <4> QED BY <2>3, <4>2, <4>3
    <3>3. told = ToldOf(d)
      <4>1. ASSUME NEW k \in told PROVE k \in ToldOf(d)
        <5>1. k \in 1 .. (N + n) /\ L[k].day = d
          BY <1>5, <2>1, <4>1
        <5>2. k \in 1 .. N
          BY <1>7, <3>2, <5>1
        <5> QED BY <1>4, <1>5, <5>1, <5>2 DEF ToldOf
      <4>2. ASSUME NEW k \in ToldOf(d) PROVE k \in told
        <5>1. k \in 1 .. N /\ ledger[k].day = d
          BY <1>4, <4>2 DEF ToldOf
        <5>2. k \in DOMAIN L /\ L[k] = ledger[k]
          BY <1>2, <1>4, <1>5, <5>1
        <5> QED BY <2>1, <5>1, <5>2
      <4> QED BY <4>1, <4>2
    <3>4. stored[d] = ToldClose(d)
      BY CloseIsTold
    <3>5. ToldOf(d) # {} => LastTold(d) \in 1 .. N
      BY <1>4, LastIsTold DEF ToldOf
    <3> QED BY <1>5, <2>1, <3>1, <3>3, <3>4, <3>5 DEF ToldClose, LastTold
  <2> QED BY <2>2, <2>3
<1>9. ASSUME NEW i \in DOMAIN L
      PROVE  /\ L[i].proposal \in approved
             /\ Cardinality({k \in DOMAIN L : L[k].proposal = L[i].proposal}) = Cardinality(L[i].proposal)
  <2>1. \A k \in 1 .. N : ledger[k].proposal # p
    BY <1>4 DEF Applicable
  <2>2. CASE i \in 1 .. N
    <3>1. PICK q : q = ledger[i].proposal
      OBVIOUS
    <3>2. q # p /\ q \in approved /\ Cardinality({k \in DOMAIN ledger : ledger[k].proposal = q}) = Cardinality(q)
      BY <1>4, <2>1, <2>2, <3>1 DEF BenchInv, EveryCloseIsTraced
    <3>3. {k \in DOMAIN L : L[k].proposal = q} = {k \in DOMAIN ledger : ledger[k].proposal = q}
      <4>1. ASSUME NEW k \in DOMAIN L, L[k].proposal = q PROVE k \in 1 .. N
        <5>1. ASSUME NEW h \in 1 .. n, k = N + h PROVE FALSE
          <6>1. L[k].proposal = p
            BY <1>2, <1>5, <5>1
          <6> QED BY <3>2, <4>1, <6>1
        <5> QED BY <1>5, <1>7, <4>1, <5>1
      <4>2. ASSUME NEW k \in 1 .. N PROVE k \in DOMAIN L /\ L[k] = ledger[k]
        BY <1>2, <1>4, <1>5
      <4> QED BY <1>4, <4>1, <4>2
    <3> QED BY <1>5, <2>2, <3>1, <3>2, <3>3
  <2>3. CASE i \notin 1 .. N
    <3>1. L[i].proposal = p
      BY <1>2, <1>5, <1>7, <2>3
    <3>2. {k \in DOMAIN L : L[k].proposal = p} = (N + 1) .. (N + n)
      <4>1. \A k \in 1 .. N : L[k].proposal # p
        BY <1>5, <2>1
      <4>2. \A k \in 1 .. n : L[N + k].proposal = p
        BY <1>2, <1>5
      <4>3. \A k \in (N + 1) .. (N + n) : k \in DOMAIN L /\ L[k].proposal = p
        <5>1. TAKE k \in (N + 1) .. (N + n)
        <5>2. k - N \in 1 .. n /\ k = N + (k - N) /\ k \in 1 .. (N + n)
          BY <1>2, <1>4
        <5> QED BY <1>5, <4>2, <5>2
      <4>4. \A k \in DOMAIN L : L[k].proposal = p => k \in (N + 1) .. (N + n)
        <5>1. TAKE k \in DOMAIN L
        <5>2. k \in 1 .. N \/ k \in (N + 1) .. (N + n)
          BY <1>2, <1>4, <1>5
        <5> QED BY <4>1, <5>2
      <4> QED BY <4>3, <4>4
    <3>3. Cardinality((N + 1) .. (N + n)) = n
      <4>1. N + 1 \in Int /\ N + n \in Int
        BY <1>2, <1>4
      <4>2. Cardinality((N + 1) .. (N + n)) = IF N + 1 > N + n THEN 0 ELSE (N + n) - (N + 1) + 1
        BY <4>1, FS_Interval
      <4> QED BY <1>2, <1>4, <4>2
    <3> QED BY <1>1, <3>1, <3>2, <3>3
  <2> QED BY <2>2, <2>3
<1>10. EveryCloseIsTraced'
  <2>1. \A d \in Days :
          LET told == {i \in DOMAIN ledger' : ledger'[i].day = d} IN
          stored'[d] = IF told = {} THEN firstClose'[d]
                       ELSE ledger'[CHOOSE i \in told : \A k \in told : k <= i].close
    <3>1. \A d \in Days :
            LET told == {i \in DOMAIN L : L[i].day = d} IN
            stored'[d] = IF told = {} THEN firstClose[d] ELSE L[CHOOSE i \in told : \A k \in told : k <= i].close
      BY <1>8
    <3>2. L = ledger' /\ firstClose' = firstClose
      BY <1>3
    <3> QED BY ONLY <3>1, <3>2
  <2>2. \A i \in DOMAIN ledger' :
          LET q == ledger'[i].proposal IN
          q \in approved' /\ Cardinality({k \in DOMAIN ledger' : ledger'[k].proposal = q}) = Cardinality(q)
    <3>1. \A i \in DOMAIN L : /\ L[i].proposal \in approved
                              /\ Cardinality({k \in DOMAIN L : L[k].proposal = L[i].proposal}) = Cardinality(L[i].proposal)
      BY <1>9
    <3>2. L = ledger' /\ approved' = approved
      BY <1>3
    <3> QED BY ONLY <3>1, <3>2
  <2> QED BY <2>1, <2>2 DEF EveryCloseIsTraced
<1>11. stored' \in [Days -> Nat] /\ \A d \in Days : stored[d] # 0 => stored'[d] # 0
  <2>1. \A e \in p : e.close \in Nat \ {0}
    BY DEF RevisionOfDays, Replacement
  <2>2. stored \in [Days -> Nat]
    BY DEF BenchInv
  <2> QED BY <2>1, <2>2
<1> QED BY <1>3, <1>5, <1>10, <1>11

LEMMA ApplyRevisionKeeps ==
  ASSUME BenchInv, NEW j \in RevisionJobs, ApplyRevision(j)
  PROVE  BenchInv' /\ \A d \in Days : stored[d] # 0 => stored'[d] # 0
<1>1. UNCHANGED <<upstream, syncJob, proposed, approved, firstClose>>
  BY DEF ApplyRevision
<1>2. PICK p : p = revJob[j].proposal
  OBVIOUS
<1>3. p \in approved /\ RevisionOfDays(p)
  BY <1>2 DEF BenchInv, RevisionJobHolds, ApplyRevision
<1>4. /\ EveryCloseIsTraced' /\ ledger' \in Seq(LedgerRow) /\ stored' \in [Days -> Nat]
      /\ \A d \in Days : stored[d] # 0 => stored'[d] # 0
  <2>1. CASE Applicable(p)
    <3>1. stored' = [d \in Days |-> IF \E e \in p : e.day = d THEN (CHOOSE e \in p : e.day = d).close ELSE stored[d]]
          /\ ledger' = ledger \o EntriesOf(p)
      BY <1>2, <2>1 DEF ApplyRevision
    <3>2. approved' = approved /\ firstClose' = firstClose
      BY <1>1
    <3> HIDE DEF BenchInv, EveryCloseIsTraced, RevisionOfDays, LedgerRow, Applicable
    <3> QED BY <1>3, <2>1, <3>1, <3>2, AppliedIsTraced
  <2>2. CASE ~Applicable(p)
    <3>1. stored' = stored /\ ledger' = ledger
      BY <1>2, <2>2 DEF ApplyRevision
    <3>2. EveryCloseIsTraced'
      BY <1>1, <3>1, TracedRests DEF BenchInv
    <3> QED BY <3>1, <3>2 DEF BenchInv
  <2> QED BY <2>1, <2>2
<1>5. PICK y : y = IdleRevision
  OBVIOUS
<1>6. RevisionJobHolds(y)' /\ revJob' = [revJob EXCEPT ![j] = y]
  BY <1>5, IdleRevisionHolds DEF ApplyRevision
<1>7. /\ revJob' = [k \in RevisionJobs |-> revJob'[k]]
      /\ \A k \in RevisionJobs : revJob'[k] = revJob[k] \/ \E x : revJob'[k] = x /\ RevisionJobHolds(x)'
  BY <1>6, RevisionMoves
<1>8. \A k \in RevisionJobs : RevisionJobHolds(revJob[k])'
  <2>1. TAKE k \in RevisionJobs
  <2>2. CASE revJob'[k] = revJob[k]
    <3>1. RevisionJobHolds(revJob[k])
      BY DEF BenchInv
    <3> QED BY <1>1, <2>2, <3>1 DEF RevisionJobHolds
  <2>3. CASE \E x : revJob'[k] = x /\ RevisionJobHolds(x)'
    BY <2>3 DEF RevisionJobHolds
  <2> QED BY <1>7, <2>2, <2>3
<1>9. \A k \in SyncJobs : SyncHolds(syncJob[k])'
  BY <1>1 DEF BenchInv, SyncHolds
<1>10. BenchInv'
  <2> HIDE DEF EveryCloseIsTraced, SyncHolds, RevisionJobHolds, RevisionOfDays
  <2>1. /\ upstream' \in [Days -> Nat] /\ syncJob' = [k \in SyncJobs |-> syncJob'[k]]
        /\ \A q \in proposed' : RevisionOfDays(q)
        /\ approved' \subseteq proposed' /\ firstClose' \in [Days -> Nat]
    BY <1>1 DEF BenchInv
  <2> QED BY <1>4, <1>7, <1>8, <1>9, <2>1 DEF BenchInv
<1> QED BY <1>4, <1>10

LEMMA BenchKeeps ==
  ASSUME BenchInv, [BenchNext]_benchVars
  PROVE  BenchInv' /\ \A d \in Days : stored[d] # 0 => stored'[d] # 0
<1>1. CASE SessionEnds \/ UNCHANGED benchVars
  <2>1. UNCHANGED <<upstream, stored, ledger, syncJob, revJob, proposed, approved, firstClose>>
    BY <1>1 DEF SessionEnds, benchVars
  <2>2. upstream' \in [Days -> Nat] /\ approved' \subseteq proposed'
    BY <2>1 DEF BenchInv
  <2>3. BenchInv'
    BY <2>1, <2>2, SyncsRest, RevisionsRest, BenchRests
  <2> QED BY <2>1, <2>3
<1>2. ASSUME NEW d \in Days, NEW c \in Closes, UpstreamMoves(d, c)
      PROVE  BenchInv' /\ \A x \in Days : stored[x] # 0 => stored'[x] # 0
  <2>1. UNCHANGED <<stored, ledger, syncJob, revJob, proposed, approved, firstClose>>
    BY <1>2 DEF UpstreamMoves
  <2>2. upstream' \in [Days -> Nat] /\ approved' \subseteq proposed'
    BY <1>2, <2>1, BenchAssumption DEF BenchInv, UpstreamMoves
  <2>3. BenchInv'
    BY <2>1, <2>2, SyncsRest, RevisionsRest, BenchRests
  <2> QED BY <2>1, <2>3
<1>3. ASSUME NEW j \in SyncJobs, NEW b \in Days, NEW t \in Days, FetchCandidates(j, b, t)
      PROVE  BenchInv' /\ \A d \in Days : stored[d] # 0 => stored'[d] # 0
  <2>1. stored' = stored
    BY <1>3 DEF FetchCandidates
  <2> QED BY <1>3, <2>1, FetchKeeps
<1>4. ASSUME NEW j \in SyncJobs, PlanSync(j) \/ DryRun(j)
      PROVE  BenchInv' /\ \A d \in Days : stored[d] # 0 => stored'[d] # 0
  <2>1. stored' = stored
    BY <1>4 DEF PlanSync, DryRun
  <2> QED BY <1>4, <2>1, PlanSyncKeeps, DryRunKeeps
<1>5. ASSUME NEW j \in SyncJobs, PutPoints(j)
      PROVE  BenchInv' /\ \A d \in Days : stored[d] # 0 => stored'[d] # 0
  BY <1>5, PutPointsKeeps
<1>6. ASSUME NEW p \in proposed, Approve(p)
      PROVE  BenchInv' /\ \A d \in Days : stored[d] # 0 => stored'[d] # 0
  <2>1. stored' = stored
    BY <1>6 DEF Approve
  <2> QED BY <1>6, <2>1, ApproveKeeps
<1>7. ASSUME NEW j \in RevisionJobs,
             ReadForRevision(j) \/ (\E p \in approved, r \in BOOLEAN : PostRevision(j, p, r))
               \/ GiveUpRevision(j) \/ PlanRevision(j)
      PROVE  BenchInv' /\ \A d \in Days : stored[d] # 0 => stored'[d] # 0
  <2>1. stored' = stored
    BY <1>7 DEF ReadForRevision, PostRevision, GiveUpRevision, PlanRevision
  <2> QED BY <1>7, <2>1, RevisionCommandKeeps
<1>8. ASSUME NEW j \in RevisionJobs, ApplyRevision(j)
      PROVE  BenchInv' /\ \A d \in Days : stored[d] # 0 => stored'[d] # 0
  BY <1>8, ApplyRevisionKeeps
<1> HIDE DEF BenchInv
<1> QED BY <1>1, <1>2, <1>3, <1>4, <1>5, <1>6, <1>7, <1>8 DEF BenchNext

\* The inception: a stored day up to which nothing is stored.
LEMMA InceptionIs ==
  ASSUME NEW f \in [Days -> Nat], NEW x,
         x = IF \A d \in Days : f[d] = 0 THEN MaxDay + 1
             ELSE CHOOSE d \in Days : f[d] # 0 /\ \A e \in Days : f[e] # 0 => d <= e
  PROVE  /\ (\A d \in Days : f[d] = 0) => x = MaxDay + 1
         /\ (\E d \in Days : f[d] # 0) => x \in Days /\ f[x] # 0 /\ \A e \in Days : f[e] # 0 => x <= e
<1>1. PICK S : S = {d \in Days : f[d] # 0}
  OBVIOUS
<1>2. S \subseteq Nat
  BY <1>1 DEF Days
<1>3. S # {} => \E d \in S : \A e \in S : d <= e
  BY <1>2, LeastOf
<1>4. S # {} => \E d \in Days : f[d] # 0 /\ \A e \in Days : f[e] # 0 => d <= e
  BY <1>1, <1>3
<1> QED BY <1>1, <1>4

LEMMA BenchSteps == BenchInv /\ [BenchNext]_benchVars => GrowsStep
<1> SUFFICES ASSUME BenchInv, [BenchNext]_benchVars PROVE GrowsStep
  OBVIOUS
<1>1. (\A d \in Days : stored[d] # 0 => stored'[d] # 0) /\ BenchInv'
  BY BenchKeeps
<1>2. stored \in [Days -> Nat] /\ stored' \in [Days -> Nat]
  BY <1>1 DEF BenchInv
<1>3. PICK x, y : x = Inception /\ y = Inception'
  OBVIOUS
<1>4. /\ (\A d \in Days : stored[d] = 0) => x = MaxDay + 1
      /\ (\E d \in Days : stored[d] # 0) => x \in Days /\ stored[x] # 0 /\ \A e \in Days : stored[e] # 0 => x <= e
  <2>1. x = IF \A d \in Days : stored[d] = 0 THEN MaxDay + 1
            ELSE CHOOSE d \in Days : stored[d] # 0 /\ \A e \in Days : stored[e] # 0 => d <= e
    BY <1>3 DEF Inception
  <2> QED BY <1>2, <2>1, InceptionIs, SMTT(60)
<1>5. /\ (\A d \in Days : stored'[d] = 0) => y = MaxDay + 1
      /\ (\E d \in Days : stored'[d] # 0) => y \in Days /\ stored'[y] # 0 /\ \A e \in Days : stored'[e] # 0 => y <= e
  <2>1. y = IF \A d \in Days : stored'[d] = 0 THEN MaxDay + 1
            ELSE CHOOSE d \in Days : stored'[d] # 0 /\ \A e \in Days : stored'[e] # 0 => d <= e
    BY <1>3 DEF Inception
  <2>2. PICK f : f = stored'
    OBVIOUS
  <2>3. f \in [Days -> Nat] /\ y = IF \A d \in Days : f[d] = 0 THEN MaxDay + 1
                                   ELSE CHOOSE d \in Days : f[d] # 0 /\ \A e \in Days : f[e] # 0 => d <= e
    BY <1>2, <2>1, <2>2
  <2>4. /\ (\A d \in Days : f[d] = 0) => y = MaxDay + 1
        /\ (\E d \in Days : f[d] # 0) => y \in Days /\ f[y] # 0 /\ \A e \in Days : f[e] # 0 => y <= e
    BY <2>3, InceptionIs
  <2> QED BY <2>2, <2>4
<1>6. y <= x
  <2>1. Days = 1 .. MaxDay /\ MaxDay \in Nat
    BY BenchAssumption DEF Days
  <2> QED BY <1>1, <1>4, <1>5, <2>1
<1>7. \A b, t \in Days : WindowShown(b, t) => WindowShown(b, t)'
  BY <1>1 DEF WindowShown
<1> QED BY <1>3, <1>6, <1>7 DEF GrowsStep

-----------------------------------------------------------------------------
(* The records of a broker: what is stored is well formed, and what a report adds *)
(* keeps or completes it.                                                          *)

ExecutionShape(e) == e = [ref |-> e.ref, terms |-> e.terms, fee |-> e.fee]
FlowHolds(ws) == WellFormedFlow(ws) /\ IsFiniteSet(ws) /\ \A w \in ws : w.to \in Nat
RecordsInv ==
  /\ bound \in FlowBindings /\ formerSources \subseteq RecordSources
  /\ \A f, g \in flow : f = g
  /\ \A f \in flow : FlowHolds(f.windows)
  /\ executions = [s \in RecordSources |-> executions[s]]
  /\ \A s \in RecordSources : \A x \in executions[s] : \A e \in x.records : ExecutionShape(e)

LEMMA RecordsStart == RecordsInit => RecordsInv
  BY DEF RecordsInit, RecordsInv

LEMMA StoredHolds == ASSUME RecordsInv PROVE FlowHolds(Stored)
<1>1. CASE \E f \in flow : f.binding = bound
  <2>1. PICK f \in flow : f.binding = bound
    BY <1>1
  <2>2. Stored = f.windows
    BY <2>1 DEF Stored, RecordsInv
  <2> QED BY <2>2 DEF RecordsInv
<1>2. CASE ~\E f \in flow : f.binding = bound
  <2>1. Stored = {}
    BY <1>2 DEF Stored
  <2> QED BY <2>1, FS_EmptySet DEF FlowHolds, WellFormedFlow, OverlapFree, FlowRecords
<1> QED BY <1>1, <1>2

LEMMA KeptHolds == ASSUME RecordsInv, NEW s \in RecordSources PROVE \A e \in KeptOf(s) : ExecutionShape(e)
  BY DEF RecordsInv, KeptOf

LEMMA BoundSource == ASSUME RecordsInv PROVE bound.source \in RecordSources
  BY DEF RecordsInv, RecordSources

LEMMA PutFlowKeeps ==
  ASSUME RecordsInv, NEW ws \in ReportedFlows, PutFlow(ws)
  PROVE  RecordsInv'
<1>1. UNCHANGED <<bound, formerSources, executions>>
  BY DEF PutFlow
<1>2. CASE FlowFits(ws)
  <2>1. PICK all : all = MergedFlow(Stored, ws)
    OBVIOUS
  <2>2. WellFormedFlow(all)
    BY <1>2, <2>1 DEF FlowFits
  <2>3. all \subseteq Stored \cup ws
    BY <2>1 DEF MergedFlow
  <2>4. FlowHolds(Stored) /\ IsFiniteSet(ws) /\ \A w \in ws : w.to \in Nat
    BY StoredHolds, RecordsAssumption DEF ReportedFlows
  <2>5. IsFiniteSet(all)
    <3>1. IsFiniteSet(Stored \cup ws)
      BY <2>4, FS_Union DEF FlowHolds
    <3> QED BY <2>3, <3>1, FS_Subset
  <2>6. FlowHolds(all)
    BY <2>2, <2>3, <2>4, <2>5 DEF FlowHolds
  <2>7. flow' = {[binding |-> bound, windows |-> all]}
    BY <1>2, <2>1 DEF PutFlow
  <2> HIDE DEF FlowHolds
  <2> QED BY <1>1, <2>6, <2>7 DEF RecordsInv
<1>3. CASE ~FlowFits(ws)
  <2>1. flow' = flow
    BY <1>3 DEF PutFlow
  <2> QED BY <1>1, <2>1 DEF RecordsInv
<1> QED BY <1>2, <1>3

LEMMA MergedOf == ASSUME NEW e, NEW new PROVE MergeRecord(e, new) \in new \cup {e} /\ MergeRecord(e, new).ref = e.ref
  BY DEF MergeRecord

LEMMA PutExecutionsKeeps ==
  ASSUME RecordsInv, NEW new \in ExecutionReports, PutExecutions(new)
  PROVE  RecordsInv'
<1>1. UNCHANGED <<bound, formerSources, flow>>
  BY DEF PutExecutions
<1>2. PICK x : x = [account |-> bound.account, records |-> MergedExecutions(KeptOf(bound.source), new)]
  OBVIOUS
<1>3. executions' \in {executions, [executions EXCEPT ![bound.source] = {x}]}
  BY <1>2 DEF PutExecutions
<1>4. \A e \in x.records : ExecutionShape(e)
  <2>1. \A e \in new : ExecutionShape(e)
    BY RecordsAssumption DEF ExecutionShape
  <2>2. \A e \in KeptOf(bound.source) : ExecutionShape(e)
    BY BoundSource, KeptHolds
  <2>3. x.records \subseteq new \cup KeptOf(bound.source)
    BY <1>2, MergedOf DEF MergedExecutions
  <2> QED BY <2>1, <2>2, <2>3
<1>5. \A s \in RecordSources : executions'[s] \in {executions[s], {x}}
  BY <1>3 DEF RecordsInv
<1>6. executions' = [s \in RecordSources |-> executions'[s]]
  BY <1>3 DEF RecordsInv
<1>7. \A s \in RecordSources : \A y \in executions'[s] : \A e \in y.records : ExecutionShape(e)
  BY <1>4, <1>5 DEF RecordsInv
<1> HIDE DEF ExecutionShape, FlowHolds
<1> QED BY <1>1, <1>6, <1>7 DEF RecordsInv

LEMMA RecordsKeep ==
  ASSUME RecordsInv, [RecordsNext]_recordVars
  PROVE  RecordsInv'
<1>1. CASE BindRecords \/ UNCHANGED recordVars
  BY <1>1 DEF BindRecords, recordVars, RecordsInv
<1> QED BY <1>1, PutFlowKeeps, PutExecutionsKeeps DEF RecordsNext

LEMMA RecordsOfInv == RecordsInv => RecordsAreOne
<1> SUFFICES ASSUME RecordsInv PROVE RecordsAreOne
  OBVIOUS
<1>1. WellFormedFlow(Stored)
  BY StoredHolds DEF FlowHolds
<1>2. \A e \in ApprovedRecords : ExecutionShape(e)
  BY BoundSource, KeptHolds DEF ApprovedRecords, RecordsInv
<1>3. ASSUME ReadableExecutions, NEW e \in ApprovedRecords, NEW f \in ApprovedRecords, e.ref = f.ref
      PROVE  MergeRecord(e, ApprovedRecords) = MergeRecord(f, ApprovedRecords)
  <2>1. CASE \E g \in ApprovedRecords : g.ref = e.ref /\ g.fee # 0
    BY <1>3, <2>1 DEF MergeRecord
  <2>2. CASE ~\E g \in ApprovedRecords : g.ref = e.ref /\ g.fee # 0
    <3>1. e.fee = 0 /\ f.fee = 0
      BY <1>3, <2>2
    <3>2. e.terms = f.terms
      BY <1>3 DEF ReadableExecutions, Agrees
    <3>3. e = f
      BY <1>2, <1>3, <3>1, <3>2 DEF ExecutionShape
    <3> QED BY <3>3
  <2> QED BY <2>1, <2>2
<1>4. \A e, f \in ReadExecutions : e.ref = f.ref => e = f
  <2> SUFFICES ASSUME NEW e \in ReadExecutions, NEW f \in ReadExecutions, e.ref = f.ref PROVE e = f
    OBVIOUS
  <2>1. ReadableExecutions
    BY DEF ReadExecutions
  <2>2. PICK x, y : x \in ApprovedRecords /\ y \in ApprovedRecords
                    /\ e = MergeRecord(x, ApprovedRecords) /\ f = MergeRecord(y, ApprovedRecords)
    BY <2>1 DEF ReadExecutions
  <2>3. x.ref = y.ref
    BY <2>2, MergedOf
  <2> QED BY <1>3, <2>1, <2>2, <2>3
<1> QED BY <1>1, <1>4 DEF RecordsAreOne

\* A window that a merge drops has left the retention of one that stays.
LEMMA MergeRetains ==
  ASSUME NEW old, NEW ws, IsFiniteSet(old), IsFiniteSet(ws), \A w \in old \cup ws : w.to \in Nat,
         NEW w \in old, \A v \in ws : Key(v) # Key(w)
  PROVE  w \in MergedFlow(old, ws) \/ \E v \in MergedFlow(old, ws) : w.to < v.to - FlowRetention
<1>1. PICK all : all = {x \in old : \A v \in ws : Key(v) # Key(x)} \cup ws
  OBVIOUS
<1>2. w \in all /\ all \subseteq old \cup ws
  BY <1>1
<1>3. MergedFlow(old, ws) = {x \in all : \A v \in all : x.to >= v.to - FlowRetention}
  BY <1>1 DEF MergedFlow
<1>4. PICK times : times = {x.to : x \in all}
  OBVIOUS
<1>5. times \subseteq Nat /\ times # {} /\ IsFiniteSet(times)
  <2>1. IsFiniteSet(all)
    <3>1. IsFiniteSet(old \cup ws)
      BY FS_Union
    <3> QED BY <1>2, <3>1, FS_Subset
  <2>2. PICK f : f = [x \in all |-> x.to]
    OBVIOUS
  <2>3. f \in Surjection(all, times)
    BY <1>4, <2>2 DEF Surjection
  <2>4. IsFiniteSet(times)
    BY <2>1, <2>3, FS_Surjection
  <2> QED BY <1>2, <1>4, <2>4
<1>6. PICK t \in times : \A u \in times : u <= t
  BY <1>5, GreatestOf
<1>7. PICK v \in all : v.to = t
  BY <1>4, <1>6
<1>8. \A x \in all : x.to \in Nat /\ x.to <= v.to
  BY <1>2, <1>4, <1>6, <1>7
<1>9. v \in MergedFlow(old, ws)
  BY <1>3, <1>7, <1>8, RecordsAssumption
<1>10. CASE w.to < v.to - FlowRetention
  BY <1>9, <1>10
<1>11. CASE ~(w.to < v.to - FlowRetention)
  <2>1. \A x \in all : w.to >= x.to - FlowRetention
    BY <1>2, <1>7, <1>8, <1>11, RecordsAssumption
  <2> QED BY <1>2, <1>3, <2>1
<1> QED BY <1>10, <1>11

LEMMA StoredAfter ==
  ASSUME NEW ws, PutFlow(ws), FlowFits(ws)
  PROVE  Stored' = MergedFlow(Stored, ws)
<1>1. PICK all : all = MergedFlow(Stored, ws)
  OBVIOUS
<1>2. PICK f : f = [binding |-> bound, windows |-> all]
  OBVIOUS
<1>3. flow' = {f} /\ bound' = bound
  BY <1>1, <1>2 DEF PutFlow
<1>4. f.binding = bound' /\ f.windows = all
  BY <1>2, <1>3
<1>5. Stored' = all
  BY <1>3, <1>4 DEF Stored
<1> QED BY <1>1, <1>5

WindowStays(w) ==
  \/ \E v \in Stored' : Key(v) = Key(w) /\ w.records \subseteq v.records
  \/ \E v \in Stored' : w.to < v.to - FlowRetention
ExecutionStays(s, e) ==
  \E f \in KeptOf(s)' : f.ref = e.ref /\ f.terms = e.terms /\ e.fee \in {0, f.fee}

LEMMA SameWindow == ASSUME Stored' = Stored, NEW w \in Stored PROVE WindowStays(w)
  BY DEF WindowStays

LEMMA SameExecution ==
  ASSUME NEW s, KeptOf(s)' = KeptOf(s), NEW e \in KeptOf(s)
  PROVE  ExecutionStays(s, e)
  BY DEF ExecutionStays

LEMMA WindowsStay ==
  ASSUME RecordsInv, NEW ws \in ReportedFlows, PutFlow(ws), NEW w \in Stored
  PROVE  WindowStays(w)
<1>1. CASE ~FlowFits(ws)
  <2>1. flow' = flow /\ bound' = bound
    BY <1>1 DEF PutFlow
  <2>2. Stored' = Stored
    BY <2>1 DEF Stored
  <2> QED BY <2>2, SameWindow, SameExecution
<1>2. CASE FlowFits(ws)
  <2>1. PICK old : old = Stored
    OBVIOUS
  <2>2. Stored' = MergedFlow(old, ws)
    BY <1>2, <2>1, StoredAfter
  <2>3. CASE \E v \in ws : Key(v) = Key(w)
    <3>1. PICK v \in ws : Key(v) = Key(w)
      BY <2>3
    <3>2. w.records \subseteq v.records
      BY <1>2, <3>1 DEF FlowFits, Completes
    <3>3. v \in Stored'
      BY <1>2, <2>1, <2>2, <3>1 DEF FlowFits
    <3> QED BY <3>1, <3>2, <3>3 DEF WindowStays
  <2>4. CASE \A v \in ws : Key(v) # Key(w)
    <3>1. IsFiniteSet(old) /\ IsFiniteSet(ws) /\ \A x \in old \cup ws : x.to \in Nat
      BY <2>1, StoredHolds, RecordsAssumption DEF FlowHolds, ReportedFlows
    <3>2. w \in Stored' \/ \E v \in Stored' : w.to < v.to - FlowRetention
      BY <2>1, <2>2, <2>4, <3>1, MergeRetains
    <3> QED BY <3>2 DEF WindowStays
  <2> QED BY <2>3, <2>4
<1> QED BY <1>1, <1>2

LEMMA ExecutionsStay ==
  ASSUME RecordsInv, NEW new \in ExecutionReports, PutExecutions(new), NEW s \in RecordSources, NEW e \in KeptOf(s)
  PROVE  ExecutionStays(s, e)
<1>1. bound' = bound
  BY DEF PutExecutions
<1>2. PICK old : old = KeptOf(bound.source)
  OBVIOUS
<1>3. PICK x : x = [account |-> bound.account, records |-> MergedExecutions(old, new)]
  OBVIOUS
<1>4. CASE s = bound.source /\ \A d \in old, f \in new : Agrees(d, f)
  <2>1. executions' = [executions EXCEPT ![s] = {x}]
    BY <1>2, <1>3, <1>4 DEF PutExecutions
  <2>2. executions'[s] = {x}
    BY <2>1 DEF RecordsInv
  <2>3. x.account = bound'.account /\ x.records = MergedExecutions(old, new)
    BY <1>1, <1>3
  <2>4. KeptOf(s)' = MergedExecutions(old, new)
    BY <2>2, <2>3 DEF KeptOf
  <2>5. MergeRecord(e, new) \in KeptOf(s)'
    BY <1>2, <1>4, <2>4 DEF MergedExecutions
  <2>6. /\ MergeRecord(e, new).ref = e.ref
        /\ MergeRecord(e, new).terms = e.terms
        /\ e.fee \in {0, MergeRecord(e, new).fee}
    <3>1. \A f \in new : f.ref = e.ref => e.terms = f.terms /\ (f.fee # 0 => e.fee \in {0, f.fee})
      BY <1>2, <1>4 DEF Agrees
    <3> QED BY <3>1 DEF MergeRecord
  <2> QED BY <2>5, <2>6 DEF ExecutionStays
<1>5. CASE ~(s = bound.source /\ \A d \in old, f \in new : Agrees(d, f))
  <2>1. executions'[s] = executions[s]
    <3>1. CASE executions' = executions
      BY <3>1
    <3>2. CASE executions' # executions
      <4>1. executions' = [executions EXCEPT ![bound.source] = {x}] /\ s # bound.source
        BY <1>2, <1>3, <1>5, <3>2 DEF PutExecutions
      <4> QED BY <4>1 DEF RecordsInv
    <3> QED BY <3>1, <3>2
  <2>2. KeptOf(s)' = KeptOf(s)
    BY <1>1, <2>1 DEF KeptOf
  <2> QED BY <2>2, SameWindow, SameExecution
<1> QED BY <1>4, <1>5

LEMMA RecordsSteps ==
  ASSUME RecordsInv, [RecordsNext]_recordVars
  PROVE  StaysStep
<1> SUFFICES ASSUME UNCHANGED bound
             PROVE  /\ \A w \in Stored : WindowStays(w)
                    /\ \A s \in RecordSources : \A e \in KeptOf(s) : ExecutionStays(s, e)
  BY DEF StaysStep, WindowStays, ExecutionStays
<1>1. ASSUME UNCHANGED flow PROVE Stored' = Stored
  BY <1>1 DEF Stored
<1>2. ASSUME UNCHANGED executions, NEW s PROVE KeptOf(s)' = KeptOf(s)
  BY <1>2 DEF KeptOf
<1>3. CASE \E ws \in ReportedFlows : PutFlow(ws)
  <2>1. UNCHANGED executions
    BY <1>3 DEF PutFlow
  <2> QED BY <1>2, <1>3, <2>1, WindowsStay, SameWindow, SameExecution
<1>4. CASE \E new \in ExecutionReports : PutExecutions(new)
  <2>1. UNCHANGED flow
    BY <1>4 DEF PutExecutions
  <2> QED BY <1>1, <1>4, <2>1, ExecutionsStay, SameWindow, SameExecution
<1>5. CASE UNCHANGED <<flow, executions>>
  BY <1>1, <1>2, <1>5, SameWindow, SameExecution
<1>6. ~BindRecords
  BY DEF BindRecords
<1> QED BY <1>3, <1>4, <1>5, <1>6 DEF RecordsNext, recordVars

-----------------------------------------------------------------------------
(* What is measured, each in its part.                                            *)

FactsPartsInv ==
  /\ part = "cycle" => CycleInv
  /\ part = "bench" => BenchInv
  /\ part = "facts" => FactsInv
  /\ part = "native" => NativeInv
  /\ part = "records" => RecordsInv

LEMMA FactsPartsStart == Init => FactsPartsInv
<1> SUFFICES ASSUME Init PROVE FactsPartsInv
  OBVIOUS
<1>1. /\ part = "cycle" => CycleInit
      /\ part = "bench" => BenchInit
      /\ part = "facts" => FactsInit
      /\ part = "native" => NativeInit
      /\ part = "records" => RecordsInit
  BY DEF Init
<1> QED BY <1>1, CycleStarts, BenchStarts, FactsStart, NativeStarts, RecordsStart DEF FactsPartsInv

LEMMA FactsPartsStep ==
  ASSUME [Next]_vars
  PROVE  /\ part' = part
         /\ part = "cycle" => [CycleNext]_cycleVars
         /\ part = "bench" => [BenchNext]_benchVars
         /\ part = "facts" => [FactsNext]_factVars
         /\ part = "native" => [NativeNext]_nativeVars
         /\ part = "records" => [RecordsNext]_recordVars
  BY DEF Next, vars

LEMMA FactsPartsKeep ==
  ASSUME FactsPartsInv, [Next]_vars
  PROVE  FactsPartsInv'
<1>1. ASSUME part' = "cycle" PROVE CycleInv'
  BY <1>1, FactsPartsStep, CycleKeeps DEF FactsPartsInv
<1>2. ASSUME part' = "bench" PROVE BenchInv'
  BY <1>2, FactsPartsStep, BenchKeeps DEF FactsPartsInv
<1>3. ASSUME part' = "facts" PROVE FactsInv'
  BY <1>3, FactsPartsStep, FactsKeeps DEF FactsPartsInv
<1>4. ASSUME part' = "native" PROVE NativeInv'
  BY <1>4, FactsPartsStep, NativeKeeps DEF FactsPartsInv
<1>5. ASSUME part' = "records" PROVE RecordsInv'
  BY <1>5, FactsPartsStep, RecordsKeep DEF FactsPartsInv
<1> QED BY <1>1, <1>2, <1>3, <1>4, <1>5 DEF FactsPartsInv

\* Of what is measured: what a runtime's checkpoint, its faults and its summary say is what
\* the log of its attempts says, and what it says of its coverage was scanned; a stored close is the first one read or that of the last revision
\* of its day, a revision applied was approved and an approved one proposed; an account has
\* one latest snapshot and its day is among its days; a source states one interval, and one
\* return per day; what is stored of a broker's flows covers no instant twice.
THEOREM FactsInvariant == Spec => []FactsPartsInv
<1>1. FactsPartsInv /\ [Next]_vars => FactsPartsInv'
  BY FactsPartsKeep
<1> QED BY FactsPartsStart, <1>1, PTL DEF Spec

\* No step of a store takes back what was reported: no close of a benchmark disappears, so
\* that its inception moves only back and a window once shown stays shown; the latest
\* snapshot of an account gives way only to a later one; the interval an account shows goes
\* back neither in its day nor in when it was observed while its source stays bound; and a
\* movement of money or an execution once accepted stays as it was accepted.
THEOREM FactsNeverTakenBack == Spec => NothingGoesBack
<1>1. FactsPartsInv /\ [Next]_vars => /\ part = "bench" => GrowsStep
                                      /\ part = "facts" => ForwardStep
                                      /\ part = "native" => IntervalStep
                                      /\ part = "records" => StaysStep
  BY FactsPartsStep, BenchSteps, FactsSteps, NativeSteps, RecordsSteps DEF FactsPartsInv
<1> QED BY FactsInvariant, <1>1, PTL DEF Spec, NothingGoesBack

\* What is told of a measured fact is the fact: the summary of a runtime's cycles is what
\* the history of its attempts gives, a complete one covers every cycle required of it, and
\* a walk over the pages of the history is that of one moment; every close stored for a
\* benchmark is the first one read or that of an approved revision; an account's latest day
\* is kept, the total of the accounts counts each portfolio once, at its newest, and a source
\* has one owner; the two readers of the returns a broker states agree; and a movement of
\* money or an execution is stored once, however often it is sent.
THEOREM FactsAlwaysTrue == Spec => []FactsAreTrue
<1>1. FactsPartsInv => FactsAreTrue
  <2> SUFFICES ASSUME FactsPartsInv PROVE FactsAreTrue
    OBVIOUS
  <2>1. part = "cycle" => SummaryIsHistory /\ CompleteIsCovered /\ WalkIsASnapshot
    BY CycleOfInv DEF FactsPartsInv
  <2>2. part = "bench" => EveryCloseIsTraced
    BY DEF FactsPartsInv, BenchInv
  <2>3. part = "facts" => LatestDayIsKept /\ TotalCountsOnce /\ OneOwnerPerSource
    <3>1. part = "facts" => FactsInv
      BY DEF FactsPartsInv
    <3>2. FactsInv => LatestDayIsKept
      BY DEF FactsInv
    <3> QED BY <3>1, <3>2, TotalOfInv, OwnersOfInv
  <2>4. part = "native" => ReadersAgree
    BY ReadersOfInv DEF FactsPartsInv
  <2>5. part = "records" => RecordsAreOne
    BY RecordsOfInv DEF FactsPartsInv
  <2> QED BY <2>1, <2>2, <2>3, <2>4, <2>5 DEF FactsAreTrue
<1> QED BY FactsInvariant, <1>1, PTL DEF Spec
=============================================================================
