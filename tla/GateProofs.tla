------------------------------ MODULE GateProofs ------------------------------
(* Theorems about the gates, the reports and the writers of runtime settings, for *)
(* any papers, limits, targets, runs and jobs.                                    *)
EXTENDS MCGates, SettingsProofs, FiniteSetTheorems, SequenceTheorems, WellFoundedInduction, TLAPS

-----------------------------------------------------------------------------
(* The policy gate.                                                               *)

Window == [created : Nat, effective : Nat, expires : Nat]
WindowsOf(p) == {p.root.window, p.policy.window, p.activation.window, p.risk.window, p.admission.window}
GateSteps == {"root", "policy", "activation", "passed", "admission", "admitted", "denied"}
GateTypeOK ==
  /\ now \in Nat
  /\ \A w \in WindowsOf(papers) : w \in Window
  /\ check \in [step : GateSteps, scheme : {"ssh", "kms"}, at : Int]
  /\ receipt = NoReceipt \/
       receipt \in [issued : {TRUE}, used : Int, verifiedAt : Int, policy : Window,
                    activation : Window, rootExpires : Int]

\* How far the check has come, its papers lie within each other.
PapersAreNested ==
  /\ check.step \in {"activation", "passed", "admission", "admitted"} =>
       Inside(papers.policy.window, papers.root.window)
  /\ check.step \in {"passed", "admission", "admitted"} =>
       Inside(papers.activation.window, papers.policy.window)
  /\ check.step = "admitted" =>
       /\ Inside(papers.admission.window, papers.risk.window)
       /\ Inside(papers.admission.window, papers.activation.window)
       /\ Holds(papers.admission.window, check.at)

\* A receipt stands for the papers it was issued over.
ReceiptStandsForPapers ==
  receipt.issued =>
    /\ receipt.policy = papers.policy.window /\ receipt.activation = papers.activation.window
    /\ receipt.rootExpires = papers.root.window.expires
    /\ Inside(papers.policy.window, papers.root.window)
    /\ receipt.used >= 0 => ReceiptHolds(receipt, receipt.used)

GateInv == GateTypeOK /\ PapersAreNested /\ ReceiptStandsForPapers

LEMMA GateStarts == GateInit => GateInv
<1> SUFFICES ASSUME GateInit PROVE GateInv
  OBVIOUS
<1>1. now \in Nat /\ receipt = NoReceipt /\ check \in [step : {"root"}, scheme : {"ssh", "kms"}, at : {0}]
  BY DEF GateInit
<1>2. \A w \in WindowsOf(papers) : w \in Window
  <2>1. ASSUME NEW f, NEW wr \in PaperWindows, NEW wp \in PaperWindows, NEW wa \in PaperWindows,
               NEW wk \in PaperWindows, NEW wd \in PaperWindows
        PROVE  WindowsOf(Presented(f, wr, wp, wa, wk, wd)) = {wr, wp, wa, wk, wd}
    BY DEF Presented, WindowsOf
  <2> QED
    BY <2>1, GateAssumption DEF GateInit, Window
<1>3. GateTypeOK
  BY <1>1, <1>2 DEF GateTypeOK, GateSteps
<1> QED
  BY <1>1, <1>3 DEF GateInv, PapersAreNested, ReceiptStandsForPapers, NoReceipt

LEMMA WindowFacts ==
  ASSUME GateTypeOK
  PROVE  /\ papers.root.window \in Window /\ papers.policy.window \in Window
         /\ papers.activation.window \in Window /\ papers.risk.window \in Window
         /\ papers.admission.window \in Window
BY DEF GateTypeOK, WindowsOf

\* A step of a check, whatever its guard: what it takes to keep the invariant.
LEMMA StepKeeps ==
  ASSUME GateInv, NEW at \in GateSteps, NEW next \in GateSteps, NEW guard \in BOOLEAN,
         Step(at, guard, next), at # "denied", at # "admitted",
         guard => /\ next \in {"activation", "passed", "admission", "admitted"} =>
                       Inside(papers.policy.window, papers.root.window)
                  /\ next \in {"passed", "admission", "admitted"} =>
                       Inside(papers.activation.window, papers.policy.window)
                  /\ next = "admitted" =>
                       /\ Inside(papers.admission.window, papers.risk.window)
                       /\ Inside(papers.admission.window, papers.activation.window)
                       /\ Holds(papers.admission.window, now)
  PROVE  GateInv'
<1>0. UNCHANGED <<now, papers, receipt>> /\ GateTypeOK /\ check.step = at
  BY DEF Step, GateInv
<1>00. check \in [step : GateSteps, scheme : {"ssh", "kms"}, at : Int] /\ now \in Int
  BY <1>0 DEF GateTypeOK
<1>1. PICK c : c = check'
  OBVIOUS
<1>2. CASE guard
  <2>1. c = [check EXCEPT !.step = next, !.at = now]
    BY <1>1, <1>2 DEF Step
  <2>2. c \in [step : GateSteps, scheme : {"ssh", "kms"}, at : Int] /\ c.step = next /\ c.at = now
    BY <2>1, <1>00
  <2>3. GateTypeOK' /\ PapersAreNested'
    BY <1>0, <1>1, <1>2, <2>2 DEF GateTypeOK, PapersAreNested, WindowsOf, Inside, Holds
  <2> QED
    BY <2>3, <1>0 DEF GateInv, ReceiptStandsForPapers, ReceiptHolds, Inside
<1>3. CASE ~guard
  <2>1. c = [check EXCEPT !.step = "denied"]
    BY <1>1, <1>3 DEF Step
  <2>2. c \in [step : GateSteps, scheme : {"ssh", "kms"}, at : Int] /\ c.step = "denied"
    BY <2>1, <1>00 DEF GateSteps
  <2>3. GateTypeOK' /\ PapersAreNested'
    BY <1>0, <1>1, <2>2 DEF GateTypeOK, PapersAreNested, WindowsOf
  <2> QED
    BY <2>3, <1>0 DEF GateInv, ReceiptStandsForPapers, ReceiptHolds, Inside
<1> QED
  BY <1>2, <1>3

LEMMA GateKeeps == GateInv /\ GateNext => GateInv'
<1> SUFFICES ASSUME GateInv, GateNext PROVE GateInv'
  OBVIOUS
<1> USE DEF GateInv
<1>0. /\ "root" \in GateSteps /\ "policy" \in GateSteps /\ "activation" \in GateSteps
      /\ "passed" \in GateSteps /\ "admission" \in GateSteps /\ "admitted" \in GateSteps
  BY DEF GateSteps
<1>1. CASE CheckRoot
  <2> DEFINE g == BundleValid(papers.bundle) /\ RootValid(papers.root, now)
  <2>1. Step("root", g, "policy") /\ g \in BOOLEAN
    BY <1>1 DEF CheckRoot
  <2> HIDE DEF g
  <2> QED
    BY <2>1, <1>0, StepKeeps
<1>2. CASE CheckPolicy
  <2> DEFINE g == /\ PolicyValid(papers.policy, now)
                  /\ SignatureValid(papers.policy, papers.root)
                  /\ Inside(papers.policy.window, papers.root.window)
                  /\ papers.policy.bundle = papers.bundle.id
  <2>1. Step("policy", g, "activation") /\ g \in BOOLEAN /\ (g => Inside(papers.policy.window, papers.root.window))
    BY <1>2 DEF CheckPolicy
  <2> HIDE DEF g
  <2> QED
    BY <2>1, <1>0, StepKeeps
<1>3. CASE CheckActivation
  <2> DEFINE g == /\ ActivationValid(papers.activation, papers.bundle, AuthorityOf(papers.policy), now)
                  /\ papers.policy.target = papers.activation.target
                  /\ Inside(papers.activation.window, papers.policy.window)
  <2>1. /\ Step("activation", g, "passed") /\ g \in BOOLEAN
        /\ g => Inside(papers.activation.window, papers.policy.window)
    BY <1>3 DEF CheckActivation
  <2>2. Inside(papers.policy.window, papers.root.window)
    BY <2>1 DEF Step, PapersAreNested
  <2> HIDE DEF g
  <2> QED
    BY <2>1, <2>2, <1>0, StepKeeps
<1>4. CASE CheckRiskControl
  <2> DEFINE g == RiskControlValid(papers.risk, now) /\ papers.policy.risk = papers.risk.id
  <2>1. Step("passed", g, "admission") /\ g \in BOOLEAN
    BY <1>4 DEF CheckRiskControl
  <2>2. /\ Inside(papers.policy.window, papers.root.window)
        /\ Inside(papers.activation.window, papers.policy.window)
    BY <2>1 DEF Step, PapersAreNested
  <2> HIDE DEF g
  <2> QED
    BY <2>1, <2>2, <1>0, StepKeeps
<1>5. CASE CheckAdmission
  <2> DEFINE d == papers.admission
             g == /\ AdmissionValid(d, now)
                  /\ d.target = papers.activation.target
                  /\ \A w \in {papers.risk.window, papers.policy.window, papers.activation.window} :
                       Inside(d.window, w)
  <2>1. /\ Step("admission", g, "admitted") /\ g \in BOOLEAN
        /\ g => /\ Inside(papers.admission.window, papers.risk.window)
                /\ Inside(papers.admission.window, papers.activation.window)
                /\ Holds(papers.admission.window, now)
    BY <1>5 DEF CheckAdmission, AdmissionValid
  <2>2. /\ Inside(papers.policy.window, papers.root.window)
        /\ Inside(papers.activation.window, papers.policy.window)
    BY <2>1 DEF Step, PapersAreNested
  <2> HIDE DEF g
  <2> QED
    BY <2>1, <2>2, <1>0, StepKeeps
<1>6. CASE IssueReceipt
  <2>1. PICK r : r = [issued |-> TRUE, used |-> -1, verifiedAt |-> now,
                      policy |-> papers.policy.window, activation |-> papers.activation.window,
                      rootExpires |-> papers.root.window.expires] /\ receipt' = r
    BY <1>6 DEF IssueReceipt
  <2>2. /\ r \in [issued : {TRUE}, used : Int, verifiedAt : Int, policy : Window,
                  activation : Window, rootExpires : Int]
        /\ r.used = -1 /\ r.policy = papers.policy.window /\ r.activation = papers.activation.window
        /\ r.rootExpires = papers.root.window.expires
    <3>1. /\ now \in Int /\ papers.policy.window \in Window /\ papers.activation.window \in Window
          /\ papers.root.window.expires \in Int
      <4>1. now \in Nat /\ papers.root.window \in Window
        BY WindowFacts DEF GateTypeOK
      <4> QED
        BY <4>1, WindowFacts DEF Window
    <3> QED
      BY <2>1, <3>1
  <2>3. UNCHANGED <<now, papers, check>> /\ Inside(papers.policy.window, papers.root.window)
    BY <1>6 DEF IssueReceipt, PapersAreNested
  <2>4. GateTypeOK' /\ PapersAreNested'
    BY <2>1, <2>2, <2>3 DEF GateTypeOK, WindowsOf, PapersAreNested, Inside, Holds
  <2> QED
    BY <2>1, <2>2, <2>3, <2>4 DEF ReceiptStandsForPapers
<1>7. CASE UseReceipt
  <2>1. PICK r : r = [receipt EXCEPT !.used = now] /\ receipt' = r
    BY <1>7 DEF UseReceipt
  <2>2. /\ receipt.issued /\ ReceiptHolds(receipt, now)
        /\ UNCHANGED <<now, papers, check>>
    BY <1>7 DEF UseReceipt
  <2>3. receipt \in [issued : {TRUE}, used : Int, verifiedAt : Int, policy : Window,
                     activation : Window, rootExpires : Int]
    <3>1. NoReceipt.issued = FALSE
      BY DEF NoReceipt
    <3> QED
      BY <2>2, <3>1 DEF GateTypeOK
  <2>4. /\ r \in [issued : {TRUE}, used : Int, verifiedAt : Int, policy : Window,
                  activation : Window, rootExpires : Int]
        /\ r.used = now /\ r.policy = receipt.policy /\ r.activation = receipt.activation
        /\ r.rootExpires = receipt.rootExpires /\ r.verifiedAt = receipt.verifiedAt
    <3>1. now \in Int
      BY DEF GateTypeOK
    <3> QED
      BY <2>1, <2>3, <3>1
  <2>5. GateTypeOK' /\ PapersAreNested'
    BY <2>1, <2>2, <2>4 DEF GateTypeOK, WindowsOf, PapersAreNested, Inside, Holds
  <2> QED
    BY <2>1, <2>2, <2>4, <2>5 DEF ReceiptStandsForPapers, ReceiptHolds, Inside
<1>8. CASE GateTick
  <2>1. UNCHANGED <<papers, check, receipt>> /\ now' \in Nat
    BY <1>8 DEF GateTick, GateTypeOK
  <2>2. GateTypeOK' /\ PapersAreNested'
    BY <2>1 DEF GateTypeOK, WindowsOf, PapersAreNested, Inside, Holds
  <2> QED
    BY <2>1, <2>2 DEF ReceiptStandsForPapers, ReceiptHolds, Inside
<1> QED
  BY <1>1, <1>2, <1>3, <1>4, <1>5, <1>6, <1>7, <1>8 DEF GateNext

LEMMA GateSuffices == GateInv => AdmissionIsCovered
<1> SUFFICES ASSUME GateInv PROVE AdmissionIsCovered
  OBVIOUS
<1> USE DEF GateInv
<1>1. /\ papers.root.window \in Window /\ papers.policy.window \in Window
      /\ papers.activation.window \in Window /\ papers.risk.window \in Window
      /\ papers.admission.window \in Window /\ check.at \in Int
  BY WindowFacts DEF GateTypeOK
<1>2. ASSUME check.step = "admitted"
      PROVE  /\ Holds(papers.root.window, check.at) /\ Holds(papers.policy.window, check.at)
             /\ Holds(papers.activation.window, check.at) /\ Holds(papers.risk.window, check.at)
             /\ Holds(papers.admission.window, check.at)
  BY <1>1, <1>2 DEF PapersAreNested, Inside, Holds, Window
<1>3. ASSUME receipt.issued, receipt.used >= 0
      PROVE  /\ Holds(papers.root.window, receipt.used) /\ Holds(papers.policy.window, receipt.used)
             /\ Holds(papers.activation.window, receipt.used)
  <2>1. receipt.used \in Int
    <3>1. NoReceipt.issued = FALSE
      BY DEF NoReceipt
    <3> QED
      BY <1>3, <3>1 DEF GateTypeOK
  <2> QED
    BY <1>1, <1>3, <2>1 DEF ReceiptStandsForPapers, ReceiptHolds, Inside, Holds, Window
<1> QED
  BY <1>2, <1>3 DEF AdmissionIsCovered

-----------------------------------------------------------------------------
(* Sums over finite sets.                                                         *)

PickOf(s) == CHOOSE x \in s : TRUE
RestOf(s) == s \ {PickOf(s)}
\* h sums f over every subset of S, as the fold does.
AddsUp(f, S, h) == h = [s \in SUBSET S |-> IF s = {} THEN 0 ELSE f[PickOf(s)] + h[RestOf(s)]]
Sums(f, S) == CHOOSE h : AddsUp(f, S, h)

\* Among subsets of a finite set there is one that contains no other: the first-order
\* form of the induction over finite sets.
LEMMA LeastSubset ==
  ASSUME NEW S, IsFiniteSet(S), NEW B, B \subseteq SUBSET S, B # {}
  PROVE  \E m \in B : \A t \in B : t \subseteq m => t = m
<1>1. IsWellFoundedOn(StrictSubsetOrdering(S), SUBSET S)
  BY FS_StrictSubsetOrderingWellFounded, FS_FiniteSubsetsOfFinite
<1>2. PICK m \in B : \A t \in B : <<t, m>> \notin StrictSubsetOrdering(S)
  BY <1>1, WFMin
<1> QED
  BY <1>2 DEF StrictSubsetOrdering

LEMMA PickIsIn == ASSUME NEW s, s # {} PROVE PickOf(s) \in s /\ RestOf(s) \subseteq s /\ RestOf(s) # s
  BY DEF PickOf, RestOf

\* Sums over a set and over a part of it agree on the part.
LEMMA SumsAgree ==
  ASSUME NEW S, IsFiniteSet(S), NEW T, T \subseteq S, NEW f, NEW g, NEW h, AddsUp(f, S, g), AddsUp(f, T, h)
  PROVE  \A s \in SUBSET T : g[s] = h[s]
<1> DEFINE B == {s \in SUBSET T : g[s] # h[s]}
<1> SUFFICES ASSUME B # {} PROVE FALSE
  OBVIOUS
<1>1. PICK m \in B : \A t \in B : t \subseteq m => t = m
  <2>1. B \subseteq SUBSET S
    OBVIOUS
  <2> HIDE DEF B
  <2> QED
    BY <2>1, LeastSubset
<1>2. m \in SUBSET S /\ m \in SUBSET T /\ g[m] # h[m]
  OBVIOUS
<1>3. m # {}
  BY <1>2 DEF AddsUp
<1>4. g[m] = f[PickOf(m)] + g[RestOf(m)]
  BY <1>2, <1>3 DEF AddsUp
<1>5. h[m] = f[PickOf(m)] + h[RestOf(m)]
  BY <1>2, <1>3 DEF AddsUp
<1>6. RestOf(m) \in SUBSET T /\ RestOf(m) # m /\ RestOf(m) \subseteq m
  BY <1>2, <1>3, PickIsIn
<1>7. RestOf(m) \notin B
  BY <1>1, <1>6
<1> QED
  BY <1>2, <1>4, <1>5, <1>6, <1>7

\* What the recursion of the fold defines exists.
LEMMA SumsExist ==
  ASSUME NEW S, IsFiniteSet(S), NEW f
  PROVE  \E h : AddsUp(f, S, h)
<1> DEFINE B == {s \in SUBSET S : ~\E h : AddsUp(f, s, h)}
<1> SUFFICES ASSUME B # {} PROVE FALSE
  OBVIOUS
<1>1. PICK m \in B : \A t \in B : t \subseteq m => t = m
  <2>1. B \subseteq SUBSET S
    OBVIOUS
  <2> HIDE DEF B
  <2> QED
    BY <2>1, LeastSubset
<1> DEFINE G(s) == CHOOSE h : AddsUp(f, s, h)
           h == [s \in SUBSET m |-> IF s = {} THEN 0 ELSE f[PickOf(s)] + G(RestOf(s))[RestOf(s)]]
<1>2. ASSUME NEW s \in SUBSET m, s # m PROVE AddsUp(f, s, G(s))
  <2>1. s \notin B /\ s \in SUBSET S
    BY <1>1, <1>2
  <2>2. \E x : AddsUp(f, s, x)
    BY <2>1
  <2> QED
    BY <2>2
<1>3. ASSUME NEW s \in SUBSET m, s # {} PROVE h[RestOf(s)] = G(RestOf(s))[RestOf(s)]
  <2> DEFINE t == RestOf(s)
  <2>1. t \in SUBSET m /\ t # m /\ t \subseteq s
    BY <1>3, PickIsIn
  <2>2. AddsUp(f, t, G(t))
    BY <2>1, <1>2
  <2>3. CASE t = {}
    <3>1. h[t] = 0
      BY <2>1, <2>3
    <3>2. G(t)[t] = 0
      <4> HIDE DEF G, t
      <4> QED
        BY <2>2, <2>3 DEF AddsUp
    <3> QED
      BY <3>1, <3>2
  <2>4. CASE t # {}
    <3> DEFINE u == RestOf(t)
    <3>1. u \subseteq t /\ u # t /\ u \in SUBSET m /\ u # m
      BY <2>1, <2>4, PickIsIn
    <3>2. AddsUp(f, u, G(u))
      BY <3>1, <1>2
    <3>3. IsFiniteSet(t)
      BY <2>1, FS_Subset
    <3>4. G(t)[u] = G(u)[u]
      <4> HIDE DEF G, t, u
      <4> QED
        BY <2>2, <3>1, <3>2, <3>3, SumsAgree
    <3>5. G(t)[t] = f[PickOf(t)] + G(t)[u]
      <4> HIDE DEF G, t
      <4> QED
        BY <2>2, <2>4 DEF AddsUp
    <3>6. h[t] = f[PickOf(t)] + G(u)[u]
      BY <2>1, <2>4
    <3> QED
      BY <3>4, <3>5, <3>6
  <2> QED
    BY <2>3, <2>4
<1>4. AddsUp(f, m, h)
  <2>1. h = [s \in SUBSET m |-> IF s = {} THEN 0 ELSE f[PickOf(s)] + h[RestOf(s)]]
    <3>1. \A s \in SUBSET m : s # {} => h[RestOf(s)] = G(RestOf(s))[RestOf(s)]
      BY <1>3
    <3> HIDE DEF G
    <3>2. \A s \in SUBSET m : (IF s = {} THEN 0 ELSE f[PickOf(s)] + G(RestOf(s))[RestOf(s)])
                               = (IF s = {} THEN 0 ELSE f[PickOf(s)] + h[RestOf(s)])
      <4> HIDE DEF h
      <4> QED
        BY <3>1
    <3>3. h = [s \in SUBSET m |-> IF s = {} THEN 0 ELSE f[PickOf(s)] + G(RestOf(s))[RestOf(s)]]
      OBVIOUS
    <3> HIDE DEF h
    <3> QED
      BY <3>2, <3>3
  <2> HIDE DEF h
  <2> QED
    BY <2>1 DEF AddsUp
<1> QED
  BY <1>1, <1>4

LEMMA SumsHold ==
  ASSUME NEW S, IsFiniteSet(S), NEW f
  PROVE  AddsUp(f, S, Sums(f, S))
BY SumsExist DEF Sums

LEMMA GrossIs == ASSUME NEW f PROVE Gross(f) = Sums(f, DOMAIN f)[DOMAIN f]
  BY DEF Gross, MapThenSumSet, MapThenFoldSet, Sums, AddsUp, PickOf, RestOf

\* The sum of integers is one, and none of it is lost or added when one of them changes.
LEMMA SumIsInt ==
  ASSUME NEW S, IsFiniteSet(S), NEW f \in [S -> Int], NEW h, AddsUp(f, S, h)
  PROVE  \A s \in SUBSET S : h[s] \in Int
<1> DEFINE B == {s \in SUBSET S : h[s] \notin Int}
<1> SUFFICES ASSUME B # {} PROVE FALSE
  OBVIOUS
<1>1. PICK m \in B : \A t \in B : t \subseteq m => t = m
  <2>1. B \subseteq SUBSET S
    OBVIOUS
  <2> HIDE DEF B
  <2> QED
    BY <2>1, LeastSubset
<1>2. m \in SUBSET S /\ h[m] \notin Int
  OBVIOUS
<1>3. m # {}
  BY <1>2 DEF AddsUp
<1>4. h[m] = f[PickOf(m)] + h[RestOf(m)]
  BY <1>2, <1>3 DEF AddsUp
<1>5. RestOf(m) \in SUBSET S /\ RestOf(m) # m /\ RestOf(m) \subseteq m /\ f[PickOf(m)] \in Int
  BY <1>2, <1>3, PickIsIn
<1>7. RestOf(m) \notin B
  BY <1>1, <1>5
<1> QED
  BY <1>2, <1>4, <1>5, <1>7

\* g is f, but for a more at k.
Moved(f, g, S, k, a) ==
  /\ f \in [S -> Int] /\ g \in [S -> Int] /\ k \in S /\ a \in Int
  /\ g[k] = f[k] + a /\ \A x \in S \ {k} : g[x] = f[x]

LEMMA SumMoves ==
  ASSUME NEW S, IsFiniteSet(S), NEW f, NEW g, NEW k, NEW a, Moved(f, g, S, k, a),
         NEW h, AddsUp(f, S, h), NEW i, AddsUp(g, S, i)
  PROVE  \A s \in SUBSET S : i[s] = h[s] + (IF k \in s THEN a ELSE 0)
<1>0. /\ f \in [S -> Int] /\ g \in [S -> Int] /\ k \in S /\ a \in Int
      /\ g[k] = f[k] + a /\ \A x \in S \ {k} : g[x] = f[x]
  BY DEF Moved
<1> DEFINE B == {s \in SUBSET S : i[s] # h[s] + (IF k \in s THEN a ELSE 0)}
<1> SUFFICES ASSUME B # {} PROVE FALSE
  OBVIOUS
<1>1. PICK m \in B : \A t \in B : t \subseteq m => t = m
  <2>1. B \subseteq SUBSET S
    OBVIOUS
  <2> HIDE DEF B
  <2> QED
    BY <2>1, LeastSubset
<1>2. m \in SUBSET S /\ i[m] # h[m] + (IF k \in m THEN a ELSE 0)
  OBVIOUS
<1>3. m # {}
  BY <1>2 DEF AddsUp
<1>4. h[m] = f[PickOf(m)] + h[RestOf(m)] /\ i[m] = g[PickOf(m)] + i[RestOf(m)]
  BY <1>2, <1>3 DEF AddsUp
<1>5. RestOf(m) \in SUBSET S /\ RestOf(m) # m /\ RestOf(m) \subseteq m /\ PickOf(m) \in S
  BY <1>2, <1>3, PickIsIn
<1>6. i[RestOf(m)] = h[RestOf(m)] + (IF k \in RestOf(m) THEN a ELSE 0)
  BY <1>1, <1>5
<1>7. h[RestOf(m)] \in Int /\ i[RestOf(m)] \in Int /\ f[PickOf(m)] \in Int
  BY <1>0, <1>5, SumIsInt
<1>8. CASE PickOf(m) = k
  <2>1. g[PickOf(m)] = f[PickOf(m)] + a
    BY <1>0, <1>8
  <2>2. k \in m /\ k \notin RestOf(m)
    BY <1>3, <1>8, PickIsIn DEF RestOf
  <2> QED
    BY <1>0, <1>2, <1>4, <1>6, <1>7, <2>1, <2>2
<1>9. CASE PickOf(m) # k
  <2>1. g[PickOf(m)] = f[PickOf(m)]
    BY <1>0, <1>5, <1>9
  <2>2. k \in m <=> k \in RestOf(m)
    BY <1>9 DEF RestOf
  <2> QED
    BY <1>0, <1>2, <1>4, <1>6, <1>7, <2>1, <2>2
<1> QED
  BY <1>8, <1>9

LEMMA SumOfZeros ==
  ASSUME NEW S, IsFiniteSet(S), NEW f, f = [x \in S |-> 0], NEW h, AddsUp(f, S, h)
  PROVE  \A s \in SUBSET S : h[s] = 0
<1> DEFINE B == {s \in SUBSET S : h[s] # 0}
<1> SUFFICES ASSUME B # {} PROVE FALSE
  OBVIOUS
<1>1. PICK m \in B : \A t \in B : t \subseteq m => t = m
  <2>1. B \subseteq SUBSET S
    OBVIOUS
  <2> HIDE DEF B
  <2> QED
    BY <2>1, LeastSubset
<1>2. m \in SUBSET S /\ h[m] # 0
  OBVIOUS
<1>3. m # {}
  BY <1>2 DEF AddsUp
<1>4. h[m] = f[PickOf(m)] + h[RestOf(m)]
  BY <1>2, <1>3 DEF AddsUp
<1>5. RestOf(m) \in SUBSET S /\ RestOf(m) # m /\ RestOf(m) \subseteq m /\ f[PickOf(m)] = 0
  BY <1>2, <1>3, PickIsIn
<1>7. RestOf(m) \notin B
  BY <1>1, <1>5
<1> QED
  BY <1>2, <1>4, <1>5, <1>7

LEMMA GrossMoves ==
  ASSUME NEW S, IsFiniteSet(S), NEW f \in [S -> Int], NEW k \in S, NEW a \in Int,
         NEW g, g = [f EXCEPT ![k] = f[k] + a]
  PROVE  Gross(f) \in Int /\ Gross(g) = Gross(f) + a
<1>1. g \in [S -> Int]
  <2>1. f[k] + a \in Int
    OBVIOUS
  <2> QED
    BY <2>1
<1>7. g[k] = f[k] + a /\ \A x \in S \ {k} : g[x] = f[x]
  OBVIOUS
<1>8. Moved(f, g, S, k, a)
  BY <1>1, <1>7 DEF Moved
<1>2. AddsUp(f, S, Sums(f, S)) /\ AddsUp(g, S, Sums(g, S))
  BY SumsHold
<1>3. DOMAIN f = S /\ DOMAIN g = S
  BY <1>1
<1>4. Gross(f) = Sums(f, S)[S] /\ Gross(g) = Sums(g, S)[S]
  BY <1>3, GrossIs
<1>5. Sums(f, S)[S] \in Int
  BY <1>2, SumIsInt
<1>6. Sums(g, S)[S] = Sums(f, S)[S] + a
  <2>1. \A s \in SUBSET S : Sums(g, S)[s] = Sums(f, S)[s] + (IF k \in s THEN a ELSE 0)
    <3>1. PICK h, i : h = Sums(f, S) /\ i = Sums(g, S)
      OBVIOUS
    <3>2. AddsUp(f, S, h) /\ AddsUp(g, S, i)
      BY <1>2, <3>1
    <3>3. \A s \in SUBSET S : i[s] = h[s] + (IF k \in s THEN a ELSE 0)
      BY <1>8, <3>2, SumMoves
    <3> QED
      BY <3>1, <3>3
  <2> QED
    BY <2>1
<1> QED
  BY <1>4, <1>5, <1>6

LEMMA GrossOfNothing ==
  ASSUME NEW S, IsFiniteSet(S)
  PROVE  Gross([x \in S |-> 0]) = 0
<1> DEFINE f == [x \in S |-> 0]
<1>1. AddsUp(f, S, Sums(f, S))
  BY SumsHold
<1>2. Gross(f) = Sums(f, S)[S]
  BY GrossIs
<1>3. Sums(f, S)[S] = 0
  BY <1>1, SumOfZeros
<1> QED
  BY <1>2, <1>3

-----------------------------------------------------------------------------
(* The risk gate.                                                                 *)

RiskTypeOK ==
  /\ book \in [symbol : [Symbols -> Nat], strategy : [Strategies -> Nat]]
  /\ account \in [equity : Nat \ {0}, loss : Nat, decisions : Nat]
  /\ health \in [observation : {"complete", "stale"}, reconciliation : {"verified", "failed"}]
  /\ breaker \in {"closed", "open"}
RiskInv == RiskTypeOK /\ TakenWithinLimits

LEMMA BookFacts ==
  ASSUME RiskTypeOK
  PROVE  book.symbol \in [Symbols -> Nat] /\ book.strategy \in [Strategies -> Nat]
BY DEF RiskTypeOK

LEMMA LimitFacts ==
  /\ Limits.gross \in Nat /\ Limits.symbol \in Nat /\ Limits.strategy \in Nat
  /\ Limits.leverage \in Nat /\ Limits.loss \in Nat /\ Limits.decisions \in Nat
BY LimitsAssumption DEF LimitsValid

LEMMA RiskStarts == RiskInit => RiskInv
<1> SUFFICES ASSUME RiskInit PROVE RiskInv
  OBVIOUS
<1>1. RiskTypeOK
  <2>1. Equities \subseteq Nat \ {0}
    BY LimitsAssumption
  <2>2. account \in [equity : Nat \ {0}, loss : Nat, decisions : Nat]
    <3>1. account \in [equity : Equities, loss : {0}, decisions : {0}]
      BY DEF RiskInit
    <3>2. /\ account = [equity |-> account.equity, loss |-> account.loss, decisions |-> account.decisions]
          /\ account.equity \in Equities /\ account.loss = 0 /\ account.decisions = 0
      BY <3>1
    <3> QED
      BY <2>1, <3>2
  <2> QED
    BY <2>2 DEF RiskInit, RiskTypeOK
<1>2. /\ book.symbol = [s \in Symbols |-> 0] /\ book.strategy = [s \in Strategies |-> 0]
      /\ IsFiniteSet(Symbols) /\ IsFiniteSet(Strategies)
  BY LimitsAssumption DEF RiskInit
<1>3. Gross(book.symbol) = 0 /\ Gross(book.strategy) = 0
  BY <1>2, GrossOfNothing
<1> QED
  BY <1>1, <1>2, <1>3, LimitFacts DEF RiskInv, TakenWithinLimits

\* The gate allows a request only if nothing speaks against it.
LEMMA AllowsOnly ==
  ASSUME NEW p, NEW rs, rs = Reasons(p), Disposition(Decided(rs)) = "allow",
         p.gross \in Int, p.symbol \in Int, p.strategy \in Int
  PROVE  /\ breaker = "closed" /\ p.gross <= Limits.gross /\ p.symbol <= Limits.symbol
         /\ p.strategy <= Limits.strategy
<1>1. rs = {}
  BY DEF Disposition, Decided
<1>2. "breaker" \notin rs /\ "gross" \notin rs /\ "symbol" \notin rs /\ "strategy" \notin rs
  BY <1>1
<1>3. ~(p.gross > Limits.gross) /\ ~(p.symbol > Limits.symbol) /\ ~(p.strategy > Limits.strategy)
  BY <1>2 DEF Reasons
<1>4. breaker = "closed"
  BY <1>2 DEF Reasons
<1> QED
  BY <1>3, <1>4, LimitFacts

\* Money that moves by the same amount on one symbol and one strategy.
LEMMA BookMoves ==
  ASSUME RiskInv, NEW s \in Symbols, NEW t \in Strategies, NEW a \in Int,
         NEW f, f = [book.symbol EXCEPT ![s] = book.symbol[s] + a],
         NEW g, g = [book.strategy EXCEPT ![t] = book.strategy[t] + a]
  PROVE  /\ Gross(book.symbol) \in Int /\ Gross(f) = Gross(book.symbol) + a /\ Gross(g) = Gross(f)
         /\ \A x \in Symbols : f[x] = IF x = s THEN book.symbol[x] + a ELSE book.symbol[x]
         /\ \A x \in Strategies : g[x] = IF x = t THEN book.strategy[x] + a ELSE book.strategy[x]
         /\ DOMAIN f = Symbols /\ DOMAIN g = Strategies
<1>1. book.symbol \in [Symbols -> Int] /\ book.strategy \in [Strategies -> Int]
  BY BookFacts DEF RiskInv
<1>2. IsFiniteSet(Symbols) /\ IsFiniteSet(Strategies)
  BY LimitsAssumption
<1>3. Gross(book.symbol) \in Int /\ Gross(f) = Gross(book.symbol) + a
  BY <1>1, <1>2, GrossMoves
<1>4. Gross(g) = Gross(book.strategy) + a
  BY <1>1, <1>2, GrossMoves
<1>5. Gross(book.strategy) = Gross(book.symbol)
  BY DEF RiskInv, TakenWithinLimits
<1> QED
  BY <1>1, <1>3, <1>4, <1>5

LEMMA EvaluateKeeps ==
  ASSUME RiskInv, NEW r \in Requests, NEW gross, Evaluate(r, gross)
  PROVE  RiskInv'
<1> USE DEF RiskInv
<1>0. r.symbol \in Symbols /\ r.strategy \in Strategies /\ r.amount \in Nat /\ r.amount \in Int
  <2>1. r.symbol \in Symbols /\ r.strategy \in Strategies /\ r.amount \in RiskAmounts
    BY DEF Requests
  <2>2. RiskAmounts \subseteq Nat
    BY LimitsAssumption
  <2>3. r.amount \in Nat
    BY <2>1, <2>2
  <2> QED
    BY <2>1, <2>3
<1>h. UNCHANGED health
  BY DEF Evaluate
<1>1. CASE ~SnapshotValid(gross)
  <2>1. breaker' = "open" /\ UNCHANGED <<book, account>>
    BY <1>1 DEF Evaluate
  <2> QED
    BY <1>h, <2>1 DEF RiskTypeOK, TakenWithinLimits
<1>2. CASE SnapshotValid(gross)
  <2>1. PICK d, receiptOf : /\ d = Decided(Reasons(Projected(r))) /\ receiptOf = Disposition(d)
                            /\ breaker' = d.next
    BY <1>2 DEF Evaluate
  <2>2. account' = [account EXCEPT !.decisions = account.decisions + 1]
    BY <1>2 DEF Evaluate
  <2>3. account' \in [equity : Nat \ {0}, loss : Nat, decisions : Nat]
    <3>1. account \in [equity : Nat \ {0}, loss : Nat, decisions : Nat]
      BY DEF RiskTypeOK
    <3>2. account.decisions + 1 \in Nat
      BY <3>1
    <3> QED
      BY <2>2, <3>1, <3>2
  <2>4. breaker' \in {"closed", "open"}
    BY <2>1 DEF Decided
  <2>5. CASE receiptOf # "allow"
    <3>1. book' = [symbol |-> book.symbol, strategy |-> book.strategy]
      BY <1>2, <2>1, <2>5 DEF Evaluate
    <3>2. book' = book
      BY <3>1 DEF RiskTypeOK
    <3> QED
      BY <1>h, <2>3, <2>4, <3>2 DEF RiskTypeOK, TakenWithinLimits
  <2>6. CASE receiptOf = "allow"
    <3>1. PICK f, g : /\ f = [book.symbol EXCEPT ![r.symbol] = book.symbol[r.symbol] + r.amount]
                      /\ g = [book.strategy EXCEPT ![r.strategy] = book.strategy[r.strategy] + r.amount]
      OBVIOUS
    <3>2. book' = [symbol |-> f, strategy |-> g]
      BY <1>2, <2>1, <2>6, <3>1 DEF Evaluate
    <3>3. /\ Gross(book.symbol) \in Int /\ Gross(f) = Gross(book.symbol) + r.amount /\ Gross(g) = Gross(f)
          /\ \A x \in Symbols : f[x] = IF x = r.symbol THEN book.symbol[x] + r.amount ELSE book.symbol[x]
          /\ \A x \in Strategies : g[x] = IF x = r.strategy THEN book.strategy[x] + r.amount ELSE book.strategy[x]
          /\ DOMAIN f = Symbols /\ DOMAIN g = Strategies
      BY <1>0, <3>1, BookMoves
    <3>b. book.symbol \in [Symbols -> Nat] /\ book.strategy \in [Strategies -> Nat]
      BY BookFacts
    <3>4. f \in [Symbols -> Nat] /\ g \in [Strategies -> Nat]
      BY <1>0, <3>1, <3>b
    <3>5. PICK p : p = Projected(r)
      OBVIOUS
    <3>6. /\ p.gross = Gross(book.symbol) + r.amount
          /\ p.symbol = book.symbol[r.symbol] + r.amount
          /\ p.strategy = book.strategy[r.strategy] + r.amount
      BY <3>5 DEF Projected
    <3>7. p.gross \in Int /\ p.symbol \in Int /\ p.strategy \in Int
      BY <1>0, <3>3, <3>6, <3>b
    <3>8. p.gross <= Limits.gross /\ p.symbol <= Limits.symbol /\ p.strategy <= Limits.strategy
      BY <2>1, <2>6, <3>5, <3>7, AllowsOnly
    <3>9. book'.symbol = f /\ book'.strategy = g /\ RiskTypeOK'
      BY <1>h, <2>3, <2>4, <3>2, <3>4 DEF RiskTypeOK
    <3>10. \A x \in Symbols : f[x] <= Limits.symbol
      BY <3>3, <3>6, <3>8 DEF TakenWithinLimits
    <3>11. \A x \in Strategies : g[x] <= Limits.strategy
      BY <3>3, <3>6, <3>8 DEF TakenWithinLimits
    <3> QED
      BY <3>3, <3>6, <3>8, <3>9, <3>10, <3>11 DEF TakenWithinLimits
  <2> QED
    BY <2>5, <2>6
<1> QED
  BY <1>1, <1>2

LEMMA CloseKeeps == RiskInv /\ ClosePosition => RiskInv'
<1> SUFFICES ASSUME RiskInv, ClosePosition PROVE RiskInv'
  OBVIOUS
<1> USE DEF RiskInv
<1>1. PICK s \in Symbols, t \in Strategies, a \in RiskAmounts :
         /\ a <= book.symbol[s] /\ a <= book.strategy[t]
         /\ book' = [symbol |-> [book.symbol EXCEPT ![s] = @ - a],
                     strategy |-> [book.strategy EXCEPT ![t] = @ - a]]
  BY DEF ClosePosition
<1>2. UNCHANGED <<account, health, breaker>>
  BY DEF ClosePosition
<1>3. a \in Nat /\ -a \in Int /\ book.symbol \in [Symbols -> Nat] /\ book.strategy \in [Strategies -> Nat]
  BY BookFacts, LimitsAssumption
<1>4. PICK f, g : /\ f = [book.symbol EXCEPT ![s] = book.symbol[s] + (-a)]
                  /\ g = [book.strategy EXCEPT ![t] = book.strategy[t] + (-a)]
  OBVIOUS
<1>5. /\ book.symbol[s] + (-a) = book.symbol[s] - a /\ book.symbol[s] - a \in Nat
      /\ book.strategy[t] + (-a) = book.strategy[t] - a /\ book.strategy[t] - a \in Nat
  BY <1>1, <1>3
<1>6. book' = [symbol |-> f, strategy |-> g] /\ f \in [Symbols -> Nat] /\ g \in [Strategies -> Nat]
  BY <1>1, <1>3, <1>4, <1>5
<1>7. /\ Gross(book.symbol) \in Int /\ Gross(f) = Gross(book.symbol) + (-a) /\ Gross(g) = Gross(f)
      /\ \A x \in Symbols : f[x] = IF x = s THEN book.symbol[x] + (-a) ELSE book.symbol[x]
      /\ \A x \in Strategies : g[x] = IF x = t THEN book.strategy[x] + (-a) ELSE book.strategy[x]
  BY <1>3, <1>4, BookMoves
<1>8. book'.symbol = f /\ book'.strategy = g /\ RiskTypeOK'
  BY <1>2, <1>6 DEF RiskTypeOK
<1>9. \A x \in Symbols : f[x] <= Limits.symbol
  BY <1>3, <1>7, LimitFacts DEF TakenWithinLimits
<1>10. \A x \in Strategies : g[x] <= Limits.strategy
  BY <1>3, <1>7, LimitFacts DEF TakenWithinLimits
<1>11. Gross(f) <= Limits.gross
  BY <1>3, <1>7, LimitFacts DEF TakenWithinLimits
<1> QED
  BY <1>7, <1>8, <1>9, <1>10, <1>11 DEF TakenWithinLimits

LEMMA RiskKeeps == RiskInv /\ RiskNext => RiskInv'
<1> SUFFICES ASSUME RiskInv, RiskNext PROVE RiskInv'
  OBVIOUS
<1>1. CASE \E r \in Requests, gross \in {Gross(book.symbol), Gross(book.symbol) + 1} : Evaluate(r, gross)
  BY <1>1, EvaluateKeeps
<1>2. CASE ClosePosition
  BY <1>2, CloseKeeps
<1>3. CASE MoveMarket
  <2>1. PICK e \in Equities, l \in 0 .. MaxLoss : account' = [account EXCEPT !.equity = e, !.loss = l]
    BY <1>3 DEF MoveMarket
  <2>2. UNCHANGED <<book, health, breaker>> /\ e \in Nat \ {0} /\ l \in Nat
    BY <1>3, LimitsAssumption DEF MoveMarket
  <2> QED
    BY <2>1, <2>2 DEF RiskInv, RiskTypeOK, TakenWithinLimits
<1>4. CASE ChangeHealth
  BY <1>4 DEF ChangeHealth, RiskInv, RiskTypeOK, TakenWithinLimits
<1>5. CASE NewSession
  BY <1>5 DEF NewSession, RiskInv, RiskTypeOK, TakenWithinLimits
<1>6. CASE ManualReset
  BY <1>6 DEF ManualReset, RiskInv, RiskTypeOK, TakenWithinLimits
<1> QED
  BY <1>1, <1>2, <1>3, <1>4, <1>5, <1>6 DEF RiskNext

LEMMA RiskLatches == RiskNext => Latched
<1> SUFFICES ASSUME RiskNext, breaker = "open"
             PROVE  /\ (breaker' = "closed") => (decision'.receipt = "reset")
                    /\ decision'.receipt # "allow"
  BY DEF Latched
<1>n. NoDecision.receipt = "none"
  BY DEF NoDecision
<1>1. ASSUME NEW r \in Requests, NEW gross, Evaluate(r, gross)
      PROVE  breaker' = "open" /\ decision'.receipt # "allow"
  <2>1. CASE ~SnapshotValid(gross)
    BY <1>1, <1>n, <2>1 DEF Evaluate
  <2>2. CASE SnapshotValid(gross)
    <3>1. PICK rs : rs = Reasons(Projected(r))
      OBVIOUS
    <3>2. /\ breaker' = Decided(rs).next
          /\ decision' = [reasons |-> Decided(rs).reasons, receipt |-> Disposition(Decided(rs))]
      BY <1>1, <2>2, <3>1 DEF Evaluate
    <3>3. "breaker" \in rs
      BY <3>1 DEF Reasons
    <3>4. Decided(rs).next = "open" /\ Decided(rs).allow = FALSE
      BY <3>3 DEF Decided
    <3>5. Disposition(Decided(rs)) # "allow"
      BY <3>4 DEF Disposition
    <3> QED
      BY <3>2, <3>4, <3>5
  <2> QED
    BY <2>1, <2>2
<1>2. CASE ClosePosition
  BY <1>2, <1>n DEF ClosePosition
<1>3. CASE MoveMarket
  BY <1>3, <1>n DEF MoveMarket
<1>4. CASE ChangeHealth
  BY <1>4, <1>n DEF ChangeHealth
<1>5. CASE NewSession
  BY <1>5, <1>n DEF NewSession
<1>6. CASE ManualReset
  <2>1. decision'.receipt = "reset"
    BY <1>6 DEF ManualReset, NoDecision
  <2> QED
    BY <2>1
<1> QED
  BY <1>1, <1>2, <1>3, <1>4, <1>5, <1>6 DEF RiskNext

-----------------------------------------------------------------------------
(* The snapshot audit.                                                            *)

ArchiveTypeOK ==
  /\ DOMAIN archive = AuditDays
  /\ \A d \in AuditDays : IsFiniteSet(archive[d]) /\ archive[d] \subseteq ArchivedRecord
  /\ backfilled \in [AuditDays -> ArchivedRecord \cup {NoRecord}]
  /\ DOMAIN audits = AuditRuns
\* A run is at work on one of the days, and what it is about to archive is a record.
RunIsAtWork(a) ==
  /\ a = [at |-> a.at, day |-> a.day, found |-> a.found, held |-> a.held]
  /\ a.at \in {"day", "persist", "readback"} => a.day \in AuditDays
  /\ a.at = "persist" => a.held \in ArchivedRecord
\* A run about to send holds the claim of its report, alone, and nobody has sent it.
ClaimIsHeld(a) == a.at = "send" => a.found \in claims /\ a.found \notin DOMAIN announced
AuditInv ==
  /\ ArchiveTypeOK
  /\ \A x \in AuditRuns : RunIsAtWork(audits[x]) /\ ClaimIsHeld(audits[x])
  /\ \A x, y \in AuditRuns :
       audits[x].at = "send" /\ audits[y].at = "send" /\ audits[x].found = audits[y].found => x = y
  /\ DOMAIN announced \subseteq claims
  /\ AnnouncedOnce

LEMMA AuditStarts == AuditInit => AuditInv
<1> SUFFICES ASSUME AuditInit PROVE AuditInv
  OBVIOUS
<1>1. ArchiveTypeOK
  BY AuditAssumption DEF AuditInit, ArchiveTypeOK
<1>2. 1 \in AuditDays
  BY AuditAssumption
<1>3. \A x \in AuditRuns : audits[x] = NewAudit
  BY DEF AuditInit
<1>4. RunIsAtWork(NewAudit) /\ NewAudit.at = "day"
  BY <1>2 DEF NewAudit, RunIsAtWork
<1> QED
  BY <1>1, <1>3, <1>4 DEF AuditInit, AuditInv, ClaimIsHeld, AnnouncedOnce

\* A day's verdict is the only new one.
LEMMA FoundIs ==
  ASSUME NEW a, RunIsAtWork(a), NEW v
  PROVE  /\ RunIsAtWork(Found(a, v)) /\ Found(a, v).at \in {"day", "report"}
         /\ DOMAIN Found(a, v).found = DOMAIN a.found \cup {a.day}
         /\ Found(a, v).found[a.day] = v
<1>1. PICK f, at, day : /\ f = Entered(a.found, a.day, v) /\ day = a.day + 1
                        /\ at = IF v \in Stopping \/ a.day + 1 \notin AuditDays THEN "report" ELSE "day"
  OBVIOUS
<1>2. PICK b : b = Found(a, v)
  OBVIOUS
<1>3. b = [at |-> at, day |-> day, found |-> f, held |-> NoRecord]
  BY <1>1, <1>2 DEF Found, RunIsAtWork
<1>4. at \in {"day", "report"} /\ (at = "day" => day \in AuditDays)
  BY <1>1
<1>5. b.at = at /\ b.day = day /\ b.found = f /\ b.held = NoRecord
  BY <1>3
<1>6. RunIsAtWork(b) /\ b.at \in {"day", "report"}
  BY <1>3, <1>4, <1>5 DEF RunIsAtWork
<1>7. DOMAIN f = DOMAIN a.found \cup {a.day} /\ f[a.day] = v
  BY <1>1 DEF Entered
<1>8. DOMAIN b.found = DOMAIN a.found \cup {a.day} /\ b.found[a.day] = v
  BY <1>5, <1>7
<1> QED
  BY <1>2, <1>6, <1>8

\* What a run does, if it is not about to send: it keeps the others' claims.
LEMMA RunMoves ==
  ASSUME AuditInv, NEW x \in AuditRuns, NEW a, audits' = [audits EXCEPT ![x] = a],
         RunIsAtWork(a), a.at # "send", ArchiveTypeOK',
         claims \subseteq claims', UNCHANGED <<acks, announced>>
  PROVE  AuditInv'
<1> USE DEF AuditInv
<1>1. DOMAIN audits = AuditRuns
  BY DEF ArchiveTypeOK
<1>2. \A y \in AuditRuns : audits'[y] = IF y = x THEN a ELSE audits[y]
  BY <1>1
<1>3. \A y \in AuditRuns : RunIsAtWork(audits'[y])
  BY <1>2
<1>4. \A y \in AuditRuns :
        audits'[y].at = "send" => audits'[y].found \in claims' /\ audits'[y].found \notin DOMAIN announced'
  BY <1>2 DEF ClaimIsHeld
<1>5. \A y, z \in AuditRuns :
        audits'[y].at = "send" /\ audits'[z].at = "send" /\ audits'[y].found = audits'[z].found => y = z
  BY <1>2
<1>6. AnnouncedOnce'
  BY DEF AnnouncedOnce
<1>7. \A y \in AuditRuns : RunIsAtWork(audits[y])' /\ ClaimIsHeld(audits[y])'
  BY <1>3, <1>4 DEF ClaimIsHeld, RunIsAtWork
<1> QED
  BY <1>5, <1>6, <1>7

LEMMA AuditKeeps == AuditInv /\ AuditNext => AuditInv'
<1> SUFFICES ASSUME AuditInv, AuditNext PROVE AuditInv'
  OBVIOUS
<1> USE DEF AuditInv
<1>t. ArchiveTypeOK
  OBVIOUS
<1>1. ASSUME NEW w \in Written, Archive(w[1], w[2]) PROVE AuditInv'
  <2>1. PICK d, r : d = w[1] /\ r = w[2]
    OBVIOUS
  <2>2. d \in AuditDays /\ r \in ArchivedRecord
    BY <2>1, AuditAssumption
  <2>3. /\ archive' = [archive EXCEPT ![d] = archive[d] \cup {r}]
        /\ UNCHANGED <<backfilled, audits, claims, acks, announced>>
    BY <1>1, <2>1 DEF Archive
  <2>4. IsFiniteSet(archive[d] \cup {r})
    BY <2>2, FS_AddElement DEF ArchiveTypeOK
  <2>5. ArchiveTypeOK'
    BY <2>2, <2>3, <2>4 DEF ArchiveTypeOK
  <2> QED
    BY <2>3, <2>5 DEF RunIsAtWork, ClaimIsHeld, AnnouncedOnce
<1>2. ASSUME NEW x \in AuditRuns, ReadDay(x) PROVE AuditInv'
  <2>1. PICK a : a = audits[x]
    OBVIOUS
  <2>2. a.at = "day" /\ RunIsAtWork(a) /\ a.day \in AuditDays
    BY <1>2, <2>1 DEF ReadDay, RunIsAtWork
  <2>3. PICK b : audits' = [audits EXCEPT ![x] = b] /\ UNCHANGED archive
                 /\ ((\E v : b = Found(a, v)) \/ (/\ b = [a EXCEPT !.at = "persist", !.held = History[a.day]]
                                                  /\ History[a.day].is # "none"))
    BY <1>2, <2>1, Zenon DEF ReadDay, Advance
  <2>4. UNCHANGED <<backfilled, claims, acks, announced>> /\ ArchiveTypeOK'
    BY <1>2, <2>3 DEF ReadDay, ArchiveTypeOK
  <2>5. RunIsAtWork(b) /\ b.at # "send"
    <3>1. CASE \E v : b = Found(a, v)
      BY <2>2, <3>1, FoundIs
    <3>2. CASE b = [a EXCEPT !.at = "persist", !.held = History[a.day]] /\ History[a.day].is # "none"
      <4>1. History[a.day] \in ArchivedRecord
        BY <2>2, <3>2, AuditAssumption DEF ArchivedRecord, HistoryRecord
      <4>2. b = [at |-> "persist", day |-> a.day, found |-> a.found, held |-> History[a.day]]
        BY <2>2, <3>2 DEF RunIsAtWork
      <4> QED
        BY <2>2, <4>1, <4>2 DEF RunIsAtWork
    <3> QED
      BY <2>3, <3>1, <3>2
  <2> QED
    BY <2>3, <2>4, <2>5, RunMoves
<1>3. ASSUME NEW x \in AuditRuns, Persist(x) PROVE AuditInv'
  <2>1. PICK a : a = audits[x]
    OBVIOUS
  <2>2. a.at = "persist" /\ RunIsAtWork(a) /\ a.day \in AuditDays /\ a.held \in ArchivedRecord
    BY <1>3, <2>1 DEF Persist, RunIsAtWork
  <2>3. PICK b : audits' = [audits EXCEPT ![x] = b] /\ UNCHANGED archive
                 /\ ((\E v : b = Found(a, v)) \/ b = [a EXCEPT !.at = "readback"])
    BY <1>3, <2>1, Zenon DEF Persist, Advance
  <2>4. backfilled' \in {backfilled, [backfilled EXCEPT ![a.day] = a.held]} /\ UNCHANGED <<claims, acks, announced>>
    BY <1>3, <2>1 DEF Persist
  <2>5. ArchiveTypeOK'
    BY <2>2, <2>3, <2>4 DEF ArchiveTypeOK
  <2>6. RunIsAtWork(b) /\ b.at # "send"
    <3>1. CASE \E v : b = Found(a, v)
      BY <2>2, <3>1, FoundIs
    <3>2. CASE b = [a EXCEPT !.at = "readback"]
      <4>1. b = [at |-> "readback", day |-> a.day, found |-> a.found, held |-> a.held]
        BY <2>2, <3>2 DEF RunIsAtWork
      <4> QED
        BY <2>2, <4>1 DEF RunIsAtWork
    <3> QED
      BY <2>3, <3>1, <3>2
  <2> QED
    BY <2>3, <2>4, <2>5, <2>6, RunMoves
<1>4. ASSUME NEW x \in AuditRuns, ReadBack(x) PROVE AuditInv'
  <2>1. RunIsAtWork(audits[x])
    OBVIOUS
  <2>2. PICK v : audits' = [audits EXCEPT ![x] = Found(audits[x], v)] /\ UNCHANGED archive
    BY <1>4, Zenon DEF ReadBack, Advance
  <2>3. UNCHANGED <<backfilled, claims, acks, announced>> /\ ArchiveTypeOK'
    BY <1>4, <2>2 DEF ReadBack, ArchiveTypeOK
  <2>4. PICK b : b = Found(audits[x], v)
    OBVIOUS
  <2>5. RunIsAtWork(b) /\ b.at # "send"
    BY <2>1, <2>4, FoundIs
  <2> QED
    BY <2>2, <2>3, <2>4, <2>5, RunMoves
<1>5. ASSUME NEW x \in AuditRuns, Report(x) PROVE AuditInv'
  <2>1. RunIsAtWork(audits[x])
    OBVIOUS
  <2>2. PICK at \in {"complete", "known", "alert"} :
          audits' = [audits EXCEPT ![x] = [audits[x] EXCEPT !.at = at]] /\ UNCHANGED archive
    BY <1>5 DEF Report, Advance
  <2>3. UNCHANGED <<backfilled, claims, acks, announced>> /\ ArchiveTypeOK'
    BY <1>5, <2>2 DEF Report, ArchiveTypeOK
  <2>4. PICK b : b = [audits[x] EXCEPT !.at = at]
    OBVIOUS
  <2>5. b = [at |-> at, day |-> audits[x].day, found |-> audits[x].found, held |-> audits[x].held]
    BY <2>1, <2>4 DEF RunIsAtWork
  <2>6. RunIsAtWork(b) /\ b.at # "send"
    BY <2>5 DEF RunIsAtWork
  <2> QED
    BY <2>2, <2>3, <2>4, <2>6, RunMoves
<1>6. ASSUME NEW x \in AuditRuns, ClaimAlert(x) PROVE AuditInv'
  <2>1. PICK a : a = audits[x]
    OBVIOUS
  <2>2. RunIsAtWork(a)
    BY <2>1
  <2>3. PICK at : at = IF a.found \in claims THEN "unknown" ELSE "send"
    OBVIOUS
  <2>4. PICK b : b = [a EXCEPT !.at = at]
    OBVIOUS
  <2>5. /\ audits' = [audits EXCEPT ![x] = b] /\ claims' = claims \cup {a.found}
        /\ UNCHANGED <<archive, backfilled, acks, announced>>
    BY <1>6, <2>1, <2>3, <2>4 DEF ClaimAlert, Advance
  <2>6. b = [at |-> at, day |-> a.day, found |-> a.found, held |-> a.held]
    BY <2>2, <2>4 DEF RunIsAtWork
  <2>7. RunIsAtWork(b) /\ b.at = at /\ b.found = a.found
    BY <2>3, <2>6 DEF RunIsAtWork
  <2>8. ArchiveTypeOK'
    BY <2>5 DEF ArchiveTypeOK
  <2>9. CASE a.found \in claims
    <3>1. b.at # "send"
      BY <2>3, <2>7, <2>9
    <3> QED
      BY <2>5, <2>7, <2>8, <3>1, RunMoves
  <2>10. CASE a.found \notin claims
    <3>1. \A y \in AuditRuns : audits'[y] = IF y = x THEN b ELSE audits[y]
      BY <2>5 DEF ArchiveTypeOK
    <3>2. \A y \in AuditRuns : audits[y].at = "send" => audits[y].found # a.found
      BY <2>10 DEF ClaimIsHeld
    <3>3. \A y \in AuditRuns : RunIsAtWork(audits[y])'
      BY <2>7, <3>1 DEF RunIsAtWork
    <3>4. \A y \in AuditRuns : ClaimIsHeld(audits[y])'
      BY <2>5, <2>7, <2>10, <3>1 DEF ClaimIsHeld
    <3>5. \A y, z \in AuditRuns :
            audits'[y].at = "send" /\ audits'[z].at = "send" /\ audits'[y].found = audits'[z].found => y = z
      BY <2>7, <3>1, <3>2
    <3>6. (DOMAIN announced)' \subseteq claims' /\ AnnouncedOnce'
      BY <2>5 DEF AnnouncedOnce
    <3> QED
      BY <2>8, <3>3, <3>4, <3>5, <3>6
  <2> QED
    BY <2>9, <2>10
<1>7. ASSUME NEW x \in AuditRuns, Send(x) PROVE AuditInv'
  <2>1. PICK a : a = audits[x]
    OBVIOUS
  <2>2. /\ a.at = "send" /\ RunIsAtWork(a) /\ a.found \in claims /\ a.found \notin DOMAIN announced
    BY <1>7, <2>1 DEF Send, ClaimIsHeld
  <2>3. PICK sent \in BOOLEAN, answered \in BOOLEAN :
           /\ announced' = IF sent THEN Entered(announced, a.found, 1 + IF a.found \in DOMAIN announced
                                                                   THEN announced[a.found] ELSE 0)
                           ELSE announced
           /\ acks' = IF sent /\ answered THEN acks \cup {a.found} ELSE acks
           /\ audits' = [audits EXCEPT ![x] = [a EXCEPT !.at = IF sent /\ answered THEN "announced" ELSE "failed"]]
           /\ UNCHANGED archive
    BY <1>7, <2>1 DEF Send, Advance
  <2>4. UNCHANGED <<backfilled, claims>>
    BY <1>7 DEF Send
  <2>5. PICK b, at : /\ at = IF sent /\ answered THEN "announced" ELSE "failed"
                     /\ b = [a EXCEPT !.at = at]
    OBVIOUS
  <2>6. b = [at |-> at, day |-> a.day, found |-> a.found, held |-> a.held]
    BY <2>2, <2>5 DEF RunIsAtWork
  <2>7. RunIsAtWork(b) /\ b.at # "send"
    BY <2>5, <2>6 DEF RunIsAtWork
  <2>8. \A y \in AuditRuns : audits'[y] = IF y = x THEN b ELSE audits[y]
    BY <2>3, <2>5 DEF ArchiveTypeOK
  <2>9. ArchiveTypeOK'
    BY <2>3, <2>4 DEF ArchiveTypeOK
  <2>10. /\ DOMAIN announced' \subseteq DOMAIN announced \cup {a.found}
         /\ DOMAIN announced \subseteq DOMAIN announced'
         /\ sent => a.found \in DOMAIN announced'
         /\ \A r \in DOMAIN announced' : announced'[r] = 1
    <3>1. CASE ~sent
      BY <2>3, <3>1 DEF AnnouncedOnce
    <3>2. CASE sent
      <4>1. announced' = Entered(announced, a.found, 1)
        BY <2>2, <2>3, <3>2
      <4> QED
        BY <4>1, <3>2 DEF AnnouncedOnce, Entered
    <3> QED
      BY <3>1, <3>2
  <2>11. acks' \subseteq DOMAIN announced'
    BY <2>3, <2>10 DEF AnnouncedOnce
  <2>12. \A y \in AuditRuns : RunIsAtWork(audits[y])'
    BY <2>7, <2>8 DEF RunIsAtWork
  <2>13. \A y \in AuditRuns : y # x /\ audits[y].at = "send" => audits[y].found # a.found
    BY <2>1, <2>2
  <2>14. \A y \in AuditRuns : ClaimIsHeld(audits[y])'
    BY <2>4, <2>7, <2>8, <2>10, <2>13 DEF ClaimIsHeld
  <2>15. \A y, z \in AuditRuns :
           audits'[y].at = "send" /\ audits'[z].at = "send" /\ audits'[y].found = audits'[z].found => y = z
    BY <2>7, <2>8
  <2> QED
    BY <2>2, <2>4, <2>9, <2>10, <2>11, <2>12, <2>14, <2>15 DEF AnnouncedOnce
<1>8. ASSUME NEW x \in AuditRuns, Restart(x) PROVE AuditInv'
  <2>1. audits' = [audits EXCEPT ![x] = NewAudit] /\ UNCHANGED <<archive, backfilled, claims, acks, announced>>
    BY <1>8 DEF Restart, Advance
  <2>2. RunIsAtWork(NewAudit) /\ NewAudit.at # "send"
    BY AuditAssumption DEF NewAudit, RunIsAtWork
  <2>3. ArchiveTypeOK'
    BY <2>1 DEF ArchiveTypeOK
  <2> QED
    BY <2>1, <2>2, <2>3, RunMoves
<1> QED
  BY <1>1, <1>2, <1>3, <1>4, <1>5, <1>6, <1>7, <1>8 DEF AuditNext

\* Of finitely many records there is a latest.
LEMMA LatestIs ==
  ASSUME NEW rs, IsFiniteSet(rs), rs # {}, rs \subseteq ArchivedRecord
  PROVE  Latest(rs) \in rs /\ \A x \in rs : x.at <= Latest(rs).at
<1> DEFINE B == {s \in SUBSET rs : s # {} /\ ~\E r \in s : \A x \in s : x.at <= r.at}
<1>1. ASSUME B # {} PROVE FALSE
  <2>1. PICK m \in B : \A t \in B : t \subseteq m => t = m
    <3>1. B \subseteq SUBSET rs
      OBVIOUS
    <3> HIDE DEF B
    <3> QED
      BY <1>1, <3>1, LeastSubset
  <2>2. m \subseteq rs /\ m # {} /\ ~\E r \in m : \A x \in m : x.at <= r.at
    OBVIOUS
  <2>3. PICK y \in m : TRUE
    BY <2>2
  <2>4. \A x \in m : x.at \in Int
    BY <2>2 DEF ArchivedRecord
  <2>5. m \ {y} # {}
    BY <2>2, <2>3, <2>4
  <2>6. PICK r \in m \ {y} : \A x \in m \ {y} : x.at <= r.at
    <3>1. m \ {y} # m /\ m \ {y} \subseteq m /\ m \ {y} \in SUBSET rs
      BY <2>2, <2>3
    <3>2. m \ {y} \notin B
      BY <2>1, <3>1
    <3> QED
      BY <2>5, <3>1, <3>2
  <2>7. CASE y.at <= r.at
    BY <2>2, <2>6, <2>7
  <2>8. CASE ~(y.at <= r.at)
    <3>1. \A x \in m : x.at <= y.at
      BY <2>4, <2>6, <2>8
    <3> QED
      BY <2>2, <3>1
  <2> QED
    BY <2>7, <2>8
<1>2. \E r \in rs : \A x \in rs : x.at <= r.at
  BY <1>1
<1> QED
  BY <1>2 DEF Latest

\* A day is in order on the word of its latest record.
LEMMA WordOfTheLatest ==
  ASSUME ArchiveTypeOK, NEW d \in AuditDays, RecordsOf(d) # {}, Issue(Latest(RecordsOf(d))) = "ok"
  PROVE  \E r \in RecordsOf(d) : r.is = "good" /\ \A y \in RecordsOf(d) : y.at <= r.at
<1>1. IsFiniteSet(RecordsOf(d)) /\ RecordsOf(d) \subseteq ArchivedRecord
  <2>1. IsFiniteSet({backfilled[d]}) /\ IsFiniteSet({backfilled[d]} \ {NoRecord})
    BY FS_Singleton, FS_Subset
  <2>2. IsFiniteSet(archive[d]) /\ archive[d] \subseteq ArchivedRecord /\ backfilled[d] \in ArchivedRecord \cup {NoRecord}
    BY DEF ArchiveTypeOK
  <2> QED
    BY <2>1, <2>2, FS_Union DEF RecordsOf
<1>2. PICK r : r = Latest(RecordsOf(d))
  OBVIOUS
<1>3. r \in RecordsOf(d) /\ \A y \in RecordsOf(d) : y.at <= r.at
  BY <1>1, <1>2, LatestIs
<1>4. r.is \in {"good", "stranger", "undated", "incomplete"}
  BY <1>1, <1>3 DEF ArchivedRecord
<1>5. r.is = "good"
  BY <1>2, <1>4 DEF Issue
<1> QED
  BY <1>3, <1>5

\* What a step may add to the verdicts: nothing, or one of the day the run is at.
LEMMA NothingFound ==
  ASSUME ArchiveTypeOK, NEW x \in AuditRuns, NEW b, audits' = [audits EXCEPT ![x] = b],
         DOMAIN b.found \subseteq DOMAIN audits[x].found
  PROVE  VerdictEarned
BY DEF VerdictEarned, ArchiveTypeOK

LEMMA OneFound ==
  ASSUME ArchiveTypeOK, NEW x \in AuditRuns, RunIsAtWork(audits[x]), NEW v,
         audits' = [audits EXCEPT ![x] = Found(audits[x], v)], UNCHANGED <<archive, backfilled>>,
         v = "ok" => \E r \in RecordsOf(audits[x].day) :
                        r.is = "good" /\ \A y \in RecordsOf(audits[x].day) : y.at <= r.at
  PROVE  VerdictEarned
<1>1. PICK b : b = Found(audits[x], v)
  OBVIOUS
<1>2. /\ DOMAIN b.found = DOMAIN audits[x].found \cup {audits[x].day}
      /\ b.found[audits[x].day] = v
  BY <1>1, FoundIs
<1>3. \A y \in AuditRuns : audits'[y] = IF y = x THEN b ELSE audits[y]
  BY <1>1 DEF ArchiveTypeOK
<1>4. \A d : RecordsOf(d)' = RecordsOf(d)
  BY DEF RecordsOf
<1> QED
  BY <1>2, <1>3, <1>4 DEF VerdictEarned

LEMMA AuditEarns == AuditInv /\ AuditNext => VerdictEarned
<1> SUFFICES ASSUME AuditInv, AuditNext PROVE VerdictEarned
  OBVIOUS
<1> USE DEF AuditInv
<1>t. ArchiveTypeOK /\ \A x \in AuditRuns : RunIsAtWork(audits[x])
  OBVIOUS
<1>1. ASSUME NEW w \in Written, Archive(w[1], w[2]) PROVE VerdictEarned
  BY <1>1 DEF Archive, VerdictEarned
<1>2. ASSUME NEW x \in AuditRuns, ReadDay(x) PROVE VerdictEarned
  <2>1. PICK a : a = audits[x]
    OBVIOUS
  <2>2. a.at = "day" /\ a.day \in AuditDays
    BY <1>2, <2>1, <1>t DEF ReadDay, RunIsAtWork
  <2>3. UNCHANGED <<archive, backfilled>>
    BY <1>2 DEF ReadDay, Advance
  <2>4. \/ audits' = [audits EXCEPT ![x] = Found(a, "archive_missing")]
        \/ audits' = [audits EXCEPT ![x] = [a EXCEPT !.at = "persist", !.held = History[a.day]]]
        \/ RecordsOf(a.day) # {} /\ audits' = [audits EXCEPT ![x] = Found(a, Issue(Latest(RecordsOf(a.day))))]
        \/ audits' = [audits EXCEPT ![x] = Found(a, "source_read_failed")]
    BY <1>2, <2>1, Zenon DEF ReadDay, Advance
  <2>5. CASE audits' = [audits EXCEPT ![x] = Found(a, "archive_missing")]
    BY <1>t, <2>1, <2>3, <2>5, OneFound
  <2>6. CASE audits' = [audits EXCEPT ![x] = [a EXCEPT !.at = "persist", !.held = History[a.day]]]
    <3>1. PICK b : b = [a EXCEPT !.at = "persist", !.held = History[a.day]]
      OBVIOUS
    <3>2. b.found = a.found
      BY <1>t, <2>1, <3>1 DEF RunIsAtWork
    <3> QED
      BY <1>t, <2>1, <2>6, <3>1, <3>2, NothingFound
  <2>7. CASE RecordsOf(a.day) # {} /\ audits' = [audits EXCEPT ![x] = Found(a, Issue(Latest(RecordsOf(a.day))))]
    <3>1. PICK v : v = Issue(Latest(RecordsOf(a.day)))
      OBVIOUS
    <3>2. v = "ok" => \E r \in RecordsOf(a.day) : r.is = "good" /\ \A y \in RecordsOf(a.day) : y.at <= r.at
      BY <1>t, <2>2, <2>7, <3>1, WordOfTheLatest
    <3> QED
      BY <1>t, <2>1, <2>3, <2>7, <3>1, <3>2, OneFound
  <2>8. CASE audits' = [audits EXCEPT ![x] = Found(a, "source_read_failed")]
    BY <1>t, <2>1, <2>3, <2>8, OneFound
  <2> QED
    BY <2>4, <2>5, <2>6, <2>7, <2>8
<1>3. ASSUME NEW x \in AuditRuns, Persist(x) PROVE VerdictEarned
  <2>1. PICK a : a = audits[x]
    OBVIOUS
  <2>2. CASE audits' = [audits EXCEPT ![x] = [a EXCEPT !.at = "readback"]]
    <3>1. PICK b : b = [a EXCEPT !.at = "readback"]
      OBVIOUS
    <3>2. b.found = a.found
      BY <1>t, <2>1, <3>1 DEF RunIsAtWork
    <3> QED
      BY <1>t, <2>1, <2>2, <3>1, <3>2, NothingFound
  <2>3. CASE audits' = [audits EXCEPT ![x] = Found(a, "archive_write_conflict")] /\ UNCHANGED <<archive, backfilled>>
    BY <1>t, <2>1, <2>3, OneFound
  <2> QED
    BY <1>3, <2>1, <2>2, <2>3, Zenon DEF Persist, Advance
<1>4. ASSUME NEW x \in AuditRuns, ReadBack(x) PROVE VerdictEarned
  <2>1. PICK a : a = audits[x]
    OBVIOUS
  <2>2. a.at = "readback" /\ a.day \in AuditDays /\ UNCHANGED <<archive, backfilled>>
    BY <1>4, <2>1, <1>t DEF ReadBack, RunIsAtWork, Advance
  <2>3. PICK v : /\ audits' = [audits EXCEPT ![x] = Found(a, v)]
                 /\ v = IF a.held \notin RecordsOf(a.day) THEN "archive_readback_failed"
                        ELSE Issue(Latest(RecordsOf(a.day)))
    BY <1>4, <2>1, Zenon DEF ReadBack, Advance
  <2>4. v = "ok" => RecordsOf(a.day) # {} /\ Issue(Latest(RecordsOf(a.day))) = "ok"
    BY <2>3
  <2>5. v = "ok" => \E r \in RecordsOf(a.day) : r.is = "good" /\ \A y \in RecordsOf(a.day) : y.at <= r.at
    BY <1>t, <2>2, <2>4, WordOfTheLatest
  <2> QED
    BY <1>t, <2>1, <2>2, <2>3, <2>5, OneFound
<1>5. ASSUME NEW x \in AuditRuns, Report(x) \/ ClaimAlert(x) \/ Send(x) PROVE VerdictEarned
  <2>1. PICK at : audits' = [audits EXCEPT ![x] = [audits[x] EXCEPT !.at = at]]
    BY <1>5, Zenon DEF Report, ClaimAlert, Send, Advance
  <2>2. PICK b : b = [audits[x] EXCEPT !.at = at]
    OBVIOUS
  <2>3. b.found = audits[x].found
    BY <1>t, <2>2 DEF RunIsAtWork
  <2> QED
    BY <1>t, <2>1, <2>2, <2>3, NothingFound
<1>6. ASSUME NEW x \in AuditRuns, Restart(x) PROVE VerdictEarned
  <2>1. audits' = [audits EXCEPT ![x] = NewAudit] /\ DOMAIN NewAudit.found = {}
    BY <1>6 DEF Restart, Advance, NewAudit
  <2> QED
    BY <1>t, <2>1, NothingFound
<1> QED
  BY <1>1, <1>2, <1>3, <1>4, <1>5, <1>6 DEF AuditNext

-----------------------------------------------------------------------------
(* The daily message.                                                             *)

Holding == {"reserved", "transmitted", "finishing"}
PostIs(x) ==
  /\ x = [at |-> x.at, read |-> x.read, late |-> x.late, coverage |-> x.coverage, sent |-> x.sent]
  /\ x.late \in BOOLEAN /\ x.sent \in BOOLEAN
\* A report, not a notice, went out before the deadline.
WasInTime == \E m \in mailed : ~m.notice /\ m.hour < PastDeadline
\* What a request relies on: its reservation, what was sent on it, and what it read.
PostStands(p, x) ==
  /\ x.at \in Holding => slip # NoSlip /\ slip.by = p
  /\ x.at = "reserved" => mailed = {}
  /\ x.at = "transmitted" => \A m \in mailed : m.notice = x.late /\ m.hour <= hour
  /\ x.at = "finishing" /\ x.sent /\ ~x.late => WasInTime
  /\ x.at = "reading" => /\ DOMAIN x.read \subseteq DigestTargets
                         /\ \A t \in DOMAIN x.read : x.read[t] \in Usable => t \in intime
  /\ x.at \in {"rendered", "reserved"} /\ x.coverage = "complete" => intime = DigestTargets
MailIsOne ==
  /\ mailed = {} \/ \E m : mailed = {m}
  /\ \A m \in mailed : m.hour \in Nat /\ (m.coverage = "complete" => intime = DigestTargets)
  /\ slip = NoSlip => mailed = {}
DigestInv ==
  /\ hour \in Nat /\ DOMAIN posts = Posts /\ DOMAIN shelf = DigestTargets /\ intime \subseteq DigestTargets
  /\ \A p \in Posts : PostIs(posts[p]) /\ PostStands(p, posts[p])
  /\ MailIsOne
  /\ slip.delivery = "accepted" /\ ~slip.late => WasInTime
  /\ confirmed => WasInTime
  /\ hour = Reading => \A t \in DigestTargets : shelf[t] \in Usable => t \in intime

LEMMA DigestStarts == DigestInit => DigestInv
<1> SUFFICES ASSUME DigestInit PROVE DigestInv
  OBVIOUS
<1>1. \A p \in Posts : posts[p] = NewPost
  BY DEF DigestInit
<1>2. PostIs(NewPost) /\ NewPost.at = "new"
  BY DEF PostIs, NewPost
<1>3. \A p \in Posts : PostStands(p, NewPost)
  BY <1>2 DEF PostStands, Holding
<1>4. \A t \in DigestTargets : shelf[t] \notin Usable
  BY DEF DigestInit, Usable
<1> QED
  BY <1>1, <1>2, <1>3, <1>4 DEF DigestInit, DigestInv, MailIsOne, Reading, NoSlip

\* A request that moves on leaves the others as they stand.
LEMMA PostMoves ==
  ASSUME DigestInv, NEW p \in Posts, NEW x, posts' = [posts EXCEPT ![p] = x],
         UNCHANGED <<hour, shelf, slip, mailed, confirmed, intime>>, PostIs(x), PostStands(p, x)
  PROVE  DigestInv'
<1>1. \A q \in Posts : posts'[q] = IF q = p THEN x ELSE posts[q]
  BY DEF DigestInv
<1>2. \A q \in Posts : PostIs(posts'[q]) /\ PostStands(q, posts'[q])
  BY <1>1 DEF DigestInv
<1>3. PICK rows : rows = posts'
  OBVIOUS
<1>4. \A q \in Posts : PostStands(q, rows[q])'
  BY <1>2, <1>3 DEF PostStands, WasInTime
<1> QED
  BY <1>2, <1>3, <1>4 DEF DigestInv, MailIsOne, WasInTime

\* One who holds the reservation is the only one.
LEMMA OneHolder ==
  ASSUME DigestInv, NEW p \in Posts, posts[p].at \in Holding, NEW q \in Posts, posts[q].at \in Holding
  PROVE  p = q
BY DEF DigestInv, PostStands

LEMMA AnswerIs ==
  ASSUME NEW at
  PROVE  /\ PostIs(Answer(at)) /\ Answer(at).at = at /\ Answer(at).coverage = "unavailable"
<1>1. PICK b : b = Answer(at)
  OBVIOUS
<1>2. b = [at |-> at, read |-> [t \in {} |-> "missing"], late |-> FALSE,
           coverage |-> "unavailable", sent |-> FALSE]
  BY <1>1 DEF Answer, NewPost
<1>3. PostIs(b) /\ b.at = at /\ b.coverage = "unavailable"
  BY <1>2 DEF PostIs
<1> QED
  BY <1>1, <1>3

\* A request that has answered relies on nothing.
LEMMA AnswerStands ==
  ASSUME NEW p, NEW at, at \notin Holding, at \notin {"reading"}
  PROVE  PostStands(p, Answer(at))
BY AnswerIs DEF PostStands, Holding

LEMMA DigestKeeps == DigestInv /\ DigestNext => DigestInv'
<1> SUFFICES ASSUME DigestInv, DigestNext PROVE DigestInv'
  OBVIOUS
<1>s. \A p \in Posts : PostIs(posts[p]) /\ PostStands(p, posts[p])
  BY DEF DigestInv
<1>1. CASE Tick
  <2>1. hour' = hour + 1 /\ UNCHANGED <<shelf, posts, slip, mailed, confirmed, intime>>
    BY <1>1 DEF Tick
  <2>2. hour \in Nat /\ hour' \in Nat /\ hour' # Reading
    BY <2>1 DEF DigestInv, Reading
  <2>3. \A m \in mailed : m.hour \in Nat
    BY DEF DigestInv, MailIsOne
  <2>4. \A m \in mailed : m.hour <= hour => m.hour <= hour'
    BY <2>1, <2>2, <2>3
  <2>5. \A p \in Posts : PostStands(p, posts[p])'
    BY <1>s, <2>1, <2>4 DEF PostStands, WasInTime
  <2> QED
    BY <1>s, <2>1, <2>2, <2>5 DEF DigestInv, MailIsOne, WasInTime, PostIs
<1>2. CASE Check
  <2>1. /\ UNCHANGED <<hour, shelf, posts, slip, mailed, intime>>
        /\ confirmed' => slip.delivery = "accepted" /\ ~slip.late
    BY <1>2 DEF Check
  <2>2. \A p \in Posts : PostStands(p, posts[p])'
    BY <1>s, <2>1 DEF PostStands, WasInTime
  <2> QED
    BY <1>s, <2>1, <2>2 DEF DigestInv, MailIsOne, WasInTime, PostIs
<1>3. ASSUME NEW t \in DigestTargets, NEW s \in Shelves, Publish(t, s) PROVE DigestInv'
  <2>1. /\ shelf' = [shelf EXCEPT ![t] = s] /\ UNCHANGED <<hour, posts, slip, mailed, confirmed>>
        /\ intime' = IF hour = Reading /\ s \in Usable THEN intime \cup {t} ELSE intime
    BY <1>3 DEF Publish
  <2>2. intime \subseteq intime' /\ intime' \subseteq DigestTargets
    BY <2>1 DEF DigestInv
  <2>3. \A p \in Posts : PostStands(p, posts[p])'
    BY <1>s, <2>1, <2>2 DEF PostStands, WasInTime
  <2>4. hour' = Reading => \A u \in DigestTargets : shelf'[u] \in Usable => u \in intime'
    BY <2>1 DEF DigestInv
  <2> QED
    BY <1>s, <2>1, <2>2, <2>3, <2>4 DEF DigestInv, MailIsOne, WasInTime, PostIs
<1>4. ASSUME NEW p \in Posts, Accept(p) PROVE DigestInv'
  <2>1. PICK x : /\ posts' = [posts EXCEPT ![p] = x]
                 /\ UNCHANGED <<hour, shelf, slip, mailed, confirmed, intime>>
                 /\ x = IF hour = NextDate THEN Answer("expired_slot")
                        ELSE [NewPost EXCEPT !.at = IF Late THEN "rendered" ELSE "reading", !.late = Late]
    BY <1>4 DEF Accept, Move
  <2>2. CASE hour = NextDate
    BY <2>1, <2>2, AnswerIs, AnswerStands, PostMoves DEF Holding
  <2>3. CASE hour # NextDate
    <3>1. PICK at \in {"rendered", "reading"}, late \in BOOLEAN :
            x = [at |-> at, read |-> [t \in {} |-> "missing"], late |-> late,
                 coverage |-> "unavailable", sent |-> FALSE]
      <4>1. PICK late : late = Late
        OBVIOUS
      <4>2. late \in BOOLEAN
        BY <4>1 DEF Late
      <4>3. x = [at |-> IF late THEN "rendered" ELSE "reading", read |-> [t \in {} |-> "missing"], late |-> late,
                 coverage |-> "unavailable", sent |-> FALSE]
        BY <2>1, <2>3, <4>1 DEF NewPost
      <4> QED
        BY <4>2, <4>3
    <3>2. PostIs(x) /\ PostStands(p, x)
      BY <3>1 DEF PostIs, PostStands, Holding
    <3> QED
      BY <2>1, <3>2, PostMoves
  <2> QED
    BY <2>2, <2>3
<1>5. ASSUME NEW p \in Posts, NEW t \in DigestTargets, ReadTarget(p, t) PROVE DigestInv'
  <2>1. PICK a : a = posts[p]
    OBVIOUS
  <2>2. a.at = "reading" /\ PostIs(a) /\ PostStands(p, a)
    BY <1>5, <1>s, <2>1 DEF ReadTarget
  <2>0. PICK got \in {shelf[t], "read_failed"} :
          posts' = [posts EXCEPT ![p] = [a EXCEPT !.read =
                     [u \in DOMAIN a.read \cup {t} |->
                        IF u = t THEN (IF hour = Reading THEN got ELSE "read_failed") ELSE a.read[u]]]]
    BY <1>5, <2>1 DEF ReadTarget, Move
  <2>3. PICK f, x :
          /\ f = [u \in DOMAIN a.read \cup {t} |->
                    IF u = t THEN (IF hour = Reading THEN got ELSE "read_failed") ELSE a.read[u]]
          /\ x = [a EXCEPT !.read = f]
          /\ posts' = [posts EXCEPT ![p] = x]
    BY <2>0
  <2>4. UNCHANGED <<hour, shelf, slip, mailed, confirmed, intime>>
    BY <1>5 DEF ReadTarget, Move
  <2>5. x = [at |-> "reading", read |-> f, late |-> a.late, coverage |-> a.coverage, sent |-> a.sent]
    BY <2>2, <2>3 DEF PostIs
  <2>6. x.at = "reading" /\ x.read = f /\ PostIs(x)
    BY <2>2, <2>5 DEF PostIs
  <2>7. DOMAIN f \subseteq DigestTargets /\ \A u \in DOMAIN f : f[u] \in Usable => u \in intime
    <3>1. "read_failed" \notin Usable
      BY DEF Usable
    <3>2. DOMAIN a.read \subseteq DigestTargets /\ \A u \in DOMAIN a.read : a.read[u] \in Usable => u \in intime
      BY <2>2 DEF PostStands
    <3>3. hour = Reading /\ shelf[t] \in Usable => t \in intime
      BY DEF DigestInv
    <3> QED
      BY <2>3, <3>1, <3>2, <3>3
  <2>8. PostStands(p, x)
    BY <2>6, <2>7 DEF PostStands, Holding
  <2> QED
    BY <2>3, <2>4, <2>6, <2>8, PostMoves
<1>6. ASSUME NEW p \in Posts, Render(p) PROVE DigestInv'
  <2>1. PICK a : a = posts[p]
    OBVIOUS
  <2>2. a.at = "reading" /\ PostIs(a) /\ PostStands(p, a) /\ DOMAIN a.read = DigestTargets
    BY <1>6, <1>s, <2>1 DEF Render
  <2>3. PICK c, late, x :
          /\ c = "complete" => Coverage(a.read) = "complete"
          /\ late = Late
          /\ x = [a EXCEPT !.at = "rendered", !.late = late, !.read = NewPost.read, !.coverage = c]
          /\ posts' = [posts EXCEPT ![p] = x]
    <3>1. PICK counts \in BOOLEAN :
            posts' = [posts EXCEPT ![p] = [a EXCEPT !.at = "rendered", !.late = Late, !.read = NewPost.read,
                         !.coverage = IF Coverage(a.read) = "complete" /\ ~counts
                                      THEN "partial" ELSE Coverage(a.read)]]
      BY <1>6, <2>1 DEF Render, Move
    <3>2. PICK c : c = IF Coverage(a.read) = "complete" /\ ~counts THEN "partial" ELSE Coverage(a.read)
      OBVIOUS
    <3>3. c = "complete" => Coverage(a.read) = "complete"
      BY <3>2
    <3> QED
      BY <3>1, <3>2, <3>3
  <2>4. UNCHANGED <<hour, shelf, slip, mailed, confirmed, intime>>
    BY <1>6 DEF Render, Move
  <2>5. x = [at |-> "rendered", read |-> NewPost.read, late |-> late, coverage |-> c, sent |-> a.sent]
    BY <2>2, <2>3 DEF PostIs
  <2>6. late \in BOOLEAN
    BY <2>3 DEF Late
  <2>7. x.at = "rendered" /\ x.coverage = c /\ PostIs(x)
    BY <2>2, <2>5, <2>6 DEF PostIs
  <2>8. Coverage(a.read) = "complete" => intime = DigestTargets
    <3>1. Coverage(a.read) = "complete" => \A t \in DigestTargets : a.read[t] \in Usable
      BY <2>2 DEF Coverage
    <3> QED
      BY <2>2, <3>1 DEF PostStands, DigestInv
  <2>9. PostStands(p, x)
    BY <2>3, <2>7, <2>8 DEF PostStands, Holding
  <2> QED
    BY <2>3, <2>4, <2>7, <2>9, PostMoves
<1>7. ASSUME NEW p \in Posts, Reserve(p) PROVE DigestInv'
  <2>1. PICK a : a = posts[p]
    OBVIOUS
  <2>2. a.at = "rendered" /\ PostIs(a) /\ PostStands(p, a)
    BY <1>7, <1>s, <2>1 DEF Reserve
  <2>3. UNCHANGED <<hour, shelf, mailed, confirmed, intime>>
    BY <1>7 DEF Reserve, Move
  <2>4. ASSUME NEW at, at \notin Holding, at # "reading", posts' = [posts EXCEPT ![p] = Answer(at)], UNCHANGED slip
        PROVE  DigestInv'
    BY <2>3, <2>4, AnswerIs, AnswerStands, PostMoves
  <2>5. ASSUME slip = NoSlip, slip' = [delivery |-> "sending", late |-> a.late, by |-> p],
               NEW x, posts' = [posts EXCEPT ![p] = x], x = [a EXCEPT !.at = "reserved"] \/ x = Answer("reservation_unconfirmed")
        PROVE  DigestInv'
    <3>1. mailed = {} /\ slip' # NoSlip /\ slip'.by = p /\ slip'.delivery = "sending"
      BY <2>5 DEF DigestInv, MailIsOne, NoSlip
    <3>2. \A q \in Posts : posts[q].at \notin Holding
      BY <2>5, <1>s DEF PostStands
    <3>3. \A q \in Posts : posts'[q] = IF q = p THEN x ELSE posts[q]
      BY <2>5 DEF DigestInv
    <3>4. PostIs(x) /\ x.at \in {"reserved", "reservation_unconfirmed"}
          /\ (x.at = "reserved" => x.coverage = a.coverage)
      <4>1. CASE x = [a EXCEPT !.at = "reserved"]
        <5>1. x = [at |-> "reserved", read |-> a.read, late |-> a.late, coverage |-> a.coverage, sent |-> a.sent]
          BY <2>2, <4>1 DEF PostIs
        <5> QED
          BY <2>2, <5>1 DEF PostIs
      <4>2. CASE x = Answer("reservation_unconfirmed")
        BY <4>2, AnswerIs
      <4> QED
        BY <2>5, <4>1, <4>2
    <3>5. \A q \in Posts : PostIs(posts[q])'
      BY <1>s, <3>3, <3>4 DEF PostIs
    <3>6. \A q \in Posts : q # p => PostStands(q, posts[q])'
      BY <1>s, <2>3, <3>1, <3>2, <3>3 DEF PostStands, WasInTime, Holding
    <3>7. PostStands(p, posts[p])'
      BY <2>2, <2>3, <3>1, <3>3, <3>4 DEF PostStands, WasInTime, Holding
    <3> QED
      BY <2>3, <2>5, <3>1, <3>3, <3>5, <3>6, <3>7 DEF DigestInv, MailIsOne, WasInTime
  <2> QED
    BY <1>7, <2>1, <2>4, <2>5, Zenon DEF Reserve, Move, Holding
<1>8. ASSUME NEW p \in Posts, Transmit(p) PROVE DigestInv'
  <2>1. PICK a, x : a = posts[p] /\ x = [a EXCEPT !.at = "transmitted"]
    OBVIOUS
  <2>2. a.at = "reserved" /\ PostIs(a) /\ PostStands(p, a)
    BY <1>8, <1>s, <2>1 DEF Transmit
  <2>3. /\ posts' = [posts EXCEPT ![p] = x] /\ UNCHANGED <<hour, shelf, slip, confirmed, intime>>
        /\ mailed' \in {mailed, mailed \cup {[post |-> p, hour |-> hour, notice |-> a.late, coverage |-> a.coverage]}}
    BY <1>8, <2>1 DEF Transmit, Move
  <2>4. x = [at |-> "transmitted", read |-> a.read, late |-> a.late, coverage |-> a.coverage, sent |-> a.sent]
    BY <2>1, <2>2 DEF PostIs
  <2>5. PostIs(x) /\ x.at = "transmitted" /\ x.late = a.late
    BY <2>2, <2>4 DEF PostIs
  <2>6. mailed = {} /\ slip # NoSlip /\ slip.by = p /\ (a.coverage = "complete" => intime = DigestTargets)
    BY <2>2 DEF PostStands, Holding
  <2>7. PICK mail : mail = [post |-> p, hour |-> hour, notice |-> a.late, coverage |-> a.coverage]
    OBVIOUS
  <2>8. mail.hour = hour /\ mail.notice = a.late /\ mail.coverage = a.coverage
    BY <2>7
  <2>9. mailed' = {} \/ mailed' = {mail}
    BY <2>3, <2>6, <2>7
  <2>10. hour \in Nat /\ hour <= hour
    BY DEF DigestInv
  <2>11. \A m \in mailed' : m.hour \in Nat /\ m.hour <= hour /\ m.notice = a.late
                            /\ (m.coverage = "complete" => intime = DigestTargets)
    BY <2>6, <2>8, <2>9, <2>10
  <2>12. \A q \in Posts : posts'[q] = IF q = p THEN x ELSE posts[q]
    BY <2>3 DEF DigestInv
  <2>13. \A q \in Posts : q # p => posts[q].at \notin Holding
    BY <2>1, <2>2, OneHolder DEF Holding
  <2>14. \A q \in Posts : PostIs(posts[q])'
    BY <1>s, <2>5, <2>12 DEF PostIs
  <2>15. \A q \in Posts : q # p => PostStands(q, posts[q])'
    BY <1>s, <2>3, <2>12, <2>13 DEF PostStands, WasInTime, Holding
  <2>16. PostStands(p, posts[p])'
    BY <2>3, <2>5, <2>6, <2>11, <2>12 DEF PostStands, Holding
  <2>17. MailIsOne'
    BY <2>3, <2>6, <2>9, <2>11 DEF MailIsOne
  <2>18. ~WasInTime
    BY <2>6 DEF WasInTime
  <2>19. ~(slip.delivery = "accepted" /\ ~slip.late) /\ ~confirmed
    BY <2>18 DEF DigestInv
  <2> QED
    BY <2>3, <2>12, <2>14, <2>15, <2>16, <2>17, <2>19 DEF DigestInv
<1>9. ASSUME NEW p \in Posts, Outcome(p) PROVE DigestInv'
  <2>1. PICK a : a = posts[p]
    OBVIOUS
  <2>2. a.at = "transmitted" /\ PostIs(a) /\ PostStands(p, a)
    BY <1>9, <1>s, <2>1 DEF Outcome
  <2>0. PICK acked \in BOOLEAN :
          /\ acked => \E m \in mailed : m.post = p
          /\ posts' = [posts EXCEPT ![p] = [a EXCEPT !.at = "finishing", !.sent = acked,
                                            !.late = (a.late \/ (acked /\ hour >= PastDeadline))]]
    BY <1>9, <2>1 DEF Outcome, Move
  <2>3. PICK late, x :
          /\ late = (a.late \/ (acked /\ hour >= PastDeadline))
          /\ x = [a EXCEPT !.at = "finishing", !.sent = acked, !.late = late]
          /\ posts' = [posts EXCEPT ![p] = x]
    BY <2>0
  <2>4. UNCHANGED <<hour, shelf, slip, mailed, confirmed, intime>>
    BY <1>9 DEF Outcome, Move
  <2>5. x = [at |-> "finishing", read |-> a.read, late |-> late, coverage |-> a.coverage, sent |-> acked]
    BY <2>2, <2>3 DEF PostIs
  <2>6. late \in BOOLEAN
    BY <2>3
  <2>7. PostIs(x) /\ x.at = "finishing" /\ x.sent = acked /\ x.late = late
    BY <2>5, <2>6 DEF PostIs
  <2>8. acked /\ ~late => WasInTime
    <3>1. SUFFICES ASSUME acked, ~late PROVE WasInTime
      OBVIOUS
    <3>2. PICK m \in mailed : m.post = p
      BY <2>0, <2>3, <3>1
    <3>3. m.notice = a.late /\ m.hour <= hour /\ m.hour \in Nat /\ hour \in Nat
      BY <2>2, <3>2 DEF PostStands, DigestInv, MailIsOne
    <3>4. a.late = FALSE /\ ~(hour >= PastDeadline)
      BY <2>2, <2>3, <3>1 DEF PostIs
    <3>5. ~m.notice
      BY <3>3, <3>4
    <3>6. m.hour < PastDeadline
      BY <3>3, <3>4 DEF PastDeadline
    <3> QED
      BY <3>2, <3>5, <3>6 DEF WasInTime
  <2>9. slip # NoSlip /\ slip.by = p
    BY <2>2 DEF PostStands, Holding
  <2>10. PostStands(p, x)
    BY <2>7, <2>8, <2>9 DEF PostStands, Holding
  <2> QED
    BY <2>3, <2>4, <2>7, <2>10, PostMoves
<1>10. ASSUME NEW p \in Posts, Finish(p) PROVE DigestInv'
  <2>1. PICK a : a = posts[p]
    OBVIOUS
  <2>2. PICK closed : closed = [delivery |-> IF a.sent THEN "accepted" ELSE "unknown", late |-> a.late, by |-> p]
    OBVIOUS
  <2>3. a.at = "finishing" /\ PostIs(a) /\ PostStands(p, a)
    BY <1>10, <1>s, <2>1 DEF Finish
  <2>4. /\ slip' \in {slip, closed} /\ UNCHANGED <<hour, shelf, mailed, confirmed, intime>>
    BY <1>10, <2>1, <2>2 DEF Finish, Move
  <2>5. closed.delivery \in {"accepted", "unknown"}
    BY <2>2
  <2>6. PICK at \in {"accepted", "unknown"} : posts' = [posts EXCEPT ![p] = Answer(at)]
    BY <1>10, <2>1, <2>2, <2>5 DEF Finish, Move
  <2>7. PICK x : x = Answer(at)
    OBVIOUS
  <2>8. PostIs(x) /\ x.at = at
    BY <2>7, AnswerIs
  <2>9. \A q \in Posts : posts'[q] = IF q = p THEN x ELSE posts[q]
    BY <2>6, <2>7 DEF DigestInv
  <2>10. \A q \in Posts : q # p => posts[q].at \notin Holding
    BY <2>1, <2>3, OneHolder DEF Holding
  <2>11. \A q \in Posts : PostIs(posts[q])'
    BY <1>s, <2>8, <2>9 DEF PostIs
  <2>12. \A q \in Posts : q # p => PostStands(q, posts[q])'
    BY <1>s, <2>4, <2>9, <2>10 DEF PostStands, WasInTime, Holding
  <2>13. PostStands(p, posts[p])'
    BY <2>6, <2>8, <2>9 DEF PostStands, Holding
  <2>14. slip # NoSlip /\ closed # NoSlip
    BY <2>2, <2>3, <2>5 DEF PostStands, Holding, NoSlip
  <2>15. closed.delivery = "accepted" /\ ~closed.late => WasInTime
    BY <2>2, <2>3 DEF PostStands, PostIs
  <2>16. slip'.delivery = "accepted" /\ ~slip'.late => WasInTime
    BY <2>4, <2>15 DEF DigestInv
  <2>17. MailIsOne'
    BY <2>4, <2>14 DEF DigestInv, MailIsOne
  <2> QED
    BY <2>4, <2>9, <2>6, <2>11, <2>12, <2>13, <2>16, <2>17 DEF DigestInv, WasInTime
<1>11. ASSUME NEW p \in Posts, Repost(p) PROVE DigestInv'
  <2>1. posts' = [posts EXCEPT ![p] = NewPost] /\ UNCHANGED <<hour, shelf, slip, mailed, confirmed, intime>>
    BY <1>11 DEF Repost
  <2>2. PostIs(NewPost) /\ NewPost.at = "new"
    BY DEF PostIs, NewPost
  <2>3. PostStands(p, NewPost)
    BY <2>2 DEF PostStands, Holding
  <2> QED
    BY <2>1, <2>2, <2>3, PostMoves
<1> QED
  BY <1>1, <1>2, <1>3, <1>4, <1>5, <1>6, <1>7, <1>8, <1>9, <1>10, <1>11 DEF DigestNext

LEMMA DigestSuffices == DigestInv => OneMessageADate /\ ConfirmedWasInTime /\ CompleteWasRead
<1> SUFFICES ASSUME DigestInv PROVE OneMessageADate /\ ConfirmedWasInTime /\ CompleteWasRead
  OBVIOUS
<1>1. Cardinality(mailed) <= 1
  <2>1. CASE mailed = {}
    BY <2>1, FS_EmptySet
  <2>2. CASE \E m : mailed = {m}
    BY <2>2, FS_Singleton
  <2> QED
    BY <2>1, <2>2 DEF DigestInv, MailIsOne
<1>2. \A m \in mailed : slip # NoSlip
  BY DEF DigestInv, MailIsOne
<1>3. ConfirmedWasInTime /\ CompleteWasRead
  BY DEF DigestInv, MailIsOne, WasInTime, ConfirmedWasInTime, CompleteWasRead
<1> QED
  BY <1>1, <1>2, <1>3 DEF OneMessageADate

-----------------------------------------------------------------------------
(* All of them, each in its part.                                                 *)

\* An invariant says nothing more of a part at rest than of the state it rests in.
LEMMA GateRests == GateInv /\ UNCHANGED gateVars => GateInv'
  BY DEF gateVars, GateInv, GateTypeOK, PapersAreNested, ReceiptStandsForPapers
LEMMA RiskRests == RiskInv /\ UNCHANGED riskVars => RiskInv'
  BY DEF riskVars, RiskInv, RiskTypeOK, TakenWithinLimits
LEMMA AuditRests == AuditInv /\ UNCHANGED auditVars => AuditInv'
  BY DEF auditVars, AuditInv, ArchiveTypeOK, RunIsAtWork, ClaimIsHeld, AnnouncedOnce
LEMMA DigestRests == DigestInv /\ UNCHANGED digestVars => DigestInv'
<1> SUFFICES ASSUME DigestInv, UNCHANGED digestVars PROVE DigestInv'
  OBVIOUS
<1>1. /\ hour' = hour /\ shelf' = shelf /\ posts' = posts /\ slip' = slip /\ mailed' = mailed
      /\ confirmed' = confirmed /\ intime' = intime
  BY DEF digestVars
<1>2. WasInTime' <=> WasInTime
  BY <1>1 DEF WasInTime
<1>3. MailIsOne'
  BY <1>1 DEF MailIsOne, DigestInv
<1>4. ASSUME NEW p \in Posts PROVE PostIs(posts'[p]) /\ PostStands(p, posts[p])'
  <2>1. PostIs(posts[p]) /\ PostStands(p, posts[p])
    BY DEF DigestInv
  <2> QED
    BY <1>1, <1>2, <2>1 DEF PostStands
<1> QED
  BY <1>1, <1>2, <1>3, <1>4 DEF DigestInv
LEMMA WriterRests == WriterInv /\ UNCHANGED writerVars => WriterInv'
<1> SUFFICES ASSUME WriterInv, UNCHANGED writerVars PROVE WriterInv'
  OBVIOUS
<1>1. /\ site' = site /\ gh' = gh /\ jobs' = jobs /\ ledger' = ledger /\ signed' = signed /\ runs' = runs
  BY DEF writerVars
<1>2. SettingsAre' /\ RunsAre' /\ LedgerIs' /\ OneAtATime'
  BY <1>1 DEF WriterInv, SettingsAre, RunsAre, LedgerIs, OneAtATime
<1>3. ASSUME NEW j \in WriterJobs PROVE JobStands(j, jobs[j])'
  <2>1. PICK y : y = jobs[j]
    OBVIOUS
  <2>2. JobStands(j, y)
    BY <2>1 DEF WriterInv
  <2>3. JobStands(j, y)'
    BY <1>1, <2>2, LaterLedger
  <2>4. jobs'[j] = y
    BY <1>1, <2>1
  <2> QED
    BY <2>3, <2>4
<1>4. jobs' = [j \in WriterJobs |-> jobs'[j]]
  BY <1>1 DEF WriterInv
<1> QED
  BY <1>2, <1>3, <1>4 DEF WriterInv
LEMMA TargetRests == TargetInv /\ UNCHANGED targetVars => TargetInv'
  BY DEF targetVars, TargetInv

GatesInv ==
  /\ part = "gate" => GateInv
  /\ part = "risk" => RiskInv
  /\ part = "audit" => AuditInv
  /\ part = "digest" => DigestInv
  /\ part = "writers" => WriterInv
  /\ part = "target" => TargetInv
LEMMA GatesStart == Init => GatesInv
  BY GateStarts, RiskStarts, AuditStarts, DigestStarts, WriterStarts, TargetStarts DEF Init, GatesInv
LEMMA GatesKeep == GatesInv /\ [Next]_<<part, GateParts>> => GatesInv'
<1> SUFFICES ASSUME GatesInv, [Next]_<<part, GateParts>> PROVE GatesInv'
  OBVIOUS
<1>1. part' = part
  BY DEF Next
<1>2. ASSUME part = "gate" PROVE GateInv'
  <2>1. GateInv /\ (GateNext \/ UNCHANGED gateVars)
    BY <1>2 DEF GatesInv, Next, GateParts
  <2> QED
    BY <2>1, GateKeeps, GateRests
<1>3. ASSUME part = "risk" PROVE RiskInv'
  <2>1. RiskInv /\ (RiskNext \/ UNCHANGED riskVars)
    BY <1>3 DEF GatesInv, Next, GateParts
  <2> QED
    BY <2>1, RiskKeeps, RiskRests
<1>4. ASSUME part = "audit" PROVE AuditInv'
  <2>1. AuditInv /\ (AuditNext \/ UNCHANGED auditVars)
    BY <1>4 DEF GatesInv, Next, GateParts
  <2> QED
    BY <2>1, AuditKeeps, AuditRests
<1>5. ASSUME part = "digest" PROVE DigestInv'
  <2>1. DigestInv /\ (DigestNext \/ UNCHANGED digestVars)
    BY <1>5 DEF GatesInv, Next, GateParts
  <2> QED
    BY <2>1, DigestKeeps, DigestRests
<1>6. ASSUME part = "writers" PROVE WriterInv'
  <2>1. WriterInv /\ (WriterNext \/ UNCHANGED writerVars)
    BY <1>6 DEF GatesInv, Next, GateParts
  <2> QED
    BY <2>1, WriterKeeps, WriterRests
<1>7. ASSUME part = "target" PROVE TargetInv'
  <2>1. TargetInv /\ (TargetNext \/ UNCHANGED targetVars)
    BY <1>7 DEF GatesInv, Next, GateParts
  <2> QED
    BY <2>1, TargetKeeps, TargetRests
<1> QED
  BY <1>1, <1>2, <1>3, <1>4, <1>5, <1>6, <1>7 DEF GatesInv

\* Whatever arrives, expires, fails, is retried or interleaved, what is decided, sent,
\* written and switched stays explained by what it rests on: an admission by the papers
\* it was made of, the book by the limits, a claim by the one run that holds it, a job
\* by what it read and was asked to do, an inventory by its own targets.
THEOREM GatesInvariant == Spec => []GatesInv
  BY GatesStart, GatesKeep, PTL DEF Spec

\* For any papers, limits, archives, posts, layouts, jobs and requests: an admission is
\* covered by papers in force, the book stays within the limits, a report is announced
\* once, a day's message is one, a manifest is spent once, a live target is earned and
\* no entry contradicts its target.
THEOREM GatesAlwaysHold == Spec => []GatesHold
<1>1. GatesInv => GatesHold
  <2> SUFFICES ASSUME GatesInv PROVE GatesHold
    OBVIOUS
  <2>1. part = "gate" => AdmissionIsCovered
    BY GateSuffices DEF GatesInv
  <2>2. part = "risk" => TakenWithinLimits
    BY DEF GatesInv, RiskInv
  <2>3. part = "audit" => AnnouncedOnce
    BY DEF GatesInv, AuditInv
  <2>4. part = "digest" => OneMessageADate /\ ConfirmedWasInTime /\ CompleteWasRead
    BY DigestSuffices DEF GatesInv
  <2>5. part = "writers" => SpentOnce
    BY WriterSuffices DEF GatesInv
  <2>6. part = "target" => LiveIsEarned /\ EntriesCohere
    BY TargetSuffices DEF GatesInv
  <2> QED
    BY <2>1, <2>2, <2>3, <2>4, <2>5, <2>6 DEF GatesHold
<1> QED
  BY GatesInvariant, <1>1, PTL

\* A tripped breaker stays tripped until an operator resets it, the audit's verdict on a
\* day improves only by a record that earns it, a writer of settings that nobody interfered
\* with reports what is so and leaves other accounts alone, whether or not the environment
\* names its service, and one step changes one entry of an inventory, to what was asked.
THEOREM NothingIsEverForgiven == Spec => NothingIsForgiven
<1>1. GatesInv /\ [Next]_<<part, GateParts>> =>
        [/\ part = "risk" => Latched
         /\ part = "audit" => VerdictEarned
         /\ part = "writers" => ReportedIsSo /\ OthersStand
         /\ part = "target" => StepIsExact]_<<riskVars, auditVars, writerVars, targetVars>>
  <2> SUFFICES ASSUME GatesInv, Next
               PROVE  \/ UNCHANGED <<riskVars, auditVars, writerVars, targetVars>>
                      \/ /\ part = "risk" => Latched
                         /\ part = "audit" => VerdictEarned
                         /\ part = "writers" => ReportedIsSo /\ OthersStand
                         /\ part = "target" => StepIsExact
    BY DEF GateParts
  <2>1. part = "risk" => Latched
    <3>1. part = "risk" => RiskNext
      BY DEF Next
    <3> QED
      BY <3>1, RiskLatches
  <2>2. part = "audit" => VerdictEarned
    <3>1. part = "audit" => AuditInv /\ AuditNext
      BY DEF Next, GatesInv
    <3> QED
      BY <3>1, AuditEarns
  <2>3. part = "writers" => ReportedIsSo /\ OthersStand
    <3>1. part = "writers" => WriterInv /\ WriterNext
      BY DEF Next, GatesInv
    <3> QED
      BY <3>1, WriterReports, WriterSpares
  <2>4. part = "target" => StepIsExact
    <3>1. part = "target" => TargetInv /\ TargetNext
      BY DEF Next, GatesInv
    <3> QED
      BY <3>1, TargetIsExact
  <2> QED
    BY <2>1, <2>2, <2>3, <2>4
<1> QED
  BY GatesInvariant, <1>1, PTL DEF Spec, NothingIsForgiven
=============================================================================
