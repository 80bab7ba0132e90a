----------------------------- MODULE PolicyGate -----------------------------
(***************************************************************************)
(* The admission of an autonomous execution target: a signed operating     *)
(* policy under an externally pinned root, an activation for exactly one   *)
(* deployment bundle, and a reconcile-only admission below both of them    *)
(* (deployment_bundle_contract.py, autonomous_policy_gate.py,              *)
(* gcp_kms_policy_gate.py, activation_contract.py and                      *)
(* reconcile_only_admission_gate.py).                                      *)
(*                                                                         *)
(* Each validation that compares a window with the time reads the clock    *)
(* itself, so the clock moves between the steps of one check.  A digest is *)
(* the content it is taken of: a reference to a bundle or to a risk policy *)
(* is the artifact.  "intact" says that an artifact has its schema's shape *)
(* and that its own digest matches.                                        *)
(***************************************************************************)
EXTENDS Integers

CONSTANTS
  MaxTime,        \* bound: the last instant
  MaxRootSpan,    \* longest validity of a root
  MaxPolicySpan,  \* longest validity of a policy
  GateStages,     \* the stages of an activation
  GateTargets,    \* targets an artifact may name
  SigningKeys,    \* keys a policy may be signed with
  PinnedKey,      \* the key of the root whose digest is pinned
  PaperWindows    \* the windows presented together with faultless papers

ASSUME GateAssumption ==
  /\ MaxTime \in Nat /\ MaxRootSpan \in Nat /\ MaxPolicySpan \in Nat
  /\ PinnedKey \in SigningKeys
  /\ PaperWindows \subseteq [created : Nat, effective : Nat, expires : Nat]

VARIABLES
  now,       \* the clock the validations read
  papers,    \* the artifacts the caller presents
  check,     \* the check under way: its next step, its scheme, its last time
  receipt    \* the detached receipt of a passed KMS gate
gateVars == <<now, papers, check, receipt>>

NoReceipt == [issued |-> FALSE]

\* The validity rules of a window; a limit is there for roots and policies.
WellFormed(w) == w.created <= w.effective /\ w.effective < w.expires
Spans(w, max) == WellFormed(w) /\ w.expires - w.effective <= max
Holds(w, t) == w.effective <= t /\ t < w.expires
InsideFromBelow(v, w) == w.effective <= v.effective
Inside(v, w) == w.effective <= v.effective /\ v.expires <= w.expires

-----------------------------------------------------------------------------
(* The validators of the single artifacts.                                 *)

\* The shape an artifact's schema asks for: closed keys, no null, no credential
\* material, well-formed identities and times, and its own digest.  Each of the
\* contracts has its own rules of this kind.
BundleIntact(b) == b.intact
PolicyIntact(p) == p.intact
KmsIntact(r) == r.intact
ActivationIntact(a) == a.intact
AdmissionIntact(d) == d.intact

\* The strategy and platform a bundle names must be those it depends on.
BundleValid(b) == BundleIntact(b) /\ b.strategyRevision = b.dependencyRevision

RootValid(r, t) ==
  /\ IF check.scheme = "kms" THEN KmsIntact(r) ELSE PolicyIntact(r)
  /\ r.key = PinnedKey
  /\ Spans(r.window, MaxRootSpan)
  /\ Holds(r.window, t)

PolicyValid(p, t) ==
  /\ PolicyIntact(p)
  /\ Spans(p.window, MaxPolicySpan)
  /\ p.stage \in GateStages
  /\ Holds(p.window, t)

\* ssh-keygen or openssl verifies the policy's canonical text with the root's key.
SignatureValid(p, r) == p.signedBy = r.key

\* What an activation must carry for a policy; its receipt is the signature.
AuthorityOf(p) == [stage |-> p.stage, policy |-> p.id, receipt |-> p.signedBy]

ActivationValid(a, b, authority, t) ==
  /\ ActivationIntact(a) /\ WellFormed(a.window)
  /\ a.authority.stage = a.stage
  /\ a.bundle = b.id /\ a.target = b.target
  /\ a.authority = authority
  /\ a.window.created <= t
  /\ Holds(a.window, t)

RiskControlValid(k, t) == AdmissionIntact(k) /\ WellFormed(k.window) /\ k.ceiling = 0 /\ Holds(k.window, t)

AdmissionValid(d, t) == AdmissionIntact(d) /\ WellFormed(d.window) /\ Holds(d.window, t)

-----------------------------------------------------------------------------
(* One check, step by step.                                                *)

Step(at, guard, next) ==
  /\ check.step = at
  /\ check' = IF guard THEN [check EXCEPT !.step = next, !.at = now]
                       ELSE [check EXCEPT !.step = "denied"]
  /\ UNCHANGED <<now, papers, receipt>>

\* validate_policy_gate, and its KMS variant
CheckRoot == Step("root", BundleValid(papers.bundle) /\ RootValid(papers.root, now), "policy")

CheckPolicy ==
  Step("policy",
       /\ PolicyValid(papers.policy, now)
       /\ SignatureValid(papers.policy, papers.root)
       /\ Inside(papers.policy.window, papers.root.window)
       /\ papers.policy.bundle = papers.bundle.id,
       "activation")

CheckActivation ==
  Step("activation",
       /\ ActivationValid(papers.activation, papers.bundle, AuthorityOf(papers.policy), now)
       /\ papers.policy.target = papers.activation.target
       /\ Inside(papers.activation.window, papers.policy.window),
       "passed")

\* _admit_from_policy_gate
CheckRiskControl ==
  Step("passed",
       /\ RiskControlValid(papers.risk, now)
       /\ papers.policy.risk = papers.risk.id,
       "admission")

CheckAdmission ==
  Step("admission",
       LET d == papers.admission IN
       /\ AdmissionValid(d, now)
       /\ d.target = papers.activation.target
       /\ \A w \in {papers.risk.window, papers.policy.window, papers.activation.window} :
            Inside(d.window, w),
       "admitted")

\* The bounds a receipt carries: the root's start is not among them.
ReceiptHolds(r, t) ==
  /\ Inside(r.activation, r.policy)
  /\ r.verifiedAt <= t
  /\ r.policy.effective <= t /\ r.activation.effective <= t
  /\ t < r.policy.expires /\ t < r.activation.expires /\ t < r.rootExpires

\* build_gcp_kms_policy_gate_receipt: the receipt is written once, and only
\* when it is valid at the instant it states.
IssueReceipt ==
  /\ check.step = "passed" /\ check.scheme = "kms" /\ ~receipt.issued
  /\ LET r == [issued |-> TRUE, used |-> -1, verifiedAt |-> now,
               policy |-> papers.policy.window, activation |-> papers.activation.window,
               rootExpires |-> papers.root.window.expires]
     IN  /\ papers.activation.stage = papers.policy.stage
         /\ papers.activation.bundle = papers.policy.bundle
         /\ papers.activation.target = papers.policy.target
         /\ ReceiptHolds(r, now)
         /\ receipt' = r
  /\ UNCHANGED <<now, papers, check>>

\* validate_gcp_kms_policy_gate_receipt, by the service that was handed it
UseReceipt ==
  /\ receipt.issued /\ ReceiptHolds(receipt, now)
  /\ receipt.used < now
  /\ receipt' = [receipt EXCEPT !.used = now]
  /\ UNCHANGED <<now, papers, check>>

\* Time passes between any two steps, up to the bound.
GateTick == now < MaxTime /\ now' = now + 1 /\ UNCHANGED <<papers, check, receipt>>

-----------------------------------------------------------------------------
(* The papers presented: a matching set with any windows, or one in which  *)
(* one field of one artifact is off.                                       *)
Flaws == {"none", "bundle", "dependency", "root", "key", "policy", "stage", "signature",
          "policy bundle", "policy target", "risk", "activation", "activation target",
          "receipt", "ceiling", "admission", "admission target"}

Presented(f, wr, wp, wa, wk, wd) ==
  LET other(x, S) == CHOOSE y \in S : y # x
      t == CHOOSE x \in GateTargets : TRUE
      s == CHOOSE x \in GateStages : TRUE
  IN [bundle |-> [id |-> "b", target |-> t, intact |-> f # "bundle", strategyRevision |-> 1,
                  dependencyRevision |-> IF f = "dependency" THEN 2 ELSE 1],
      root |-> [window |-> wr, intact |-> f # "root",
                key |-> IF f = "key" THEN other(PinnedKey, SigningKeys) ELSE PinnedKey],
      policy |-> [window |-> wp, id |-> "p", stage |-> s, intact |-> f # "policy",
                  bundle |-> IF f = "policy bundle" THEN "c" ELSE "b",
                  target |-> IF f = "policy target" THEN other(t, GateTargets) ELSE t,
                  signedBy |-> IF f = "signature" THEN other(PinnedKey, SigningKeys) ELSE PinnedKey,
                  risk |-> IF f = "risk" THEN "l" ELSE "k"],
      activation |-> [window |-> wa, stage |-> s, bundle |-> "b", intact |-> f # "activation",
                      target |-> IF f = "activation target" THEN other(t, GateTargets) ELSE t,
                      authority |-> [stage |-> IF f = "stage" THEN other(s, GateStages) ELSE s,
                                     policy |-> "p",
                                     receipt |-> IF f = "receipt" THEN other(PinnedKey, SigningKeys)
                                                                  ELSE PinnedKey]],
      risk |-> [window |-> wk, id |-> "k", intact |-> TRUE, ceiling |-> IF f = "ceiling" THEN 1 ELSE 0],
      admission |-> [window |-> wd, intact |-> f # "admission",
                     target |-> IF f = "admission target" THEN other(t, GateTargets) ELSE t]]

GateInit ==
  /\ now = 0
  /\ \/ \E wr, wp, wa, wk, wd \in PaperWindows : papers = Presented("none", wr, wp, wa, wk, wd)
     \/ \E f \in Flaws, w \in PaperWindows : papers = Presented(f, w, w, w, w, w)
  /\ check \in [step : {"root"}, scheme : {"ssh", "kms"}, at : {0}]
  /\ receipt = NoReceipt

GateNext ==
  \/ CheckRoot \/ CheckPolicy \/ CheckActivation \/ CheckRiskControl \/ CheckAdmission
  \/ IssueReceipt \/ UseReceipt \/ GateTick

-----------------------------------------------------------------------------
\* When the last of the five checks passes, every artifact is in force at that
\* very instant, though each was compared with an earlier one: the root or the
\* policy may have expired while the later artifacts were read.  A receipt is
\* used only while the policy, the activation and the root it stands for are.
AdmissionIsCovered ==
  /\ check.step = "admitted" =>
       \A w \in {papers.root.window, papers.policy.window, papers.activation.window,
                 papers.risk.window, papers.admission.window} : Holds(w, check.at)
  /\ receipt.issued /\ receipt.used >= 0 =>
       \A w \in {papers.root.window, papers.policy.window, papers.activation.window} :
         Holds(w, receipt.used)
=============================================================================
