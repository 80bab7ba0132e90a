------------------------------ MODULE RiskGate ------------------------------
(***************************************************************************)
(* The deterministic risk gate (deterministic_risk_gate.py) and the paper  *)
(* admission receipt made of its decisions (paper_risk_admission_receipt.  *)
(* py), together with the caller the gate's documentation asks for: it     *)
(* stores the breaker the decision returns, keeps it open when an input is *)
(* refused, and takes new risk only on an allowing receipt.                *)
(*                                                                         *)
(* Amounts are small integers; leverage is counted in units of 1/Unit of   *)
(* the equity, rounded up as the code rounds basis points.                 *)
(***************************************************************************)
EXTENDS Integers, FiniteSetsExt

CONSTANTS
  Symbols, Strategies,
  Limits,         \* the policy's limits
  Unit,           \* leverage units in one equity
  Equities,       \* equities an account may have
  RiskAmounts,    \* amounts a request may ask for
  MaxLoss,        \* bound: the daily losses reported
  MaxDecisions    \* bound: the decisions counted in a session

\* _validate_limits: no limit is above the gross limit
LimitsValid(l) ==
  /\ l \in [gross : Nat \ {0}, symbol : Nat \ {0}, strategy : Nat \ {0},
            leverage : Nat \ {0}, loss : Nat \ {0}, decisions : Nat \ {0}]
  /\ l.symbol <= l.gross /\ l.strategy <= l.gross /\ l.loss <= l.gross

ASSUME LimitsAssumption ==
  /\ LimitsValid(Limits)
  /\ IsFiniteSet(Symbols) /\ IsFiniteSet(Strategies)
  /\ Unit \in Nat \ {0} /\ RiskAmounts \subseteq Nat \ {0} /\ Equities \subseteq Nat \ {0}

VARIABLES
  book,      \* exposure by symbol and by strategy
  account,   \* equity, daily loss, decisions of the session
  health,    \* the observation's and the reconciliation's status
  breaker,   \* the breaker the caller stores
  decision   \* the last decision, and its receipt
riskVars == <<book, account, health, breaker, decision>>

Gross(f) == MapThenSumSet(LAMBDA x : f[x], DOMAIN f)
CeilDiv(a, b) == (a + b - 1) \div b

\* _validate_snapshot: both exposure maps add up to the gross exposure.
SnapshotValid(gross) == gross = Gross(book.symbol) /\ gross = Gross(book.strategy)

\* What the account would be after the request.
Projected(r) ==
  LET gross == Gross(book.symbol) + r.amount
  IN  [gross |-> gross,
       symbol |-> book.symbol[r.symbol] + r.amount,
       strategy |-> book.strategy[r.strategy] + r.amount,
       leverage |-> CeilDiv(gross * Unit, account.equity),
       decisions |-> account.decisions + 1]
ReasonsOfTheMoment(p) ==
  {x \in {"gross", "symbol", "strategy", "leverage", "decisions"} : p[x] > Limits[x]}
    \cup (IF account.loss >= Limits.loss THEN {"loss"} ELSE {})
\* evaluate_new_risk: every reason that holds is listed.
Reasons(p) ==
  {x \in {"observation", "reconciliation", "breaker", "gross", "symbol", "strategy",
          "leverage", "loss", "decisions"} :
     CASE x = "observation" -> health.observation # "complete"
       [] x = "reconciliation" -> health.reconciliation # "verified"
       [] x = "breaker" -> breaker # "closed"
       [] x = "loss" -> account.loss >= Limits.loss
       [] OTHER -> p[x] > Limits[x]}

\* _disposition_for: an unknown or inconsistent decision halts.
Disposition(d) ==
  IF d.allow /\ d.next = "closed" /\ d.reasons = {} THEN "allow"
  ELSE IF ~d.allow /\ d.next = "open" /\ d.reasons # {} /\ "unknown" \notin d.reasons
       THEN "reduce" ELSE "halt"

Decided(rs) ==
  [allow |-> rs = {}, next |-> IF rs = {} THEN "closed" ELSE "open", reasons |-> rs]

NoDecision == [reasons |-> {}, receipt |-> "none"]

-----------------------------------------------------------------------------
RiskInit ==
  /\ book = [symbol |-> [s \in Symbols |-> 0], strategy |-> [s \in Strategies |-> 0]]
  /\ account \in [equity : Equities, loss : {0}, decisions : {0}]
  /\ health = [observation |-> "complete", reconciliation |-> "verified"]
  /\ breaker = "closed"
  /\ decision = NoDecision

\* One request: the gate decides on the snapshot, the receipt is derived from
\* the decision, and the caller takes the risk if the receipt allows it.
Evaluate(r, gross) ==
  /\ account.decisions < MaxDecisions
  /\ IF SnapshotValid(gross)
     THEN LET d == Decided(Reasons(Projected(r)))
              receipt == Disposition(d)
              taken(f, k) == IF receipt = "allow" THEN [f EXCEPT ![k] = @ + r.amount] ELSE f
          IN  /\ breaker' = d.next
              /\ decision' = [reasons |-> d.reasons, receipt |-> receipt]
              /\ book' = [symbol |-> taken(book.symbol, r.symbol),
                          strategy |-> taken(book.strategy, r.strategy)]
              /\ account' = [account EXCEPT !.decisions = @ + 1]
     ELSE /\ breaker' = "open" /\ decision' = NoDecision
          /\ UNCHANGED <<book, account>>
  /\ UNCHANGED health

\* The market and the platform: positions are closed, equity and losses move,
\* the observation or its reconciliation fails and recovers.
ClosePosition ==
  /\ \E s \in Symbols, t \in Strategies, a \in RiskAmounts :
       /\ a <= book.symbol[s] /\ a <= book.strategy[t]
       /\ book' = [symbol |-> [book.symbol EXCEPT ![s] = @ - a],
                   strategy |-> [book.strategy EXCEPT ![t] = @ - a]]
  /\ decision' = NoDecision
  /\ UNCHANGED <<account, health, breaker>>

MoveMarket ==
  /\ \E e \in Equities, l \in 0 .. MaxLoss : account' = [account EXCEPT !.equity = e, !.loss = l]
  /\ decision' = NoDecision
  /\ UNCHANGED <<book, health, breaker>>

ChangeHealth ==
  /\ health' \in [observation : {"complete", "stale"}, reconciliation : {"verified", "failed"}]
  /\ decision' = NoDecision
  /\ UNCHANGED <<book, account, breaker>>

NewSession ==
  /\ account' = [account EXCEPT !.loss = 0, !.decisions = 0]
  /\ decision' = NoDecision
  /\ UNCHANGED <<book, health, breaker>>

\* The gate has no reset: an operator closes the breaker by hand.
ManualReset ==
  /\ breaker = "open" /\ breaker' = "closed"
  /\ decision' = [NoDecision EXCEPT !.receipt = "reset"]
  /\ UNCHANGED <<book, account, health>>

Requests == [symbol : Symbols, strategy : Strategies, amount : RiskAmounts]
RiskNext ==
  \/ \E r \in Requests, gross \in {Gross(book.symbol), Gross(book.symbol) + 1} : Evaluate(r, gross)
  \/ ClosePosition \/ MoveMarket \/ ChangeHealth \/ NewSession \/ ManualReset

-----------------------------------------------------------------------------
\* However requests, closed positions, sessions and failures follow each other,
\* what was taken on the gate's word stays below the gross, the symbol and the
\* strategy limit, and its two breakdowns stay the same money.
TakenWithinLimits ==
  /\ Gross(book.symbol) <= Limits.gross
  /\ \A s \in Symbols : book.symbol[s] <= Limits.symbol
  /\ \A s \in Strategies : book.strategy[s] <= Limits.strategy
  /\ Gross(book.symbol) = Gross(book.strategy)

\* A prohibition latches: between a refused request or input and the
\* operator's reset no request is allowed, whatever has recovered meanwhile.
Latched ==
  breaker = "open" => /\ (breaker' = "closed") => (decision'.receipt = "reset")
                      /\ decision'.receipt # "allow"
=============================================================================
