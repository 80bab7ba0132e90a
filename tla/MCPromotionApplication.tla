----------------------- MODULE MCPromotionApplication -----------------------
(* Small instances of PromotionApplication and of CurrentStrategies for TLC.  A
   run is that of one part: it follows the decision requests in detail, or applies
   what is decided at once, or is the current strategies of a platform. *)
EXTENDS PromotionApplication, CurrentStrategies, TLC

CONSTANTS t1, t2, m1, m2, base, p1, p2
VARIABLE part

NoLegacy == [s \in Subjects |-> NoRow]
Candidate == [s \in Subjects |-> IF s = t1 THEN p1 ELSE p2]
Interchangeable == Permutations(Applications) \cup Permutations(Runs) \cup Permutations(RequestIds)

\* The bounds of the runs that apply: they review one material, and begin with the
\* profile that one of the candidates is.
OneReviewed == \A s \in Subjects : projection'[s] # NoRow => projection'[s].material = m1
BeginsWithBase == \A t \in Targets : account[t].profile = base

Target(p, s, m) ==
  [platform |-> Unset, profile |-> p, services |-> s, scopes |-> {"ga"}, deployments |-> {},
   selectors |-> {}, mode |-> m, legacy |-> TRUE]
Off == [enabled |-> Unset, other |-> Unset]
On == [enabled |-> "true", other |-> Unset]
Stop == [enabled |-> "false", other |-> Unset]
Entry(p, s, m, top, env) ==
  [platform |-> Unset, profile |-> p, services |-> s, scopes |-> {}, deployments |-> {}, selectors |-> {},
   mode |-> m, top |-> top, env |-> env]
Content(inventory, target, enabled) ==
  [inventory |-> inventory, target |-> target, profile |-> Unset, enabled |-> enabled, other |-> FALSE, recovery |-> TRUE]
Option(platform, uses, level, service, name, only, broker) ==
  [platform |-> platform, uses |-> uses, level |-> level, service |-> service, scope |-> "ga",
   deployment |-> name, selectors |-> {name}, name |-> name, only |-> only, broker |-> broker]
\* An inventory for two accounts and an environment of one, and a single Binance account.
TwoAccounts ==
  [receiver |-> "object", failing |-> {"environment"},
   options |-> "a" :> Option("ibkr", TRUE, "environment", "sa", "a", FALSE, "live")
            @@ "b" :> Option("ibkr", TRUE, "repository", "sb", "b", FALSE, "paper"),
   levels |-> "repository" :> {Content({Entry(p1, {"sa"}, "live", Off, On), Entry(p2, {"sb"}, "paper", Stop, On)}, Unset, Unset),
                               Content({Entry(p1, {"sa"}, "live", Off, Off), Entry(p2, {"sb"}, "dry_run", On, Off)}, Unset, "false")}
           @@ "environment" :> {Content({}, Target(base, {"sa"}, "live"), "true")}]
OneAccount ==
  [receiver |-> "worker", failing |-> {"repository"},
   options |-> "a" :> Option("binance", FALSE, "repository", "sa", "paper", TRUE, "live"),
   levels |-> "repository" :> {Content({}, Target(p1, {"sa"}, "live"), "false"), Content({}, Target(p1, {"sa"}, "live"), "true")}]
TwoSites == {TwoAccounts, OneAccount}

RestShown ==
  /\ site = OneAccount /\ clock = 0 /\ github = Unset /\ past = {} /\ mem = Unset /\ busy = Unset
  /\ loads = Unset /\ kv = Unset /\ last = Unset /\ resumes = {}
RestPromotion == AppInit /\ BeginsWithBase
\* The bound of the shown part: a repository begins with its running entries.
BeginsRunning == github["repository"].enabled # "false" \/ Receiver = "worker"
PromotionInit == \/ part \in {"decide", "apply"} /\ AppInit /\ BeginsWithBase /\ RestShown
                 \/ part = "shown" /\ StrategyInit /\ BeginsRunning /\ RestPromotion
PromotionNext ==
  /\ UNCHANGED part
  /\ \/ part = "decide" /\ Next /\ UNCHANGED <<appVars, strategyVars>>
     \/ part = "apply" /\ AppNext /\ OneReviewed /\ UNCHANGED strategyVars
     \/ part = "shown" /\ StrategyNext /\ UNCHANGED allVars
PromotionSpec == PromotionInit /\ [][PromotionNext]_<<part, allVars, strategyVars>>

\* A promotion is accepted for the registry the operator's preflight saw.
DecidedAsSeen == [][part = "decide" => AcceptedStep]_vars
\* What the console shows of the strategies was in force, and is the account's own.
ConsoleHolds == part = "shown" => ShownWasTrue /\ ShownIsOwn
\* No resume is sent for a configuration that was gone when it was asked for.
ResumesHold == part = "shown" => SentWasInForce
=============================================================================
