-------------------------- MODULE PromotionPromise --------------------------
(***************************************************************************)
(* What the paper-promotion path promises, without tickets' material,      *)
(* dispatches, workflow runs or retries: an account takes a candidate's    *)
(* strategy only on a consent given for that ticket, that account and the  *)
(* registry revision that is current at the very moment it takes it.       *)
(***************************************************************************)
EXTENDS Integers

CONSTANTS Tickets, Accounts, Profiles, ProfileOf

VARIABLES
  registryRevision,  \* revision of the instance registry
  strategy,          \* strategy profile of every account
  consents           \* <<ticket, account, revision>> a human has accepted

promiseVars == <<registryRevision, strategy, consents>>

PromiseInit ==
  /\ registryRevision \in Nat
  /\ strategy \in [Accounts -> Profiles]
  /\ consents = {}

Consent(t, a) ==
  /\ consents' = consents \cup {<<t, a, registryRevision>>}
  /\ UNCHANGED <<registryRevision, strategy>>

OtherChange ==
  /\ registryRevision' = registryRevision + 1
  /\ UNCHANGED <<strategy, consents>>

Apply(t, a) ==
  /\ <<t, a, registryRevision>> \in consents
  /\ strategy' = [strategy EXCEPT ![a] = ProfileOf[t]]
  /\ registryRevision' = registryRevision + 1
  /\ UNCHANGED consents

PromiseNext ==
  \/ \E t \in Tickets, a \in Accounts : Consent(t, a) \/ Apply(t, a)
  \/ OtherChange

PromiseSpec == PromiseInit /\ [][PromiseNext]_promiseVars
=============================================================================
