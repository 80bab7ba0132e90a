-------------------------- MODULE MCSecretRotation --------------------------
(* Small instances of SecretRotation for TLC. The proxy is either called by the
   console, or by whoever holds the secret of its callers. *)
EXTENDS SecretRotation, TLC
VARIABLE part

\* The version that is there at first has a part of its own.
Interchangeable ==
  Permutations(Requests) \cup Permutations(Readers)
  \cup Permutations(Versions \ {First})

\* The bounds of the runs with a console: versions that come to exist, requests that
\* wait for the proxy together, and saves that meet an operation under way.
TwoVersions == Cardinality({v \in Versions : version'[v] # "absent"}) <= 2
TwoWaiting == Cardinality({r \in Requests : handler'[r] \in {"begun", "waiting", "completing"}}) <= 2
SavesMeetAnOperation == saves' # saves => \E o \in 1..Len(ops) : ops[o].state \notin Terminal
MCInit == part \in {"console", "proxy"} /\ RotationInit
MCNext ==
  /\ UNCHANGED part
  /\ \/ part = "console" /\ RotationNext /\ TwoVersions /\ TwoWaiting /\ SavesMeetAnOperation
     \/ part = "proxy" /\ ProxyNext /\ UNCHANGED consoleVars
MCSpec == MCInit /\ [][MCNext]_<<part, rotationVars>>

\* With a console, what takes effect is what the owner decided, on what the owner saw.
OwnerDecides == [][part = "console" => OwnerStep /\ FinalizeStep]_rotationVars
=============================================================================
