-------------------------- MODULE MCRuntimeControl --------------------------
(* Small instances of RuntimeControl for TLC: the identity moves once, or not. *)
EXTENDS RuntimeControl, TLC

MovesOnce == {<<"first", "second">>}
MovesNever == {}

Interchangeable == Permutations(Requests) \cup Permutations(Pollers) \cup Permutations(Checks)

\* The bounds of the run: it begins before the identity moves, which it does while
\* there is a request, and only the run of a check reports something partial.
ControlInit == Init /\ identity = "first"
MovesOverARequest == identity' # identity => order # <<>>
PartialIsChecked == \A r \in Requests : runs'[r] # "partial"
ControlSpec == ControlInit /\ [][Next /\ MovesOverARequest /\ PartialIsChecked]_vars
=============================================================================
