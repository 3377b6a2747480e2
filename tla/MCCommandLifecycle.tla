------------------------- MODULE MCCommandLifecycle --------------------------
(* Finite instances of CommandLifecycle for TLC. *)
EXTENDS CommandLifecycle

CONSTANTS c1, c2, k1, k2, e1, on, off

MCOneCaller == {c1}
MCTwoCallers == {c1, c2}
MCOneKey == {k1}
MCTwoKeys == {k1, k2}
MCEntity == {e1}
MCTwoValues == {on, off}
MCOneValue == {on}

\* Keys and values are interchangeable, nothing in the specification names one
\* of them: the first call uses the first key and asks for the first value.
MCInit == Init /\ ask[c1].key = k1 /\ ask[c1].value = on

MCSpec == MCInit /\ [][Next]_vars
MCFairSpec == MCSpec /\ WF_vars(Expire) /\ WF_vars(Tick)
=============================================================================
