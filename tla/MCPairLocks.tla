---------------------------- MODULE MCPairLocks ----------------------------
(* PairLocks for TLC: the protections of two configurations. *)
EXTENDS PairLocks

Cooldown == [kind |-> "CooldownPeriod", limit |-> 1, lookback |-> 4, duration |-> 3,
             unlockAt |-> -1, required |-> 0, perSide |-> FALSE]
Guard == [kind |-> "StoplossGuard", limit |-> 2, lookback |-> 4, duration |-> 2,
          unlockAt |-> -1, required |-> 0, perSide |-> TRUE]
LowProfit == [kind |-> "LowProfitPairs", limit |-> 1, lookback |-> 3, duration |-> 0,
              unlockAt |-> 1, required |-> 0, perSide |-> TRUE]
Drop == [kind |-> "MaxDrawdown", limit |-> 1, lookback |-> 4, duration |-> 1,
         unlockAt |-> -1, required |-> 0, perSide |-> FALSE]

AllProtections == <<Cooldown, Guard, LowProfit, Drop>>

\* A loss by the stop loss, known at once, and a profit that is known late.
TwoOutcomes == {[profit |-> -1, stop |-> TRUE, late |-> 0],
                [profit |-> 1, stop |-> FALSE, late |-> 1]}

\* What the code does not keep: after unlock_pair no lock of the pair is in force.
\* "Release all locks for this pair", says its docstring; the locks of one side, which
\* every exit sets, stay.
UnlockPairFrees ==
    [][\A p \in Pairs : UnlockPair(p) =>
          ~\E l \in locks' : l.pair = p /\ l.active /\ l.end > now]_vars

=============================================================================
