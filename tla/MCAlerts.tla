------------------------------ MODULE MCAlerts ------------------------------
(* Small instances of Alerts for TLC. *)
EXTENDS Alerts, TLC

CONSTANTS r1, r2, a1, a2, s1, s2

\* Data that moves once a day at most: a fund's NAV, closed daily bars.
FundKind == {<<s2, "PRICE_BELOW">>}
BarsKind == {<<s1, "VOLUME_SPIKE">>}

\* A price alert on a live quote, an indicator, and an alert on a fund.
AnyKind == {<<s1, "PRICE_ABOVE">>, <<s1, "RSI_OVERSOLD">>} \cup FundKind

Symmetry == Permutations(Run) \cup Permutations(Alert)

\* FairSpec with a Telegram that takes no message: what was sent decides nothing
\* about the next fire, and the history of it multiplies the states.
DailySpec == Init /\ [][Next /\ UNCHANGED sent]_vars /\ Fairness /\ <>[][Step]_vars
=============================================================================
