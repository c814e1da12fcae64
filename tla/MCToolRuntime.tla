--------------------------- MODULE MCToolRuntime ----------------------------
EXTENDS ToolRuntime, TLC

CONSTANTS r1, p1, p2, p3

\* A gated write and an ungated read.
MCCalls == {[run |-> r1, tool |-> "transfer", sha |-> 1],
            [run |-> r1, tool |-> "run_status", sha |-> 1]}

\* p1 may transfer when granted, p2 by role; p2 and p3 review.
MCByRole == {p1, p2} \X {"run_status"} \cup {<<p2, "transfer">>}
MCGrantable == {<<p1, "transfer">>}

Symmetry == Permutations(Keys) \cup Permutations(Requests)
=============================================================================
