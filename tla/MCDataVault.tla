---------------------------- MODULE MCDataVault ----------------------------
EXTENDS DataVault
CONSTANTS good, wide, broken

\* good satisfies everything, wide nothing, and broken cannot be evaluated
SomeOutcome == [x \in Points |-> CASE x = good -> [f |-> 1, g |-> -3, h |-> 0]
                                  [] x = wide -> [f |-> 4, g |-> 10, h |-> 21]
                                  [] OTHER -> Fails]

\* wide is worse only in the objective
FineOutcome == [SomeOutcome EXCEPT ![wide] = [f |-> 4, g |-> -3, h |-> 1]]
=============================================================================
