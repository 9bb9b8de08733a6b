---------------------------- MODULE MCModelBudget ----------------------------
EXTENDS ModelBudget

SmallQuotes == {[input |-> 1, output |-> 1], [input |-> 0, output |-> 1]}
=============================================================================
