---------------------------- MODULE MC_ModelRunner ----------------------------
EXTENDS ModelRunner
MCPrompt == [r \in Requests |-> 3 - r]
(* drafts that are rejected after drafts need one more position             *)
Mode(async, spec, last) ==
    [async |-> async, spec |-> spec, last |-> last, max_model_len |-> IF async /\ spec THEN 5 ELSE 4]
MCModes == {Mode(FALSE, FALSE, TRUE), Mode(FALSE, TRUE, TRUE), Mode(TRUE, FALSE, TRUE), Mode(TRUE, TRUE, TRUE),
            Mode(FALSE, FALSE, FALSE), Mode(TRUE, FALSE, FALSE)}
=============================================================================
