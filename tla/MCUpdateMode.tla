---------------------------- MODULE MCUpdateMode ----------------------------
EXTENDS UpdateMode

CONSTANTS a, b

MCPlans ==
    {[o \in {a, b} |-> IF o = a THEN p[1] ELSE p[2]] :
        p \in {<<"keyed", "keyed">>, <<"api", "cli">>, <<"cli", "dry">>, <<"cli", "install">>}}

=============================================================================
