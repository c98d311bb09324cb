--------------------------- MODULE ConfigRegister ---------------------------
(***************************************************************************)
(* What the metadata store promises about bucket configurations: one value *)
(* per bucket name, written and read in single steps.                      *)
(***************************************************************************)
CONSTANTS
    Names,      \* bucket names
    Procs,      \* request handlers
    Values      \* configurations, and the absence of the bucket

VARIABLES
    config,     \* config[n]: the configuration in force
    answer      \* answer[p]: name and value of p's last lookup

vars == <<config, answer>>

Init ==
    /\ config \in [Names -> Values]
    /\ answer = [p \in Procs |-> <<>>]

Set(n, c) ==
    /\ config' = [config EXCEPT ![n] = c]
    /\ UNCHANGED answer

Get(p, n) ==
    /\ answer' = [answer EXCEPT ![p] = <<n, config[n]>>]
    /\ UNCHANGED config

Next ==
    \/ \E n \in Names, c \in Values : Set(n, c)
    \/ \E p \in Procs, n \in Names : Get(p, n)

Spec == Init /\ [][Next]_vars
=============================================================================
