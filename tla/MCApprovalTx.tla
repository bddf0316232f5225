---------------------------- MODULE MCApprovalTx ----------------------------
(* Bounds for TLC: two approvers, a different one on each level. *)
EXTENDS ApprovalTx, TLC

CONSTANTS u1, u2

MCUsers == {u1, u2}
MCLevelLists == {<<>>, <<{u1}, {u2}>>}

\* Without overlap: no level, one, and three, with an approver on two of them.
SerialLists == {<<>>, <<{u1}>>, <<{u1, u2}, {u2}, {u1}>>}

\* One approver for the runs about several requests.
OneUser == {u1}
OneUserLists == {<<>>, <<{u1}, {u1}>>}

\* The run about one request leaves out what editing configurations adds:
\* the configuration, if any, is created active and stays.
OneConfig ==
    config' # config =>
        \A c \in ConfigIds : config[c].status = "absent" /\ config'[c].active

Symmetry == Permutations(Requests) \cup Permutations(Workers)
=============================================================================
