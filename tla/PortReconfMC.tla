----------------------------- MODULE PortReconfMC ------------------------------
(* Small instances of PortReconf: what the requests ask for. *)
EXTENDS PortReconf

Order(cmd, timeout, honorOwner, leave) ==
    [cmd |-> cmd, timeout |-> timeout, honorOwner |-> honorOwner, leave |-> leave]

\* Each command, each kind of timeout (none, less than a slice, whole slices), an
\* owner that is honored and one that is not, an AFU that is left deactivated.
MixedOrders ==
    {Order("activate", 0, FALSE, FALSE), Order("deactivate", 3, FALSE, FALSE),
     Order("configure", 0, FALSE, TRUE), Order("configure", 10, TRUE, FALSE)}

\* A timeout longer than a slice and no multiple of it.
OddOrders == {Order("deactivate", 7, FALSE, FALSE)}

================================================================================
