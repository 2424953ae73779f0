--------------------------- MODULE MCLibsqlHistory ---------------------------
(* Three writers contend for one position; resolutions settle what follows. *)
EXTENDS LibsqlHistory

CONSTANTS m1, m2, m3, m4, k, v1, v2, p1, p2, c1, c2

WriteAt(m, base, v) ==
    [kind |-> "write", mutation |-> m, base |-> base, key |-> k, effect |-> v]
Settle(m, conflicts, merged) ==
    [kind |-> "resolve", mutation |-> m, conflicts |-> conflicts, merged |-> merged]

MCCommands ==
    {WriteAt(m1, 0, v1), WriteAt(m2, 0, v2), WriteAt(m2, 1, v2),
     Settle(m2, <<2>>, <<>>), Settle(m3, <<2>>, <<[key |-> k, effect |-> v2]>>)}

MCPairCommands ==
    {WriteAt(m1, 0, v1), WriteAt(m2, 0, v2), WriteAt(m3, 0, v2),
     Settle(m4, <<2, 3>>, <<>>)}
=============================================================================
