---------------------------- MODULE MCMaintenance -----------------------------
(***************************************************************************)
(* Small instances of Maintenance: three processes, three versions, of     *)
(* which the last opens a new line.                                        *)
(***************************************************************************)
EXTENDS Maintenance

CONSTANTS p1, p2, p3

MCVersions == 1 .. 3
MCLine == [v \in MCVersions |-> IF v = 3 THEN 1 ELSE 0]

Cast(a, b, c) == [p \in {p1, p2, p3} |-> CASE p = p1 -> a [] p = p2 -> b [] p = p3 -> c]

Pair(version, by) == [n \in Names |-> [version |-> version, by |-> by]]

Prefix(files, r) == [bin |-> files, receipt |-> r]

Here == [place |-> "here", id |-> Shipped]

Empty == Prefix(NoBackups, NoFile)
Managed == Prefix(Pair(1, Shipped), Here)
Unmanaged == Prefix(Pair(1, Operator), NoFile)
Elsewhere == Prefix(Pair(1, Operator), [Here EXCEPT !.place = "elsewhere"])
EmptyElsewhere == Prefix(NoBackups, [Here EXCEPT !.place = "elsewhere"])
Damaged == Prefix(Pair(1, Shipped), [Here EXCEPT !.place = "invalid"])

MCInstallations == {Empty, Managed, Unmanaged, Elsewhere, EmptyElsewhere, Damaged}
ManagedOnly == {Managed}

MCCasts == {Cast("install", "install", "worker"), Cast("install", "upgrade", "worker"),
            Cast("install", "worker", "worker")}

Manual == {Cast("install", "upgrade", "install"), Cast("install", "upgrade", "upgrade")}

AllCasts == MCCasts \cup Manual

MCBundles == {Cast(2, 3, 3), Cast(3, 2, 2)}
=============================================================================
