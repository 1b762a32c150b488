------------------------------- MODULE MCBoot -------------------------------
(* Instances of Boot for TLC. *)
EXTENDS Boot

(* Two geometries whose 256th cylinder begins at sector 65280 and 65024.     *)
SomeDisks == {[spt |-> 15, heads |-> 17], [spt |-> 2, heads |-> 127]}

(* One cluster, a file cut by the boundary, extents over the 256th cylinder  *)
(* and out of order, a file too long; the last sector of 16 bits, a range    *)
(* that goes beyond it, and one that begins there and cannot be packed.      *)
(* Cluster 2 is at sector 33.                                                *)
SomeFiles == {<<<<2, 1>>>>, <<<<2, 5>>>>, <<<<65248, 3>>, <<2, 2>>>>, <<<<64992, 3>>, <<65500, 1>>>>,
              <<<<4, 1>>, <<2, 1>>, <<9, 1>>>>, <<<<2, 7>>>>,
              <<<<65504, 1>>, <<2, 1>>>>, <<<<65504, 2>>, <<2, 1>>>>, <<<<65504, 3>>>>}

InstalledPayloads == {Payload(f) : f \in {g \in SomeFiles : Packs(Payload(g))}}

ASSUME FitsAssumption == Fits

Entry(b, u, a, n) == [base |-> b, usable |-> u, acpi |-> a, bytes |-> n]

(* One entry, maps that just fit, and one that does not.                      *)
SomeMaps ==
    {<<Entry(0, TRUE, 1, 24)>>,
     <<Entry(0, TRUE, 1, 20), Entry(1, FALSE, 0, 24)>>,
     <<Entry(0, TRUE, 1, 24), Entry(1, TRUE, 0, 24), Entry(2, FALSE, 1, 20)>>,
     <<Entry(0, TRUE, 1, 24), Entry(1, FALSE, 0, 20), Entry(2, TRUE, 1, 24), Entry(3, TRUE, 0, 24)>>}
=============================================================================
