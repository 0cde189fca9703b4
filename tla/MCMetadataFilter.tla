--------------------------- MODULE MCMetadataFilter ---------------------------
(* MetadataFilter with two objects that somebody has tagged with an ignored entry. *)
EXTENDS MetadataFilter

CONSTANTS o1, o2, own, own2, ignored

MCWishes == [o \in {o1, o2} |-> IF o = o1 THEN {{}, {own, own2}, {own, ignored}} ELSE {{own}}]

TaggedInit == Init /\ vcd = [o \in Obj |-> Ignored]
TaggedSpec == TaggedInit /\ [][Next]_vars /\ Fairness
===============================================================================
