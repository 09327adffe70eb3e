----------------------------- MODULE MCSlicerStore -----------------------------
(* SlicerStore for TLC: two slicers, "a" and "a_b", on two pages, "c" and "b_c",
   of which two places have the same id, and an id that is no place's.        *)
EXTENDS SlicerStore

CONSTANTS a, a_b, c, b_c, joined, other

MCSlicers == {a, a_b}
MCPageIds == {c, b_c}
MCPlaceId == [x \in MCSlicers \X MCPageIds |->
                IF x \in {<<a_b, c>>, <<a, b_c>>} THEN joined ELSE x]
MCIds     == {MCPlaceId[x] : x \in MCSlicers \X MCPageIds} \cup {other}
================================================================================
