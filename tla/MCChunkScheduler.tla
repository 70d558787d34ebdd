-------------------------- MODULE MCChunkScheduler --------------------------
EXTENDS ChunkScheduler, TLC
CONSTANTS c1, w1, w2

Span(start, len) == [start |-> start, end |-> start + len - 1]

(* One dimension: reversed, empty, up to 8 long, also from a negative      *)
(* start.  Two: lengths up to 3 by 4.      Three: with ties and ones.      *)
Lines  == {<<Span(0, n)>> : n \in {-1, 0, 5, 8}} \cup {<<Span(-3, 7)>>}
Planes == {<<Span(1, m), Span(0, n)>> : m \in {-1, 1, 3}, n \in {1, 4}}
Cubes  == {<<Span(0, 1), Span(-1, 2), Span(0, 2)>>, <<Span(0, 3), Span(0, 2), Span(0, 2)>>}
AllSpaces == Lines \cup Planes \cup Cubes

OneLine == {<<Span(0, 3)>>}
OneCaller == {c1}
OneWorker == {w1}

(* What the context manager holds is read only inside one of its bodies,   *)
(* and what was made for a region only by the properties.                  *)
View == <<parallel_chunksize, stack, made,
          IF \E t \in Threads : InPyWith(t) THEN manager ELSE {}>>
=============================================================================
