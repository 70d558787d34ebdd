------------------------------ MODULE Schedule ------------------------------
(***************************************************************************)
(* How an iteration space is divided into the rows of a schedule           *)
(* (numba/np/ufunc/gufunc_scheduler.cpp).  A space and a row are sequences *)
(* of ranges, one per dimension, with inclusive bounds; a range whose end  *)
(* is before its start is empty.  Quotients of lengths are floats in the   *)
(* code, and here: 24 significant bits, rounded to nearest.                *)
(***************************************************************************)
EXTENDS Integers, SequencesExt

Length(r) == IF r.end < r.start THEN 0 ELSE r.end - r.start + 1
total_size(space) == FoldLeft(LAMBDA n, r : n * Length(r), 1, space)

(* How many rows: one per thread, or one per chunk if those are more.      *)
get_sched_size(num_threads, chunksize, space) ==
  IF chunksize = 0 THEN num_threads
  ELSE LET num_divisions == total_size(space) \div chunksize
       IN IF num_divisions < num_threads THEN num_threads ELSE num_divisions
-----------------------------------------------------------------------------
(* Single precision: [m |-> m, e |-> e] stands for m / 2^e.                *)

Nearest(a, b) == LET q == a \div b
                     r == a % b
                 IN IF 2 * r > b \/ (2 * r = b /\ q % 2 = 1) THEN q + 1 ELSE q

Quotient(a, b) ==
  LET e == CHOOSE i \in 0..29 : /\ a * 2^i >= b * 2^23
                                /\ i = 0 \/ a * 2^(i - 1) < b * 2^23
  IN IF a = 0 THEN [m |-> 0, e |-> 0] ELSE [m |-> Nearest(a * 2^e, b), e |-> e]

Times(n, f) ==
  LET k == CHOOSE i \in 0..6 : /\ n * f.m < 2^(24 + i)
                               /\ i = 0 \/ n * f.m >= 2^(23 + i)
  IN [m |-> Nearest(n * f.m, 2^k) * 2^k, e |-> f.e]

Truncated(f) == f.m \div 2^(f.e)
guround(f) == (2 * f.m + 2^(f.e)) \div 2^(f.e + 1)
-----------------------------------------------------------------------------
(* One dimension.                                                          *)

NoWork == [start |-> 1, end |-> 0]

(* Mutant of NextCur: everyone but the last gets the truncated share.      *)
NextCurTruncated(len, n, i, cur) == cur + len \div n
NextCur(len, n, i, cur) == cur + (len - cur - 1) \div (n - i) + 1

(* Mutant of LineEnd: forgets that the bounds of a row are inclusive.      *)
LineEndExclusive(r, n, i, cur) == IF i < n - 1 THEN r.start + cur ELSE r.end
LineEnd(r, n, i, cur) == IF i < n - 1 THEN r.start + cur - 1 ELSE r.end

Line(r, n) ==
  LET len == Length(r)
      cur[i \in 0..n] == IF i = 0 THEN 0 ELSE NextCur(len, n, i - 1, cur[i - 1])
  IN IF len <= n
     THEN [i \in 1..n |-> IF len < i THEN <<NoWork>>
                          ELSE <<[start |-> r.start + i - 1, end |-> r.start + i - 1]>>]
     ELSE [i \in 1..n |-> <<[start |-> r.start + cur[i - 1],
                             end |-> LineEnd(r, n, i - 1, cur[i])]>>]
-----------------------------------------------------------------------------
(* Several dimensions, longest first; sorting leaves the order of equally  *)
(* long ones open.                                                         *)

Orders(space) ==
  {o \in [DOMAIN space -> DOMAIN space] :
     \A i, j \in DOMAIN space : i < j => /\ o[i] # o[j]
                                         /\ Length(space[o[i]]) >= Length(space[o[j]])}

(* How many parts the first of the dimensions dims is divided into.        *)
Divisions(dims, num_threads) ==
  LET total_len == FoldLeft(LAMBDA n, r : n + (IF Length(r) > 1 THEN Length(r) ELSE 0), 0, dims)
      share == guround(Times(num_threads, Quotient(Length(dims[1]), total_len)))
  IN IF total_len = 0 THEN num_threads ELSE IF share < 1 THEN 1 ELSE share

(* How many of the threads lo..hi, and of total iterations, the next of    *)
(* `left` parts gets: chunk() and equalizing_chunk().                      *)
ThreadsHere(lo, hi, left) == IF left = 1 THEN hi - lo + 1 ELSE (hi - lo + 1) \div left

IterationsHere(total, left, used, num_threads) ==
  LET share(n) == Truncated(Times(n, Quotient(used, num_threads)))
  IN IF left = 1 THEN total ELSE IF total < 0 THEN -share(-total) ELSE share(total)

(* Where the d parts of range r, among the threads lo..hi, begin.          *)
Cuts(r, lo, hi, d) ==
  LET cut[i \in 0..d] ==
        IF i = 0 THEN [thread |-> lo, at |-> r.start]
        ELSE LET c == cut[i - 1]
                 left == d - i + 1
                 used == ThreadsHere(c.thread, hi, left)
             IN [thread |-> c.thread + used,
                 at |-> c.at + IterationsHere(r.end - c.at + 1, left, used, hi - c.thread + 1)]
  IN cut

(* The rows of threads 0..n-1, over the dimensions in the order dims.      *)
divide_work(dims, n) ==
  LET rows[k \in 1..(Len(dims) + 1), lo, hi \in 0..(n - 1)] ==
        IF lo = hi THEN [t \in {lo} |-> SubSeq(dims, k, Len(dims))]
        ELSE LET d   == Divisions(SubSeq(dims, k, Len(dims)), hi - lo + 1)
                 cut == Cuts(dims[k], lo, hi, d)
             IN [t \in lo..hi |->
                   LET i == CHOOSE j \in 1..d : t \in cut[j - 1].thread..(cut[j].thread - 1)
                   IN <<[start |-> cut[i - 1].at, end |-> cut[i].at - 1]>>
                      \o rows[k + 1, cut[i - 1].thread, cut[i].thread - 1][t]]
  IN rows[1, 0, n - 1]

(* A row back in the order of the dimensions of the space.                 *)
isfRangeToActual(build, order) ==
  [j \in DOMAIN order |-> build[CHOOSE i \in DOMAIN order : order[i] = j]]

Grid(space, order, n) ==
  LET rows == divide_work([i \in DOMAIN space |-> space[order[i]]], n)
  IN [t \in 1..n |-> isfRangeToActual(rows[t - 1], order)]

(* The schedules with n rows.                                              *)
create_schedule(space, n) ==
  IF Len(space) = 1 THEN {Line(space[1], n)}
  ELSE {Grid(space, order, n) : order \in Orders(space)}
=============================================================================
