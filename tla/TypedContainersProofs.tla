------------------------ MODULE TypedContainersProofs ------------------------
(***************************************************************************)
(* Theorems about numba.typed (TypedList, TypedDict, TypedContainers) and  *)
(* their proofs.  The list comes first: its loops as histories, its        *)
(* references counted as occurrences (TypedListSound).  Then the hash      *)
(* table: the probe sequence and the search along it, placing, dropping    *)
(* and rebuilding entries, the references the table owns, the iterator,    *)
(* and the calls (TypedTableSound, TypedIterationFaithful,                 *)
(* TypedSizedNeverResizes).  Last, what the calls make of the items, in    *)
(* their order, and the refinements (TypedDictImplementsMap,               *)
(* TypedSetImplementsSet).                                                 *)
(***************************************************************************)
EXTENDS TypedContainers, FiniteSetTheorems, SequenceTheorems, TLAPS

-----------------------------------------------------------------------------
(* Induction over a loop of n steps.  The facts are about sets and not     *)
(* about predicates, so that they can be cited.                            *)

(* A set of numbers that has 0 and, with a number below n, the next one,   *)
(* has all of 0..n: otherwise going one down would be an injection of the  *)
(* missing ones up to some k into themselves that does not reach k.        *)
LEMMA Induction ==
  ASSUME NEW n \in Nat, NEW S, 0 \in S,
         \A k \in 0..(n - 1) : k \in S => k + 1 \in S
  PROVE  \A k \in 0..n : k \in S
<1> SUFFICES ASSUME NEW k \in 0..n, k \notin S
             PROVE  FALSE
  OBVIOUS
<1> DEFINE M == {j \in 0..k : j \notin S}
           f == [j \in M |-> j - 1]
<1>1. IsFiniteSet(M)
  <2>1. IsFiniteSet(0..k)
    BY FS_Interval
  <2>2. QED
    BY <2>1, FS_Subset
<1>2. \A j \in M : j - 1 \in M
  OBVIOUS
<1>3. f \in Injection(M, M)
  BY <1>2 DEF Injection, IsInjective
<1>4. f \in Surjection(M, M)
  <2> HIDE DEF M, f
  <2>1. QED
    BY <1>1, <1>3, FS_Injection
<1>5. k \in M
  OBVIOUS
<1>6. PICK j \in M : f[j] = k
  BY <1>4, <1>5 DEF Surjection
<1>7. QED
  BY <1>6

(* r is the history of m turns of a loop that begins with a and does       *)
(* g[<<state, k>>] at its k-th turn.                                       *)
Runs(r, a, g, m) == r[0] = a /\ \A k \in 1..m : r[k] = g[<<r[k - 1], k>>]

LEMMA RecursionExists ==
  ASSUME NEW n \in Nat, NEW S, NEW a \in S, NEW g \in [S \X (1..n) -> S]
  PROVE  \E r \in [0..n -> S] : Runs(r, a, g, n)
<1> DEFINE K == {m \in 0..n : \E r \in [0..n -> S] : Runs(r, a, g, m)}
<1>1. 0 \in K
  <2> DEFINE q == [k \in 0..n |-> a]
  <2>1. q \in [0..n -> S] /\ 0 \in 0..n
    OBVIOUS
  <2>2. Runs(q, a, g, 0)
    BY DEF Runs
  <2> HIDE DEF q
  <2>3. QED
    BY <2>1, <2>2
<1>2. ASSUME NEW m \in 0..(n - 1), m \in K PROVE m + 1 \in K
  <2>1. PICK r \in [0..n -> S] : Runs(r, a, g, m)
    BY <1>2
  <2> DEFINE q == [r EXCEPT ![m + 1] = g[<<r[m], m + 1>>]]
  <2>2. g[<<r[m], m + 1>>] \in S /\ m + 1 \in 0..n
    OBVIOUS
  <2>3. q \in [0..n -> S] /\ q[m + 1] = g[<<r[m], m + 1>>]
    BY <2>2
  <2>4. \A k \in 0..m : q[k] = r[k]
    OBVIOUS
  <2> HIDE DEF q
  <2>5. ASSUME NEW k \in 1..(m + 1) PROVE q[k] = g[<<q[k - 1], k>>]
    <3>1. CASE k = m + 1
      <4>1. m \in 0..m /\ k - 1 = m
        BY <3>1
      <4>2. q[m] = r[m]
        BY <2>4, <4>1
      <4>3. QED
        BY <2>3, <3>1, <4>1, <4>2
    <3>2. CASE k \in 1..m
      <4>1. q[k] = r[k] /\ q[k - 1] = r[k - 1]
        BY <2>4, <3>2
      <4>2. r[k] = g[<<r[k - 1], k>>]
        BY <2>1, <3>2 DEF Runs
      <4>3. QED
        BY <4>1, <4>2
    <3>3. QED
      BY <3>1, <3>2
  <2>6. q[0] = a
    BY <2>1, <2>4 DEF Runs
  <2>7. Runs(q, a, g, m + 1)
    BY <2>5, <2>6 DEF Runs
  <2>8. QED
    BY <2>2, <2>3, <2>7
<1>3. \A k \in 0..n : k \in K
  <2> HIDE DEF K
  <2>1. QED
    BY <1>1, <1>2, Induction
<1>4. n \in K
  BY <1>3
<1>5. QED
  BY <1>4

-----------------------------------------------------------------------------
(* Counting the places of a sequence, or of any function, that hold x.     *)
Places(s, a, b, x) == {p \in a..b : s[p] = x}
Occ(s, a, b, x) == Cardinality(Places(s, a, b, x))

LEMMA PlacesFinite ==
  ASSUME NEW s, NEW a \in Int, NEW b \in Int, NEW x
  PROVE  IsFiniteSet(Places(s, a, b, x))
<1>1. IsFiniteSet(a..b)
  BY FS_Interval
<1>2. QED
  BY <1>1, FS_Subset DEF Places

LEMMA OccType ==
  ASSUME NEW s, NEW a \in Int, NEW b \in Int, NEW x
  PROVE  Occ(s, a, b, x) \in Nat
BY PlacesFinite, FS_CardinalityType DEF Occ

(* None in an empty interval, and at most one in a place.                  *)
LEMMA OccNone ==
  ASSUME NEW s, NEW a \in Int, NEW b \in Int, b < a, NEW x
  PROVE  Occ(s, a, b, x) = 0
<1>1. Places(s, a, b, x) = {}
  BY DEF Places
<1>2. QED
  BY <1>1, FS_EmptySet DEF Occ

LEMMA OccOne ==
  ASSUME NEW s, NEW a \in Int, NEW x
  PROVE  Occ(s, a, a, x) = IF s[a] = x THEN 1 ELSE 0
<1>1. CASE s[a] = x
  <2>1. Places(s, a, a, x) = {a}
    BY <1>1 DEF Places
  <2>2. QED
    BY <1>1, <2>1, FS_Singleton DEF Occ
<1>2. CASE s[a] # x
  <2>1. Places(s, a, a, x) = {}
    BY <1>2 DEF Places
  <2>2. QED
    BY <1>2, <2>1, FS_EmptySet DEF Occ
<1>3. QED
  BY <1>1, <1>2

(* An interval is counted in two parts.                                    *)
LEMMA OccSplit ==
  ASSUME NEW s, NEW a \in Int, NEW b \in Int, NEW c \in Int,
         a <= c + 1, c <= b, NEW x
  PROVE  Occ(s, a, b, x) = Occ(s, a, c, x) + Occ(s, c + 1, b, x)
<1> PICK L : L = Places(s, a, c, x)
  OBVIOUS
<1> PICK R : R = Places(s, c + 1, b, x)
  OBVIOUS
<1> PICK A : A = Places(s, a, b, x)
  OBVIOUS
<1>1. L \cup R = A /\ L \cap R = {}
  BY DEF Places
<1>2. IsFiniteSet(L) /\ IsFiniteSet(R)
  <2>1. c + 1 \in Int
    OBVIOUS
  <2>2. QED
    BY <2>1, PlacesFinite
<1>3. Cardinality(L) \in Nat /\ Cardinality(R) \in Nat
  BY <1>2, FS_CardinalityType
<1>4. Cardinality(L \cup R) = Cardinality(L) + Cardinality(R) - Cardinality(L \cap R)
  BY <1>2, FS_Union
<1>5. Cardinality({}) = 0
  BY FS_EmptySet
<1>6. Cardinality(A) = Cardinality(L) + Cardinality(R)
  <2>1. Cardinality(L \cup R) = Cardinality(A) /\ Cardinality(L \cap R) = 0
    BY <1>1, <1>5
  <2>2. QED
    BY <1>3, <1>4, <2>1
<1>7. QED
  BY <1>6 DEF Occ

(* Two functions that agree, at a distance d, hold x as often.             *)
Agree(s, t, a, b, d) == \A p \in a..b : s[p] = t[p + d]

LEMMA OccShift ==
  ASSUME NEW s, NEW t, NEW a \in Int, NEW b \in Int, NEW d \in Int, NEW x,
         Agree(s, t, a, b, d)
  PROVE  Occ(s, a, b, x) = Occ(t, a + d, b + d, x)
<1> DEFINE S == Places(s, a, b, x)
           T == Places(t, a + d, b + d, x)
           f == [p \in S |-> p + d]
<1>1. \A p \in S : p \in Int /\ p + d \in T
  BY DEF Places, Agree
<1>2. f \in Injection(S, T)
  <2> HIDE DEF S, T
  <2>1. f \in [S -> T]
    BY <1>1
  <2>2. ASSUME NEW p \in S, NEW q \in S, f[p] = f[q] PROVE p = q
    <3>1. p \in Int /\ q \in Int
      BY <1>1
    <3>2. p + d = q + d
      BY <2>2
    <3>3. QED
      BY <3>1, <3>2
  <2>3. IsInjective(f)
    BY <2>1, <2>2 DEF IsInjective
  <2>4. QED
    BY <2>1, <2>3 DEF Injection
<1>3. ASSUME NEW q \in T PROVE \E p \in S : f[p] = q
  <2>1. q - d \in a..b /\ (q - d) + d = q
    BY DEF Places
  <2>2. s[q - d] = t[q]
    BY <2>1 DEF Agree
  <2>3. q - d \in S
    BY <2>1, <2>2 DEF Places
  <2>4. f[q - d] = q
    BY <2>1, <2>3
  <2>5. QED
    BY <2>3, <2>4
<1>4. ExistsBijection(S, T)
  <2>1. f \in Surjection(S, T)
    BY <1>2, <1>3 DEF Surjection, Injection
  <2>2. QED
    BY <1>2, <2>1 DEF ExistsBijection, Bijection
<1>5. IsFiniteSet(S)
  BY PlacesFinite
<1> HIDE DEF S, T
<1>6. Cardinality(S) = Cardinality(T)
  BY <1>4, <1>5, FS_Bijection
<1>7. QED
  BY <1>6 DEF Occ, S, T

Same(s, t, a, b) == \A p \in a..b : s[p] = t[p]

LEMMA OccSame ==
  ASSUME NEW s, NEW t, NEW a \in Int, NEW b \in Int, NEW x, Same(s, t, a, b)
  PROVE  Occ(s, a, b, x) = Occ(t, a, b, x)
<1>1. Places(s, a, b, x) = Places(t, a, b, x)
  BY DEF Places, Same
<1>2. QED
  BY <1>1 DEF Occ

(* Writing one place.                                                      *)
One(y, x) == IF y = x THEN 1 ELSE 0
SameBut(s, t, a, b, i) == i \in a..b /\ \A p \in a..b : p # i => t[p] = s[p]

LEMMA OccWrite ==
  ASSUME NEW s, NEW t, NEW a \in Int, NEW b \in Int, NEW i, NEW x, SameBut(s, t, a, b, i)
  PROVE  Occ(t, a, b, x) = Occ(s, a, b, x) - One(s[i], x) + One(t[i], x)
<1>a. PICK h : h = i - 1
  OBVIOUS
<1>1. h \in Int /\ a <= h + 1 /\ h <= b /\ h + 1 = i
  BY <1>a DEF SameBut
<1>2. /\ Occ(s, a, b, x) = Occ(s, a, h, x) + Occ(s, h + 1, b, x)
      /\ Occ(t, a, b, x) = Occ(t, a, h, x) + Occ(t, h + 1, b, x)
  <2>1. Occ(s, a, b, x) = Occ(s, a, h, x) + Occ(s, h + 1, b, x)
    BY <1>1, OccSplit
  <2>2. Occ(t, a, b, x) = Occ(t, a, h, x) + Occ(t, h + 1, b, x)
    BY <1>1, OccSplit
  <2>3. QED
    BY <2>1, <2>2
<1>3. i \in Int /\ i <= i + 1 /\ i <= b /\ i + 1 \in Int
  BY DEF SameBut
<1>4. /\ Occ(s, i, b, x) = Occ(s, i, i, x) + Occ(s, i + 1, b, x)
      /\ Occ(t, i, b, x) = Occ(t, i, i, x) + Occ(t, i + 1, b, x)
  <2>1. Occ(s, i, b, x) = Occ(s, i, i, x) + Occ(s, i + 1, b, x)
    BY <1>3, OccSplit
  <2>2. Occ(t, i, b, x) = Occ(t, i, i, x) + Occ(t, i + 1, b, x)
    BY <1>3, OccSplit
  <2>3. QED
    BY <2>1, <2>2
<1>5. Occ(s, a, h, x) = Occ(t, a, h, x)
  <2>1. Same(s, t, a, h)
    BY <1>a, <1>3 DEF Same, SameBut
  <2>2. QED
    BY <1>1, <2>1, OccSame
<1>6. Occ(s, i + 1, b, x) = Occ(t, i + 1, b, x)
  <2>1. Same(s, t, i + 1, b)
    BY <1>3 DEF Same, SameBut
  <2>2. QED
    BY <1>3, <2>1, OccSame
<1>7. Occ(s, i, i, x) = One(s[i], x) /\ Occ(t, i, i, x) = One(t[i], x)
  BY <1>3, OccOne DEF One
<1>8. Occ(s, a, h, x) \in Nat /\ Occ(s, i + 1, b, x) \in Nat
  BY <1>1, <1>3, OccType
<1>9. One(s[i], x) \in Nat /\ One(t[i], x) \in Nat
  BY DEF One
<1>10. QED
  BY <1>1, <1>2, <1>4, <1>5, <1>6, <1>7, <1>8, <1>9

-----------------------------------------------------------------------------
(* A list during an operation (TypedList).  Its slots may hold trash in    *)
(* between; a sound list owns a reference for each place of an item, and   *)
(* its places lie inside its block.                                        *)
Slots == Elems \cup {Trash}

Statuses == {"OK", "IndexError", "ValueError", "MemoryError", "AssertionError",
             "LIST_OK", "LIST_ERR_IMMUTABLE", "LIST_ERR_NO_MEMORY", "LIST_ERR_INDEX"}

ListsOf(S) == [items : Seq(S), allocated : Nat, refs : [Slots -> Int],
               is_mutable : BOOLEAN, memory : Nat, status : Statuses]

Owned(l) == \A x \in Slots : l.refs[x] = Occ(l.items, 1, Len(l.items), x)
SoundLists == {l \in ListsOf(Elems) : Len(l.items) <= l.allocated /\ Owned(l)}

LEMMA ListsType ==
  /\ Trash \notin Elems /\ Elems \subseteq Slots
  /\ \A l \in ListsOf(Elems) : l \in ListsOf(Slots)
<1>1. Trash \notin Elems /\ Elems \subseteq Slots
  BY ListAssumption DEF Slots
<1>2. \A s \in Seq(Elems) : s \in Seq(Slots)
  BY <1>1
<1>3. QED
  BY <1>1, <1>2 DEF ListsOf

LEMMA StatusSound ==
  ASSUME NEW l \in SoundLists, NEW s \in Statuses
  PROVE  Status(l, s) \in SoundLists /\ Size(Status(l, s)) = Size(l)
BY DEF SoundLists, ListsOf, Status, Owned, Size

LEMMA RaiseSound ==
  ASSUME NEW l \in SoundLists
  PROVE  Raise(l) \in SoundLists /\ Size(Raise(l)) = Size(l)
<1> PICK s : s = (CASE l.status = "LIST_OK" -> "OK"
                    [] l.status = "LIST_ERR_IMMUTABLE" -> "ValueError"
                    [] l.status = "LIST_ERR_NO_MEMORY" -> "MemoryError"
                    [] OTHER -> "AssertionError")
  OBVIOUS
<1>1. s \in Statuses
  BY DEF Statuses
<1>2. QED
  BY <1>1, StatusSound DEF Raise

(* A new block has room for the list and, if it is smaller than half the   *)
(* old one, needs no memory.                                               *)
LEMMA NewAllocatedBounds ==
  ASSUME NEW n \in Nat
  PROVE  /\ NewAllocated(n) \in Nat /\ n <= NewAllocated(n)
         /\ \A a \in Nat : n < a \div 2 => NewAllocated(n) <= a
BY DEF NewAllocated

LEMMA SizedType ==
  ASSUME NEW S, Trash \in S, NEW s \in Seq(S), NEW n \in Nat
  PROVE  /\ Sized(s, n) \in Seq(S) /\ Len(Sized(s, n)) = n
         /\ \A p \in 1..n : p <= Len(s) => Sized(s, n)[p] = s[p]
<1>1. \A p \in 1..n : p <= Len(s) => s[p] \in S
  OBVIOUS
<1>2. Sized(s, n) \in [1..n -> S]
  BY <1>1 DEF Sized
<1>3. QED
  BY <1>2 DEF Sized

(* numba_list_resize() changes nothing when it fails, and does not fail    *)
(* when a mutable list is made shorter.                                    *)
ResizeLeaves(l, n, r) ==
  /\ r \in ListsOf(Slots) /\ r.refs = l.refs /\ r.is_mutable = l.is_mutable
  /\ \/ r.status = "LIST_OK" /\ r.items = Sized(l.items, n) /\ n <= r.allocated
     \/ /\ r.status = "LIST_ERR_IMMUTABLE" /\ r = Status(l, r.status)
        /\ ~ l.is_mutable
     \/ /\ r.status = "LIST_ERR_NO_MEMORY" /\ r = Status(l, r.status)
        /\ ~ (n < l.allocated \div 2) /\ l.allocated < n

LEMMA ResizeFields ==
  ASSUME NEW l \in ListsOf(Slots), NEW n \in Nat, NEW r, r = Resize(l, n)
  PROVE  ResizeLeaves(l, n, r)
<1> SUFFICES /\ r \in ListsOf(Slots) /\ r.refs = l.refs /\ r.is_mutable = l.is_mutable
             /\ \/ r.status = "LIST_OK" /\ r.items = Sized(l.items, n) /\ n <= r.allocated
                \/ /\ r.status = "LIST_ERR_IMMUTABLE" /\ r = Status(l, r.status)
                   /\ ~ l.is_mutable
                \/ /\ r.status = "LIST_ERR_NO_MEMORY" /\ r = Status(l, r.status)
                   /\ ~ (n < l.allocated \div 2) /\ l.allocated < n
  BY Zenon DEF ResizeLeaves
<1>1. CASE ~ l.is_mutable
  BY <1>1 DEF Resize, Status, ListsOf, Statuses
<1>2. CASE l.is_mutable
  <2>1. Sized(l.items, n) \in Seq(Slots)
    BY SizedType DEF ListsOf, Slots
  <2>2. CASE l.allocated >= n /\ n >= l.allocated \div 2
    <3>1. r = [l EXCEPT !.items = Sized(@, n), !.status = "LIST_OK"]
      BY <1>2, <2>2 DEF Resize
    <3>2. QED
      BY <2>1, <2>2, <3>1 DEF ListsOf, Statuses
  <2>3. CASE ~ (l.allocated >= n /\ n >= l.allocated \div 2)
    <3> PICK A : A = NewAllocated(n)
      OBVIOUS
    <3>1. /\ A \in Nat /\ n <= A /\ (n < l.allocated \div 2 => A <= l.allocated)
          /\ l.allocated \in Nat /\ l.memory \in Nat
      BY NewAllocatedBounds DEF ListsOf
    <3>2. CASE A > l.allocated /\ l.memory = 0
      <4>1. r = Status(l, "LIST_ERR_NO_MEMORY")
        BY <1>2, <2>3, <3>2 DEF Resize
      <4>2. ~ (n < l.allocated \div 2) /\ l.allocated < n
        BY <2>3, <3>1, <3>2
      <4>3. QED
        BY <4>1, <4>2 DEF Status, ListsOf, Statuses
    <3>3. CASE ~ (A > l.allocated /\ l.memory = 0)
      <4> PICK M : M = IF A > l.allocated THEN l.memory - 1 ELSE l.memory
        OBVIOUS
      <4>1. M \in Nat
        BY <3>1, <3>3
      <4>2. r = [l EXCEPT !.items = Sized(@, n), !.allocated = A, !.memory = M,
                          !.status = "LIST_OK"]
        BY <1>2, <2>3, <3>3 DEF Resize
      <4>3. QED
        BY <2>1, <3>1, <4>1, <4>2 DEF ListsOf, Statuses
    <3>4. QED
      BY <3>2, <3>3
  <2>4. QED
    BY <2>2, <2>3
<1>3. QED
  BY <1>1, <1>2 DEF ListsOf

-----------------------------------------------------------------------------
(* The C functions on one item keep a list sound (listobject.c).           *)

LEMMA SeqOf ==
  ASSUME NEW S, NEW n \in Nat, NEW f \in [1..n -> S]
  PROVE  f \in Seq(S) /\ Len(f) = n
OBVIOUS

LEMMA OwnLessFields ==
  ASSUME NEW S, NEW l \in ListsOf(S), NEW y \in Slots
  PROVE  LET m == OwnOneLess(l, y) IN
         /\ m \in ListsOf(S) /\ m.items = l.items /\ m.allocated = l.allocated
         /\ m.is_mutable = l.is_mutable /\ m.memory = l.memory /\ m.status = l.status
         /\ \A z \in Slots : m.refs[z] = l.refs[z] - One(y, z)
<1>1. OwnOneLess(l, y) = [l EXCEPT !.refs = [l.refs EXCEPT ![y] = l.refs[y] - 1]]
  BY DEF OwnOneLess, ListsOf
<1>2. [l.refs EXCEPT ![y] = l.refs[y] - 1] \in [Slots -> Int]
  BY DEF ListsOf
<1>3. \A z \in Slots : [l.refs EXCEPT ![y] = l.refs[y] - 1][z] = l.refs[z] - One(y, z)
  BY DEF ListsOf, One
<1>4. QED
  BY <1>1, <1>2, <1>3 DEF ListsOf

LEMMA OwnMoreFields ==
  ASSUME NEW S, NEW l \in ListsOf(S), NEW y \in Slots
  PROVE  LET m == OwnOneMore(l, y) IN
         /\ m \in ListsOf(S) /\ m.items = l.items /\ m.allocated = l.allocated
         /\ m.is_mutable = l.is_mutable /\ m.memory = l.memory /\ m.status = l.status
         /\ \A z \in Slots : m.refs[z] = l.refs[z] + One(y, z)
<1>1. OwnOneMore(l, y) = [l EXCEPT !.refs = [l.refs EXCEPT ![y] = l.refs[y] + 1]]
  BY DEF OwnOneMore, ListsOf
<1>2. [l.refs EXCEPT ![y] = l.refs[y] + 1] \in [Slots -> Int]
  BY DEF ListsOf
<1>3. \A z \in Slots : [l.refs EXCEPT ![y] = l.refs[y] + 1][z] = l.refs[z] + One(y, z)
  BY DEF ListsOf, One
<1>4. QED
  BY <1>1, <1>2, <1>3 DEF ListsOf

(* What a sound list is, with its items and their number named.            *)
LEMMA SoundFields ==
  ASSUME NEW l \in SoundLists, NEW s, s = l.items, NEW n, n = Len(s)
  PROVE  /\ l \in ListsOf(Elems) /\ l \in ListsOf(Slots)
         /\ s \in Seq(Elems) /\ s \in Seq(Slots) /\ n \in Nat /\ Size(l) = n
         /\ l.allocated \in Nat /\ n <= l.allocated
         /\ \A z \in Slots : l.refs[z] \in Int /\ l.refs[z] = Occ(s, 1, n, z)
BY ListsType DEF SoundLists, Owned, ListsOf, Size

LEMMA SoundFrom ==
  ASSUME NEW l \in ListsOf(Elems), NEW s, s = l.items, NEW n, n = Len(s), n <= l.allocated,
         \A z \in Slots : l.refs[z] = Occ(s, 1, n, z)
  PROVE  l \in SoundLists /\ Size(l) = n
BY DEF SoundLists, Owned, Size

Written(s, j, x) == [s EXCEPT ![j] = x]

LEMMA WrittenOcc ==
  ASSUME NEW S, NEW s \in Seq(S), NEW j \in 1..Len(s), NEW x \in S
  PROVE  /\ Written(s, j, x) \in Seq(S) /\ Len(Written(s, j, x)) = Len(s)
         /\ \A z : Occ(Written(s, j, x), 1, Len(s), z)
                     = Occ(s, 1, Len(s), z) - One(s[j], z) + One(x, z)
<1>a. PICK n : n = Len(s)
  OBVIOUS
<1>b. PICK t : t = Written(s, j, x)
  OBVIOUS
<1>1. t \in Seq(S) /\ Len(t) = n
  BY <1>a, <1>b DEF Written
<1>2. SameBut(s, t, 1, n, j) /\ t[j] = x /\ 1 \in Int /\ n \in Int
  BY <1>a, <1>b DEF Written, SameBut
<1>3. ASSUME NEW z
      PROVE  Occ(t, 1, n, z) = Occ(s, 1, n, z) - One(s[j], z) + One(t[j], z)
  BY <1>2, OccWrite
<1>4. QED
  BY <1>a, <1>b, <1>1, <1>2, <1>3

Appended(s, x) == [Sized(s, Len(s) + 1) EXCEPT ![Len(s) + 1] = x]

LEMMA AppendedOcc ==
  ASSUME NEW s \in Seq(Elems), NEW x \in Elems
  PROVE  /\ Appended(s, x) \in Seq(Elems) /\ Len(Appended(s, x)) = Len(s) + 1
         /\ \A z : Occ(Appended(s, x), 1, Len(s) + 1, z) = Occ(s, 1, Len(s), z) + One(x, z)
<1>a. PICK h : h = Len(s)
  OBVIOUS
<1>b. PICK n : n = h + 1
  OBVIOUS
<1>c. PICK q : q = Sized(s, n)
  OBVIOUS
<1>d. PICK t : t = Appended(s, x)
  OBVIOUS
<1>1. n \in Nat /\ h \in Nat /\ s \in Seq(Slots) /\ x \in Slots
  BY <1>a, <1>b DEF Slots
<1>2. q \in Seq(Slots) /\ Len(q) = n /\ \A p \in 1..h : q[p] = s[p]
  <2>1. Trash \in Slots
    BY DEF Slots
  <2>2. /\ Sized(s, n) \in Seq(Slots) /\ Len(Sized(s, n)) = n
        /\ \A p \in 1..n : p <= Len(s) => Sized(s, n)[p] = s[p]
    BY <1>1, <2>1, SizedType
  <2>3. QED
    BY <1>a, <1>b, <1>c, <1>1, <2>2
<1>3. t = [q EXCEPT ![n] = x]
  BY <1>a, <1>b, <1>c, <1>d DEF Appended
<1>4. t[n] = x /\ DOMAIN t = 1..n /\ \A p \in 1..h : t[p] = s[p]
  BY <1>b, <1>1, <1>2, <1>3
<1>5. \A p \in 1..n : t[p] \in Elems
  <2>1. ASSUME NEW p \in 1..n PROVE t[p] \in Elems
    <3>1. CASE p = n
      BY <1>4, <3>1
    <3>2. CASE p # n
      <4>1. p \in 1..h
        BY <1>b, <1>1, <3>2
      <4>2. QED
        BY <1>a, <1>4, <4>1
    <3>3. QED
      BY <3>1, <3>2
  <2>2. QED
    BY <2>1
<1>6. t \in [1..n -> Elems]
  BY <1>3, <1>4, <1>5
<1>7. t \in Seq(Elems) /\ Len(t) = n
  BY <1>1, <1>6, SeqOf
<1>8. ASSUME NEW z PROVE Occ(t, 1, n, z) = Occ(s, 1, h, z) + One(x, z)
  <2>1. 1 \in Int /\ h \in Int /\ n \in Int /\ n = h + 1 /\ 1 <= h + 1 /\ h <= n
    BY <1>b, <1>1
  <2>2. Occ(t, 1, n, z) = Occ(t, 1, h, z) + Occ(t, h + 1, n, z)
    BY <2>1, OccSplit
  <2>3. Occ(t, 1, h, z) = Occ(s, 1, h, z)
    <3>1. Same(t, s, 1, h)
      BY <1>4 DEF Same
    <3>2. QED
      BY <2>1, <3>1, OccSame
  <2>4. Occ(t, n, n, z) = One(x, z)
    BY <1>4, <2>1, OccOne DEF One
  <2>5. QED
    BY <2>1, <2>2, <2>3, <2>4
<1>9. QED
  BY <1>a, <1>b, <1>d, <1>7, <1>8

LEMMA SetItemAtSound ==
  ASSUME NEW l \in SoundLists, NEW i, NEW x \in Elems
  PROVE  SetItemAt(l, i, x) \in SoundLists /\ Size(SetItemAt(l, i, x)) = Size(l)
<1>1. CASE ~ l.is_mutable \/ i \notin 0..(Size(l) - 1)
  BY <1>1, StatusSound DEF SetItemAt, Statuses
<1>2. CASE l.is_mutable /\ i \in 0..(Size(l) - 1)
  <2>a. PICK y : y = At(l, i)
    OBVIOUS
  <2>b. PICK j : j = i + 1
    OBVIOUS
  <2>c. PICK s : s = l.items
    OBVIOUS
  <2>d. PICK N : N = Len(s)
    OBVIOUS
  <2>e. PICK u : u = OwnOneLess(l, y)
    OBVIOUS
  <2>f. PICK v : v = [u EXCEPT !.items[j] = x, !.status = "LIST_OK"]
    OBVIOUS
  <2>g. PICK m : m = OwnOneMore(v, x)
    OBVIOUS
  <2>h. PICK t : t = Written(s, j, x)
    OBVIOUS
  <2>1. /\ l \in ListsOf(Elems) /\ s \in Seq(Elems) /\ N \in Nat /\ Size(l) = N
        /\ N <= l.allocated
        /\ \A z \in Slots : l.refs[z] \in Int /\ l.refs[z] = Occ(s, 1, N, z)
    BY <2>c, <2>d, SoundFields
  <2>2. j \in 1..N /\ y = s[j] /\ y \in Elems /\ x \in Slots /\ y \in Slots
    BY <1>2, <2>a, <2>b, <2>c, <2>d, <2>1 DEF At, Slots
  <2>3. SetItemAt(l, i, x) = m
    BY <1>2, <2>a, <2>b, <2>e, <2>f, <2>g DEF SetItemAt
  <2>4. /\ u \in ListsOf(Elems) /\ u.items = s /\ u.allocated = l.allocated
        /\ \A z \in Slots : u.refs[z] = l.refs[z] - One(y, z)
    <3>1. LET w == OwnOneLess(l, y) IN
          /\ w \in ListsOf(Elems) /\ w.items = l.items /\ w.allocated = l.allocated
          /\ \A z \in Slots : w.refs[z] = l.refs[z] - One(y, z)
      BY <2>1, <2>2, OwnLessFields
    <3>2. QED
      BY <2>c, <2>e, <3>1, Zenon
  <2>5. /\ t \in Seq(Elems) /\ Len(t) = N
        /\ \A z : Occ(t, 1, N, z) = Occ(s, 1, N, z) - One(s[j], z) + One(x, z)
    <3>1. j \in 1..Len(s) /\ s \in Seq(Elems)
      BY <2>d, <2>1, <2>2
    <3>2. /\ Written(s, j, x) \in Seq(Elems) /\ Len(Written(s, j, x)) = Len(s)
          /\ \A z : Occ(Written(s, j, x), 1, Len(s), z)
                      = Occ(s, 1, Len(s), z) - One(s[j], z) + One(x, z)
      BY <3>1, WrittenOcc
    <3>3. QED
      BY <2>d, <2>h, <3>2
  <2>6. /\ v \in ListsOf(Elems) /\ v.items = t
        /\ v.allocated = l.allocated /\ v.refs = u.refs
    BY <2>f, <2>h, <2>4, <2>5 DEF ListsOf, Statuses, Written
  <2>7. /\ m \in ListsOf(Elems) /\ t = m.items /\ m.allocated = l.allocated
        /\ \A z \in Slots : m.refs[z] = v.refs[z] + One(x, z)
    BY <2>g, <2>2, <2>6, OwnMoreFields
  <2>8. ASSUME NEW z \in Slots PROVE m.refs[z] = Occ(t, 1, N, z)
    <3>1. One(x, z) \in Int /\ One(y, z) \in Int
      BY DEF One
    <3>2. m.refs[z] = l.refs[z] - One(y, z) + One(x, z)
      BY <2>4, <2>6, <2>7
    <3>3. Occ(t, 1, N, z) = Occ(s, 1, N, z) - One(s[j], z) + One(x, z)
      BY <2>5
    <3>4. QED
      BY <2>1, <2>2, <3>1, <3>2, <3>3
  <2>9. N = Len(t) /\ N <= m.allocated
    BY <2>1, <2>5, <2>7
  <2>10. m \in SoundLists /\ Size(m) = N
    BY <2>7, <2>8, <2>9, SoundFrom
  <2>11. QED
    BY <2>1, <2>3, <2>10
<1>3. QED
  BY <1>1, <1>2

LEMMA AppendItemSound ==
  ASSUME NEW l \in SoundLists, NEW x \in Elems, NEW m, m = AppendItem(l, x)
  PROVE  /\ m \in SoundLists
         /\ Size(m) = IF m.status = "LIST_OK" THEN Size(l) + 1 ELSE Size(l)
<1>a. PICK s : s = l.items
  OBVIOUS
<1>b. PICK h : h = Len(s)
  OBVIOUS
<1>c. PICK n : n = h + 1
  OBVIOUS
<1>d. PICK r : r = Resize(l, n)
  OBVIOUS
<1>1. /\ l \in ListsOf(Elems) /\ l \in ListsOf(Slots) /\ s \in Seq(Elems) /\ s \in Seq(Slots)
      /\ h \in Nat /\ Size(l) = h
      /\ \A z \in Slots : l.refs[z] \in Int /\ l.refs[z] = Occ(s, 1, h, z)
  BY <1>a, <1>b, SoundFields
<1>2. n \in Nat /\ x \in Slots /\ r = Resize(l, Size(l) + 1) /\ h = n - 1
  BY <1>c, <1>d, <1>1 DEF Slots
<1>e. ResizeLeaves(l, n, r)
  BY <1>d, <1>1, <1>2, ResizeFields
<1>3. CASE r.status = "LIST_OK"
  <2>a. PICK t : t = Appended(s, x)
    OBVIOUS
  <2>b. PICK v : v = [r EXCEPT !.items[n] = x]
    OBVIOUS
  <2>1. /\ r \in ListsOf(Slots) /\ r.refs = l.refs
        /\ r.items = Sized(s, n) /\ n <= r.allocated
    BY <1>a, <1>3, <1>e DEF ResizeLeaves
  <2>2. /\ t \in Seq(Elems) /\ Len(t) = n
        /\ \A z : Occ(t, 1, n, z) = Occ(s, 1, h, z) + One(x, z)
    BY <1>b, <1>c, <1>1, <2>a, AppendedOcc
  <2>3. m = OwnOneMore(v, x)
    <3>1. Len(r.items) = n
      BY <1>1, <1>2, <2>1, SizedType DEF Slots
    <3>2. QED
      BY <1>2, <1>3, <2>b, <3>1 DEF AppendItem, Size
  <2>4. /\ v \in ListsOf(Elems) /\ v.items = t
        /\ v.allocated = r.allocated /\ v.refs = l.refs /\ v.status = "LIST_OK"
    <3>1. t = [Sized(s, n) EXCEPT ![n] = x]
      BY <1>b, <1>c, <2>a DEF Appended
    <3>2. QED
      BY <1>3, <2>b, <2>1, <2>2, <3>1 DEF ListsOf
  <2>5. /\ m \in ListsOf(Elems) /\ t = m.items /\ m.allocated = r.allocated
        /\ m.status = "LIST_OK"
        /\ \A z \in Slots : m.refs[z] = l.refs[z] + One(x, z)
    BY <1>2, <2>3, <2>4, OwnMoreFields
  <2>6. \A z \in Slots : m.refs[z] = Occ(t, 1, n, z)
    BY <1>1, <1>2, <2>2, <2>5
  <2>7. n = Len(t) /\ n <= m.allocated
    BY <2>1, <2>2, <2>5
  <2>8. m \in SoundLists /\ Size(m) = n
    BY <2>5, <2>6, <2>7, SoundFrom
  <2>9. QED
    BY <1>c, <1>1, <2>5, <2>8
<1>4. CASE r.status # "LIST_OK"
  <2>1. r.status \in {"LIST_ERR_IMMUTABLE", "LIST_ERR_NO_MEMORY"} /\ r = Status(l, r.status)
    <3>1. \/ r.status = "LIST_ERR_IMMUTABLE" /\ r = Status(l, r.status)
          \/ r.status = "LIST_ERR_NO_MEMORY" /\ r = Status(l, r.status)
      BY <1>4, <1>e DEF ResizeLeaves
    <3>2. QED
      BY <3>1
  <2>2. m = r
    BY <1>2, <1>4 DEF AppendItem
  <2>3. r \in SoundLists /\ Size(r) = Size(l)
    BY <2>1, StatusSound DEF Statuses
  <2>4. QED
    BY <1>4, <2>2, <2>3
<1>5. QED
  BY <1>3, <1>4


(* memmove(): the k items from src on are then at dst, the others stay.    *)
MemMoved(s, t, dst, src, k) ==
  /\ \A p \in 1..dst : t[p] = s[p]
  /\ \A p \in (dst + 1)..(dst + k) : t[p] = s[p + (src - dst)]
  /\ \A p \in (dst + k + 1)..Len(s) : t[p] = s[p]

LEMMA MoveFields ==
  ASSUME NEW s \in Seq(Elems), NEW dst \in Nat, NEW src \in Nat, NEW k \in Int,
         dst <= src, src + k <= Len(s) \/ k <= 0, NEW t, t = MemMove(s, dst, src, k)
  PROVE  /\ t \in Seq(Elems) /\ Len(t) = Len(s)
         /\ k >= 0 => MemMoved(s, t, dst, src, k)
         /\ k <= 0 => t = s
<1>a. PICK N : N = Len(s)
  OBVIOUS
<1>1. N \in Nat /\ DOMAIN s = 1..N /\ \A p \in 1..N : s[p] \in Elems
  BY <1>a
<1>2. t = [p \in 1..N |-> IF p - 1 \in dst..(dst + k - 1) THEN s[p + src - dst] ELSE s[p]]
  BY <1>1 DEF MemMove
<1>3. ASSUME NEW p \in 1..N PROVE t[p] \in Elems
  <2>1. CASE p - 1 \in dst..(dst + k - 1)
    <3>1. p + src - dst \in 1..N
      BY <1>a, <2>1
    <3>2. QED
      BY <1>1, <1>2, <2>1, <3>1
  <2>2. CASE p - 1 \notin dst..(dst + k - 1)
    BY <1>1, <1>2, <2>2
  <2>3. QED
    BY <2>1, <2>2
<1>4. t \in [1..N -> Elems]
  BY <1>2, <1>3
<1>5. t \in Seq(Elems) /\ Len(t) = N
  BY <1>1, <1>4, SeqOf
<1>6. ASSUME k >= 0 PROVE MemMoved(s, t, dst, src, k)
  <2>1. ASSUME NEW p \in 1..dst PROVE t[p] = s[p]
    <3>1. CASE p \in 1..N
      <4>1. p - 1 \notin dst..(dst + k - 1)
        OBVIOUS
      <4>2. QED
        BY <1>2, <3>1, <4>1
    <3>2. CASE p \notin 1..N
      <4>1. k = 0
        BY <1>1, <1>6, <1>a, <3>2
      <4>2. \A j \in 1..N : j - 1 \notin dst..(dst + k - 1)
        BY <4>1
      <4>3. t = [j \in 1..N |-> s[j]]
        BY <1>2, <4>2
      <4>4. s = [j \in 1..N |-> s[j]]
        BY <1>1
      <4>5. QED
        BY <4>3, <4>4
    <3>3. QED
      BY <3>1, <3>2
  <2>2. ASSUME NEW p \in (dst + 1)..(dst + k) PROVE t[p] = s[p + (src - dst)]
    <3>1. p \in 1..N /\ p - 1 \in dst..(dst + k - 1) /\ p + src - dst = p + (src - dst)
      BY <1>a, <1>1, <1>6
    <3>2. QED
      BY <1>2, <3>1
  <2>3. ASSUME NEW p \in (dst + k + 1)..N PROVE t[p] = s[p]
    <3>1. p \in 1..N /\ p - 1 \notin dst..(dst + k - 1)
      BY <1>6
    <3>2. QED
      BY <1>2, <3>1
  <2>4. QED
    BY <1>a, <2>1, <2>2, <2>3 DEF MemMoved
<1>7. ASSUME k <= 0 PROVE t = s
  <2>1. \A j \in 1..N : j - 1 \notin dst..(dst + k - 1)
    BY <1>7
  <2>2. t = [j \in 1..N |-> s[j]]
    BY <1>2, <2>1
  <2>3. s = [j \in 1..N |-> s[j]]
    BY <1>1
  <2>4. QED
    BY <2>2, <2>3
<1>8. QED
  BY <1>a, <1>5, <1>6, <1>7

(* What is then in the first places: those before dst and those moved.     *)
LEMMA MovedOcc ==
  ASSUME NEW s, NEW t, NEW dst \in Nat, NEW src \in Nat, NEW k \in Nat, NEW z,
         MemMoved(s, t, dst, src, k)
  PROVE  Occ(t, 1, dst + k, z) = Occ(s, 1, dst, z) + Occ(s, src + 1, src + k, z)
<1>a. PICK d : d = src - dst
  OBVIOUS
<1>b. PICK e : e = dst + k
  OBVIOUS
<1>1. /\ d \in Int /\ e \in Int /\ 1 \in Int /\ dst \in Int /\ dst + 1 \in Int
      /\ 1 <= dst + 1 /\ dst <= e
      /\ (dst + 1) + d = src + 1 /\ e + d = src + k
  BY <1>a, <1>b
<1>2. Occ(t, 1, e, z) = Occ(t, 1, dst, z) + Occ(t, dst + 1, e, z)
  BY <1>1, OccSplit
<1>3. Occ(t, 1, dst, z) = Occ(s, 1, dst, z)
  <2>1. Same(t, s, 1, dst)
    BY DEF Same, MemMoved
  <2>2. QED
    BY <1>1, <2>1, OccSame
<1>4. Occ(t, dst + 1, e, z) = Occ(s, src + 1, src + k, z)
  <2>1. Agree(t, s, dst + 1, e, d)
    BY <1>a, <1>b DEF Agree, MemMoved
  <2>2. Occ(t, dst + 1, e, z) = Occ(s, (dst + 1) + d, e + d, z)
    BY <1>1, <2>1, OccShift
  <2>3. QED
    BY <1>1, <2>2
<1>5. QED
  BY <1>b, <1>2, <1>3, <1>4

(* A list whose references are those of its first m items is sound once it *)
(* has been made that short, which cannot fail.                            *)
LEMMA ShortenSound ==
  ASSUME NEW v \in ListsOf(Elems), v.is_mutable, NEW s, s = v.items, NEW N, N = Len(s),
         N <= v.allocated, NEW m \in 0..N, NEW r, r = Resize(v, m),
         \A z \in Slots : v.refs[z] = Occ(s, 1, m, z)
  PROVE  r \in SoundLists /\ Size(r) = m /\ r.status = "LIST_OK"
<1>a. PICK t : t = Sized(s, m)
  OBVIOUS
<1>1. s \in Seq(Elems) /\ N \in Nat /\ m \in Nat /\ v.allocated \in Nat
  BY DEF ListsOf
<1>2. v \in ListsOf(Slots)
  BY ListsType
<1>3. /\ r \in ListsOf(Slots) /\ r.refs = v.refs
      /\ r.status = "LIST_OK" /\ r.items = t /\ m <= r.allocated
  <2>1. ~ (v.allocated < m)
    BY <1>1
  <2>2. QED
    BY <1>1, <1>2, <1>a, <2>1, ResizeFields DEF ResizeLeaves
<1>4. t \in [1..m -> Elems] /\ \A p \in 1..m : t[p] = s[p]
  <2>1. \A p \in 1..m : p <= Len(s) /\ s[p] \in Elems
    BY <1>1
  <2>2. QED
    BY <1>a, <2>1 DEF Sized
<1>5. t \in Seq(Elems) /\ m = Len(t)
  BY <1>1, <1>4, SeqOf
<1>6. r \in ListsOf(Elems)
  BY <1>3, <1>5 DEF ListsOf
<1>7. ASSUME NEW z \in Slots PROVE r.refs[z] = Occ(t, 1, m, z)
  <2>1. Same(s, t, 1, m)
    BY <1>4 DEF Same
  <2>2. 1 \in Int /\ m \in Int
    BY <1>1
  <2>3. Occ(s, 1, m, z) = Occ(t, 1, m, z)
    BY <2>1, <2>2, OccSame
  <2>4. QED
    BY <1>3, <2>3
<1>8. r \in SoundLists /\ Size(r) = m
  BY <1>3, <1>5, <1>6, <1>7, SoundFrom
<1>9. QED
  BY <1>3, <1>8

LEMMA DelItemAtSound ==
  ASSUME NEW l \in SoundLists, NEW i, NEW r, r = DelItemAt(l, i)
  PROVE  /\ r \in SoundLists
         /\ Size(r) = IF r.status = "LIST_OK" THEN Size(l) - 1 ELSE Size(l)
<1>1. CASE ~ l.is_mutable
  <2>1. r = Status(l, "LIST_ERR_IMMUTABLE")
    BY <1>1 DEF DelItemAt
  <2>2. r \in SoundLists /\ Size(r) = Size(l)
    BY <2>1, StatusSound DEF Statuses
  <2>3. r.status # "LIST_OK"
    BY <2>1 DEF Status, SoundLists, ListsOf
  <2>4. QED
    BY <2>2, <2>3
<1>2. CASE l.is_mutable /\ i \notin 0..(Size(l) - 1)
  <2>1. r = Status(l, "LIST_ERR_INDEX")
    BY <1>2 DEF DelItemAt
  <2>2. r \in SoundLists /\ Size(r) = Size(l)
    BY <2>1, StatusSound DEF Statuses
  <2>3. r.status # "LIST_OK"
    BY <2>1 DEF Status, SoundLists, ListsOf
  <2>4. QED
    BY <2>2, <2>3
<1>3. CASE l.is_mutable /\ i \in 0..(Size(l) - 1)
  <2>a. PICK y : y = At(l, i)
    OBVIOUS
  <2>b. PICK s : s = l.items
    OBVIOUS
  <2>c. PICK N : N = Len(s)
    OBVIOUS
  <2>d. PICK m : m = N - 1
    OBVIOUS
  <2>e. PICK k : k = m - i
    OBVIOUS
  <2>f. PICK u : u = OwnOneLess(l, y)
    OBVIOUS
  <2>g. PICK t : t = MemMove(s, i, i + 1, k)
    OBVIOUS
  <2>h. PICK v : v = [u EXCEPT !.items = t]
    OBVIOUS
  <2>j. PICK j : j = i + 1
    OBVIOUS
  <2>1. /\ l \in ListsOf(Elems) /\ s \in Seq(Elems) /\ N \in Nat /\ Size(l) = N
        /\ N <= l.allocated
        /\ \A z \in Slots : l.refs[z] \in Int /\ l.refs[z] = Occ(s, 1, N, z)
    BY <2>b, <2>c, SoundFields
  <2>2. /\ i \in Nat /\ j \in Nat /\ k \in Nat /\ m \in 0..N /\ i <= j /\ j + k <= N /\ j + k = N
        /\ i + k = m /\ i \in 0..(N - 1) /\ i \in Int /\ j \in Int /\ N \in Int /\ j \in 1..N
        /\ -1 <= k
    BY <1>3, <2>1, <2>d, <2>e, <2>j
  <2>3. y = s[j] /\ y \in Elems /\ y \in Slots
    BY <2>1, <2>2, <2>a, <2>b, <2>c, <2>j DEF At, Slots
  <2>4. r = Resize(v, m)
    <3>1. u.items = s
      BY <2>b, <2>1, <2>3, <2>f, OwnLessFields
    <3>2. Size(l) - 1 - i = k /\ Size(l) - 1 = m
      BY <2>1, <2>d, <2>e
    <3>3. v = [OwnOneLess(l, At(l, i)) EXCEPT !.items = MemMove(@, i, i + 1, Size(l) - 1 - i)]
      BY <2>a, <2>f, <2>g, <2>h, <3>1, <3>2
    <3>4. QED
      BY <1>3, <3>2, <3>3 DEF DelItemAt
  <2>5. /\ u \in ListsOf(Elems) /\ u.allocated = l.allocated /\ u.is_mutable
        /\ \A z \in Slots : u.refs[z] = l.refs[z] - One(y, z)
    BY <1>3, <2>1, <2>3, <2>f, OwnLessFields
  <2>6. t \in Seq(Elems) /\ Len(t) = N /\ MemMoved(s, t, i, j, k)
    <3>1. t = MemMove(s, i, j, k) /\ (j + k <= Len(s) \/ k <= 0) /\ k \in Int /\ k >= 0
      BY <2>2, <2>c, <2>g, <2>j
    <3>2. s \in Seq(Elems) /\ i \in Nat /\ j \in Nat /\ -1 <= k /\ i <= j
      BY <2>1, <2>2
    <3>3. t \in Seq(Elems) /\ Len(t) = Len(s) /\ (k >= 0 => MemMoved(s, t, i, j, k))
      BY <3>1, <3>2, MoveFields
    <3>4. QED
      BY <2>c, <3>1, <3>3
  <2>7. /\ v \in ListsOf(Elems) /\ v.is_mutable /\ t = v.items /\ N = Len(t)
        /\ N <= v.allocated /\ v.refs = u.refs
    BY <2>1, <2>5, <2>6, <2>h DEF ListsOf
  <2>8. ASSUME NEW z \in Slots PROVE v.refs[z] = Occ(t, 1, m, z)
    <3>1. Occ(t, 1, i + k, z) = Occ(s, 1, i, z) + Occ(s, j + 1, j + k, z)
      BY <2>2, <2>6, MovedOcc
    <3>2. Occ(s, 1, N, z) = Occ(s, 1, i, z) + Occ(s, i + 1, N, z)
      <4>1. 1 \in Int /\ 1 <= i + 1 /\ i <= N
        BY <2>2
      <4>2. QED
        BY <2>2, <4>1, OccSplit
    <3>3. Occ(s, j, N, z) = Occ(s, j, j, z) + Occ(s, j + 1, N, z)
      <4>1. j <= j + 1 /\ j <= N
        BY <2>2
      <4>2. QED
        BY <2>2, <4>1, OccSplit
    <3>4. Occ(s, j, j, z) = One(y, z)
      BY <2>2, <2>3, OccOne DEF One
    <3>5. /\ Occ(s, 1, i, z) \in Int /\ Occ(s, j + 1, N, z) \in Int /\ One(y, z) \in Int
      <4>1. Occ(s, 1, i, z) \in Nat
        BY <2>2, OccType
      <4>2. j + 1 \in Int
        BY <2>2
      <4>3. Occ(s, j + 1, N, z) \in Nat
        BY <2>2, <4>2, OccType
      <4>4. QED
        BY <4>1, <4>3 DEF One
    <3>6. v.refs[z] = Occ(s, 1, N, z) - One(y, z)
      BY <2>1, <2>5, <2>7
    <3>7. i + k = m /\ j + k = N /\ i + 1 = j
      BY <2>2, <2>j
    <3>8. Occ(t, 1, m, z) = Occ(s, 1, i, z) + Occ(s, j + 1, N, z)
      BY <3>1, <3>7
    <3>9. Occ(s, 1, N, z) = Occ(s, 1, i, z) + (One(y, z) + Occ(s, j + 1, N, z))
      BY <3>2, <3>3, <3>4, <3>7
    <3>10. QED
      BY <3>5, <3>6, <3>8, <3>9
  <2>9. r \in SoundLists /\ Size(r) = m /\ r.status = "LIST_OK"
    BY <2>2, <2>4, <2>7, <2>8, ShortenSound
  <2>10. QED
    BY <2>1, <2>9, <2>d
<1>4. QED
  BY <1>1, <1>2, <1>3


-----------------------------------------------------------------------------
(* Slices: where the positions of a normalized slice lie.                  *)

LEMMA DivBounds ==
  ASSUME NEW a \in Nat, NEW b \in Nat, b > 0
  PROVE  a \div b \in Nat /\ (a \div b) * b <= a
OBVIOUS

LEMMA TimesMonotonic ==
  ASSUME NEW i \in Nat, NEW j \in Nat, NEW b \in Nat, i <= j
  PROVE  i * b <= j * b /\ i * b >= 0 /\ j * b \in Int /\ i * b \in Int
OBVIOUS

SliceBounds(r, N) ==
  /\ r.start \in Int /\ r.stop \in Int /\ r.step \in Int /\ r.step # 0
  /\ r.step > 0 => r.start \in 0..N /\ r.stop \in 0..N
  /\ r.step < 0 => r.start \in -1..(N - 1) /\ r.stop \in -1..N

AnySlice == [start : Int, stop : Int, step : Int \ {0}]

LEMMA HandleSliceBounds ==
  ASSUME NEW l \in SoundLists, NEW s \in AnySlice
  PROVE  SliceBounds(HandleSlice(l, s), Size(l))
<1>a. PICK N : N = Size(l)
  OBVIOUS
<1>1. N \in Nat
  BY <1>a DEF Size, SoundLists, ListsOf
<1>2. s.start \in Int /\ s.stop \in Int /\ s.step \in Int /\ s.step # 0
  BY DEF AnySlice
<1>3. CASE N = 0
  BY <1>a, <1>3 DEF HandleSlice, SliceBounds
<1>4. CASE N # 0 /\ s.step > 0
  BY <1>a, <1>1, <1>2, <1>4 DEF HandleSlice, SliceBounds, Larger, Lesser
<1>5. CASE N # 0 /\ ~ (s.step > 0)
  BY <1>a, <1>1, <1>2, <1>5 DEF HandleSlice, SliceBounds, Larger, Lesser
<1>6. QED
  BY <1>3, <1>4, <1>5

LEMMA RangeLenType ==
  ASSUME NEW N \in Nat, NEW r, SliceBounds(r, N)
  PROVE  RangeLen(r) \in Nat
<1>1. CASE r.step > 0 /\ r.start < r.stop
  <2>1. r.stop - r.start - 1 \in Nat /\ r.step \in Nat
    BY <1>1 DEF SliceBounds
  <2>2. QED
    BY <1>1, <2>1, DivBounds DEF RangeLen
<1>2. CASE ~ (r.step > 0) /\ r.stop < r.start
  <2>1. r.start - r.stop - 1 \in Nat /\ - r.step \in Nat /\ - r.step > 0
    BY <1>2 DEF SliceBounds
  <2>2. QED
    BY <1>2, <2>1, DivBounds DEF RangeLen
<1>3. QED
  BY <1>1, <1>2 DEF RangeLen

(* The positions that numba_list_delete_slice() goes through, upwards.     *)
Upwards(f, n, N) ==
  /\ n \in Nat /\ n > 0 /\ f.start \in 0..(N - 1) /\ f.step \in Nat /\ f.step > 0
  /\ \A k \in 0..(n - 1) : f.start + k * f.step <= N - 1
  /\ f.step = 1 => f.stop = f.start + n /\ f.stop <= N

LEMMA ForwardsBounds ==
  ASSUME NEW N \in Nat, NEW r, SliceBounds(r, N), NEW n, n = RangeLen(r), n # 0
  PROVE  Upwards(Forwards(r, n), n, N)
<1>a. PICK a : a = r.start
  OBVIOUS
<1>b. PICK z : z = r.stop
  OBVIOUS
<1>1. n \in Nat /\ n > 0
  BY RangeLenType
<1>d. PICK q : q = n - 1
  OBVIOUS
<1>2. q \in Nat /\ n = q + 1
  BY <1>1, <1>d
<1>3. CASE r.step > 0
  <2>c. PICK b : b = r.step
    OBVIOUS
  <2>1. a < z /\ q = (z - a - 1) \div b
    BY <1>1, <1>2, <1>3, <1>a, <1>b, <2>c DEF RangeLen, SliceBounds
  <2>2. a \in 0..N /\ z \in 0..N /\ b \in Nat /\ b > 0
    BY <1>3, <1>a, <1>b, <2>c DEF SliceBounds
  <2>3. q * b <= z - a - 1 /\ q * b \in Int
    <3>1. z - a - 1 \in Nat
      BY <2>1, <2>2
    <3>2. QED
      BY <1>2, <2>1, <2>2, <3>1, DivBounds, TimesMonotonic
  <2>4. ASSUME NEW k \in 0..(n - 1) PROVE a + k * b <= N - 1
    <3>1. k * b <= q * b /\ k * b \in Int
      BY <1>2, <2>2, TimesMonotonic
    <3>2. QED
      BY <2>2, <2>3, <3>1
  <2>5. ASSUME b = 1 PROVE z = a + n
    BY <1>2, <2>1, <2>2, <2>5
  <2>6. a \in 0..(N - 1)
    BY <2>1, <2>2
  <2>7. Forwards(r, n) = r
    BY <1>3 DEF Forwards
  <2>8. QED
    BY <1>1, <1>a, <1>b, <2>c, <2>2, <2>4, <2>5, <2>6, <2>7 DEF Upwards
<1>4. CASE ~ (r.step > 0)
  <2>c. PICK b : b = - r.step
    OBVIOUS
  <2>e. PICK f : f = Forwards(r, n)
    OBVIOUS
  <2>1. z < a /\ q = (a - z - 1) \div b
    BY <1>1, <1>2, <1>4, <1>a, <1>b, <2>c DEF RangeLen, SliceBounds
  <2>2. a \in -1..(N - 1) /\ z \in -1..N /\ b \in Nat /\ b > 0
    BY <1>4, <1>a, <1>b, <2>c DEF SliceBounds
  <2>3. q * b <= a - z - 1 /\ q * b \in Int /\ q * b >= 0
    <3>1. a - z - 1 \in Nat
      BY <2>1, <2>2
    <3>2. QED
      BY <1>2, <2>1, <2>2, <3>1, DivBounds, TimesMonotonic
  <2>4. f.start = a - q * b /\ f.stop = a + 1 /\ f.step = b
    <3>1. r.step * (n - 1) = - (q * b)
      BY <1>2, <2>c, <1>4 DEF SliceBounds
    <3>2. f = [start |-> a + r.step * (n - 1), stop |-> a + 1, step |-> b]
      BY <1>4, <1>a, <2>c, <2>e DEF Forwards
    <3>3. QED
      BY <2>2, <2>3, <3>1, <3>2
  <2>5. ASSUME NEW k \in 0..(n - 1) PROVE f.start + k * b <= N - 1
    <3>1. k * b <= q * b /\ k * b \in Int
      BY <1>2, <2>2, TimesMonotonic
    <3>2. QED
      BY <2>2, <2>3, <2>4, <3>1
  <2>6. ASSUME b = 1 PROVE f.stop = f.start + n /\ f.stop <= N
    <3>1. q = a - z - 1 /\ q * b = q
      BY <1>2, <2>1, <2>2, <2>6
    <3>2. QED
      BY <1>2, <2>2, <2>4, <3>1
  <2>7. f.start \in 0..(N - 1)
    BY <2>1, <2>2, <2>3, <2>4
  <2>8. QED
    BY <1>1, <2>e, <2>2, <2>4, <2>5, <2>6, <2>7 DEF Upwards
<1>5. QED
  BY <1>3, <1>4


-----------------------------------------------------------------------------
(* Cutting a slice out of a list: the recursive functions of CutPlain and  *)
(* CutExtended are histories of runs, and the run keeps the references of  *)
(* what is left.                                                           *)

IsHistory(h, a, g, n) == h = [k \in 0..n |-> IF k = 0 THEN a ELSE g[<<h[k - 1], k>>]]

LEMMA History ==
  ASSUME NEW n \in Nat, NEW S, NEW a \in S, NEW g \in [S \X (1..n) -> S]
  PROVE  \E h \in [0..n -> S] : IsHistory(h, a, g, n)
<1>1. PICK h \in [0..n -> S] : Runs(h, a, g, n)
  BY RecursionExists
<1>2. \A k \in 0..n : h[k] = IF k = 0 THEN a ELSE g[<<h[k - 1], k>>]
  <2>1. \A k \in 0..n : k # 0 => k \in 1..n
    OBVIOUS
  <2>2. QED
    BY <1>1, <2>1 DEF Runs
<1>3. h = [k \in 0..n |-> h[k]]
  OBVIOUS
<1>4. h = [k \in 0..n |-> IF k = 0 THEN a ELSE g[<<h[k - 1], k>>]]
  BY <1>2, <1>3
<1>5. QED
  BY <1>4 DEF IsHistory

PlainHistory(cut, l, r) ==
  cut = [i \in r.start..r.stop |-> IF i = r.start THEN l
                                   ELSE OwnOneLess(cut[i - 1], At(l, i - 1))]

LEMMA PlainHistoryExists ==
  ASSUME NEW l \in ListsOf(Elems), NEW N, N = Len(l.items), NEW n, NEW r,
         Upwards(r, n, N), r.step = 1
  PROVE  \E cut : PlainHistory(cut, l, r)
<1>a. PICK a : a = r.start
  OBVIOUS
<1>b. PICK z : z = r.stop
  OBVIOUS
<1>1. N \in Nat /\ n \in Nat /\ a \in 0..(N - 1) /\ z = a + n /\ z <= N /\ z \in Nat
  BY <1>a, <1>b DEF Upwards, ListsOf
<1> DEFINE S == {m \in ListsOf(Elems) : m.items = l.items}
           g == [mk \in S \X (1..n) |-> OwnOneLess(mk[1], At(l, a + mk[2] - 1))]
<1>2. ASSUME NEW m \in S, NEW k \in 1..n PROVE OwnOneLess(m, At(l, a + k - 1)) \in S
  <2>1. At(l, a + k - 1) \in Slots
    <3>1. (a + k - 1) + 1 \in 1..N
      BY <1>1
    <3>2. l.items[(a + k - 1) + 1] \in Elems
      BY <3>1 DEF ListsOf
    <3>3. QED
      BY <3>2 DEF At, Slots
  <2>2. QED
    BY <2>1, OwnLessFields
<1>3. g \in [S \X (1..n) -> S]
  <2> HIDE DEF S
  <2>1. \A mk \in S \X (1..n) : mk[1] \in S /\ mk[2] \in 1..n
    OBVIOUS
  <2>2. \A mk \in S \X (1..n) : OwnOneLess(mk[1], At(l, a + mk[2] - 1)) \in S
    BY <1>2, <2>1
  <2>3. QED
    BY <2>2
<1>4. l \in S
  OBVIOUS
<1>5. PICK h \in [0..n -> S] : IsHistory(h, l, g, n)
  <2> HIDE DEF S, g
  <2>1. QED
    BY <1>1, <1>3, <1>4, History
<1> DEFINE q == [i \in a..z |-> h[i - a]]
<1>6. ASSUME NEW i \in a..z
      PROVE  q[i] = IF i = a THEN l ELSE OwnOneLess(q[i - 1], At(l, i - 1))
  <2>1. i - a \in 0..n /\ q[i] = h[i - a]
    BY <1>1
  <2>2. CASE i = a
    <3>1. i - a = 0
      BY <1>1, <2>2
    <3>2. h[0] = l
      BY <1>1, <1>5 DEF IsHistory
    <3>3. QED
      BY <2>1, <2>2, <3>1, <3>2
  <2>3. CASE i # a
    <3>a. PICK k : k = i - a
      OBVIOUS
    <3>1. k \in 1..n /\ k - 1 \in 0..n /\ k # 0 /\ k \in 0..n
          /\ i - 1 \in a..z /\ (i - 1) - a = k - 1 /\ a + k - 1 = i - 1
      BY <1>1, <2>3, <3>a
    <3>2. q[i - 1] = h[k - 1]
      BY <3>1
    <3> HIDE DEF q
    <3>3. h[k] = g[<<h[k - 1], k>>] /\ h[k - 1] \in S
      <4> HIDE DEF g, S
      <4>1. QED
        BY <1>5, <3>1 DEF IsHistory
    <3>4. g[<<h[k - 1], k>>] = OwnOneLess(h[k - 1], At(l, a + k - 1))
      <4> HIDE DEF S
      <4>1. QED
        BY <3>1, <3>3
    <3>5. QED
      BY <2>1, <2>3, <3>a, <3>1, <3>2, <3>3, <3>4
  <2>4. QED
    BY <2>2, <2>3
<1>7. q = [i \in a..z |-> q[i]]
  OBVIOUS
<1>8. PlainHistory(q, l, r)
  <2> HIDE DEF q
  <2>1. q = [i \in a..z |-> IF i = a THEN l ELSE OwnOneLess(q[i - 1], At(l, i - 1))]
    BY <1>6, <1>7
  <2>2. QED
    BY <1>a, <1>b, <2>1 DEF PlainHistory
<1>9. QED
  BY <1>8

(* What CutPlain and CutExtended are to leave: a list of the same length   *)
(* whose first m items are those it has references to.                     *)
CutTo(v, l, m) ==
  /\ v \in ListsOf(Elems) /\ Len(v.items) = Len(l.items)
  /\ v.allocated = l.allocated /\ v.is_mutable = l.is_mutable
  /\ \A z \in Slots : v.refs[z] = Occ(v.items, 1, m, z)

LEMMA CutPlainCuts ==
  ASSUME NEW l \in SoundLists, NEW N, N = Size(l), NEW n, NEW r, Upwards(r, n, N), r.step = 1
  PROVE  CutTo(CutPlain(l, r), l, N - n) /\ n <= N
<1>a. PICK a : a = r.start
  OBVIOUS
<1>b. PICK e : e = r.stop
  OBVIOUS
<1>c. PICK s : s = l.items
  OBVIOUS
<1>1. /\ l \in ListsOf(Elems) /\ s \in Seq(Elems) /\ N \in Nat /\ N = Len(s) /\ N <= l.allocated
      /\ \A z \in Slots : l.refs[z] \in Int /\ l.refs[z] = Occ(s, 1, N, z)
  BY <1>c, SoundFields DEF Size
<1>2. /\ n \in Nat /\ a \in 0..(N - 1) /\ e = a + n /\ e <= N /\ e \in Nat /\ e \in a..e
      /\ a \in Nat /\ n <= N
  BY <1>a, <1>b, <1>1 DEF Upwards
<1>d. PICK cut : cut = CHOOSE f : PlainHistory(f, l, r)
  OBVIOUS
<1>3. PlainHistory(cut, l, r)
  <2>1. \E f : PlainHistory(f, l, r)
    BY <1>c, <1>1, PlainHistoryExists
  <2>2. QED
    BY <1>d, <2>1
<1>4. CutPlain(l, r) = [cut[e] EXCEPT !.items = MemMove(cut[e].items, a, e, N - e)]
  BY <1>a, <1>b, <1>d, <1>c, <1>1 DEF CutPlain, PlainHistory, Size
<1>5. cut[a] = l /\ \A i \in (a + 1)..e : cut[i] = OwnOneLess(cut[i - 1], s[i])
  <2>1. cut = [i \in a..e |-> IF i = a THEN l ELSE OwnOneLess(cut[i - 1], At(l, i - 1))]
    BY <1>3, <1>a, <1>b DEF PlainHistory
  <2>2. \A i \in a..e : cut[i] = IF i = a THEN l ELSE OwnOneLess(cut[i - 1], At(l, i - 1))
    BY <2>1
  <2>3. \A i \in (a + 1)..e : i \in a..e /\ i # a /\ (i - 1) + 1 = i
    BY <1>2
  <2>4. QED
    BY <1>2, <1>c, <2>2, <2>3 DEF At
<1> DEFINE Good(k) ==
      /\ cut[a + k] \in ListsOf(Elems) /\ cut[a + k].items = s
      /\ cut[a + k].allocated = l.allocated /\ cut[a + k].is_mutable = l.is_mutable
      /\ \A z \in Slots : cut[a + k].refs[z] = Occ(s, 1, a, z) + Occ(s, a + k + 1, N, z)
   K == {k \in 0..n : Good(k)}
<1>6. 0 \in K
  <2>1. a + 0 = a /\ a + 0 + 1 = a + 1 /\ 0 \in 0..n
    BY <1>2
  <2>2. ASSUME NEW z \in Slots PROVE Occ(s, 1, N, z) = Occ(s, 1, a, z) + Occ(s, a + 1, N, z)
    <3>1. 1 \in Int /\ a \in Int /\ N \in Int /\ 1 <= a + 1 /\ a <= N
      BY <1>1, <1>2
    <3>2. QED
      BY <3>1, OccSplit
  <2>3. QED
    BY <1>1, <1>5, <1>c, <2>1, <2>2
<1>7. ASSUME NEW k \in 0..(n - 1), k \in K PROVE k + 1 \in K
  <2>a. PICK c : c = cut[a + k]
    OBVIOUS
  <2>b. PICK i : i = a + k + 1
    OBVIOUS
  <2>c. PICK y : y = s[i]
    OBVIOUS
  <2>1. i \in (a + 1)..e /\ i - 1 = a + k /\ i = a + (k + 1) /\ i \in 1..N /\ i \in Int
        /\ N \in Int /\ i <= i + 1 /\ i <= N /\ k + 1 \in 0..n /\ i + 1 = a + (k + 1) + 1
        /\ i + 1 \in Int
    BY <1>1, <1>2, <2>b
  <2>2. y \in Slots
    BY <1>1, <2>1, <2>c DEF Slots
  <2>3. cut[i] = OwnOneLess(c, y)
    BY <1>5, <2>1, <2>a, <2>c
  <2>4. /\ c \in ListsOf(Elems) /\ c.items = s /\ c.allocated = l.allocated
        /\ c.is_mutable = l.is_mutable
        /\ \A z \in Slots : c.refs[z] = Occ(s, 1, a, z) + Occ(s, i, N, z)
    BY <1>7, <2>a, <2>b
  <2>5. /\ cut[i] \in ListsOf(Elems) /\ cut[i].items = s /\ cut[i].allocated = l.allocated
        /\ cut[i].is_mutable = l.is_mutable
        /\ \A z \in Slots : cut[i].refs[z] = c.refs[z] - One(y, z)
    BY <2>2, <2>3, <2>4, OwnLessFields
  <2>6. ASSUME NEW z \in Slots
        PROVE  cut[i].refs[z] = Occ(s, 1, a, z) + Occ(s, i + 1, N, z)
    <3>1. Occ(s, i, N, z) = Occ(s, i, i, z) + Occ(s, i + 1, N, z)
      BY <2>1, OccSplit
    <3>2. Occ(s, i, i, z) = One(y, z)
      BY <2>1, <2>c, OccOne DEF One
    <3>3. Occ(s, 1, a, z) \in Nat /\ Occ(s, i + 1, N, z) \in Nat
      BY <1>2, <2>1, OccType
    <3>4. One(y, z) \in Nat
      BY DEF One
    <3>5. QED
      BY <2>4, <2>5, <3>1, <3>2, <3>3, <3>4
  <2>7. Good(k + 1)
    BY <2>1, <2>5, <2>6
  <2>8. QED
    BY <2>1, <2>7
<1>8. n \in K
  <2>1. \A k \in 0..n : k \in K
    <3> HIDE DEF K
    <3>1. QED
      BY <1>2, <1>6, <1>7, Induction
  <2>2. n \in 0..n
    BY <1>2
  <2>3. QED
    BY <2>1, <2>2
<1>e. PICK c : c = cut[e]
  OBVIOUS
<1>f. PICK t : t = MemMove(s, a, e, N - e)
  OBVIOUS
<1>g. PICK v : v = [c EXCEPT !.items = t]
  OBVIOUS
<1>9. /\ c \in ListsOf(Elems) /\ c.items = s /\ c.allocated = l.allocated
      /\ c.is_mutable = l.is_mutable
      /\ \A z \in Slots : c.refs[z] = Occ(s, 1, a, z) + Occ(s, e + 1, N, z)
  BY <1>2, <1>8, <1>e
<1>10. v = CutPlain(l, r)
  BY <1>4, <1>9, <1>e, <1>f, <1>g
<1>h. PICK k : k = N - e
  OBVIOUS
<1>11. k \in Nat /\ a + k = N - n /\ e + k = N /\ a <= e /\ k >= 0 /\ k \in Int /\ -1 <= k
  BY <1>1, <1>2, <1>h
<1>12. t \in Seq(Elems) /\ Len(t) = N /\ MemMoved(s, t, a, e, k)
  <2>1. t = MemMove(s, a, e, k) /\ e + k <= Len(s)
    BY <1>1, <1>11, <1>f, <1>h
  <2>2. t \in Seq(Elems) /\ Len(t) = Len(s) /\ (k >= 0 => MemMoved(s, t, a, e, k))
    BY <1>1, <1>2, <1>11, <2>1, MoveFields
  <2>3. QED
    BY <1>1, <1>11, <2>2
<1>13. /\ v \in ListsOf(Elems) /\ v.items = t /\ v.allocated = l.allocated
       /\ v.is_mutable = l.is_mutable /\ v.refs = c.refs
  BY <1>9, <1>12, <1>g DEF ListsOf
<1>14. ASSUME NEW z \in Slots PROVE v.refs[z] = Occ(t, 1, N - n, z)
  <2>1. Occ(t, 1, a + k, z) = Occ(s, 1, a, z) + Occ(s, e + 1, e + k, z)
    <3>1. a \in Nat /\ e \in Nat
      BY <1>2
    <3>2. k \in Nat
      BY <1>11
    <3>3. QED
      BY <1>12, <3>1, <3>2, MovedOcc
  <2>2. QED
    BY <1>9, <1>11, <1>13, <2>1
<1>15. QED
  BY <1>1, <1>2, <1>10, <1>12, <1>13, <1>14, <1>c DEF CutTo


(* One turn of the loop of CutExtended.                                    *)
CutTurn(l, r, m, i) ==
  LET cur == r.start + (i - 1) * r.step
  IN [OwnOneLess(m, At(m, cur)) EXCEPT
        !.items = MemMove(@, cur - (i - 1), cur + 1, Kept(l, r, cur))]

(* The i-th turn for the slice r of n items of l cuts the item at cur and  *)
(* moves k items from e to d.                                              *)
TurnOf(l, N, n, r, i, cur, d, e, k) ==
  /\ N \in Nat /\ N = Size(l) /\ Upwards(r, n, N) /\ i \in 1..n
  /\ cur = RangeAt(r, i) /\ d = cur - (i - 1) /\ e = cur + 1 /\ k = Kept(l, r, cur)

LEMMA CutTurnPlace ==
  ASSUME NEW l, NEW N, NEW n, NEW r, NEW i, NEW cur, NEW d, NEW e, NEW k,
         TurnOf(l, N, n, r, i, cur, d, e, k)
  PROVE  /\ cur \in 0..(N - 1) /\ d \in Nat /\ k \in Nat /\ e + k <= N /\ e = cur + 1
         /\ d = cur - (i - 1) /\ d <= e /\ e \in 1..N /\ e \in Nat
         /\ cur + r.step >= N => e + k = N
         /\ cur + r.step < N => e + k = cur + r.step
<1>a. PICK b : b = r.step
  OBVIOUS
<1>b. PICK a : a = r.start
  OBVIOUS
<1>c. PICK j : j = i - 1
  OBVIOUS
<1>0. /\ N \in Nat /\ N = Size(l) /\ Upwards(r, n, N) /\ i \in 1..n
      /\ cur = RangeAt(r, i) /\ k = Kept(l, r, cur) /\ d = cur - (i - 1) /\ e = cur + 1
  BY DEF TurnOf
<1>1. a \in Nat /\ b \in Nat /\ b > 0 /\ n \in Nat /\ \A q \in 0..(n - 1) : a + q * b <= N - 1
  BY <1>0, <1>a, <1>b DEF Upwards
<1>2. j \in Nat /\ j \in 0..(n - 1)
  BY <1>0, <1>1, <1>c
<1>3. j * b >= j /\ j * b \in Int
  <2>1. \A x, y \in Nat : y > 0 => x * y >= x /\ x * y \in Int
    OBVIOUS
  <2>2. QED
    BY <1>1, <1>2, <2>1
<1>4. cur = a + j * b
  BY <1>0, <1>a, <1>b, <1>c DEF RangeAt
<1>5. cur <= N - 1 /\ cur \in Nat /\ cur - j \in Nat
  BY <1>0, <1>1, <1>2, <1>3, <1>4
<1>6. k = IF cur + b >= N THEN N - cur - 1 ELSE b - 1
  BY <1>0, <1>a DEF Kept
<1>7. k \in Nat /\ (cur + b >= N => cur + 1 + k = N) /\ (cur + b < N => cur + 1 + k = cur + b)
  BY <1>0, <1>1, <1>5, <1>6
<1>8. cur + 1 + k <= N
  BY <1>0, <1>1, <1>5, <1>7
<1>9. d \in Nat /\ d <= e /\ e \in 1..N /\ e \in Nat
  BY <1>0, <1>2, <1>5, <1>c
<1>10. QED
  BY <1>0, <1>5, <1>7, <1>8, <1>9, <1>b, <1>a

LEMMA CutTurnFields ==
  ASSUME NEW l, NEW N, NEW n, NEW r, NEW i, NEW cur, NEW d, NEW e, NEW k,
         TurnOf(l, N, n, r, i, cur, d, e, k),
         NEW m \in ListsOf(Elems), NEW s, s = m.items, N = Len(s), NEW y, y = s[e],
         NEW v, v = CutTurn(l, r, m, i), NEW t, t = v.items
  PROVE  /\ y \in Slots /\ v \in ListsOf(Elems) /\ t \in Seq(Elems) /\ Len(t) = N
         /\ v.allocated = m.allocated /\ v.is_mutable = m.is_mutable
         /\ MemMoved(s, t, d, e, k)
         /\ \A z \in Slots : v.refs[z] = m.refs[z] - One(y, z)
<1>1. d \in Nat /\ e \in 1..N /\ k \in Nat /\ e + k <= N /\ d <= e /\ e \in Nat /\ e = cur + 1
  BY CutTurnPlace
<1>2. s \in Seq(Elems)
  BY DEF ListsOf
<1>3. y = s[e] /\ y \in Elems /\ y \in Slots
  BY <1>1, <1>2 DEF Slots
<1>c. PICK u : u = OwnOneLess(m, y)
  OBVIOUS
<1>d. PICK w : w = MemMove(s, d, e, k)
  OBVIOUS
<1>4. /\ u \in ListsOf(Elems) /\ u.items = s /\ u.allocated = m.allocated
      /\ u.is_mutable = m.is_mutable /\ \A z \in Slots : u.refs[z] = m.refs[z] - One(y, z)
  BY <1>3, <1>c, OwnLessFields
<1>5. v = [u EXCEPT !.items = w]
  <2>1. At(m, cur) = y /\ cur = RangeAt(r, i) /\ k = Kept(l, r, cur)
        /\ d = cur - (i - 1) /\ e = cur + 1
    BY DEF At, TurnOf
  <2>2. v = [OwnOneLess(m, y) EXCEPT !.items = MemMove(@, d, e, k)]
    BY <2>1 DEF CutTurn, RangeAt
  <2>3. QED
    BY <2>2, <1>4, <1>c, <1>d
<1>6. w \in Seq(Elems) /\ Len(w) = N /\ MemMoved(s, w, d, e, k)
  <2>1. e + k <= Len(s) /\ -1 <= k /\ k \in Int /\ k >= 0
    BY <1>1
  <2>2. w \in Seq(Elems) /\ Len(w) = Len(s) /\ (k >= 0 => MemMoved(s, w, d, e, k))
    BY <1>1, <1>2, <1>d, <2>1, MoveFields
  <2>3. QED
    BY <2>1, <2>2
<1>7. v \in ListsOf(Elems) /\ t = w /\ v.allocated = u.allocated /\ v.refs = u.refs
      /\ v.is_mutable = u.is_mutable
  BY <1>4, <1>5, <1>6 DEF ListsOf
<1>8. QED
  BY <1>3, <1>4, <1>6, <1>7

ExtendedHistory(cut, l, r, n) ==
  cut = [i \in 0..n |-> IF i = 0 THEN l ELSE CutTurn(l, r, cut[i - 1], i)]

LEMMA ExtendedHistoryExists ==
  ASSUME NEW l \in ListsOf(Elems), NEW N \in Nat, N = Size(l), NEW n, NEW r, Upwards(r, n, N)
  PROVE  \E cut : ExtendedHistory(cut, l, r, n)
<1> DEFINE S == {m \in ListsOf(Elems) : Len(m.items) = N}
           g == [mk \in S \X (1..n) |-> CutTurn(l, r, mk[1], mk[2])]
<1>1. n \in Nat
  BY DEF Upwards
<1>2. ASSUME NEW m \in S, NEW k \in 1..n PROVE CutTurn(l, r, m, k) \in S
  <2>a. PICK v : v = CutTurn(l, r, m, k)
    OBVIOUS
  <2>b. PICK s : s = m.items
    OBVIOUS
  <2>c. PICK t : t = v.items
    OBVIOUS
  <2>d. PICK cur : cur = RangeAt(r, k)
    OBVIOUS
  <2>e. PICK j : j = Kept(l, r, cur)
    OBVIOUS
  <2>f. PICK d : d = cur - (k - 1)
    OBVIOUS
  <2>g. PICK e : e = cur + 1
    OBVIOUS
  <2>y. PICK y : y = s[e]
    OBVIOUS
  <2>1. m \in ListsOf(Elems) /\ N = Len(s)
    BY <2>b
  <2>2. v \in ListsOf(Elems) /\ Len(t) = N
    <3> HIDE DEF S
    <3>1. TurnOf(l, N, n, r, k, cur, d, e, j)
      BY <2>d, <2>e, <2>f, <2>g DEF TurnOf
    <3>2. QED
      BY <2>1, <2>a, <2>b, <2>c, <2>y, <3>1, CutTurnFields
  <2>3. QED
    BY <2>2, <2>a, <2>c
<1>3. g \in [S \X (1..n) -> S]
  <2> HIDE DEF S
  <2>1. \A mk \in S \X (1..n) : mk[1] \in S /\ mk[2] \in 1..n
    OBVIOUS
  <2>2. \A mk \in S \X (1..n) : CutTurn(l, r, mk[1], mk[2]) \in S
    BY <1>2, <2>1
  <2>3. QED
    BY <2>2
<1>4. l \in S
  BY DEF Size
<1>5. PICK h \in [0..n -> S] : IsHistory(h, l, g, n)
  <2> HIDE DEF S, g
  <2>1. QED
    BY <1>1, <1>3, <1>4, History
<1>6. ASSUME NEW k \in 0..n
      PROVE  h[k] = IF k = 0 THEN l ELSE CutTurn(l, r, h[k - 1], k)
  <2>1. h[k] = IF k = 0 THEN l ELSE g[<<h[k - 1], k>>]
    <3> HIDE DEF S, g
    <3>1. QED
      BY <1>5 DEF IsHistory
  <2>2. CASE k = 0
    BY <2>1, <2>2
  <2>3. CASE k # 0
    <3> HIDE DEF S
    <3>1. k \in 1..n /\ h[k - 1] \in S
      BY <1>1, <2>3
    <3>2. g[<<h[k - 1], k>>] = CutTurn(l, r, h[k - 1], k)
      BY <3>1
    <3>3. QED
      BY <2>1, <2>3, <3>2
  <2>4. QED
    BY <2>2, <2>3
<1>7. h = [k \in 0..n |-> IF k = 0 THEN l ELSE CutTurn(l, r, h[k - 1], k)]
  <2> HIDE DEF S, g
  <2>1. h = [k \in 0..n |-> h[k]]
    OBVIOUS
  <2>2. QED
    BY <1>6, <2>1
<1>8. QED
  BY <1>7 DEF ExtendedHistory


(* The list c in the middle of the loop: what lies above hi is untouched,  *)
(* and it has references for that and for its first lo items.              *)
CutUpTo(c, l, hi, lo) ==
  /\ c \in ListsOf(Elems) /\ Len(c.items) = Len(l.items)
  /\ c.allocated = l.allocated /\ c.is_mutable = l.is_mutable
  /\ hi \in Nat /\ lo \in Nat /\ hi <= Len(l.items)
  /\ Same(l.items, c.items, hi + 1, Len(l.items))
  /\ \A z \in Slots : c.refs[z] = Occ(c.items, 1, lo, z)
                                  + Occ(l.items, hi + 1, Len(l.items), z)

LEMMA CutTurnKeeps ==
  ASSUME NEW l \in SoundLists, NEW N, NEW n, NEW r, NEW i, NEW cur, NEW d, NEW e, NEW k,
         TurnOf(l, N, n, r, i, cur, d, e, k),
         NEW c, CutUpTo(c, l, cur, d), NEW v, v = CutTurn(l, r, c, i)
  PROVE  CutUpTo(v, l, e + k, d + k)
<1>a. PICK s : s = c.items
  OBVIOUS
<1>b. PICK t : t = v.items
  OBVIOUS
<1>c. PICK y : y = s[e]
  OBVIOUS
<1>d. PICK w : w = l.items
  OBVIOUS
<1>1. /\ cur \in 0..(N - 1) /\ d \in Nat /\ k \in Nat /\ e + k <= N /\ N \in Nat /\ N = Size(l)
      /\ e = cur + 1 /\ d <= e /\ e \in 1..N
  <2>1. N \in Nat /\ N = Size(l)
    BY DEF TurnOf
  <2>2. QED
    BY <2>1, CutTurnPlace
<1>2. /\ c \in ListsOf(Elems) /\ N = Len(s) /\ N = Len(w)
      /\ c.allocated = l.allocated /\ c.is_mutable = l.is_mutable
      /\ Same(w, s, e, N)
      /\ \A z \in Slots : c.refs[z] = Occ(s, 1, d, z) + Occ(w, e, N, z)
  BY <1>1, <1>a, <1>d DEF CutUpTo, Size
<1>3. /\ e \in Nat /\ e + k \in Nat /\ d + k \in Nat /\ d <= e /\ e \in 1..N /\ e + k \in Int
      /\ e \in Int /\ e + 1 \in Int /\ e <= e + 1 /\ e <= e + k /\ e <= N /\ N \in Int
      /\ e + 1 <= (e + k) + 1 /\ e + k <= N
  BY <1>1
<1>4. /\ y \in Slots /\ v \in ListsOf(Elems) /\ t \in Seq(Elems) /\ Len(t) = N
      /\ v.allocated = c.allocated /\ v.is_mutable = c.is_mutable
      /\ MemMoved(s, t, d, e, k) /\ \A z \in Slots : v.refs[z] = c.refs[z] - One(y, z)
  <2>1. c \in ListsOf(Elems) /\ N = Len(s)
    BY <1>2
  <2>2. QED
    BY <2>1, <1>a, <1>b, <1>c, CutTurnFields
<1>5. Same(w, t, (e + k) + 1, N)
  <2>1. ASSUME NEW p \in ((e + k) + 1)..N PROVE w[p] = t[p]
    <3>1. p \in e..N /\ p \in (d + k + 1)..N
      BY <1>1, <1>3
    <3>2. QED
      BY <1>2, <1>4, <3>1 DEF Same, MemMoved
  <2>2. QED
    BY <2>1 DEF Same
<1>6. ASSUME NEW z \in Slots
      PROVE  v.refs[z] = Occ(t, 1, d + k, z) + Occ(w, (e + k) + 1, N, z)
  <2>1. Occ(t, 1, d + k, z) = Occ(s, 1, d, z) + Occ(s, e + 1, e + k, z)
    <3>1. d \in Nat /\ e \in Nat /\ k \in Nat /\ MemMoved(s, t, d, e, k)
      BY <1>1, <1>3, <1>4
    <3>2. QED
      BY <3>1, MovedOcc
  <2>2. Occ(w, e, N, z) = Occ(w, e, e, z) + Occ(w, e + 1, N, z)
    BY <1>3, OccSplit
  <2>3. Occ(w, e + 1, N, z) = Occ(w, e + 1, e + k, z) + Occ(w, (e + k) + 1, N, z)
    <3>f. PICK f : f = e + k
      OBVIOUS
    <3>1. f \in Int /\ e + 1 \in Int /\ N \in Int /\ e + 1 <= f + 1 /\ f <= N
      BY <1>3, <3>f
    <3>2. Occ(w, e + 1, N, z) = Occ(w, e + 1, f, z) + Occ(w, f + 1, N, z)
      BY <3>1, OccSplit
    <3>3. QED
      BY <3>2, <3>f
  <2>4. Occ(w, e + 1, e + k, z) = Occ(s, e + 1, e + k, z)
    <3>1. Same(w, s, e + 1, e + k)
      <4>1. \A p \in (e + 1)..(e + k) : p \in e..N
        BY <1>3
      <4>2. QED
        BY <1>2, <4>1 DEF Same
    <3>2. QED
      BY <1>3, <3>1, OccSame
  <2>5. Occ(w, e, e, z) = One(y, z)
    <3>1. w[e] = y
      BY <1>2, <1>3, <1>c DEF Same
    <3>2. QED
      BY <1>3, <3>1, OccOne DEF One
  <2>6. /\ Occ(s, 1, d, z) \in Nat /\ Occ(s, e + 1, e + k, z) \in Nat
    BY <1>1, <1>3, OccType
  <2>7. Occ(w, (e + k) + 1, N, z) \in Nat
    <3>1. (e + k) + 1 \in Int
      BY <1>3
    <3>2. QED
      BY <1>3, <3>1, OccType
  <2>8. One(y, z) \in Nat
    BY DEF One
  <2>9. v.refs[z] = (Occ(s, 1, d, z) + Occ(w, e, N, z)) - One(y, z)
    <3>1. c.refs[z] = Occ(s, 1, d, z) + Occ(w, e, N, z)
      BY <1>2
    <3>2. v.refs[z] = c.refs[z] - One(y, z)
      BY <1>4
    <3>3. QED
      BY <3>1, <3>2
  <2>10. QED
    BY <2>1, <2>2, <2>3, <2>4, <2>5, <2>6, <2>7, <2>8, <2>9
<1>7. QED
  BY <1>2, <1>3, <1>4, <1>5, <1>6, <1>b, <1>d DEF CutUpTo

LEMMA CutExtendedKeeps ==
  ASSUME NEW l \in SoundLists, NEW N \in Nat, N = Size(l), NEW n, NEW r, Upwards(r, n, N),
         NEW cut, ExtendedHistory(cut, l, r, n), NEW tail, tail = r.start + n * r.step
  PROVE  /\ tail \in Nat /\ tail - n \in Nat
         /\ CutUpTo(cut[n], l, Lesser(tail, N), Lesser(tail, N) - n)
<1>a. PICK a : a = r.start
  OBVIOUS
<1>b. PICK b : b = r.step
  OBVIOUS
<1>1. n \in Nat /\ n > 0 /\ a \in 0..(N - 1) /\ b \in Nat /\ b > 0
  BY <1>a, <1>b DEF Upwards
<1> DEFINE Hi(k) == Lesser(a + k * b, N)
           K == {k \in 0..n : CutUpTo(cut[k], l, Hi(k), Hi(k) - k)}
<1>2. cut[0] = l /\ \A k \in 1..n : cut[k] = CutTurn(l, r, cut[k - 1], k)
  <2>1. \A k \in 1..n : k \in 0..n /\ k # 0
    OBVIOUS
  <2>2. 0 \in 0..n
    BY <1>1
  <2>3. QED
    BY <2>1, <2>2 DEF ExtendedHistory
<1>3. 0 \in K
  <2>1. Hi(0) = a /\ Hi(0) - 0 = a
    BY <1>1 DEF Lesser
  <2>c. PICK s : s = l.items
    OBVIOUS
  <2>2. /\ l \in ListsOf(Elems) /\ N = Len(s)
        /\ \A z \in Slots : l.refs[z] = Occ(s, 1, N, z)
    BY <2>c, SoundFields DEF Size
  <2>3. ASSUME NEW z \in Slots PROVE Occ(s, 1, N, z) = Occ(s, 1, a, z) + Occ(s, a + 1, N, z)
    <3>1. 1 \in Int /\ a \in Int /\ N \in Int /\ 1 <= a + 1 /\ a <= N
      BY <1>1
    <3>2. QED
      BY <3>1, OccSplit
  <2>4. CutUpTo(l, l, a, a)
    BY <1>1, <2>c, <2>2, <2>3 DEF CutUpTo, Same
  <2>5. QED
    BY <1>1, <1>2, <2>1, <2>4
<1>4. ASSUME NEW k \in 0..(n - 1), k \in K PROVE k + 1 \in K
  <2>a. PICK i : i = k + 1
    OBVIOUS
  <2>b. PICK cur : cur = RangeAt(r, i)
    OBVIOUS
  <2>c. PICK q : q = Kept(l, r, cur)
    OBVIOUS
  <2>d. PICK d : d = cur - (i - 1)
    OBVIOUS
  <2>e. PICK e : e = cur + 1
    OBVIOUS
  <2>1. i \in 1..n /\ i - 1 = k /\ k \in Nat /\ i \in 0..n
    BY <1>1, <2>a
  <2>2. TurnOf(l, N, n, r, i, cur, d, e, q)
    BY <2>1, <2>b, <2>c, <2>d, <2>e DEF TurnOf
  <2>3. /\ cur \in 0..(N - 1) /\ d \in Nat /\ q \in Nat
        /\ cur + b >= N => e + q = N
        /\ cur + b < N => e + q = cur + b
    BY <1>b, <2>2, CutTurnPlace
  <2>4. k * b \in Int /\ (k + 1) * b = k * b + b
    BY <1>1, <2>1
  <2>5. cur = a + k * b
    BY <2>1, <2>b, <1>a, <1>b DEF RangeAt
  <2>6. Hi(k) = cur /\ Hi(k) - k = d
    BY <2>1, <2>3, <2>5, <2>d DEF Lesser
  <2>7. Hi(i) = e + q /\ Hi(i) - i = d + q
    <3>1. a + i * b = cur + b
      BY <1>1, <2>4, <2>5, <2>a
    <3>2. Hi(i) = e + q
      BY <1>1, <2>3, <2>e, <3>1 DEF Lesser
    <3>3. QED
      BY <2>1, <2>3, <2>d, <2>e, <3>2
  <2>8. cut[i] = CutTurn(l, r, cut[k], i)
    BY <1>2, <2>1
  <2>9. CutUpTo(cut[k], l, cur, d)
    BY <1>4, <2>6
  <2> HIDE DEF Hi, K
  <2>10. CutUpTo(cut[i], l, e + q, d + q)
    BY <2>2, <2>8, <2>9, CutTurnKeeps
  <2> USE DEF K
  <2>11. QED
    BY <2>1, <2>7, <2>10, <2>a
<1>5. n \in K
  <2>1. \A k \in 0..n : k \in K
    <3> HIDE DEF K
    <3>1. QED
      BY <1>1, <1>3, <1>4, Induction
  <2>2. n \in 0..n
    BY <1>1
  <2>3. QED
    BY <2>1, <2>2
<1>6. tail = a + n * b
  BY <1>a, <1>b
<1>7. n * b >= n /\ n * b \in Int
  <2>1. \A x, y \in Nat : y > 0 => x * y >= x /\ x * y \in Int
    OBVIOUS
  <2>2. QED
    BY <1>1, <2>1
<1>8. tail \in Nat /\ tail - n \in Nat
  BY <1>1, <1>6, <1>7
<1>9. QED
  BY <1>5, <1>6, <1>8


LEMMA CutExtendedCuts ==
  ASSUME NEW l \in SoundLists, NEW N \in Nat, N = Size(l), NEW n, NEW r, Upwards(r, n, N)
  PROVE  CutTo(CutExtended(l, r, n), l, N - n) /\ n <= N
<1>a. PICK cut : cut = CHOOSE f : ExtendedHistory(f, l, r, n)
  OBVIOUS
<1>b. PICK tail : tail = r.start + n * r.step
  OBVIOUS
<1>1. l \in ListsOf(Elems) /\ Len(l.items) = N /\ n \in Nat
  BY DEF SoundLists, Size, Upwards
<1>2. ExtendedHistory(cut, l, r, n)
  <2>1. \E f : ExtendedHistory(f, l, r, n)
    BY <1>1, ExtendedHistoryExists
  <2>2. QED
    BY <1>a, <2>1
<1>c. PICK c : c = cut[n]
  OBVIOUS
<1>d. PICK hi : hi = Lesser(tail, N)
  OBVIOUS
<1>e. PICK lo : lo = hi - n
  OBVIOUS
<1>3. tail \in Nat /\ tail - n \in Nat /\ CutUpTo(c, l, hi, lo)
  BY <1>1, <1>2, <1>b, <1>c, <1>d, <1>e, CutExtendedKeeps
<1>f. PICK s : s = c.items
  OBVIOUS
<1>g. PICK w : w = l.items
  OBVIOUS
<1>4. /\ c \in ListsOf(Elems) /\ s \in Seq(Elems) /\ N = Len(s) /\ N = Len(w)
      /\ c.allocated = l.allocated /\ c.is_mutable = l.is_mutable
      /\ hi \in Nat /\ lo \in Nat /\ hi <= N /\ Same(w, s, hi + 1, N)
      /\ \A z \in Slots : c.refs[z] = Occ(s, 1, lo, z) + Occ(w, hi + 1, N, z)
  BY <1>1, <1>3, <1>f, <1>g DEF CutUpTo, ListsOf
<1>5. n <= N
  BY <1>1, <1>4, <1>e
<1>h. PICK d : d = tail - n
  OBVIOUS
<1>i. PICK k : k = N - tail
  OBVIOUS
<1>j. PICK t : t = MemMove(s, d, tail, k)
  OBVIOUS
<1>k. PICK v : v = [c EXCEPT !.items = t]
  OBVIOUS
<1>6. v = CutExtended(l, r, n)
  BY <1>a, <1>b, <1>c, <1>f, <1>h, <1>i, <1>j, <1>k
     DEF CutExtended, ExtendedHistory, CutTurn
<1>7. d \in Nat /\ d <= tail /\ k \in Int /\ tail \in Nat /\ (tail + k <= Len(s) \/ k <= 0)
  BY <1>1, <1>3, <1>4, <1>h, <1>i
<1>8. /\ t \in Seq(Elems) /\ Len(t) = N /\ (k >= 0 => MemMoved(s, t, d, tail, k))
      /\ (k <= 0 => t = s)
  <2>1. s \in Seq(Elems)
    BY <1>4
  <2>2. /\ t \in Seq(Elems) /\ Len(t) = Len(s) /\ (k >= 0 => MemMoved(s, t, d, tail, k))
        /\ (k <= 0 => t = s)
    BY <1>7, <1>j, <2>1, MoveFields
  <2>3. QED
    BY <1>4, <2>2
<1>9. /\ v \in ListsOf(Elems) /\ v.items = t /\ v.allocated = c.allocated
      /\ v.is_mutable = c.is_mutable /\ v.refs = c.refs
  BY <1>4, <1>8, <1>k DEF ListsOf
<1>l. PICK m : m = N - n
  OBVIOUS
<1>10. ASSUME NEW z \in Slots PROVE v.refs[z] = Occ(t, 1, m, z)
  <2>1. v.refs[z] = Occ(s, 1, lo, z) + Occ(w, hi + 1, N, z)
    BY <1>4, <1>9
  <2>2. CASE k <= 0
    <3>1. hi = N /\ lo = m
      BY <1>1, <1>3, <1>d, <1>e, <1>i, <1>l, <2>2 DEF Lesser
    <3>2. Occ(w, hi + 1, N, z) = 0
      <4>1. hi + 1 \in Int /\ N \in Int /\ N < hi + 1
        BY <3>1
      <4>2. QED
        BY <4>1, OccNone
    <3>3. Occ(s, 1, lo, z) \in Nat
      BY <1>4, OccType
    <3>4. v.refs[z] = Occ(s, 1, lo, z)
      BY <2>1, <3>2, <3>3
    <3>5. QED
      BY <1>8, <2>2, <3>1, <3>4
  <2>3. CASE ~ (k <= 0)
    <3>1. hi = tail /\ lo = d /\ d + k = m /\ tail + k = N /\ k \in Nat
      BY <1>1, <1>3, <1>d, <1>e, <1>h, <1>i, <1>l, <2>3 DEF Lesser
    <3>2. MemMoved(s, t, d, tail, k)
      BY <1>8, <3>1
    <3>3. Occ(t, 1, d + k, z) = Occ(s, 1, d, z) + Occ(s, tail + 1, tail + k, z)
      <4>1. k \in Nat /\ d \in Nat /\ tail \in Nat
        BY <3>1, <1>7
      <4>2. QED
        BY <3>2, <4>1, MovedOcc
    <3>4. Occ(w, hi + 1, N, z) = Occ(s, hi + 1, N, z)
      <4>1. hi + 1 \in Int /\ N \in Int
        BY <1>4
      <4>2. Same(w, s, hi + 1, N)
        BY <1>4
      <4>3. QED
        BY <4>1, <4>2, OccSame
    <3>5. QED
      BY <2>1, <3>1, <3>3, <3>4
  <2>4. QED
    BY <2>2, <2>3
<1>11. QED
  BY <1>1, <1>4, <1>5, <1>6, <1>8, <1>9, <1>10, <1>l DEF CutTo

LEMMA CutSound ==
  ASSUME NEW l \in SoundLists, l.is_mutable, NEW N \in Nat, N = Size(l), NEW n \in 0..N,
         NEW v, CutTo(v, l, N - n), NEW r, r = Resize(v, Size(l) - n)
  PROVE  r \in SoundLists /\ r.status = "LIST_OK"
<1>a. PICK m : m = N - n
  OBVIOUS
<1>b. PICK s : s = v.items
  OBVIOUS
<1>1. l \in ListsOf(Elems) /\ Len(l.items) = N /\ N <= l.allocated
  BY DEF SoundLists, Size
<1>2. /\ v \in ListsOf(Elems) /\ N = Len(s) /\ v.allocated = l.allocated /\ v.is_mutable
      /\ \A z \in Slots : v.refs[z] = Occ(s, 1, m, z)
  BY <1>1, <1>a, <1>b DEF CutTo
<1>3. m \in 0..N /\ N <= v.allocated /\ r = Resize(v, m)
  BY <1>1, <1>2, <1>a
<1>4. r \in SoundLists /\ Size(r) = m /\ r.status = "LIST_OK"
  BY <1>2, <1>3, <1>b, ShortenSound
<1>5. QED
  BY <1>4

LEMMA DeleteSliceSound ==
  ASSUME NEW l \in SoundLists, NEW N, N = Size(l), NEW r, SliceBounds(r, N)
  PROVE  /\ DeleteSlice(l, r) \in SoundLists
         /\ DeleteSlice(l, r).status \in {"LIST_OK", "LIST_ERR_IMMUTABLE"}
<1>a. PICK n : n = RangeLen(r)
  OBVIOUS
<1>b. PICK f : f = Forwards(r, n)
  OBVIOUS
<1>c. PICK d : d = DeleteSlice(l, r)
  OBVIOUS
<1>0. N \in Nat
  BY DEF Size, SoundLists, ListsOf
<1>1. CASE ~ l.is_mutable
  <2>1. d = Status(l, "LIST_ERR_IMMUTABLE")
    BY <1>1, <1>c DEF DeleteSlice
  <2>2. d \in SoundLists
    BY <2>1, StatusSound DEF Statuses
  <2>3. d.status = "LIST_ERR_IMMUTABLE"
    BY <2>1 DEF Status, SoundLists, ListsOf
  <2>4. QED
    BY <1>c, <2>2, <2>3
<1>2. CASE l.is_mutable /\ n = 0
  <2>1. d = Status(l, "LIST_OK")
    BY <1>2, <1>a, <1>c DEF DeleteSlice
  <2>2. d \in SoundLists
    BY <2>1, StatusSound DEF Statuses
  <2>3. d.status = "LIST_OK"
    BY <2>1 DEF Status, SoundLists, ListsOf
  <2>4. QED
    BY <1>c, <2>2, <2>3
<1>3. CASE l.is_mutable /\ n # 0
  <2>1. Upwards(f, n, N)
    BY <1>0, <1>3, <1>a, <1>b, ForwardsBounds
  <2>a. PICK v : v = IF f.step = 1 THEN CutPlain(l, f) ELSE CutExtended(l, f, n)
    OBVIOUS
  <2>2. CutTo(v, l, N - n) /\ n <= N
    <3>1. CASE f.step = 1
      <4>1. CutTo(CutPlain(l, f), l, N - n) /\ n <= N
        BY <2>1, <3>1, CutPlainCuts
      <4>2. QED
        BY <2>a, <3>1, <4>1
    <3>2. CASE f.step # 1
      <4>1. CutTo(CutExtended(l, f, n), l, N - n) /\ n <= N
        BY <1>0, <2>1, CutExtendedCuts
      <4>2. QED
        BY <2>a, <3>2, <4>1
    <3>3. QED
      BY <3>1, <3>2
  <2>3. d = Resize(v, Size(l) - n)
    BY <1>3, <1>a, <1>b, <1>c, <2>a DEF DeleteSlice
  <2>4. n \in 0..N
    BY <1>0, <2>1, <2>2 DEF Upwards
  <2>5. d \in SoundLists /\ d.status = "LIST_OK"
    BY <1>0, <1>3, <2>2, <2>3, <2>4, CutSound
  <2>6. QED
    BY <1>c, <2>5
<1>4. QED
  BY <1>1, <1>2, <1>3


-----------------------------------------------------------------------------
(* The compiled layer (numba/typed/listobject.py) keeps a list sound.      *)

LEMMA RaiseStatus ==
  ASSUME NEW l \in SoundLists
  PROVE  Raise(l).status = "OK" <=> l.status = "LIST_OK"
BY DEF Raise, Status, SoundLists, ListsOf

LEMMA PutItemSound ==
  ASSUME NEW l \in SoundLists, NEW i, NEW x \in Elems
  PROVE  PutItem(l, i, x) \in SoundLists /\ Size(PutItem(l, i, x)) = Size(l)
<1>1. CASE ~ InRange(l, i)
  BY <1>1, StatusSound DEF PutItem, Statuses
<1>2. CASE InRange(l, i)
  <2>a. PICK m : m = SetItemAt(l, FixIndex(l, i), x)
    OBVIOUS
  <2>1. m \in SoundLists /\ Size(m) = Size(l)
    BY <2>a, SetItemAtSound
  <2>2. Raise(m) \in SoundLists /\ Size(Raise(m)) = Size(m)
    BY <2>1, RaiseSound
  <2>3. PutItem(l, i, x) = Raise(m)
    BY <1>2, <2>a DEF PutItem
  <2>4. QED
    BY <2>1, <2>2, <2>3
<1>3. QED
  BY <1>1, <1>2

LEMMA DropItemSound ==
  ASSUME NEW l \in SoundLists, NEW i
  PROVE  DropItem(l, i) \in SoundLists
<1>1. CASE ~ InRange(l, i)
  BY <1>1, StatusSound DEF DropItem, Statuses
<1>2. CASE InRange(l, i)
  <2>a. PICK m : m = DelItemAt(l, FixIndex(l, i))
    OBVIOUS
  <2>1. m \in SoundLists
    BY <2>a, DelItemAtSound
  <2>2. Raise(m) \in SoundLists
    BY <2>1, RaiseSound
  <2>3. DropItem(l, i) = Raise(m)
    BY <1>2, <2>a DEF DropItem
  <2>4. QED
    BY <2>2, <2>3
<1>3. QED
  BY <1>1, <1>2

LEMMA PutLastSound ==
  ASSUME NEW l \in SoundLists, NEW x \in Elems, NEW r, r = PutLast(l, x)
  PROVE  r \in SoundLists /\ (r.status = "OK" => Size(r) = Size(l) + 1)
<1>a. PICK m : m = AppendItem(l, x)
  OBVIOUS
<1>1. /\ m \in SoundLists
      /\ Size(m) = IF m.status = "LIST_OK" THEN Size(l) + 1 ELSE Size(l)
  BY <1>a, AppendItemSound
<1>2. r = Raise(m)
  BY <1>a DEF PutLast
<1>3. r \in SoundLists /\ Size(r) = Size(m) /\ (r.status = "OK" <=> m.status = "LIST_OK")
  BY <1>1, <1>2, RaiseSound, RaiseStatus
<1>4. QED
  BY <1>1, <1>3

(* Repeat: the history r of the loop, and that it does not leave a set     *)
(* that its turns do not leave.                                            *)
LEMMA LoopStays ==
  ASSUME NEW n \in Nat, NEW S, NEW r, r[0] \in S,
         \A k \in 1..n : r[k - 1] \in S => r[k] \in S
  PROVE  r[n] \in S
<1> DEFINE K == {k \in 0..n : r[k] \in S}
<1>1. 0 \in K
  OBVIOUS
<1>2. \A k \in 0..(n - 1) : k \in K => k + 1 \in K
  <2>1. \A k \in 0..(n - 1) : k + 1 \in 1..n /\ k + 1 \in 0..n /\ (k + 1) - 1 = k
    OBVIOUS
  <2>2. QED
    BY <2>1
<1>3. \A k \in 0..n : k \in K
  <2> HIDE DEF K
  <2>1. QED
    BY <1>1, <1>2, Induction
<1>4. n \in K
  BY <1>3
<1>5. QED
  BY <1>4

(* The loop whose turns are those of the function g, unless one raised.    *)
Loop(r, l, g, n) ==
  r = [k \in 0..n |-> IF k = 0 THEN l
                      ELSE IF r[k - 1].status # "OK" THEN r[k - 1] ELSE g[<<r[k - 1], k>>]]

LEMMA LoopExists ==
  ASSUME NEW n \in Nat, NEW S, NEW l \in S, NEW g \in [S \X (1..n) -> S]
  PROVE  \E r \in [0..n -> S] : Loop(r, l, g, n)
<1> DEFINE f == [mk \in S \X (1..n) |-> IF mk[1].status # "OK" THEN mk[1] ELSE g[mk]]
<1>1. f \in [S \X (1..n) -> S]
  OBVIOUS
<1>2. \A m \in S, k \in 1..n : f[<<m, k>>] = IF m.status # "OK" THEN m ELSE g[<<m, k>>]
  OBVIOUS
<1> HIDE DEF f
<1>3. PICK r \in [0..n -> S] : IsHistory(r, l, f, n)
  BY <1>1, History
<1>4. \A k \in 0..n : r[k] = IF k = 0 THEN l ELSE f[<<r[k - 1], k>>]
  BY <1>3 DEF IsHistory
<1>5. \A k \in 0..n : k # 0 => r[k - 1] \in S /\ k \in 1..n
  OBVIOUS
<1>6. \A k \in 0..n : r[k] = IF k = 0 THEN l
                             ELSE IF r[k - 1].status # "OK" THEN r[k - 1] ELSE g[<<r[k - 1], k>>]
  BY <1>2, <1>4, <1>5
<1>7. r = [k \in 0..n |-> r[k]]
  OBVIOUS
<1>8. Loop(r, l, g, n)
  BY <1>6, <1>7 DEF Loop
<1>9. QED
  BY <1>8

LEMMA ClearSound ==
  ASSUME NEW l \in SoundLists
  PROVE  Clear(l) \in SoundLists
<1> DEFINE n == Size(l)
           Turn(m, k) == DropItem(m, -1)
           g == [mk \in SoundLists \X (1..n) |-> Turn(mk[1], mk[2])]
           IsLoop(r) == r = [k \in 0..n |-> IF k = 0 THEN l
                                            ELSE IF r[k - 1].status # "OK" THEN r[k - 1]
                                            ELSE Turn(r[k - 1], k)]
<1>1. n \in Nat
  BY DEF Size, SoundLists, ListsOf
<1>2. \A m \in SoundLists, k \in 1..n : Turn(m, k) \in SoundLists
  BY DropItemSound
<1>3. Clear(l) = (CHOOSE r : IsLoop(r))[n]
  BY DEF Clear, Repeat
<1> HIDE DEF n, Turn
<1>4. g \in [SoundLists \X (1..n) -> SoundLists]
  BY <1>2
<1>5. \A m \in SoundLists, k \in 1..n : g[<<m, k>>] = Turn(m, k)
  OBVIOUS
<1> HIDE DEF g
<1>6. \E r : IsLoop(r)
  <2>1. PICK r \in [0..n -> SoundLists] : Loop(r, l, g, n)
    BY <1>1, <1>4, LoopExists
  <2>2. \A k \in 0..n : k # 0 => r[k - 1] \in SoundLists /\ k \in 1..n
    BY <1>1
  <2>3. \A k \in 0..n : k # 0 => g[<<r[k - 1], k>>] = Turn(r[k - 1], k)
    BY <1>5, <2>2
  <2>4. IsLoop(r)
    BY <2>1, <2>3 DEF Loop
  <2>5. QED
    BY <2>4
<1>7. PICK r : IsLoop(r) /\ Clear(l) = r[n]
  BY <1>3, <1>6
<1>8. r[0] = l /\ \A k \in 1..n : r[k] = IF r[k - 1].status # "OK" THEN r[k - 1]
                                         ELSE Turn(r[k - 1], k)
  <2>1. 0 \in 0..n /\ \A k \in 1..n : k \in 0..n /\ k # 0
    BY <1>1
  <2>2. QED
    BY <1>7, <2>1
<1>9. \A k \in 1..n : r[k - 1] \in SoundLists => r[k] \in SoundLists
  BY <1>2, <1>8
<1>10. r[n] \in SoundLists
  BY <1>1, <1>8, <1>9, LoopStays
<1>11. QED
  BY <1>7, <1>10


(* extend() of a list that is mutable.                                     *)
AddAll(l, xs) == LET add(m, k) == PutLast(m, xs[k]) IN Repeat(l, Len(xs), add)

LEMMA AddAllSound ==
  ASSUME NEW l \in SoundLists, NEW xs \in Seq(Elems)
  PROVE  AddAll(l, xs) \in SoundLists
<1> DEFINE S == SoundLists
           n == Len(xs)
           Turn(m, k) == PutLast(m, xs[k])
           g == [mk \in S \X (1..n) |-> Turn(mk[1], mk[2])]
           IsLoop(r) == r = [k \in 0..n |-> IF k = 0 THEN l
                                            ELSE IF r[k - 1].status # "OK" THEN r[k - 1]
                                            ELSE Turn(r[k - 1], k)]
<1>1. n \in Nat
  OBVIOUS
<1>a. l \in S
  OBVIOUS
<1>2. \A m \in S, k \in 1..n : Turn(m, k) \in S
  <2>1. \A k \in 1..n : xs[k] \in Elems
    OBVIOUS
  <2>2. QED
    BY <2>1, PutLastSound
<1>3. AddAll(l, xs) = (CHOOSE r : IsLoop(r))[n]
  BY DEF AddAll, Repeat
<1> HIDE DEF n, Turn
<1>4. g \in [S \X (1..n) -> S]
  BY <1>2
<1>5. \A m \in S, k \in 1..n : g[<<m, k>>] = Turn(m, k)
  OBVIOUS
<1> HIDE DEF g
<1>6. \E r : IsLoop(r)
  <2>1. PICK r \in [0..n -> S] : Loop(r, l, g, n)
    BY <1>1, <1>a, <1>4, LoopExists
  <2>2. \A k \in 0..n : k # 0 => r[k - 1] \in S /\ k \in 1..n
    BY <1>1
  <2>3. \A k \in 0..n : k # 0 => g[<<r[k - 1], k>>] = Turn(r[k - 1], k)
    BY <1>5, <2>2
  <2>4. IsLoop(r)
    BY <2>1, <2>3 DEF Loop
  <2>5. QED
    BY <2>4
<1>7. PICK r : IsLoop(r) /\ AddAll(l, xs) = r[n]
  BY <1>3, <1>6
<1>8. r[0] = l /\ \A k \in 1..n : r[k] = IF r[k - 1].status # "OK" THEN r[k - 1]
                                         ELSE Turn(r[k - 1], k)
  <2>1. 0 \in 0..n /\ \A k \in 1..n : k \in 0..n /\ k # 0
    BY <1>1
  <2>2. QED
    BY <1>7, <2>1
<1>9. \A k \in 1..n : r[k - 1] \in S => r[k] \in S
  BY <1>2, <1>8
<1>10. r[n] \in S
  BY <1>1, <1>a, <1>8, <1>9, LoopStays
<1>11. QED
  BY <1>7, <1>10

LEMMA ExtendSound ==
  ASSUME NEW l \in SoundLists, NEW xs \in Seq(Elems)
  PROVE  Extend(l, xs) \in SoundLists
<1>1. CASE ~ l.is_mutable
  BY <1>1, StatusSound DEF Extend, Statuses
<1>2. CASE l.is_mutable
  <2>1. AddAll(l, xs) \in SoundLists
    BY AddAllSound
  <2>2. Extend(l, xs) = AddAll(l, xs)
    BY <1>2 DEF Extend, AddAll, Repeat
  <2>3. QED
    BY <2>1, <2>2
<1>3. QED
  BY <1>1, <1>2

LEMMA AtElem ==
  ASSUME NEW l \in SoundLists, NEW i \in 0..(Size(l) - 1)
  PROVE  At(l, i) \in Elems
<1>1. l.items \in Seq(Elems) /\ Len(l.items) \in Nat
  BY DEF SoundLists, ListsOf
<1>2. i + 1 \in 1..Len(l.items)
  BY <1>1 DEF Size
<1>3. QED
  BY <1>1, <1>2 DEF At

(* reverse(): the turns exchange the items at k - 1 and at Size(l) - k.    *)
Swaps(l) == LET swap(m, k) == LET back == Size(l) - k
                                  first == PutItem(m, k - 1, At(m, back))
                              IN PutItem(first, back, At(m, k - 1))
            IN Repeat(l, Size(l) \div 2, swap)

LEMMA SwapsSound ==
  ASSUME NEW l \in SoundLists
  PROVE  Swaps(l) \in SoundLists
<1> DEFINE S == {m \in SoundLists : Size(m) = Size(l)}
           n == Size(l) \div 2
           Turn(m, k) == LET back == Size(l) - k
                             first == PutItem(m, k - 1, At(m, back))
                         IN PutItem(first, back, At(m, k - 1))
           g == [mk \in S \X (1..n) |-> Turn(mk[1], mk[2])]
           IsLoop(r) == r = [k \in 0..n |-> IF k = 0 THEN l
                                            ELSE IF r[k - 1].status # "OK" THEN r[k - 1]
                                            ELSE Turn(r[k - 1], k)]
<1>0. Size(l) \in Nat
  BY DEF Size, SoundLists, ListsOf
<1>1. n \in Nat
  BY <1>0
<1>a. l \in S
  OBVIOUS
<1>2. ASSUME NEW m \in S, NEW k \in 1..n PROVE Turn(m, k) \in S
  <2>a. PICK back : back = Size(l) - k
    OBVIOUS
  <2>1. back \in 0..(Size(l) - 1) /\ k - 1 \in 0..(Size(l) - 1)
    BY <1>0, <2>a
  <2>2. m \in SoundLists /\ Size(m) = Size(l)
    OBVIOUS
  <2>3. At(m, back) \in Elems /\ At(m, k - 1) \in Elems
    <3>1. back \in 0..(Size(m) - 1) /\ k - 1 \in 0..(Size(m) - 1)
      BY <2>1, <2>2
    <3>2. QED
      BY <2>2, <3>1, AtElem
  <2>b. PICK first : first = PutItem(m, k - 1, At(m, back))
    OBVIOUS
  <2>4. first \in SoundLists /\ Size(first) = Size(l)
    BY <2>2, <2>3, <2>b, PutItemSound
  <2>c. PICK second : second = PutItem(first, back, At(m, k - 1))
    OBVIOUS
  <2>5. second \in SoundLists /\ Size(second) = Size(l)
    BY <2>3, <2>4, <2>c, PutItemSound
  <2>6. Turn(m, k) = second
    BY <2>a, <2>b, <2>c
  <2>7. QED
    BY <2>5, <2>6
<1>3. Swaps(l) = (CHOOSE r : IsLoop(r))[n]
  BY DEF Swaps, Repeat
<1> HIDE DEF S
<1> HIDE DEF n, Turn
<1>4. g \in [S \X (1..n) -> S]
  BY <1>2
<1>5. \A m \in S, k \in 1..n : g[<<m, k>>] = Turn(m, k)
  OBVIOUS
<1> HIDE DEF g
<1>6. \E r : IsLoop(r)
  <2>1. PICK r \in [0..n -> S] : Loop(r, l, g, n)
    BY <1>1, <1>a, <1>4, LoopExists
  <2>2. \A k \in 0..n : k # 0 => r[k - 1] \in S /\ k \in 1..n
    BY <1>1
  <2>3. \A k \in 0..n : k # 0 => g[<<r[k - 1], k>>] = Turn(r[k - 1], k)
    BY <1>5, <2>2
  <2>4. IsLoop(r)
    BY <2>1, <2>3 DEF Loop
  <2>5. QED
    BY <2>4
<1>7. PICK r : IsLoop(r) /\ Swaps(l) = r[n]
  BY <1>3, <1>6
<1>8. r[0] = l /\ \A k \in 1..n : r[k] = IF r[k - 1].status # "OK" THEN r[k - 1]
                                         ELSE Turn(r[k - 1], k)
  <2>1. 0 \in 0..n /\ \A k \in 1..n : k \in 0..n /\ k # 0
    BY <1>1
  <2>2. QED
    BY <1>7, <2>1
<1>9. \A k \in 1..n : r[k - 1] \in S => r[k] \in S
  BY <1>2, <1>8
<1>10. r[n] \in S
  BY <1>1, <1>a, <1>8, <1>9, LoopStays
<1>11. QED
  BY <1>7, <1>10 DEF S

LEMMA ReverseSound ==
  ASSUME NEW l \in SoundLists
  PROVE  ReverseItems(l) \in SoundLists
<1>1. CASE ~ l.is_mutable
  BY <1>1, StatusSound DEF ReverseItems, Statuses
<1>2. CASE l.is_mutable
  <2>1. Swaps(l) \in SoundLists
    BY SwapsSound
  <2>2. ReverseItems(l) = Swaps(l)
    BY <1>2 DEF ReverseItems, Swaps, Repeat
  <2>3. QED
    BY <2>1, <2>2
<1>3. QED
  BY <1>1, <1>2


LEMMA RemoveSound ==
  ASSUME NEW l \in SoundLists, NEW x \in Elems
  PROVE  RemoveItem(l, x) \in SoundLists
<1>a. PICK found : found = {i \in 0..(Size(l) - 1) : At(l, i) = x}
  OBVIOUS
<1>1. CASE found = {}
  BY <1>1, <1>a, StatusSound DEF RemoveItem, Statuses
<1>2. CASE found # {}
  <2>a. PICK i : i = CHOOSE j \in found : \A q \in found : j <= q
    OBVIOUS
  <2>1. RemoveItem(l, x) = DropItem(l, i)
    BY <1>2, <1>a, <2>a DEF RemoveItem
  <2>2. QED
    BY <2>1, DropItemSound
<1>3. QED
  BY <1>1, <1>2

(* del l[a:b:c]: its status is put to OK whatever became of it.            *)
LEMMA DropSliceSound ==
  ASSUME NEW l \in SoundLists, NEW s \in AnySlice
  PROVE  DropSlice(l, s) \in SoundLists
<1>a. PICK r : r = HandleSlice(l, s)
  OBVIOUS
<1>b. PICK m : m = DeleteSlice(l, r)
  OBVIOUS
<1>1. SliceBounds(r, Size(l))
  BY <1>a, HandleSliceBounds
<1>2. m \in SoundLists /\ m.status \in {"LIST_OK", "LIST_ERR_IMMUTABLE"}
  BY <1>1, <1>b, DeleteSliceSound
<1>3. DropSlice(l, s) = Status(m, "OK")
  BY <1>2, <1>a, <1>b DEF DropSlice
<1>4. QED
  BY <1>2, <1>3, StatusSound DEF Statuses

(* insert(): p is the list after it has grown by one; the turns move the   *)
(* items from the place at on up by one.                                   *)
MovesUp(l, p, at) ==
  LET shift(m, k) == PutItem(m, Size(l) - k + 1, At(m, Size(l) - k))
  IN Repeat(p, Size(l) - at, shift)

LEMMA MovesUpSound ==
  ASSUME NEW l \in SoundLists, NEW at \in 0..(Size(l) - 1), NEW p \in SoundLists,
         p.status = "OK" => Size(p) = Size(l) + 1
  PROVE  MovesUp(l, p, at) \in SoundLists
<1> DEFINE S == {m \in SoundLists : m.status = "OK" => Size(m) = Size(l) + 1}
           n == Size(l) - at
           Turn(m, k) == PutItem(m, Size(l) - k + 1, At(m, Size(l) - k))
           g == [mk \in S \X (1..n) |-> IF mk[1].status = "OK" THEN Turn(mk[1], mk[2])
                                                       ELSE mk[1]]
           IsLoop(r) == r = [k \in 0..n |-> IF k = 0 THEN p
                                            ELSE IF r[k - 1].status # "OK" THEN r[k - 1]
                                            ELSE Turn(r[k - 1], k)]
<1>0. Size(l) \in Nat
  BY DEF Size, SoundLists, ListsOf
<1>1. n \in Nat
  BY <1>0
<1>a. p \in S
  OBVIOUS
<1>2. ASSUME NEW m \in S, NEW k \in 1..n, m.status = "OK" PROVE Turn(m, k) \in S
  <2>a. PICK i : i = Size(l) - k
    OBVIOUS
  <2>1. m \in SoundLists /\ Size(m) = Size(l) + 1
    BY <1>2
  <2>2. i \in 0..(Size(m) - 1)
    BY <1>0, <2>1, <2>a
  <2>3. At(m, i) \in Elems
    BY <2>1, <2>2, AtElem
  <2>b. PICK t : t = PutItem(m, i + 1, At(m, i))
    OBVIOUS
  <2>4. t \in SoundLists /\ Size(t) = Size(m)
    BY <2>1, <2>3, <2>b, PutItemSound
  <2>5. Turn(m, k) = t
    BY <2>a, <2>b
  <2>6. QED
    BY <2>1, <2>4, <2>5
<1>3. MovesUp(l, p, at) = (CHOOSE r : IsLoop(r))[n]
  BY DEF MovesUp, Repeat
<1> HIDE DEF S
<1> HIDE DEF n, Turn
<1>4. g \in [S \X (1..n) -> S]
  <2>1. \A mk \in S \X (1..n) : mk[1] \in S /\ mk[2] \in 1..n
    OBVIOUS
  <2>2. \A mk \in S \X (1..n) :
           (IF mk[1].status = "OK" THEN Turn(mk[1], mk[2]) ELSE mk[1]) \in S
    BY <1>2, <2>1
  <2>3. QED
    BY <2>2
<1>5. \A m \in S, k \in 1..n : m.status = "OK" => g[<<m, k>>] = Turn(m, k)
  OBVIOUS
<1> HIDE DEF g
<1>6. \E r : IsLoop(r)
  <2>1. PICK r \in [0..n -> S] : Loop(r, p, g, n)
    BY <1>1, <1>a, <1>4, LoopExists
  <2>2. \A k \in 0..n : k # 0 => r[k - 1] \in S /\ k \in 1..n
    BY <1>1
  <2>3. \A k \in 0..n : k # 0 /\ r[k - 1].status = "OK"
                         => g[<<r[k - 1], k>>] = Turn(r[k - 1], k)
    BY <1>5, <2>2
  <2>4. r = [k \in 0..n |-> IF k = 0 THEN p
                            ELSE IF r[k - 1].status # "OK" THEN r[k - 1]
                            ELSE g[<<r[k - 1], k>>]]
    BY <2>1 DEF Loop
  <2>5. IsLoop(r)
    BY <2>3, <2>4
  <2>6. QED
    BY <2>5
<1>7. PICK r : IsLoop(r) /\ MovesUp(l, p, at) = r[n]
  BY <1>3, <1>6
<1>8. r[0] = p /\ \A k \in 1..n : r[k] = IF r[k - 1].status # "OK" THEN r[k - 1]
                                         ELSE Turn(r[k - 1], k)
  <2>1. 0 \in 0..n /\ \A k \in 1..n : k \in 0..n /\ k # 0
    BY <1>1
  <2>2. QED
    BY <1>7, <2>1
<1>9. \A k \in 1..n : r[k - 1] \in S => r[k] \in S
  BY <1>2, <1>8
<1>10. r[n] \in S
  BY <1>1, <1>a, <1>8, <1>9, LoopStays
<1>11. QED
  BY <1>7, <1>10 DEF S

LEMMA InsertSound ==
  ASSUME NEW l \in SoundLists, NEW i \in Int, NEW x \in Elems
  PROVE  InsertItem(l, i, x) \in SoundLists
<1>0. Size(l) \in Nat /\ (l.items = <<>> <=> Size(l) = 0)
  BY DEF Size, SoundLists, ListsOf
<1>1. CASE i >= Size(l) \/ l.items = <<>>
  <2>1. InsertItem(l, i, x) = PutLast(l, x)
    BY <1>1 DEF InsertItem
  <2>2. QED
    BY <2>1, PutLastSound
<1>2. CASE ~ (i >= Size(l) \/ l.items = <<>>)
  <2>a. PICK at : at = IF i < 0 THEN Larger(Size(l) + i, 0) ELSE i
    OBVIOUS
  <2>b. PICK p : p = PutLast(l, At(l, 0))
    OBVIOUS
  <2>c. PICK moved : moved = MovesUp(l, p, at)
    OBVIOUS
  <2>1. at \in 0..(Size(l) - 1) /\ 0 \in 0..(Size(l) - 1)
    BY <1>0, <1>2, <2>a DEF Larger
  <2>2. At(l, 0) \in Elems
    BY <2>1, AtElem
  <2>3. p \in SoundLists /\ (p.status = "OK" => Size(p) = Size(l) + 1)
    BY <2>2, <2>b, PutLastSound
  <2>4. moved \in SoundLists
    BY <2>1, <2>3, <2>c, MovesUpSound
  <2>5. InsertItem(l, i, x) = IF moved.status = "OK" THEN PutItem(moved, at, x) ELSE moved
    BY <1>2, <2>a, <2>b, <2>c DEF InsertItem, MovesUp, Repeat
  <2>6. PutItem(moved, at, x) \in SoundLists
    BY <2>4, PutItemSound
  <2>7. QED
    BY <2>4, <2>5, <2>6
<1>3. QED
  BY <1>1, <1>2

(* l[a:b:c] = xs: the c items that are replaced, and the c inserted.       *)
Replaces(l, r, xs, c) ==
  LET replace(m, k) == PutItem(m, RangeAt(r, k), xs[k]) IN Repeat(l, c, replace)
Inserts(l, r, xs, n0, c) ==
  LET insert(m, k) == InsertItem(m, r.stop + k - 1, xs[n0 + k]) IN Repeat(l, c, insert)

LEMMA ReplacesSound ==
  ASSUME NEW l \in SoundLists, NEW xs \in Seq(Elems), NEW r, NEW c \in 0..Len(xs)
  PROVE  Replaces(l, r, xs, c) \in SoundLists
<1> DEFINE S == SoundLists
           n == c
           Turn(m, k) == PutItem(m, RangeAt(r, k), xs[k])
           g == [mk \in S \X (1..n) |-> Turn(mk[1], mk[2])]
           IsLoop(h) == h = [k \in 0..n |-> IF k = 0 THEN l
                                            ELSE IF h[k - 1].status # "OK" THEN h[k - 1]
                                            ELSE Turn(h[k - 1], k)]
<1>1. n \in Nat
  OBVIOUS
<1>a. l \in S
  OBVIOUS
<1>2. \A m \in S, k \in 1..n : Turn(m, k) \in S
  <2>1. \A k \in 1..n : xs[k] \in Elems
    OBVIOUS
  <2>2. QED
    BY <2>1, PutItemSound
<1>3. Replaces(l, r, xs, c) = (CHOOSE h : IsLoop(h))[n]
  BY DEF Replaces, Repeat
<1> HIDE DEF n, Turn
<1>4. g \in [S \X (1..n) -> S]
  BY <1>2
<1>5. \A m \in S, k \in 1..n : g[<<m, k>>] = Turn(m, k)
  OBVIOUS
<1> HIDE DEF g
<1>6. \E h : IsLoop(h)
  <2>1. PICK h \in [0..n -> S] : Loop(h, l, g, n)
    BY <1>1, <1>a, <1>4, LoopExists
  <2>2. \A k \in 0..n : k # 0 => h[k - 1] \in S /\ k \in 1..n
    BY <1>1
  <2>3. \A k \in 0..n : k # 0 => g[<<h[k - 1], k>>] = Turn(h[k - 1], k)
    BY <1>5, <2>2
  <2>4. IsLoop(h)
    BY <2>1, <2>3 DEF Loop
  <2>5. QED
    BY <2>4
<1>7. PICK h : IsLoop(h) /\ Replaces(l, r, xs, c) = h[n]
  BY <1>3, <1>6
<1>8. h[0] = l /\ \A k \in 1..n : h[k] = IF h[k - 1].status # "OK" THEN h[k - 1]
                                         ELSE Turn(h[k - 1], k)
  <2>1. 0 \in 0..n /\ \A k \in 1..n : k \in 0..n /\ k # 0
    BY <1>1
  <2>2. QED
    BY <1>7, <2>1
<1>9. \A k \in 1..n : h[k - 1] \in S => h[k] \in S
  BY <1>2, <1>8
<1>10. h[n] \in S
  BY <1>1, <1>a, <1>8, <1>9, LoopStays
<1>11. QED
  BY <1>7, <1>10

LEMMA InsertsSound ==
  ASSUME NEW l \in SoundLists, NEW xs \in Seq(Elems), NEW r, r.stop \in Int,
         NEW n0 \in Nat, NEW c \in Nat, n0 + c <= Len(xs)
  PROVE  Inserts(l, r, xs, n0, c) \in SoundLists
<1> DEFINE S == SoundLists
           n == c
           Turn(m, k) == InsertItem(m, r.stop + k - 1, xs[n0 + k])
           g == [mk \in S \X (1..n) |-> Turn(mk[1], mk[2])]
           IsLoop(h) == h = [k \in 0..n |-> IF k = 0 THEN l
                                            ELSE IF h[k - 1].status # "OK" THEN h[k - 1]
                                            ELSE Turn(h[k - 1], k)]
<1>1. n \in Nat
  OBVIOUS
<1>a. l \in S
  OBVIOUS
<1>2. ASSUME NEW m \in S, NEW k \in 1..n PROVE Turn(m, k) \in S
  <2>1. xs[n0 + k] \in Elems /\ r.stop + k - 1 \in Int
    OBVIOUS
  <2>2. QED
    BY <2>1, InsertSound
<1>3. Inserts(l, r, xs, n0, c) = (CHOOSE h : IsLoop(h))[n]
  BY DEF Inserts, Repeat
<1> HIDE DEF n, Turn
<1>4. g \in [S \X (1..n) -> S]
  BY <1>2
<1>5. \A m \in S, k \in 1..n : g[<<m, k>>] = Turn(m, k)
  OBVIOUS
<1> HIDE DEF g
<1>6. \E h : IsLoop(h)
  <2>1. PICK h \in [0..n -> S] : Loop(h, l, g, n)
    BY <1>1, <1>a, <1>4, LoopExists
  <2>2. \A k \in 0..n : k # 0 => h[k - 1] \in S /\ k \in 1..n
    BY <1>1
  <2>3. \A k \in 0..n : k # 0 => g[<<h[k - 1], k>>] = Turn(h[k - 1], k)
    BY <1>5, <2>2
  <2>4. IsLoop(h)
    BY <2>1, <2>3 DEF Loop
  <2>5. QED
    BY <2>4
<1>7. PICK h : IsLoop(h) /\ Inserts(l, r, xs, n0, c) = h[n]
  BY <1>3, <1>6
<1>8. h[0] = l /\ \A k \in 1..n : h[k] = IF h[k - 1].status # "OK" THEN h[k - 1]
                                         ELSE Turn(h[k - 1], k)
  <2>1. 0 \in 0..n /\ \A k \in 1..n : k \in 0..n /\ k # 0
    BY <1>1
  <2>2. QED
    BY <1>7, <2>1
<1>9. \A k \in 1..n : h[k - 1] \in S => h[k] \in S
  BY <1>2, <1>8
<1>10. h[n] \in S
  BY <1>1, <1>a, <1>8, <1>9, LoopStays
<1>11. QED
  BY <1>7, <1>10

LEMMA PutSliceSound ==
  ASSUME NEW l \in SoundLists, NEW s \in AnySlice, NEW xs \in Seq(Elems)
  PROVE  PutSlice(l, s, xs) \in SoundLists
<1>a. PICK r : r = HandleSlice(l, s)
  OBVIOUS
<1>b. PICK n : n = RangeLen(r)
  OBVIOUS
<1>c. PICK c : c = Lesser(n, Len(xs))
  OBVIOUS
<1>d. PICK replaced : replaced = Replaces(l, r, xs, c)
  OBVIOUS
<1>0. Size(l) \in Nat /\ Len(xs) \in Nat
  BY DEF Size, SoundLists, ListsOf
<1>1. SliceBounds(r, Size(l))
  BY <1>a, HandleSliceBounds
<1>2. n \in Nat
  BY <1>0, <1>1, <1>b, RangeLenType
<1>3. c \in 0..Len(xs)
  BY <1>0, <1>2, <1>c DEF Lesser
<1>4. replaced \in SoundLists
  BY <1>3, <1>d, ReplacesSound
<1>e. PICK refused : refused = Status(l, "ValueError")
  OBVIOUS
<1>5. refused \in SoundLists
  BY <1>e, StatusSound DEF Statuses
<1>f. PICK longer : longer = Inserts(replaced, r, xs, n, Len(xs) - n)
  OBVIOUS
<1>g. PICK rest : rest = [start |-> r.start + Len(xs), stop |-> r.stop, step |-> 1]
  OBVIOUS
<1>6. DropSlice(replaced, rest) \in SoundLists
  <2>1. rest \in AnySlice
    BY <1>0, <1>1, <1>g DEF AnySlice, SliceBounds
  <2>2. QED
    BY <1>4, <2>1, DropSliceSound
<1>7. CASE Len(xs) >= n
  <2>1. longer \in SoundLists
    <3>1. Len(xs) - n \in Nat /\ n + (Len(xs) - n) <= Len(xs) /\ r.stop \in Int
      BY <1>0, <1>1, <1>2, <1>7 DEF SliceBounds
    <3>2. QED
      BY <1>2, <1>4, <1>f, <3>1, InsertsSound
  <2>2. PutSlice(l, s, xs) = IF ~ l.is_mutable THEN refused
                             ELSE IF r.step # 1 THEN IF n = Len(xs) THEN replaced ELSE refused
                             ELSE longer
    BY <1>7, <1>a, <1>b, <1>c, <1>d, <1>e, <1>f DEF PutSlice, Replaces, Inserts, Repeat
  <2>3. QED
    BY <1>4, <1>5, <2>1, <2>2
<1>8. CASE ~ (Len(xs) >= n)
  <2>1. PutSlice(l, s, xs) = IF ~ l.is_mutable THEN refused
                             ELSE IF r.step # 1 THEN IF n = Len(xs) THEN replaced ELSE refused
                             ELSE DropSlice(replaced, rest)
    BY <1>8, <1>a, <1>b, <1>c, <1>d, <1>e, <1>g DEF PutSlice, Replaces, Repeat
  <2>2. QED
    BY <1>4, <1>5, <1>6, <2>1
<1>9. QED
  BY <1>7, <1>8


-----------------------------------------------------------------------------
(* Every operation begins and ends with a sound list.                      *)

Sound == Begin(0) \in SoundLists

LEMMA BeginSound ==
  ASSUME Sound, NEW m \in Nat
  PROVE  Begin(m) \in SoundLists
BY DEF Sound, Begin, SoundLists, ListsOf, Owned, Statuses

LEMMA EndSound ==
  ASSUME NEW l \in SoundLists, \E c, xs : End(l, c, xs)
  PROVE  Sound'
<1>1. list' = [items |-> l.items, allocated |-> l.allocated, refs |-> l.refs,
               is_mutable |-> l.is_mutable]
  BY DEF End
<1>2. Begin(0)' = [items |-> l.items, allocated |-> l.allocated, refs |-> l.refs,
                   is_mutable |-> l.is_mutable, memory |-> 0, status |-> "OK"]
  BY <1>1 DEF Begin
<1>3. QED
  BY <1>2 DEF Sound, SoundLists, ListsOf, Owned, Statuses

LEMMA CreatedSound ==
  ASSUME NEW n \in Preallocations
  PROVE  /\ list = Created(n) => Sound
         /\ list' = Created(n) => Sound'
<1>a. PICK l : l = [items |-> <<>>, allocated |-> n, refs |-> [x \in Slots |-> 0],
                    is_mutable |-> TRUE, memory |-> 0, status |-> "OK"]
  OBVIOUS
<1>1. n \in Nat
  BY ListAssumption
<1>2. l \in ListsOf(Elems)
  BY <1>1, <1>a DEF ListsOf, Statuses
<1>3. l.items = <<>> /\ Len(l.items) = 0
  BY <1>a
<1>4. \A z \in Slots : l.refs[z] = Occ(l.items, 1, 0, z)
  <2>1. ASSUME NEW z PROVE Occ(l.items, 1, 0, z) = 0
    <3>1. 1 \in Int /\ 0 \in Int /\ 0 < 1
      OBVIOUS
    <3>2. QED
      BY <3>1, OccNone
  <2>2. QED
    BY <1>a, <2>1
<1>5. l \in SoundLists
  BY <1>1, <1>2, <1>3, <1>4, <1>a DEF SoundLists, Owned
<1>6. ASSUME list = Created(n) PROVE Sound
  <2>1. Begin(0) = l
    BY <1>6, <1>a DEF Begin, Created, Slots
  <2>2. QED
    BY <1>5, <2>1 DEF Sound
<1>7. ASSUME list' = Created(n) PROVE Sound'
  <2>1. Begin(0)' = l
    BY <1>7, <1>a DEF Begin, Created, Slots
  <2>2. QED
    BY <1>5, <2>1 DEF Sound
<1>8. QED
  BY <1>6, <1>7

LEMMA ArgumentTypes ==
  ASSUME Sound
  PROVE  /\ list.items \in Seq(Elems)
         /\ \A xs \in Sources \cup {list.items} : xs \in Seq(Elems)
         /\ \A i \in Positions : i \in Int
         /\ \A s \in Slices : s \in AnySlice
<1>1. list.items \in Seq(Elems)
  BY DEF Sound, Begin, SoundLists, ListsOf
<1>2. ASSUME NEW xs \in Sources PROVE xs \in Seq(Elems)
  <2>1. CASE xs = <<>>
    BY <2>1
  <2>2. CASE \E x \in Elems : xs = <<x>>
    BY <2>2
  <2>3. CASE \E x, y \in Elems : xs = <<x, y>>
    BY <2>3
  <2>4. xs = <<>> \/ (\E x \in Elems : xs = <<x>>) \/ (\E x, y \in Elems : xs = <<x, y>>)
    BY SMTT(30) DEF Sources
  <2>5. QED
    BY <2>1, <2>2, <2>3, <2>4
<1>3. \A i \in Positions : i \in Int
  BY <1>1 DEF Positions
<1>4. \A s \in Slices : s \in AnySlice
  BY ListAssumption DEF Slices, AnySlice
<1>5. QED
  BY <1>1, <1>2, <1>3, <1>4

LEMMA ListNextSound ==
  ASSUME Sound, ListNext
  PROVE  Sound'
<1>0. Begin(0) \in SoundLists /\ \A m \in {0, 1} : Begin(m) \in SoundLists
  BY BeginSound DEF Sound
<1>1. CASE ListGet
  <2>1. PICK i \in Positions :
          \E c, xs : End(IF InRange(list, i) THEN Begin(0) ELSE Status(Begin(0), "IndexError"),
                        c, xs)
    BY <1>1 DEF ListGet
  <2>2. Status(Begin(0), "IndexError") \in SoundLists
    BY <1>0, StatusSound DEF Statuses
  <2>a. PICK l : l = IF InRange(list, i) THEN Begin(0) ELSE Status(Begin(0), "IndexError")
    OBVIOUS
  <2>3. l \in SoundLists /\ (\E c, xs : End(l, c, xs))
    BY <1>0, <2>1, <2>2, <2>a
  <2>4. QED
    BY <2>3, EndSound
<1>2. CASE ListGetSlice
  <2>1. \E c, xs : End(Begin(0), c, xs)
    BY <1>2 DEF ListGetSlice
  <2>2. QED
    BY <1>0, <2>1, EndSound
<1>3. CASE ListSet
  <2>1. PICK i \in Positions, x \in Elems : \E c, xs : End(PutItem(Begin(0), i, x), c, xs)
    BY <1>3 DEF ListSet
  <2>2. PutItem(Begin(0), i, x) \in SoundLists
    BY <1>0, PutItemSound
  <2>3. QED
    BY <2>1, <2>2, EndSound
<1>4. CASE ListAppend
  <2>1. PICK m \in {0, 1}, x \in Elems : \E c, xs : End(PutLast(Begin(m), x), c, xs)
    BY <1>4 DEF ListAppend
  <2>2. PutLast(Begin(m), x) \in SoundLists
    BY <1>0, PutLastSound
  <2>3. QED
    BY <2>1, <2>2, EndSound
<1>5. CASE ListInsert
  <2>1. PICK m \in {0, 1}, i \in Positions, x \in Elems :
          \E c, xs : End(InsertItem(Begin(m), i, x), c, xs)
    BY <1>5 DEF ListInsert
  <2>2. InsertItem(Begin(m), i, x) \in SoundLists
    BY <1>0, ArgumentTypes, InsertSound
  <2>3. QED
    BY <2>1, <2>2, EndSound
<1>6. CASE ListExtend
  <2>1. PICK m \in {0, 1}, ys \in Sources \cup {list.items} :
          \E c, xs : End(Extend(Begin(m), ys), c, xs)
    BY <1>6 DEF ListExtend
  <2>2. Extend(Begin(m), ys) \in SoundLists
    BY <1>0, ArgumentTypes, ExtendSound
  <2>3. QED
    BY <2>1, <2>2, EndSound
<1>7. CASE ListSetSlice
  <2>1. PICK s \in Slices, ys \in Sources \cup {list.items}, m \in {0, 1} :
          \E c, xs : End(PutSlice(Begin(m), s, ys), c, xs)
    BY <1>7 DEF ListSetSlice
  <2>2. PutSlice(Begin(m), s, ys) \in SoundLists
    BY <1>0, ArgumentTypes, PutSliceSound
  <2>3. QED
    BY <2>1, <2>2, EndSound
<1>8. CASE ListDelSlice
  <2>1. PICK s \in Slices : \E c, xs : End(DropSlice(Begin(0), s), c, xs)
    BY <1>8 DEF ListDelSlice
  <2>2. DropSlice(Begin(0), s) \in SoundLists
    BY <1>0, ArgumentTypes, DropSliceSound
  <2>3. QED
    BY <2>1, <2>2, EndSound
<1>9. CASE ListPop
  <2>1. PICK i \in Positions : \E c, xs : End(DropItem(Begin(0), i), c, xs)
    BY <1>9 DEF ListPop
  <2>2. DropItem(Begin(0), i) \in SoundLists
    BY <1>0, DropItemSound
  <2>3. QED
    BY <2>1, <2>2, EndSound
<1>10. CASE ListRemove
  <2>1. PICK x \in Elems : \E c, xs : End(RemoveItem(Begin(0), x), c, xs)
    BY <1>10 DEF ListRemove
  <2>2. RemoveItem(Begin(0), x) \in SoundLists
    BY <1>0, RemoveSound
  <2>3. QED
    BY <2>1, <2>2, EndSound
<1>11. CASE ListClear
  <2>1. \E c, xs : End(Clear(Begin(0)), c, xs)
    BY <1>11 DEF ListClear
  <2>2. Clear(Begin(0)) \in SoundLists
    BY <1>0, ClearSound
  <2>3. QED
    BY <2>1, <2>2, EndSound
<1>12. CASE ListReverse
  <2>1. \E c, xs : End(ReverseItems(Begin(0)), c, xs)
    BY <1>12 DEF ListReverse
  <2>2. ReverseItems(Begin(0)) \in SoundLists
    BY <1>0, ReverseSound
  <2>3. QED
    BY <2>1, <2>2, EndSound
<1>13. CASE ListMake
  <2>1. PICK b \in BOOLEAN : \E c, xs : End([Begin(0) EXCEPT !.is_mutable = b], c, xs)
    BY <1>13 DEF ListMake
  <2>2. [Begin(0) EXCEPT !.is_mutable = b] \in SoundLists
    BY <1>0 DEF SoundLists, ListsOf, Owned
  <2>3. QED
    BY <2>1, <2>2, EndSound
<1>14. CASE ListFor \/ ListForNext
  BY <1>14 DEF ListFor, ListForNext, Sound, Begin
<1>15. CASE ListNew
  <2>1. PICK n \in Preallocations : list' = Created(n)
    BY <1>15 DEF ListNew
  <2>2. QED
    BY <2>1, CreatedSound
<1>16. QED
  BY <1>1, <1>2, <1>3, <1>4, <1>5, <1>6, <1>7, <1>8, <1>9, <1>10, <1>11, <1>12, <1>13, <1>14,
     <1>15 DEF ListNext

LEMMA SoundMeans ==
  ASSUME Sound
  PROVE  ListSound
<1>a. PICK s : s = list.items
  OBVIOUS
<1>b. PICK n : n = Len(s)
  OBVIOUS
<1>1. /\ s \in Seq(Elems) /\ n \in Nat /\ n <= list.allocated
      /\ \A z \in Slots : list.refs[z] = Occ(s, 1, n, z)
  BY <1>a, <1>b DEF Sound, Begin, SoundLists, ListsOf, Owned
<1>2. \A z : {i \in DOMAIN s : s[i] = z} = Places(s, 1, n, z)
  BY <1>1, <1>b DEF Places
<1>3. \A z \in Slots : list.refs[z] = Cardinality({i \in DOMAIN s : s[i] = z})
  BY <1>1, <1>2 DEF Occ
<1>4. list.refs[Trash] = 0
  <2>1. Trash \in Slots
    BY DEF Slots
  <2>2. Places(s, 1, n, Trash) = {}
    <3>1. \A p \in 1..n : s[p] \in Elems
      BY <1>1, <1>b
    <3>2. QED
      BY <3>1, ListsType DEF Places
  <2>3. Occ(s, 1, n, Trash) = 0
    BY <2>2, FS_EmptySet DEF Occ
  <2>4. QED
    BY <1>1, <2>1, <2>3
<1>5. QED
  BY <1>1, <1>3, <1>4, <1>a, <1>b DEF ListSound, Slots

LEMMA SoundAlways == ContainersSpec => []Sound
<1>1. Init3 => Sound
  BY CreatedSound DEF Init3, ListInit
<1>2. Sound /\ [Next3]_<<vars, listvars, kind>> => Sound'
  <2> SUFFICES ASSUME Sound, [Next3]_<<vars, listvars, kind>>
               PROVE  Sound'
    OBVIOUS
  <2>1. CASE ListNext
    BY <2>1, ListNextSound
  <2>2. CASE UNCHANGED listvars
    BY <2>2 DEF listvars, Sound, Begin
  <2>3. QED
    BY <2>1, <2>2 DEF Next3
<1>3. QED
  BY <1>1, <1>2, PTL DEF ContainersSpec

(* The typed list owns one reference to an item for each place that holds  *)
(* it, no more and no fewer, has no place outside its block and none that  *)
(* was never written, between any two calls: whatever sizes it is made     *)
(* with room for, whatever bounds and steps slices are taken with (single, *)
(* deleted or assigned, from either end), whether or not memory runs out   *)
(* in the middle of a call, and for lists of any length                    *)
(* (numba/cext/listobject.c, numba/typed/listobject.py).                   *)
THEOREM TypedListSound == ContainersSpec => []ListSound
<1>1. Sound => ListSound
  BY SoundMeans
<1>2. QED
  BY <1>1, SoundAlways, PTL

-----------------------------------------------------------------------------
(* The probe sequence of a hash reaches every slot of the table.           *)

(* A set of numbers has a smallest one.                                    *)
LEMMA SmallestOf ==
  ASSUME NEW S \in SUBSET Nat, NEW e \in S
  PROVE  Smallest(S) \in S /\ \A t \in S : Smallest(S) <= t
<1> DEFINE K == {k \in 0..(e + 1) : \A t \in S : t >= k}
<1>1. \E s \in S : \A t \in S : s <= t
  <2> SUFFICES ASSUME \A s \in S : \E t \in S : ~ (s <= t) PROVE FALSE
    OBVIOUS
  <2>1. 0 \in K
    OBVIOUS
  <2>2. ASSUME NEW k \in 0..((e + 1) - 1), k \in K PROVE k + 1 \in K
    <3>1. k \notin S
      BY <2>2
    <3>2. \A t \in S : t >= k + 1
      BY <2>2, <3>1
    <3>3. QED
      BY <3>2
  <2>3. e + 1 \in Nat /\ e + 1 \in 0..(e + 1)
    OBVIOUS
  <2>4. \A k \in 0..(e + 1) : k \in K
    <3> HIDE DEF K
    <3>1. QED
      BY <2>1, <2>2, <2>3, Induction
  <2>5. e + 1 \in K
    BY <2>3, <2>4
  <2>6. QED
    BY <2>5
<1>2. QED
  BY <1>1 DEF Smallest

LEMMA PowerSteps ==
  /\ PowerOfTwo \in [0..30 -> Nat] /\ PowerOfTwo[0] = 1
  /\ \A j \in 1..30 : PowerOfTwo[j] = 2 * PowerOfTwo[j - 1]
<1> DEFINE g == [mk \in Nat \X (1..30) |-> 2 * mk[1]]
           P(h) == h = [j \in 0..30 |-> IF j = 0 THEN 1 ELSE 2 * h[j - 1]]
<1>1. g \in [Nat \X (1..30) -> Nat]
  OBVIOUS
<1>2. PICK h \in [0..30 -> Nat] : IsHistory(h, 1, g, 30)
  <2> HIDE DEF g
  <2>1. QED
    BY <1>1, History
<1>3. ASSUME NEW j \in 0..30 PROVE h[j] = IF j = 0 THEN 1 ELSE 2 * h[j - 1]
  <2>1. h[j] = IF j = 0 THEN 1 ELSE g[<<h[j - 1], j>>]
    <3> HIDE DEF g
    <3>1. QED
      BY <1>2 DEF IsHistory
  <2>2. j # 0 => h[j - 1] \in Nat /\ j \in 1..30
    OBVIOUS
  <2>3. QED
    BY <2>1, <2>2
<1>4. h = [j \in 0..30 |-> h[j]]
  OBVIOUS
<1>5. P(h)
  BY <1>3, <1>4
<1>6. P(PowerOfTwo)
  <2>1. PowerOfTwo = CHOOSE f : P(f)
    BY DEF PowerOfTwo
  <2> HIDE DEF P
  <2>2. QED
    BY <1>5, <2>1
<1>7. PowerOfTwo[0] = 1 /\ \A j \in 1..30 : PowerOfTwo[j] = 2 * PowerOfTwo[j - 1]
  BY <1>6
<1>8. \A j \in 0..30 : PowerOfTwo[j] \in Nat
  <2> DEFINE K == {j \in 0..30 : PowerOfTwo[j] \in Nat}
  <2>1. 0 \in K
    BY <1>7
  <2>2. ASSUME NEW k \in 0..(30 - 1), k \in K PROVE k + 1 \in K
    <3>1. k + 1 \in 1..30 /\ (k + 1) - 1 = k
      OBVIOUS
    <3>2. PowerOfTwo[k + 1] = 2 * PowerOfTwo[k]
      BY <1>7, <3>1
    <3>3. QED
      BY <2>2, <3>1, <3>2
  <2>3. \A j \in 0..30 : j \in K
    <3> HIDE DEF K
    <3>1. QED
      BY <2>1, <2>2, Induction
  <2>4. QED
    BY <2>3
<1>9. PowerOfTwo \in [0..30 -> Nat]
  BY <1>6, <1>8
<1>10. QED
  BY <1>7, <1>9

LEMMA PowersGrow ==
  ASSUME NEW j \in 0..30
  PROVE  PowerOfTwo[j] >= 1 /\ \A k \in 0..j : PowerOfTwo[k] <= PowerOfTwo[j]
<1> DEFINE K == {n \in 0..30 : PowerOfTwo[n] >= 1
                               /\ \A k \in 0..n : PowerOfTwo[k] <= PowerOfTwo[n]}
<1>1. 0 \in K
  BY PowerSteps
<1>2. ASSUME NEW n \in 0..(30 - 1), n \in K PROVE n + 1 \in K
  <2>1. n + 1 \in 1..30 /\ (n + 1) - 1 = n
    OBVIOUS
  <2>2. PowerOfTwo[n + 1] = 2 * PowerOfTwo[n] /\ PowerOfTwo[n] \in Nat
    BY <2>1, PowerSteps
  <2>3. ASSUME NEW k \in 0..(n + 1) PROVE PowerOfTwo[k] <= PowerOfTwo[n + 1]
    <3>1. CASE k = n + 1
      BY <2>2, <3>1
    <3>2. CASE k \in 0..n
      <4>1. PowerOfTwo[k] <= PowerOfTwo[n] /\ PowerOfTwo[k] \in Nat
        BY <1>2, <3>2, PowerSteps
      <4>2. QED
        BY <2>2, <4>1
    <3>3. QED
      BY <3>1, <3>2
  <2>4. QED
    BY <1>2, <2>1, <2>2, <2>3
<1>3. \A n \in 0..30 : n \in K
  <2> HIDE DEF K
  <2>1. QED
    BY <1>1, <1>2, Induction
<1>4. QED
  BY <1>3

(* Remainders.                                                             *)
LEMMA RemainderType ==
  ASSUME NEW d \in Nat, d > 0, NEW a \in Nat
  PROVE  a % d \in 0..(d - 1) /\ a \div d \in Nat /\ a = d * (a \div d) + (a % d)
OBVIOUS

LEMMA TimesAtLeast ==
  ASSUME NEW d \in Nat, NEW p \in Nat, NEW q \in Nat, p < q
  PROVE  d * p + d <= d * q /\ d * p \in Nat /\ d * q \in Nat
<1>1. PICK e \in Nat : q = p + 1 + e
  <2>1. q - p - 1 \in Nat /\ q = p + 1 + (q - p - 1)
    OBVIOUS
  <2>2. QED
    BY <2>1
<1>2. d * e \in Nat /\ d * p \in Nat /\ d * q \in Nat
  OBVIOUS
<1>3. d * q = d * p + d + d * e
  BY <1>1
<1>4. QED
  BY <1>2, <1>3

LEMMA RemainderIs ==
  ASSUME NEW d \in Nat, NEW t \in Nat, NEW r \in 0..(d - 1)
  PROVE  (d * t + r) % d = r /\ (d * t + r) \div d = t
<1> PICK a : a = d * t + r
  OBVIOUS
<1>1. a \in Nat /\ d > 0
  OBVIOUS
<1> PICK q : q = a \div d
  OBVIOUS
<1> PICK m : m = a % d
  OBVIOUS
<1>2. m \in 0..(d - 1) /\ q \in Nat /\ a = d * q + m
  BY <1>1, RemainderType
<1>3. ~ (q < t)
  <2> SUFFICES ASSUME q < t PROVE FALSE
    OBVIOUS
  <2>1. d * q + d <= d * t /\ d * q \in Nat /\ d * t \in Nat
    BY <1>2, TimesAtLeast
  <2>2. QED
    BY <1>2, <2>1
<1>4. ~ (t < q)
  <2> SUFFICES ASSUME t < q PROVE FALSE
    OBVIOUS
  <2>1. d * t + d <= d * q /\ d * q \in Nat /\ d * t \in Nat
    BY <1>2, TimesAtLeast
  <2>2. QED
    BY <1>2, <2>1
<1>5. q = t
  BY <1>2, <1>3, <1>4
<1>6. m = r
  <2>1. d * t \in Nat
    OBVIOUS
  <2>2. QED
    BY <1>2, <1>5, <2>1
<1>7. QED
  BY <1>5, <1>6

-----------------------------------------------------------------------------
(* i = i*5 + 1, without a mask, for m turns.                               *)
Chain(J, m) == J \in [0..m -> Nat] /\ \A k \in 1..m : J[k] = J[k - 1] * 5 + 1

(* After s turns, s a power of two, the number has moved by an odd         *)
(* multiple of s.                                                          *)
Leaps(s, c) == \A m \in Nat : \A J : Chain(J, m) /\ s <= m => J[s] = J[0] + s * (c * (4 * J[0] + 1))
Odd(c) == \E b \in Nat : c = 2 * b + 1

LEMMA ChainTail ==
  ASSUME NEW m \in Nat, NEW J, Chain(J, m), NEW n \in 0..m
  PROVE  Chain([k \in 0..(m - n) |-> J[n + k]], m - n)
<1> DEFINE T == [k \in 0..(m - n) |-> J[n + k]]
<1>1. \A k \in 0..(m - n) : n + k \in 0..m
  OBVIOUS
<1>2. T \in [0..(m - n) -> Nat]
  BY <1>1 DEF Chain
<1>3. ASSUME NEW k \in 1..(m - n) PROVE T[k] = T[k - 1] * 5 + 1
  <2>1. n + k \in 1..m /\ (n + k) - 1 = n + (k - 1) /\ k \in 0..(m - n) /\ k - 1 \in 0..(m - n)
    OBVIOUS
  <2>2. J[n + k] = J[(n + k) - 1] * 5 + 1
    BY <2>1 DEF Chain
  <2>3. QED
    BY <2>1, <2>2
<1>4. QED
  BY <1>2, <1>3 DEF Chain

LEMMA OddType == ASSUME NEW a, Odd(a) PROVE a \in Nat
BY DEF Odd

LEMMA OddTimes ==
  ASSUME NEW a, NEW b, Odd(a), Odd(b)
  PROVE  Odd(a * b) /\ a \in Nat
<1>1. PICK x \in Nat : a = 2 * x + 1
  BY DEF Odd
<1>2. PICK y \in Nat : b = 2 * y + 1
  BY DEF Odd
<1>3. a * b = 2 * (2 * (x * y) + x + y) + 1 /\ 2 * (x * y) + x + y \in Nat
  BY <1>1, <1>2
<1>4. QED
  BY <1>1, <1>3 DEF Odd

LEMMA LeapDouble ==
  ASSUME NEW s \in Nat, s > 0, NEW c \in Nat, Odd(c), Leaps(s, c)
  PROVE  \E d \in Nat : Odd(d) /\ Leaps(2 * s, d)
<1> PICK d : d = c * (2 * (s * c) + 1)
  OBVIOUS
<1>1. d \in Nat /\ Odd(d)
  <2>1. s * c \in Nat
    OBVIOUS
  <2>2. Odd(2 * (s * c) + 1)
    BY <2>1 DEF Odd
  <2>3. Odd(d)
    BY <2>2, OddTimes
  <2>4. QED
    BY <2>3, OddType
<1>2. ASSUME NEW m \in Nat, NEW J, Chain(J, m), 2 * s <= m
      PROVE  J[2 * s] = J[0] + (2 * s) * (d * (4 * J[0] + 1))
  <2> PICK x : x = J[0]
    OBVIOUS
  <2> PICK y : y = J[s]
    OBVIOUS
  <2> DEFINE T == [k \in 0..(m - s) |-> J[s + k]]
  <2>1. Chain(T, m - s) /\ m - s \in Nat /\ s <= m - s /\ s \in 0..m
    BY <1>2, ChainTail
  <2>2. T[0] = y /\ T[s] = J[2 * s]
    BY <2>1
  <2> HIDE DEF T
  <2>3. y = x + s * (c * (4 * x + 1))
    BY <1>2, <2>1 DEF Leaps
  <2>4. J[2 * s] = y + s * (c * (4 * y + 1))
    BY <2>1, <2>2 DEF Leaps
  <2>5. x \in Nat /\ y \in Nat
    BY <1>2, <2>1 DEF Chain
  <2> PICK u : u = c * (4 * x + 1)
    OBVIOUS
  <2> PICK w : w = s * c
    OBVIOUS
  <2>6. u \in Nat /\ w \in Nat /\ s * u \in Nat /\ w * u \in Nat
    BY <2>5
  <2>7. c * (4 * y + 1) = u + 4 * (w * u)
    <3>1. y = x + s * u
      BY <2>3
    <3>2. c * (4 * y + 1) = c * (4 * x + 1) + c * (4 * (s * u))
      BY <2>5, <2>6, <3>1
    <3>3. c * (4 * (s * u)) = 4 * (w * u)
      BY <2>6
    <3>4. QED
      BY <3>2, <3>3
  <2>8. J[2 * s] = x + s * u + s * (u + 4 * (w * u))
    BY <2>3, <2>4, <2>7
  <2>9. d * (4 * x + 1) = u * (2 * w + 1)
    BY <2>5, <2>6
  <2>10. s * (u + 4 * (w * u)) = s * u + s * (4 * (w * u))
    BY <2>6
  <2>11. (2 * s) * (u * (2 * w + 1)) = s * u + s * u + s * (4 * (w * u))
    <3>1. u * (2 * w + 1) = 2 * (w * u) + u
      BY <2>6
    <3>2. (2 * s) * (2 * (w * u) + u) = s * u + s * u + s * (4 * (w * u))
      <4> PICK v : v = w * u
        OBVIOUS
      <4>1. v \in Nat
        BY <2>6
      <4>2. (2 * s) * (2 * v + u) = s * u + s * u + s * (4 * v)
        BY <2>6, <4>1
      <4>3. QED
        BY <4>2
    <3>3. QED
      BY <3>1, <3>2
  <2>12. QED
    BY <2>5, <2>6, <2>8, <2>9, <2>10, <2>11
<1>3. Leaps(2 * s, d)
  BY <1>2 DEF Leaps
<1>4. QED
  BY <1>1, <1>3

LEMMA PowersLeap ==
  ASSUME NEW j \in 0..30
  PROVE  \E c \in Nat : Odd(c) /\ Leaps(PowerOfTwo[j], c)
<1> DEFINE K == {n \in 0..30 : \E c \in Nat : Odd(c) /\ Leaps(PowerOfTwo[n], c)}
<1>1. 0 \in K
  <2>1. Odd(1)
    BY DEF Odd
  <2>2. ASSUME NEW m \in Nat, NEW J, Chain(J, m), 1 <= m
        PROVE  J[1] = J[0] + 1 * (1 * (4 * J[0] + 1))
    <3>1. J[0] \in Nat /\ 1 \in 1..m
      BY <2>2 DEF Chain
    <3>2. J[1] = J[1 - 1] * 5 + 1
      BY <2>2, <3>1 DEF Chain
    <3>3. QED
      BY <3>1, <3>2
  <2>3. Leaps(1, 1)
    BY <2>2 DEF Leaps
  <2>4. QED
    BY <2>1, <2>3, PowerSteps
<1>2. ASSUME NEW n \in 0..(30 - 1), n \in K PROVE n + 1 \in K
  <2>1. PICK c \in Nat : Odd(c) /\ Leaps(PowerOfTwo[n], c)
    BY <1>2
  <2>2. n \in 0..30 /\ n + 1 \in 1..30 /\ n + 1 \in 0..30 /\ (n + 1) - 1 = n
    OBVIOUS
  <2>3. PowerOfTwo[n] \in Nat /\ PowerOfTwo[n + 1] = 2 * PowerOfTwo[n]
    BY <2>2, PowerSteps
  <2>4. PowerOfTwo[n] > 0
    BY <2>2, <2>3, PowersGrow
  <2>5. \E d \in Nat : Odd(d) /\ Leaps(2 * PowerOfTwo[n], d)
    BY <2>1, <2>3, <2>4, LeapDouble
  <2>6. QED
    BY <2>2, <2>3, <2>5
<1>3. \A n \in 0..30 : n \in K
  <2> HIDE DEF K
  <2>1. QED
    BY <1>1, <1>2, Induction
<1>4. QED
  BY <1>3

(* So a chain of s numbers has all remainders modulo s: one that is missed *)
(* modulo 2s in the first s of them is s away from one that is not.        *)
Covers(s) ==
  \A m \in Nat : \A J : Chain(J, m) /\ s <= m + 1 =>
    \A y \in 0..(s - 1) : \E n \in 0..(s - 1) : J[n] % s = y

Splits(a, s, q, r) == a = s * q + r
Halves(a, s, q, r) ==
  \/ (\E t \in Nat : q = 2 * t) /\ a % (2 * s) = r
  \/ (\E t \in Nat : q = 2 * t + 1) /\ a % (2 * s) = r + s

LEMMA RemainderDoubled ==
  ASSUME NEW s \in Nat, s > 0, NEW q \in Nat, NEW r \in 0..(s - 1), NEW a, Splits(a, s, q, r)
  PROVE  Halves(a, s, q, r)
<1>0. a = s * q + r
  BY DEF Splits
<1>1. PICK t \in Nat : q = 2 * t \/ q = 2 * t + 1
  <2>1. q \div 2 \in Nat /\ (q = 2 * (q \div 2) \/ q = 2 * (q \div 2) + 1)
    OBVIOUS
  <2>2. QED
    BY <2>1
<1>2. CASE q = 2 * t
  <2>1. a = (2 * s) * t + r
    BY <1>0, <1>2
  <2>2. r \in 0..((2 * s) - 1) /\ 2 * s \in Nat
    OBVIOUS
  <2>3. a % (2 * s) = r
    BY <2>1, <2>2, RemainderIs
  <2>4. QED
    BY <1>2, <2>3 DEF Halves
<1>3. CASE q = 2 * t + 1
  <2>1. a = (2 * s) * t + (r + s)
    <3>1. s * (2 * t + 1) = (2 * s) * t + s
      OBVIOUS
    <3>2. (2 * s) * t \in Nat
      OBVIOUS
    <3>3. QED
      BY <1>0, <1>3, <3>1, <3>2
  <2>2. r + s \in 0..((2 * s) - 1) /\ 2 * s \in Nat
    OBVIOUS
  <2>3. a % (2 * s) = r + s
    BY <2>1, <2>2, RemainderIs
  <2>4. QED
    BY <1>3, <2>3 DEF Halves
<1>4. QED
  BY <1>1, <1>2, <1>3

LEMMA CoverDouble ==
  ASSUME NEW s \in Nat, s > 0, NEW c \in Nat, Odd(c), Leaps(s, c), Covers(s)
  PROVE  Covers(2 * s)
<1>1. ASSUME NEW m \in Nat, NEW J, Chain(J, m), 2 * s <= m + 1, NEW y \in 0..((2 * s) - 1)
      PROVE  \E n \in 0..((2 * s) - 1) : J[n] % (2 * s) = y
  <2> PICK r : r = IF y < s THEN y ELSE y - s
    OBVIOUS
  <2>1. r \in 0..(s - 1) /\ (y = r \/ y = r + s)
    OBVIOUS
  <2>2. s <= m + 1
    BY <1>1
  <2>3. PICK n \in 0..(s - 1) : J[n] % s = r
    BY <1>1, <2>1, <2>2 DEF Covers
  <2>4. n \in 0..m /\ n \in 0..((2 * s) - 1) /\ n + s \in 0..((2 * s) - 1) /\ n + s \in 0..m
        /\ m - n \in Nat /\ s <= m - n /\ s \in 0..(m - n)
    BY <1>1
  <2> PICK a : a = J[n]
    OBVIOUS
  <2> PICK b : b = J[n + s]
    OBVIOUS
  <2> PICK q : q = a \div s
    OBVIOUS
  <2>5. a \in Nat /\ b \in Nat
    BY <1>1, <2>4 DEF Chain
  <2>6. q \in Nat /\ a = s * q + r
    BY <2>3, <2>5, RemainderType
  <2>7. \E e \in Nat : Odd(e) /\ b = a + s * e
    <3> DEFINE T == [k \in 0..(m - n) |-> J[n + k]]
    <3>1. Chain(T, m - n)
      BY <1>1, <2>4, ChainTail
    <3>2. T[0] = a /\ T[s] = b
      BY <2>4
    <3> HIDE DEF T
    <3>3. b = a + s * (c * (4 * a + 1))
      BY <2>4, <3>1, <3>2 DEF Leaps
    <3>4. Odd(4 * a + 1)
      <4>1. 4 * a + 1 = 2 * (2 * a) + 1 /\ 2 * a \in Nat
        BY <2>5
      <4>2. QED
        BY <4>1 DEF Odd
    <3>5. Odd(c * (4 * a + 1))
      BY <3>4, OddTimes
    <3>6. c * (4 * a + 1) \in Nat
      BY <3>5 DEF Odd
    <3>7. QED
      BY <3>3, <3>5, <3>6
  <2>8. PICK e \in Nat : Odd(e) /\ b = a + s * e
    BY <2>7
  <2>9. b = s * (q + e) + r /\ q + e \in Nat
    <3>1. s * (q + e) = s * q + s * e /\ s * q \in Nat /\ s * e \in Nat
      BY <2>6
    <3>2. QED
      BY <2>1, <2>6, <2>8, <3>1
  <2>10. Halves(a, s, q, r)
    <3>1. Splits(a, s, q, r)
      BY <2>6 DEF Splits
    <3>2. QED
      BY <2>1, <2>6, <3>1, RemainderDoubled
  <2>11. Halves(b, s, q + e, r)
    <3>1. Splits(b, s, q + e, r)
      BY <2>9 DEF Splits
    <3>2. QED
      BY <2>1, <2>9, <3>1, RemainderDoubled
  <2>12. a % (2 * s) = y \/ b % (2 * s) = y
    <3>1. PICK t \in Nat : e = 2 * t + 1
      BY <2>8 DEF Odd
    <3>2. CASE (\E u \in Nat : q = 2 * u) /\ a % (2 * s) = r
      <4>1. PICK u \in Nat : q = 2 * u
        BY <3>2
      <4>2. ~ \E v \in Nat : q + e = 2 * v
        BY <3>1, <4>1
      <4>3. b % (2 * s) = r + s
        BY <2>11, <4>2 DEF Halves
      <4>4. QED
        BY <2>1, <3>2, <4>3
    <3>3. CASE (\E u \in Nat : q = 2 * u + 1) /\ a % (2 * s) = r + s
      <4>1. PICK u \in Nat : q = 2 * u + 1
        BY <3>3
      <4>2. ~ \E v \in Nat : q + e = 2 * v + 1
        BY <3>1, <4>1
      <4>3. b % (2 * s) = r
        BY <2>11, <4>2 DEF Halves
      <4>4. QED
        BY <2>1, <3>3, <4>3
    <3>4. QED
      BY <2>10, <3>2, <3>3 DEF Halves
  <2>13. QED
    BY <2>4, <2>12
<1>2. QED
  BY <1>1 DEF Covers

LEMMA PowersCover ==
  ASSUME NEW j \in 0..30
  PROVE  Covers(PowerOfTwo[j])
<1> DEFINE K == {n \in 0..30 : Covers(PowerOfTwo[n])}
<1>1. 0 \in K
  <2>1. ASSUME NEW m \in Nat, NEW J, Chain(J, m), NEW y \in 0..(1 - 1)
        PROVE  \E n \in 0..(1 - 1) : J[n] % 1 = y
    <3>1. J[0] \in Nat
      BY <2>1 DEF Chain
    <3>2. J[0] % 1 = 0
      BY <3>1
    <3>3. QED
      BY <3>2
  <2>2. Covers(1)
    BY <2>1 DEF Covers
  <2>3. QED
    BY <2>2, PowerSteps
<1>2. ASSUME NEW n \in 0..(30 - 1), n \in K PROVE n + 1 \in K
  <2>1. n \in 0..30 /\ n + 1 \in 1..30 /\ n + 1 \in 0..30 /\ (n + 1) - 1 = n
    OBVIOUS
  <2>2. PowerOfTwo[n] \in Nat /\ PowerOfTwo[n + 1] = 2 * PowerOfTwo[n]
    BY <2>1, PowerSteps
  <2>3. PowerOfTwo[n] > 0
    BY <2>1, <2>2, PowersGrow
  <2>4. PICK c \in Nat : Odd(c) /\ Leaps(PowerOfTwo[n], c)
    BY <2>1, PowersLeap
  <2>5. Covers(2 * PowerOfTwo[n])
    BY <1>2, <2>2, <2>3, <2>4, CoverDouble
  <2>6. QED
    BY <2>1, <2>2, <2>5
<1>3. \A n \in 0..30 : n \in K
  <2> HIDE DEF K
  <2>1. QED
    BY <1>1, <1>2, Induction
<1>4. QED
  BY <1>3

-----------------------------------------------------------------------------
(* Shifting the hash to the right uses it up.                              *)
LEMMA WordType == Word \in Nat /\ Word > 0 /\ Word <= PowerOfTwo[30]
<1>1. PICK j \in 0..30 : Word = PowerOfTwo[j]
  BY ConstantsAssumption
<1>2. PowerOfTwo[j] >= 1 /\ PowerOfTwo[j] \in Nat
  BY PowersGrow, PowerSteps
<1>3. PowerOfTwo[j] <= PowerOfTwo[30]
  BY PowersGrow
<1>4. QED
  BY <1>1, <1>2, <1>3

LEMMA IntRemainder ==
  ASSUME NEW d \in Nat, d > 0, NEW a \in Int
  PROVE  a % d \in 0..(d - 1)
OBVIOUS

LEMMA UnsignedType ==
  ASSUME NEW k \in Keys
  PROVE  Unsigned(Hash[k]) \in 0..(Word - 1)
<1>1. Hash[k] \in Int
  BY ConstantsAssumption
<1>2. QED
  BY <1>1, WordType, IntRemainder DEF Unsigned

LEMMA ShiftsType == Shifts \in 0..6 /\ PowerOfTwo[5 * Shifts] >= Word
<1> DEFINE S == {n \in 0..6 : PowerOfTwo[5 * n] >= Word}
<1>1. 6 \in S
  <2>1. 5 * 6 = 30
    OBVIOUS
  <2>2. PowerOfTwo[30] \in Nat
    BY PowerSteps
  <2>3. PowerOfTwo[5 * 6] >= Word
    BY <2>1, <2>2, WordType
  <2>4. QED
    BY <2>3
<1>2. S \in SUBSET Nat
  OBVIOUS
<1>3. Shifts = Smallest(S)
  BY DEF Shifts
<1>4. Shifts \in S
  <2> HIDE DEF S
  <2>1. QED
    BY <1>1, <1>2, <1>3, SmallestOf
<1>5. QED
  BY <1>4

LEMMA PowerOf32 ==
  ASSUME NEW n \in 0..5
  PROVE  PowerOfTwo[5 * (n + 1)] = 32 * PowerOfTwo[5 * n]
<1> PICK m : m = 5 * n
  OBVIOUS
<1>1. m \in 0..25 /\ 5 * (n + 1) = m + 5
  OBVIOUS
<1>2. ASSUME NEW j \in 0..29 PROVE PowerOfTwo[j + 1] = 2 * PowerOfTwo[j] /\ PowerOfTwo[j] \in Nat
  <2>1. j + 1 \in 1..30 /\ (j + 1) - 1 = j /\ j \in 0..30
    OBVIOUS
  <2>2. QED
    BY <2>1, PowerSteps
<1>3. /\ PowerOfTwo[m + 1] = 2 * PowerOfTwo[m] /\ PowerOfTwo[m] \in Nat
      /\ PowerOfTwo[m + 2] = 2 * PowerOfTwo[m + 1]
      /\ PowerOfTwo[m + 3] = 2 * PowerOfTwo[m + 2]
      /\ PowerOfTwo[m + 4] = 2 * PowerOfTwo[m + 3]
      /\ PowerOfTwo[m + 5] = 2 * PowerOfTwo[m + 4]
  <2>1. /\ m \in 0..29 /\ m + 1 \in 0..29 /\ m + 2 \in 0..29 /\ m + 3 \in 0..29 /\ m + 4 \in 0..29
        /\ (m + 1) + 1 = m + 2 /\ (m + 2) + 1 = m + 3 /\ (m + 3) + 1 = m + 4 /\ (m + 4) + 1 = m + 5
    BY <1>1
  <2>2. PowerOfTwo[m + 1] = 2 * PowerOfTwo[m] /\ PowerOfTwo[m] \in Nat
    BY <1>2, <2>1
  <2>3. PowerOfTwo[(m + 1) + 1] = 2 * PowerOfTwo[m + 1]
    BY <1>2, <2>1
  <2>4. PowerOfTwo[(m + 2) + 1] = 2 * PowerOfTwo[m + 2]
    BY <1>2, <2>1
  <2>5. PowerOfTwo[(m + 3) + 1] = 2 * PowerOfTwo[m + 3]
    BY <1>2, <2>1
  <2>6. PowerOfTwo[(m + 4) + 1] = 2 * PowerOfTwo[m + 4]
    BY <1>2, <2>1
  <2>7. QED
    BY <2>1, <2>2, <2>3, <2>4, <2>5, <2>6
<1>4. QED
  BY <1>1, <1>3

(* The recursive function of Probe.                                        *)
Places2(size) == [i : 0..(size - 1), perturb : Nat]
ProbeHistory(p, h, size) ==
  p = [n \in 0..(size + Shifts) |->
         IF n = 0 THEN [i |-> Unsigned(h) % size, perturb |-> Unsigned(h)]
         ELSE [i |-> (p[n - 1].i * 5 + p[n - 1].perturb \div 32 + 1) % size,
               perturb |-> p[n - 1].perturb \div 32]]

LEMMA ProbeIs ==
  ASSUME NEW k \in Keys, NEW size \in Nat, size > 0
  PROVE  \E p \in [0..(size + Shifts) -> Places2(size)] :
           /\ ProbeHistory(p, Hash[k], size)
           /\ Probe(Hash[k], size) = [n \in 0..(size + Shifts) |-> p[n].i]
<1> PICK h : h = Hash[k]
  OBVIOUS
<1> PICK u : u = Unsigned(h)
  OBVIOUS
<1> PICK N : N = size + Shifts
  OBVIOUS
<1>1. N \in Nat /\ u \in Nat
  BY ShiftsType, UnsignedType, WordType
<1> DEFINE S == Places2(size)
           a == [i |-> u % size, perturb |-> u]
           f(q) == [i |-> (q.i * 5 + q.perturb \div 32 + 1) % size, perturb |-> q.perturb \div 32]
           g == [mk \in S \X (1..N) |-> f(mk[1])]
<1>2. a \in S
  BY <1>1, RemainderType DEF Places2
<1>3. ASSUME NEW q \in S PROVE f(q) \in S
  <2>1. q.i \in Nat /\ q.perturb \in Nat
    BY DEF Places2
  <2>2. q.perturb \div 32 \in Nat
    BY <2>1, RemainderType
  <2>3. q.i * 5 + q.perturb \div 32 + 1 \in Nat
    BY <2>1, <2>2
  <2>4. (q.i * 5 + q.perturb \div 32 + 1) % size \in 0..(size - 1)
    BY <2>3, RemainderType
  <2>5. QED
    BY <2>2, <2>4 DEF Places2
<1>4. g \in [S \X (1..N) -> S]
  <2> HIDE DEF f
  <2>1. \A mk \in S \X (1..N) : mk[1] \in S
    OBVIOUS
  <2>2. QED
    BY <1>3, <2>1
<1>5. PICK p \in [0..N -> S] : IsHistory(p, a, g, N)
  <2> HIDE DEF S, g, a
  <2>1. QED
    BY <1>1, <1>2, <1>4, History
<1>6. ASSUME NEW n \in 0..N PROVE p[n] = IF n = 0 THEN a ELSE f(p[n - 1])
  <2>1. p[n] = IF n = 0 THEN a ELSE g[<<p[n - 1], n>>]
    <3> HIDE DEF g, f
    <3>1. QED
      BY <1>5 DEF IsHistory
  <2>2. n # 0 => p[n - 1] \in S /\ n \in 1..N
    <3> HIDE DEF S
    <3>1. QED
      BY <1>1
  <2>3. n # 0 => g[<<p[n - 1], n>>] = f(p[n - 1])
    <3> HIDE DEF S, f
    <3>1. QED
      BY <2>2
  <2>4. QED
    BY <2>1, <2>3
<1>7. p = [n \in 0..N |-> p[n]]
  OBVIOUS
<1>8. ProbeHistory(p, h, size)
  <2>1. p = [n \in 0..N |-> IF n = 0 THEN a ELSE f(p[n - 1])]
    <3> HIDE DEF f, a
    <3>1. QED
      BY <1>6, <1>7
  <2>2. QED
    BY <2>1 DEF ProbeHistory
<1>9. \E q : ProbeHistory(q, h, size) /\ Probe(h, size) = [n \in 0..N |-> q[n].i]
  <2>1. Probe(h, size) = [n \in 0..N |-> (CHOOSE q : ProbeHistory(q, h, size))[n].i]
    BY DEF Probe, ProbeHistory
  <2>2. ProbeHistory(CHOOSE q : ProbeHistory(q, h, size), h, size)
    BY <1>8
  <2>3. QED
    BY <2>1, <2>2
<1>10. PICK q : ProbeHistory(q, h, size) /\ Probe(h, size) = [n \in 0..N |-> q[n].i]
  BY <1>9
<1>11. q \in [0..N -> S]
  <2>1. q = [n \in 0..N |-> IF n = 0 THEN a ELSE f(q[n - 1])]
    BY <1>10 DEF ProbeHistory
  <2> DEFINE K == {n \in 0..N : q[n] \in S}
  <2>2. 0 \in K
    <3> HIDE DEF S, a, f
    <3>1. 0 \in 0..N
      BY <1>1
    <3>2. QED
      BY <1>2, <2>1, <3>1
  <2>3. ASSUME NEW n \in 0..(N - 1), n \in K PROVE n + 1 \in K
    <3>1. n + 1 \in 0..N /\ n + 1 # 0 /\ (n + 1) - 1 = n
      BY <1>1
    <3> HIDE DEF S, a, f
    <3>2. q[n + 1] = f(q[n])
      BY <2>1, <3>1
    <3>3. QED
      BY <1>3, <2>3, <3>1, <3>2
  <2>4. \A n \in 0..N : n \in K
    <3> HIDE DEF K
    <3>1. QED
      BY <1>1, <2>2, <2>3, Induction
  <2>5. QED
    <3> HIDE DEF S, a, f
    <3>1. QED
      BY <2>1, <2>4
<1>12. QED
  BY <1>10, <1>11

LEMMA RemainderStep ==
  ASSUME NEW s \in Nat, s > 0, NEW a \in Nat
  PROVE  ((a % s) * 5 + 1) % s = (a * 5 + 1) % s
<1>1. a % s \in Nat /\ a \div s \in Nat /\ a = s * (a \div s) + (a % s)
  BY RemainderType
<1>2. PICK q \in Nat, r \in Nat : q = a \div s /\ r = a % s
  BY <1>1
<1>3. r * 5 + 1 \in Nat /\ a = s * q + r
  BY <1>1, <1>2
<1>4. PICK t \in Nat, v \in 0..(s - 1) : v = (r * 5 + 1) % s /\ r * 5 + 1 = s * t + v
  BY <1>3, RemainderType
<1>5. PICK w \in Nat : w = 5 * q + t
  OBVIOUS
<1>6. s * w + v = a * 5 + 1
  <2>1. s * w = 5 * (s * q) + s * t /\ s * q \in Nat /\ s * t \in Nat
    BY <1>5
  <2>2. QED
    BY <1>3, <1>4, <2>1
<1>7. (s * w + v) % s = v
  BY RemainderIs, Zenon
<1>8. QED
  BY <1>2, <1>4, <1>6, <1>7, Zenon

LEMMA QuotientBelow ==
  ASSUME NEW x \in Nat, NEW y \in Nat, y < 32 * x
  PROVE  y \div 32 < x
OBVIOUS

LEMMA PerturbUsedUp ==
  ASSUME NEW k \in Keys, NEW size \in Nat, size > 0,
         NEW p \in [0..(size + Shifts) -> Places2(size)], ProbeHistory(p, Hash[k], size),
         NEW n \in Shifts..(size + Shifts)
  PROVE  p[n].perturb = 0
<1> PICK N : N = size + Shifts
  OBVIOUS
<1>1. N \in Nat /\ Shifts \in 0..6 /\ Shifts \in 0..N
  BY ShiftsType
<1>2. ASSUME NEW m \in 0..N PROVE p[m].perturb \in Nat
  BY <1>2 DEF Places2
<1>3. p[0].perturb < Word
  <2>1. 0 \in 0..(size + Shifts)
    BY <1>1
  <2>2. p[0].perturb = Unsigned(Hash[k])
    <3>1. p[0] = [i |-> Unsigned(Hash[k]) % size, perturb |-> Unsigned(Hash[k])]
      BY <2>1, Zenon DEF ProbeHistory
    <3>2. QED
      BY <3>1
  <2>3. QED
    BY <2>2, UnsignedType, WordType
<1>4. ASSUME NEW m \in 0..(N - 1) PROVE p[m + 1].perturb = p[m].perturb \div 32
  <2>1. m + 1 \in 0..(size + Shifts) /\ m + 1 # 0 /\ (m + 1) - 1 = m
    BY <1>1
  <2>2. QED
    <3>1. PICK j \in 0..(size + Shifts) : j = m + 1
      BY <2>1
    <3>2. j # 0 /\ j - 1 = m
      BY <2>1, <3>1
    <3>3. p[j] = [i |-> (p[j - 1].i * 5 + p[j - 1].perturb \div 32 + 1) % size,
                  perturb |-> p[j - 1].perturb \div 32]
      BY <3>2, Zenon DEF ProbeHistory
    <3>4. QED
      BY <3>1, <3>2, <3>3
<1> DEFINE K == {m \in 0..Shifts : p[m].perturb < PowerOfTwo[5 * (Shifts - m)]}
<1>5. 0 \in K
  <2>1. PowerOfTwo[5 * (Shifts - 0)] >= Word /\ 0 \in 0..Shifts /\ 5 * Shifts \in 0..30
    BY <1>1, ShiftsType
  <2>2. PowerOfTwo[5 * (Shifts - 0)] \in Nat
    <3>1. 5 * (Shifts - 0) \in 0..30
      BY <1>1
    <3>2. QED
      BY <3>1, PowerSteps
  <2>3. p[0].perturb \in Nat
    BY <1>1, <1>2
  <2>4. QED
    BY <1>3, <2>1, <2>2, <2>3, WordType
<1>6. ASSUME NEW m \in 0..(Shifts - 1), m \in K PROVE m + 1 \in K
  <2> PICK e : e = Shifts - (m + 1)
    OBVIOUS
  <2>1. e \in 0..5 /\ Shifts - m = e + 1 /\ m \in 0..(N - 1) /\ m \in 0..N /\ m + 1 \in 0..Shifts
        /\ 5 * e \in 0..30
    BY <1>1
  <2> PICK x : x = PowerOfTwo[5 * e]
    OBVIOUS
  <2>2. PowerOfTwo[5 * (Shifts - m)] = 32 * x
    BY <2>1, PowerOf32
  <2>3. x \in Nat
    BY <2>1, PowerSteps
  <2> PICK y : y = p[m].perturb
    OBVIOUS
  <2>4. y \in Nat /\ y < 32 * x
    BY <1>2, <1>6, <2>1, <2>2
  <2>5. p[m + 1].perturb = y \div 32
    BY <1>4, <2>1
  <2>6. y \div 32 < x
    BY <2>3, <2>4, QuotientBelow, Zenon
  <2>7. QED
    BY <2>1, <2>5, <2>6
<1>7. \A m \in 0..Shifts : m \in K
  <2> HIDE DEF K
  <2>1. QED
    BY <1>1, <1>5, <1>6, Induction
<1>8. p[Shifts].perturb = 0
  <2>1. Shifts \in K
    BY <1>1, <1>7
  <2>2. 5 * (Shifts - Shifts) = 0
    BY <1>1
  <2>3. p[Shifts].perturb < 1
    BY <2>1, <2>2, PowerSteps
  <2>4. QED
    BY <1>1, <1>2, <2>3
<1> DEFINE M == {m \in 0..size : p[Shifts + m].perturb = 0}
<1>9. 0 \in M
  BY <1>1, <1>8
<1>10. ASSUME NEW m \in 0..(size - 1), m \in M PROVE m + 1 \in M
  <2>1. Shifts + m \in 0..(N - 1) /\ (Shifts + m) + 1 = Shifts + (m + 1) /\ m + 1 \in 0..size
    BY <1>1
  <2>2. p[Shifts + (m + 1)].perturb = p[Shifts + m].perturb \div 32
    BY <1>4, <2>1
  <2>3. QED
    BY <1>10, <2>1, <2>2
<1>11. \A m \in 0..size : m \in M
  <2> HIDE DEF M
  <2>1. QED
    BY <1>9, <1>10, Induction
<1>12. n - Shifts \in 0..size /\ Shifts + (n - Shifts) = n
  BY <1>1
<1>13. QED
  BY <1>11, <1>12

IsPower(size) == \E j \in 0..30 : size = PowerOfTwo[j]
IsProbe(p, k, size) ==
  p \in [0..(size + Shifts) -> Places2(size)] /\ ProbeHistory(p, Hash[k], size)

(* Once perturb is used up, a probe is the chain i -> 5 i + 1.             *)
LEMMA ProbeStep ==
  ASSUME NEW k \in Keys, NEW size \in Nat, size > 0, NEW p, IsProbe(p, k, size),
         NEW n \in 0..(size - 1)
  PROVE  p[Shifts + n].i \in Nat /\ p[Shifts + (n + 1)].i = (p[Shifts + n].i * 5 + 1) % size
<1>1. /\ Shifts + n \in Shifts..(size + Shifts) /\ Shifts + n \in 0..(size + Shifts)
      /\ Shifts + (n + 1) \in 0..(size + Shifts) /\ Shifts + (n + 1) # 0
      /\ Shifts + (n + 1) - 1 = Shifts + n /\ Shifts + n \in Nat
  BY ShiftsType
<1>2. PICK m \in Nat : m = Shifts + n
  BY <1>1
<1>3. PICK j \in 0..(size + Shifts) : j = Shifts + (n + 1)
  BY <1>1
<1>4. m \in Shifts..(size + Shifts) /\ m \in 0..(size + Shifts) /\ j # 0 /\ j - 1 = m
  BY <1>1, <1>2, <1>3, ShiftsType
<1>5. p \in [0..(size + Shifts) -> Places2(size)] /\ ProbeHistory(p, Hash[k], size)
  BY DEF IsProbe
<1>6. p[m].perturb = 0
  BY <1>4, <1>5, PerturbUsedUp, Zenon
<1>7. p[m].i \in Nat
  BY <1>4, <1>5 DEF Places2
<1>8. p[j].i = (p[m].i * 5 + p[m].perturb \div 32 + 1) % size
  <2>1. p[j] = [i |-> (p[j - 1].i * 5 + p[j - 1].perturb \div 32 + 1) % size,
                perturb |-> p[j - 1].perturb \div 32]
    BY <1>4, <1>5, Zenon DEF ProbeHistory
  <2>2. QED
    BY <1>4, <2>1
<1>9. p[m].i * 5 + p[m].perturb \div 32 + 1 = p[m].i * 5 + 1
  BY <1>6, <1>7
<1>10. QED
  BY <1>2, <1>3, <1>7, <1>8, <1>9

Hits(J, s, y) == \E n \in 0..(s - 1) : J[n] % s = y

LEMMA ChainCovers ==
  ASSUME NEW s \in Nat, Covers(s), NEW m \in Nat, NEW J, Chain(J, m), s <= m + 1,
         NEW y \in 0..(s - 1)
  PROVE  Hits(J, s, y)
BY DEF Covers, Hits

LEMMA ProbeSlots ==
  ASSUME NEW k \in Keys, NEW size \in Nat, IsPower(size)
  PROVE  /\ Probe(Hash[k], size) \in [0..(size + Shifts) -> 0..(size - 1)]
         /\ \A y \in 0..(size - 1) : \E n \in 0..(size + Shifts) : Probe(Hash[k], size)[n] = y
<1>a. PICK N : N = size + Shifts
  OBVIOUS
<1>1. N \in Nat /\ Shifts \in 0..6 /\ Shifts \in 0..N /\ size > 0
  BY <1>a, ShiftsType, PowersGrow DEF IsPower
<1>2. PICK p \in [0..N -> Places2(size)] :
        ProbeHistory(p, Hash[k], size) /\ Probe(Hash[k], size) = [n \in 0..N |-> p[n].i]
  BY <1>a, <1>1, ProbeIs
<1>2a. IsProbe(p, k, size)
  BY <1>a, <1>2 DEF IsProbe
<1>3. ASSUME NEW n \in 0..N PROVE p[n].i \in 0..(size - 1) /\ p[n].perturb \in Nat
  BY DEF Places2
<1> DEFINE g == [mk \in Nat \X (1..size) |-> mk[1] * 5 + 1]
<1>4. g \in [Nat \X (1..size) -> Nat]
  OBVIOUS
<1>b. PICK a : a = p[Shifts].i
  OBVIOUS
<1>5. a \in Nat /\ a \in 0..(size - 1)
  BY <1>b, <1>1, <1>3
<1>6. PICK J \in [0..size -> Nat] : IsHistory(J, a, g, size)
  <2> HIDE DEF g
  <2>1. QED
    BY <1>4, <1>5, History
<1>7. J[0] = a /\ \A n \in 1..size : J[n] = J[n - 1] * 5 + 1
  <2>1. \A n \in 0..size : J[n] = IF n = 0 THEN a ELSE g[<<J[n - 1], n>>]
    <3> HIDE DEF g
    <3>1. QED
      BY <1>6 DEF IsHistory
  <2>2. ASSUME NEW n \in 1..size PROVE J[n] = J[n - 1] * 5 + 1
    <3>1. n \in 0..size /\ n # 0 /\ n - 1 \in 0..size
      OBVIOUS
    <3>2. J[n - 1] \in Nat
      BY <3>1
    <3>3. QED
      BY <2>1, <3>1, <3>2
  <2>3. J[0] = a
    <3> HIDE DEF g
    <3>1. 0 \in 0..size
      OBVIOUS
    <3>2. QED
      BY <2>1, <3>1
  <2>4. QED
    BY <2>2, <2>3
<1>8. Chain(J, size)
  BY <1>7 DEF Chain
<1> DEFINE K == {n \in 0..size : p[Shifts + n].i = J[n] % size}
<1>9. 0 \in K
  <2>1. (size * 0 + a) % size = a
    BY <1>5, RemainderIs
  <2>2. size * 0 + a = a
    BY <1>5
  <2>3. QED
    BY <1>b, <1>1, <1>7, <2>1, <2>2
<1>10. ASSUME NEW n \in 0..(size - 1), n \in K PROVE n + 1 \in K
  <2>1. /\ Shifts + n \in 0..N /\ Shifts + (n + 1) \in 0..N /\ Shifts + (n + 1) # 0
        /\ (Shifts + (n + 1)) - 1 = Shifts + n /\ Shifts + n \in Shifts..N
        /\ n + 1 \in 1..size /\ (n + 1) - 1 = n /\ n \in 0..size /\ n + 1 \in 0..size
    BY <1>a, <1>1
  <2>2. p[Shifts + (n + 1)].i = (p[Shifts + n].i * 5 + 1) % size
    BY <1>1, <1>2a, <2>1, ProbeStep
  <2>3. p[Shifts + n].i = J[n] % size /\ J[n] \in Nat
    BY <1>10, <2>1
  <2>4. ((J[n] % size) * 5 + 1) % size = (J[n] * 5 + 1) % size
    BY <1>1, <2>3, RemainderStep, Zenon
  <2>5. J[n + 1] = J[n] * 5 + 1
    BY <1>7, <2>1
  <2>6. p[Shifts + (n + 1)].i = J[n + 1] % size
    BY <2>2, <2>3, <2>4, <2>5, Zenon
  <2>7. QED
    BY <2>1, <2>6
<1>11. \A n \in 0..size : n \in K
  <2> HIDE DEF K
  <2>1. QED
    BY <1>9, <1>10, Induction
<1>12. ASSUME NEW y \in 0..(size - 1)
       PROVE  \E n \in 0..N : Probe(Hash[k], size)[n] = y
  <2>1. Covers(size)
    BY PowersCover DEF IsPower
  <2>2. PICK n \in 0..(size - 1) : J[n] % size = y
    <3>1. size <= size + 1
      OBVIOUS
    <3>2. Hits(J, size, y)
      BY <1>8, <2>1, <3>1, ChainCovers
    <3>3. QED
      BY <3>2 DEF Hits
  <2>3. n \in 0..size /\ Shifts + n \in 0..N
    BY <1>a, <1>1
  <2>4. p[Shifts + n].i = y
    BY <1>11, <2>2, <2>3
  <2>5. Probe(Hash[k], size)[Shifts + n] = y
    BY <1>2, <2>3, <2>4
  <2>6. QED
    BY <2>3, <2>5
<1>13. Probe(Hash[k], size) \in [0..N -> 0..(size - 1)]
  BY <1>2, <1>3
<1>14. QED
  BY <1>a, <1>12, <1>13

-----------------------------------------------------------------------------
(* The slots of a table.  A path is a probe sequence that reaches every    *)
(* slot; I are the slots, L the indexes of the entries that are not empty, *)
(* P[ix] the path of the entry at ix.                                      *)

IsPath(p, size) == \E N \in Nat : /\ p \in [0..N -> 0..(size - 1)]
                                  /\ \A y \in 0..(size - 1) : \E n \in 0..N : p[n] = y

LEMMA SizesType ==
  ASSUME NEW size \in Sizes
  PROVE  size \in Nat /\ size >= 2 /\ \E j \in 0..30 : size = PowerOfTwo[j]
<1>1. PICK j \in 0..30 : size = PowerOfTwo[j]
  BY DEF Sizes
<1>2. PICK i \in 1..30 : D_MINSIZE = PowerOfTwo[i]
  BY ConstantsAssumption
<1>3. D_MINSIZE \in Nat /\ D_MINSIZE >= 2
  <2>1. i - 1 \in 0..30
    OBVIOUS
  <2>2. PowerOfTwo[i - 1] >= 1 /\ PowerOfTwo[i - 1] \in Nat
    BY <2>1, PowersGrow, PowerSteps
  <2>3. PowerOfTwo[i] = 2 * PowerOfTwo[i - 1]
    BY PowerSteps
  <2>4. QED
    BY <1>2, <2>2, <2>3
<1>4. size \in D_MINSIZE..MaxSize /\ MaxSize \in Nat
  BY ConstantsAssumption DEF Sizes
<1>5. QED
  BY <1>1, <1>3, <1>4

LEMMA PathIs ==
  ASSUME NEW k \in Keys, NEW size \in Sizes
  PROVE  IsPath(Probes[Hash[k]][size], size)
<1>1. Probes[Hash[k]][size] = Probe(Hash[k], size)
  <2>1. Hash[k] \in {Hash[l] : l \in Keys}
    OBVIOUS
  <2>2. QED
    BY <2>1 DEF Probes
<1>2. IsPower(size)
  BY SizesType, Zenon DEF IsPower
<1>3. size \in Nat
  BY SizesType
<1>4. /\ Probe(Hash[k], size) \in [0..(size + Shifts) -> 0..(size - 1)]
      /\ \A y \in 0..(size - 1) : \E n \in 0..(size + Shifts) : Probe(Hash[k], size)[n] = y
  BY <1>2, <1>3, ProbeSlots, Zenon
<1>5. size + Shifts \in Nat
  BY <1>3, ShiftsType
<1>6. QED
  BY <1>1, <1>4, <1>5 DEF IsPath

(* slot is the first of the path p whose index is one of stops.            *)
First(p, I, stops, slot) ==
  \E n \in DOMAIN p : /\ slot = p[n] /\ I[p[n]] \in stops
                      /\ \A m \in 0..(n - 1) : I[p[m]] \notin stops

LEMMA FirstSlotFinds ==
  ASSUME NEW k \in Keys, NEW size \in Sizes, NEW I, DOMAIN I = 0..(size - 1), NEW stops,
         NEW y \in 0..(size - 1), I[y] \in stops
  PROVE  /\ First(Probes[Hash[k]][size], I, stops, FirstSlot(I, Hash[k], stops))
         /\ FirstSlot(I, Hash[k], stops) \in 0..(size - 1)
         /\ I[FirstSlot(I, Hash[k], stops)] \in stops
<1>0. IsPath(Probes[Hash[k]][size], size)
  BY PathIs, Zenon
<1> PICK p : p = Probes[Hash[k]][size]
  OBVIOUS
<1>1. PICK N \in Nat : /\ p \in [0..N -> 0..(size - 1)]
                       /\ \A z \in 0..(size - 1) : \E n \in 0..N : p[n] = z
  BY <1>0 DEF IsPath
<1>2. size \in Nat
  BY SizesType
<1>3. Cardinality(DOMAIN I) = size
  <2>1. Cardinality(0..(size - 1)) = size
    BY <1>2, FS_Interval
  <2>2. QED
    BY <2>1
<1> DEFINE S == {n \in 0..N : I[p[n]] \in stops}
           s == Smallest(S)
           F == FirstSlot(I, Hash[k], stops)
<1>4. PICK e \in 0..N : e \in S
  BY <1>1
<1>5. S \in SUBSET Nat
  OBVIOUS
<1>6. s \in S /\ \A t \in S : s <= t
  <2> HIDE DEF S
  <2>1. QED
    BY <1>4, <1>5, SmallestOf
<1> DEFINE T(n) == n \in DOMAIN p /\ (I[p[n]] \in stops)
                   /\ \A m \in 0..(n - 1) : ~ (I[p[m]] \in stops)
<1>7. T(s)
  <2>1. \A m \in 0..(s - 1) : m \notin S
    <3> HIDE DEF S, s
    <3>1. s \in Nat
      BY <1>5, <1>6
    <3>2. ASSUME NEW m \in 0..(s - 1), m \in S PROVE FALSE
      BY <1>5, <1>6, <3>1, <3>2
    <3>3. QED
      BY <3>2
  <2>2. s \in 0..N
    BY <1>6
  <2> HIDE DEF s
  <2>3. I[p[s]] \in stops
    BY <1>6
  <2>4. ASSUME NEW m \in 0..(s - 1) PROVE ~ (I[p[m]] \in stops)
    <3>1. m \in 0..N
      BY <2>2
    <3>2. QED
      BY <2>1, <3>1
  <2>5. s \in DOMAIN p
    BY <1>1, <2>2
  <2>6. QED
    BY <2>3, <2>4, <2>5
<1>8. F = p[CHOOSE n \in DOMAIN p : (I[p[n]] \in stops)
                                    /\ \A m \in 0..(n - 1) : ~ (I[p[m]] \in stops)]
  <2>1. ~ \A n \in DOMAIN p : ~ (I[p[n]] \in stops)
    BY <1>7, Zenon
  <2>2. QED
    BY <1>3, <2>1 DEF FirstSlot
<1>9. PICK n : T(n) /\ F = p[n]
  <2>1. \E n \in DOMAIN p : (I[p[n]] \in stops) /\ \A m \in 0..(n - 1) : ~ (I[p[m]] \in stops)
    BY <1>7, Zenon
  <2> DEFINE c == CHOOSE n \in DOMAIN p : (I[p[n]] \in stops)
                                          /\ \A m \in 0..(n - 1) : ~ (I[p[m]] \in stops)
  <2>2. T(c)
    BY <2>1, Zenon
  <2>3. QED
    BY <1>8, <2>2, Zenon
<1>10. First(p, I, stops, F)
  BY <1>9 DEF First
<1>11. F \in 0..(size - 1) /\ I[F] \in stops
  BY <1>1, <1>9
<1>12. QED
  BY <1>10, <1>11

(* Every index in a slot is one of L, each of L is in one slot, and on its *)
(* path no slot before that one was never used.                            *)
Reach(I, p, ix) == \E n \in DOMAIN p : I[p[n]] = ix /\ \A m \in 0..(n - 1) : I[p[m]] # EMPTY
Filing(I, L, P, size) ==
  /\ L \in SUBSET Nat
  /\ I \in [0..(size - 1) -> Int]
  /\ \A i \in 0..(size - 1) : I[i] \in L \/ I[i] = EMPTY \/ I[i] = DUMMY
  /\ \A i, j \in 0..(size - 1) : I[i] = I[j] /\ I[i] \in L => i = j
  /\ \A ix \in L : IsPath(P[ix], size) /\ Reach(I, P[ix], ix)

LEMMA Placed ==
  ASSUME NEW size \in Nat, NEW I, NEW L, NEW P, Filing(I, L, P, size),
         NEW ix \in Nat, ix \notin L, NEW Q, \A jx \in L : Q[jx] = P[jx], IsPath(Q[ix], size),
         NEW stops \in SUBSET {EMPTY, DUMMY}, EMPTY \in stops,
         NEW slot, First(Q[ix], I, stops, slot)
  PROVE  Filing([I EXCEPT ![slot] = ix], L \cup {ix}, Q, size)
<1> PICK J : J = [I EXCEPT ![slot] = ix]
  OBVIOUS
<1> PICK q : q = Q[ix]
  OBVIOUS
<1>1. PICK n \in DOMAIN q : slot = q[n] /\ I[slot] \in stops
                            /\ \A m \in 0..(n - 1) : I[q[m]] \notin stops
  BY DEF First
<1>2. I \in [0..(size - 1) -> Int] /\ L \in SUBSET Nat
  BY DEF Filing
<1>3. PICK N \in Nat : q \in [0..N -> 0..(size - 1)]
  BY DEF IsPath
<1>4. slot \in 0..(size - 1) /\ n \in 0..N
  BY <1>1, <1>3
<1>5. /\ J \in [0..(size - 1) -> Int] /\ J[slot] = ix
      /\ \A i \in 0..(size - 1) : i # slot => J[i] = I[i]
  BY <1>2, <1>4
<1>6. I[slot] \notin L /\ I[slot] < 0 /\ EMPTY < 0
  <2>1. I[slot] \in {EMPTY, DUMMY}
    BY <1>1, Zenon
  <2>2. I[slot] = -1 \/ I[slot] = -2
    BY <2>1 DEF EMPTY, DUMMY
  <2>3. QED
    BY <1>2, <2>2 DEF EMPTY
<1>7. ASSUME NEW i \in 0..(size - 1)
      PROVE  J[i] \in L \cup {ix} \/ J[i] = EMPTY \/ J[i] = DUMMY
  BY <1>5 DEF Filing
<1>8. ASSUME NEW i \in 0..(size - 1), NEW j \in 0..(size - 1), J[i] = J[j], J[i] \in L \cup {ix}
      PROVE  i = j
  <2>1. \A h \in 0..(size - 1) : h # slot => J[h] # ix
    <3>1. \A h \in 0..(size - 1) : I[h] \in L \/ I[h] < 0
      BY DEF Filing, EMPTY, DUMMY
    <3>2. \A h \in 0..(size - 1) : I[h] # ix
      BY <3>1
    <3>3. QED
      BY <1>5, <3>2
  <2>2. CASE i = slot \/ j = slot
    BY <1>5, <1>8, <2>1, <2>2
  <2>3. CASE i # slot /\ j # slot
    <3>1. J[i] = I[i] /\ J[j] = I[j] /\ J[i] # ix
      BY <1>5, <2>1, <2>3
    <3>2. I[i] = I[j] /\ I[i] \in L
      BY <1>8, <3>1
    <3>3. QED
      BY <3>2 DEF Filing
  <2>4. QED
    BY <2>2, <2>3
<1>9. Reach(J, Q[ix], ix)
  <2>1. ASSUME NEW m \in 0..(n - 1) PROVE J[q[m]] # EMPTY
    <3>1. q[m] \in 0..(size - 1) /\ I[q[m]] # EMPTY
      BY <1>1, <1>3, <1>4
    <3>2. QED
      BY <1>5, <1>6, <3>1
  <2>2. J[q[n]] = ix
    BY <1>1, <1>5
  <2>3. QED
    BY <2>1, <2>2 DEF Reach
<1>10. ASSUME NEW jx \in L PROVE IsPath(Q[jx], size) /\ Reach(J, Q[jx], jx)
  <2> PICK p : p = P[jx]
    OBVIOUS
  <2>1. IsPath(p, size) /\ Reach(I, p, jx) /\ Q[jx] = p
    BY DEF Filing
  <2>2. PICK M \in Nat : p \in [0..M -> 0..(size - 1)]
    BY <2>1 DEF IsPath
  <2>3. PICK k \in DOMAIN p : I[p[k]] = jx /\ \A m \in 0..(k - 1) : I[p[m]] # EMPTY
    BY <2>1 DEF Reach
  <2>4. p[k] # slot /\ p[k] \in 0..(size - 1) /\ k \in 0..M
    BY <1>6, <2>2, <2>3
  <2>5. J[p[k]] = jx
    BY <1>5, <2>3, <2>4
  <2>6. ASSUME NEW m \in 0..(k - 1) PROVE J[p[m]] # EMPTY
    <3>1. p[m] \in 0..(size - 1) /\ I[p[m]] # EMPTY
      BY <2>2, <2>3, <2>4
    <3>2. QED
      BY <1>5, <1>6, <3>1
  <2>7. Reach(J, p, jx)
    BY <2>3, <2>5, <2>6 DEF Reach
  <2>8. QED
    BY <2>1, <2>7
<1>11. \A jx \in L \cup {ix} : IsPath(Q[jx], size) /\ Reach(J, Q[jx], jx)
  BY <1>9, <1>10
<1>12. L \cup {ix} \in SUBSET Nat
  BY <1>2
<1>13. Filing(J, L \cup {ix}, Q, size)
  BY <1>5, <1>7, <1>8, <1>11, <1>12 DEF Filing
<1>14. QED
  BY <1>13

LEMMA Found ==
  ASSUME NEW size \in Nat, NEW I, NEW L, NEW P, Filing(I, L, P, size),
         NEW ix \in L, NEW S, ix \in S, NEW slot, First(P[ix], I, S \cup {EMPTY}, slot)
  PROVE  slot \in 0..(size - 1) /\ (I[slot] \in L \/ I[slot] = DUMMY) /\ I[slot] \in S \cup {EMPTY}
<1> PICK p : p = P[ix]
  OBVIOUS
<1>1. PICK n \in DOMAIN p : slot = p[n] /\ I[slot] \in S \cup {EMPTY}
                            /\ \A m \in 0..(n - 1) : I[p[m]] \notin S \cup {EMPTY}
  BY DEF First
<1>2. IsPath(p, size) /\ Reach(I, p, ix)
  BY DEF Filing
<1>3. PICK N \in Nat : p \in [0..N -> 0..(size - 1)]
  BY <1>2 DEF IsPath
<1>4. PICK k \in DOMAIN p : I[p[k]] = ix /\ \A m \in 0..(k - 1) : I[p[m]] # EMPTY
  BY <1>2 DEF Reach
<1>5. n \in 0..N /\ k \in 0..N /\ slot \in 0..(size - 1)
  BY <1>1, <1>3
<1>6. ~ (k < n)
  <2>1. k < n => k \in 0..(n - 1)
    BY <1>5
  <2>2. QED
    BY <1>1, <1>4, <2>1
<1>7. I[slot] # EMPTY
  <2>1. CASE n = k
    <3>1. ix \in Nat
      BY DEF Filing
    <3>2. QED
      BY <1>1, <1>4, <2>1, <3>1 DEF EMPTY
  <2>2. CASE n # k
    <3>1. n \in 0..(k - 1)
      BY <1>5, <1>6, <2>2
    <3>2. QED
      BY <1>1, <1>4, <3>1
  <2>3. QED
    BY <2>1, <2>2
<1>8. QED
  BY <1>1, <1>5, <1>7 DEF Filing

AgreeOn(Q, P, L) == \A jx \in L : Q[jx] = P[jx]

Dropping(I, L, P, ix, slot, M, Q) ==
  ix \in L /\ M = L \ {ix} /\ First(P[ix], I, {ix, EMPTY}, slot) /\ AgreeOn(Q, P, M)

Emptied(I, ix, slot, M, Q, size) ==
  /\ slot \in 0..(size - 1) /\ I[slot] = ix
  /\ Filing([I EXCEPT ![slot] = DUMMY], M, Q, size)

LEMMA Dropped ==
  ASSUME NEW size \in Nat, NEW I, NEW L, NEW P, Filing(I, L, P, size),
         NEW ix, NEW slot, NEW M, NEW Q, Dropping(I, L, P, ix, slot, M, Q)
  PROVE  Emptied(I, ix, slot, M, Q, size)
<1> PICK J : J = [I EXCEPT ![slot] = DUMMY]
  OBVIOUS
<1>0. ix \in L /\ M = L \ {ix} /\ First(P[ix], I, {ix, EMPTY}, slot) /\ AgreeOn(Q, P, M)
  BY DEF Dropping
<1>1. slot \in 0..(size - 1) /\ (I[slot] \in L \/ I[slot] = DUMMY) /\ I[slot] \in {ix} \cup {EMPTY}
  <2>1. {ix, EMPTY} = {ix} \cup {EMPTY}
    OBVIOUS
  <2>2. First(P[ix], I, {ix} \cup {EMPTY}, slot) /\ ix \in {ix}
    BY <1>0, <2>1
  <2>3. QED
    BY <1>0, <2>2, Found
<1>2. I \in [0..(size - 1) -> Int] /\ L \in SUBSET Nat
  BY DEF Filing
<1>3. I[slot] = ix
  BY <1>1, <1>2 DEF EMPTY, DUMMY
<1>4. J \in [0..(size - 1) -> Int] /\ J[slot] = DUMMY
      /\ \A i \in 0..(size - 1) : i # slot => J[i] = I[i]
  BY <1>1, <1>2 DEF DUMMY
<1>5. ASSUME NEW i \in 0..(size - 1) PROVE i # slot => I[i] # ix
  BY <1>0, <1>1, <1>3 DEF Filing
<1>6. ASSUME NEW i \in 0..(size - 1)
      PROVE  J[i] \in L \ {ix} \/ J[i] = EMPTY \/ J[i] = DUMMY
  BY <1>4, <1>5 DEF Filing
<1>7. DUMMY \notin L
  BY <1>2 DEF DUMMY
<1>8. ASSUME NEW i \in 0..(size - 1), NEW j \in 0..(size - 1), J[i] = J[j], J[i] \in L \ {ix}
      PROVE  i = j
  <2>1. i # slot /\ j # slot
    BY <1>4, <1>7, <1>8
  <2>2. I[i] = I[j] /\ I[i] \in L
    BY <1>4, <1>8, <2>1
  <2>3. QED
    BY <2>2 DEF Filing
<1>9. ASSUME NEW jx \in L \ {ix} PROVE IsPath(Q[jx], size) /\ Reach(J, Q[jx], jx)
  <2> PICK p : p = P[jx]
    OBVIOUS
  <2>1. IsPath(p, size) /\ Reach(I, p, jx) /\ Q[jx] = p
    BY <1>0 DEF Filing, AgreeOn
  <2>2. PICK N \in Nat : p \in [0..N -> 0..(size - 1)]
    BY <2>1 DEF IsPath
  <2>3. PICK k \in DOMAIN p : I[p[k]] = jx /\ \A m \in 0..(k - 1) : I[p[m]] # EMPTY
    BY <2>1 DEF Reach
  <2>4. p[k] # slot /\ p[k] \in 0..(size - 1) /\ k \in 0..N
    BY <1>3, <2>2, <2>3
  <2>5. J[p[k]] = jx
    BY <1>4, <2>3, <2>4
  <2>6. ASSUME NEW m \in 0..(k - 1) PROVE J[p[m]] # EMPTY
    <3>1. p[m] \in 0..(size - 1) /\ I[p[m]] # EMPTY
      BY <2>2, <2>3, <2>4
    <3>2. DUMMY # EMPTY
      BY DEF DUMMY, EMPTY
    <3>3. QED
      BY <1>4, <3>1, <3>2
  <2>7. Reach(J, p, jx)
    BY <2>3, <2>5, <2>6 DEF Reach
  <2>8. QED
    BY <2>1, <2>7
<1>10. L \ {ix} \in SUBSET Nat
  BY <1>2
<1>11. Filing(J, L \ {ix}, Q, size)
  BY <1>4, <1>6, <1>8, <1>9, <1>10 DEF Filing
<1>12. QED
  BY <1>0, <1>1, <1>3, <1>11 DEF Emptied

-----------------------------------------------------------------------------
(* The entries that are not empty, in their order.                         *)

Lives(e, n) == {ix \in 0..(n - 1) : e[ix].hash # EMPTY}
Increasing(f, n) == \A a, b \in 1..n : a < b => f[a] < f[b]

(* f tells where in L the items of s are.                                  *)
Listing(f, s, L, e) ==
  /\ f \in [1..Len(s) -> L] /\ Increasing(f, Len(s))
  /\ \A ix \in L : \E n \in 1..Len(s) : f[n] = ix
  /\ \A n \in 1..Len(s) : s[n] = e[f[n]]

LEMMA ListingGrows ==
  ASSUME NEW S, NEW s \in Seq(S), NEW N \in Nat, NEW e \in [0..(N - 1) -> S],
         NEW m \in 0..(N - 1), NEW f, Listing(f, s, Lives(e, m), e),
         NEW t, t = IF e[m].hash = EMPTY THEN s ELSE Append(s, e[m])
  PROVE  t \in Seq(S) /\ \E g : Listing(g, t, Lives(e, m + 1), e)
<1> PICK L : L = Lives(e, m)
  OBVIOUS
<1>0. L \in SUBSET (0..(m - 1)) /\ m \in Nat
  BY DEF Lives
<1>1. CASE e[m].hash = EMPTY
  <2>1. Lives(e, m + 1) = L
    BY <1>1 DEF Lives
  <2>2. QED
    BY <1>1, <2>1
<1>2. CASE e[m].hash # EMPTY
  <2> PICK c : c = Len(s)
    OBVIOUS
  <2> DEFINE g == [n \in 1..(c + 1) |-> IF n = c + 1 THEN m ELSE f[n]]
  <2>1. Lives(e, m + 1) = L \cup {m}
    BY <1>2 DEF Lives
  <2>2. e[m] \in S /\ t = Append(s, e[m]) /\ c \in Nat
    BY <1>2
  <2>3. t \in Seq(S) /\ Len(t) = c + 1 /\ t[c + 1] = e[m] /\ \A n \in 1..c : t[n] = s[n]
    BY <2>2
  <2>4. f \in [1..c -> L] /\ \A a, b \in 1..c : a < b => f[a] < f[b]
    BY DEF Listing, Increasing
  <2>5. g[c + 1] = m /\ \A n \in 1..c : g[n] = f[n]
    BY <2>2
  <2>6. g \in [1..(c + 1) -> L \cup {m}]
    <3>1. \A n \in 1..(c + 1) : n = c + 1 \/ n \in 1..c
      BY <2>2
    <3>2. QED
      BY <2>4, <3>1
  <2> HIDE DEF g
  <2>7. ASSUME NEW a \in 1..(c + 1), NEW b \in 1..(c + 1), a < b
        PROVE  g[a] < g[b]
    <3>1. a \in 1..c
      BY <2>2, <2>7
    <3>2. g[a] = f[a] /\ f[a] \in L
      BY <2>4, <2>5, <3>1
    <3>3. CASE b = c + 1
      BY <1>0, <2>5, <3>2, <3>3
    <3>4. CASE b \in 1..c
      BY <2>4, <2>5, <2>7, <3>1, <3>2, <3>4
    <3>5. QED
      BY <2>2, <3>3, <3>4
  <2>8. ASSUME NEW ix \in L \cup {m} PROVE \E n \in 1..(c + 1) : g[n] = ix
    <3>1. CASE ix = m
      BY <2>2, <2>5, <3>1
    <3>2. CASE ix \in L
      <4>1. PICK n \in 1..c : f[n] = ix
        BY <3>2 DEF Listing
      <4>2. QED
        BY <2>2, <2>5, <4>1
    <3>3. QED
      BY <3>1, <3>2
  <2>9. ASSUME NEW n \in 1..(c + 1) PROVE t[n] = e[g[n]]
    <3>1. CASE n = c + 1
      BY <2>3, <2>5, <3>1
    <3>2. CASE n \in 1..c
      <4>1. s[n] = e[f[n]]
        BY <3>2 DEF Listing
      <4>2. QED
        BY <2>3, <2>5, <3>2, <4>1
    <3>3. QED
      BY <2>2, <3>1, <3>2
  <2>10. Listing(g, t, L \cup {m}, e)
    BY <2>3, <2>6, <2>7, <2>8, <2>9 DEF Listing, Increasing
  <2>11. QED
    BY <2>1, <2>3, <2>10
<1>3. QED
  BY <1>1, <1>2

(* The recursive function of Live.                                         *)
LiveHistory(h, d) ==
  h = [n \in 0..d.nentries |->
         IF n = 0 THEN <<>>
         ELSE IF d.entries[n - 1].hash = EMPTY THEN h[n - 1]
         ELSE Append(h[n - 1], d.entries[n - 1])]

LEMMA LiveLists ==
  ASSUME NEW S, NEW N \in Nat, NEW d, d.nentries \in 0..N, d.entries \in [0..(N - 1) -> S]
  PROVE  Live(d) \in Seq(S) /\ \E f : Listing(f, Live(d), LiveIn(d), d.entries)
<1> PICK c : c = d.nentries
  OBVIOUS
<1> PICK e : e = d.entries
  OBVIOUS
<1>1. c \in Nat /\ e \in [0..(N - 1) -> S] /\ \A n \in 1..c : n - 1 \in 0..(N - 1)
  OBVIOUS
<1> DEFINE T == Seq(S)
           a == <<>>
           g == [mk \in T \X (1..c) |-> IF e[mk[2] - 1].hash = EMPTY THEN mk[1]
                                        ELSE Append(mk[1], e[mk[2] - 1])]
<1>2. a \in T
  OBVIOUS
<1>3. g \in [T \X (1..c) -> T]
  <2>1. ASSUME NEW mk \in T \X (1..c)
        PROVE  (IF e[mk[2] - 1].hash = EMPTY THEN mk[1] ELSE Append(mk[1], e[mk[2] - 1])) \in T
    <3>1. mk[1] \in Seq(S) /\ mk[2] \in 1..c
      OBVIOUS
    <3>2. e[mk[2] - 1] \in S
      BY <1>1, <3>1
    <3>3. Append(mk[1], e[mk[2] - 1]) \in Seq(S)
      BY <3>1, <3>2
    <3>4. QED
      BY <3>1, <3>3
  <2> HIDE DEF T
  <2>2. QED
    BY <2>1
<1>4. PICK h \in [0..c -> T] : IsHistory(h, a, g, c)
  <2> HIDE DEF T, g, a
  <2>1. QED
    BY <1>1, <1>2, <1>3, History
<1>5. ASSUME NEW n \in 0..c
      PROVE  h[n] = IF n = 0 THEN <<>>
                    ELSE IF e[n - 1].hash = EMPTY THEN h[n - 1] ELSE Append(h[n - 1], e[n - 1])
  <2>1. h[n] = IF n = 0 THEN <<>> ELSE g[<<h[n - 1], n>>]
    <3> HIDE DEF g
    <3>1. QED
      BY <1>4 DEF IsHistory
  <2>2. n # 0 => h[n - 1] \in T /\ n \in 1..c
    <3> HIDE DEF T
    <3>1. QED
      BY <1>1
  <2>3. n # 0 => g[<<h[n - 1], n>>] = IF e[n - 1].hash = EMPTY THEN h[n - 1]
                                      ELSE Append(h[n - 1], e[n - 1])
    <3> HIDE DEF T
    <3>1. QED
      BY <2>2
  <2>4. QED
    BY <2>1, <2>3
<1>6. h = [n \in 0..c |-> h[n]]
  OBVIOUS
<1>7. LiveHistory(h, d)
  BY <1>5, <1>6 DEF LiveHistory
<1>8. \E q : LiveHistory(q, d) /\ Live(d) = q[c]
  <2>1. Live(d) = (CHOOSE q : LiveHistory(q, d))[c]
    BY DEF Live, LiveHistory
  <2>2. LiveHistory(CHOOSE q : LiveHistory(q, d), d)
    BY <1>7
  <2>3. QED
    BY <2>1, <2>2
<1>9. PICK q : LiveHistory(q, d) /\ Live(d) = q[c]
  BY <1>8
<1>10. \A n \in 0..c : q[n] = IF n = 0 THEN <<>>
                              ELSE IF e[n - 1].hash = EMPTY THEN q[n - 1]
                              ELSE Append(q[n - 1], e[n - 1])
  BY <1>9 DEF LiveHistory
<1> DEFINE Lists(n) == q[n] \in Seq(S) /\ \E f : Listing(f, q[n], Lives(e, n), e)
           K == {n \in 0..c : Lists(n)}
<1>11. 0 \in K
  <2>1. 0 \in 0..c /\ q[0] = <<>>
    BY <1>1, <1>10
  <2>2. Lives(e, 0) = {}
    BY DEF Lives
  <2>3. \E f : Listing(f, <<>>, {}, e)
    <3>1. Listing([n \in 1..0 |-> 0], <<>>, {}, e)
      BY DEF Listing, Increasing
    <3>2. QED
      BY <3>1, Zenon
  <2>4. Lists(0)
    <3>1. q[0] \in Seq(S)
      BY <2>1
    <3>2. \E f : Listing(f, q[0], Lives(e, 0), e)
      <4> HIDE DEF K, g
      <4>1. QED
        BY <2>1, <2>2, <2>3, Zenon
    <3>3. QED
      BY <3>1, <3>2, Zenon
  <2>5. QED
    BY <2>1, <2>4
<1>12. ASSUME NEW n \in 0..(c - 1), n \in K PROVE n + 1 \in K
  <2>1. n + 1 \in 0..c /\ n + 1 # 0 /\ (n + 1) - 1 = n /\ n \in 0..(N - 1)
    BY <1>1
  <2>2. PICK f : Listing(f, q[n], Lives(e, n), e)
    BY <1>12
  <2>3. q[n] \in Seq(S)
    BY <1>12
  <2>4. q[n + 1] = IF e[n].hash = EMPTY THEN q[n] ELSE Append(q[n], e[n])
    BY <1>10, <2>1
  <2>5. q[n + 1] \in Seq(S) /\ \E g2 : Listing(g2, q[n + 1], Lives(e, n + 1), e)
    <3> HIDE DEF K, g
    <3>1. QED
      BY <1>1, <2>1, <2>2, <2>3, <2>4, ListingGrows
  <2>6. QED
    BY <2>1, <2>5
<1>13. \A n \in 0..c : n \in K
  <2> HIDE DEF K
  <2>1. QED
    BY <1>1, <1>11, <1>12, Induction
<1>14. Lists(c)
  BY <1>1, <1>13
<1>15. LiveIn(d) = Lives(e, c)
  BY DEF LiveIn, Lives
<1>16. QED
  BY <1>9, <1>14, <1>15

LEMMA ListingCounts ==
  ASSUME NEW S, NEW s \in Seq(S), NEW n \in Nat, NEW L \in SUBSET (0..(n - 1)), NEW e, NEW f,
         Listing(f, s, L, e)
  PROVE  IsFiniteSet(L) /\ Cardinality(L) = Len(s) /\ f \in Bijection(1..Len(s), L)
<1> PICK c : c = Len(s)
  OBVIOUS
<1>1. c \in Nat /\ f \in [1..c -> L] /\ (\A a, b \in 1..c : a < b => f[a] < f[b])
      /\ \A ix \in L : \E m \in 1..c : f[m] = ix
  BY DEF Listing, Increasing
<1>2. ASSUME NEW a \in 1..c, NEW b \in 1..c, f[a] = f[b] PROVE a = b
  <2>1. f[a] \in 0..(n - 1)
    BY <1>1
  <2>2. ~ (a < b) /\ ~ (b < a)
    BY <1>1, <1>2, <2>1
  <2>3. QED
    BY <2>2
<1>3. f \in Bijection(1..c, L)
  BY <1>1, <1>2 DEF Bijection, Injection, Surjection, IsInjective
<1>4. Cardinality(L) = c
  <2>1. ExistsBijection(1..c, L)
    BY <1>3 DEF ExistsBijection
  <2>2. QED
    BY <1>1, <2>1, FS_CountingElements
<1>5. IsFiniteSet(L)
  <2>1. IsFiniteSet(0..(n - 1))
    BY FS_Interval
  <2>2. QED
    BY <2>1, FS_Subset
<1>6. QED
  BY <1>3, <1>4, <1>5

-----------------------------------------------------------------------------
(* The references that the entries at the indexes L own to x.              *)

KeyAt(L, e, x) == {ix \in L : e[ix].key = x}
ValAt(L, e, x) == {ix \in L : e[ix].val = x}
Owns(L, e, x) == Cardinality(KeyAt(L, e, x)) + Cardinality(ValAt(L, e, x))

(* Every entry has its key's hash, and no key has two.                     *)
Filed(L, e) ==
  /\ \A ix \in L : /\ e[ix].key \in Keys /\ e[ix].val \in Vals \cup {Zero}
                   /\ e[ix].hash = Hash[e[ix].key]
  /\ \A ix, jx \in L : e[ix].key = e[jx].key => ix = jx

LEMMA OwnsType ==
  ASSUME NEW L, IsFiniteSet(L), NEW e, NEW x
  PROVE  /\ Cardinality(KeyAt(L, e, x)) \in Nat /\ Cardinality(ValAt(L, e, x)) \in Nat
         /\ Cardinality(KeyAt(L, e, x)) <= Cardinality(L)
         /\ Cardinality(ValAt(L, e, x)) <= Cardinality(L)
         /\ IsFiniteSet(KeyAt(L, e, x)) /\ IsFiniteSet(ValAt(L, e, x))
         /\ Owns(L, e, x) \in Nat /\ Cardinality(L) \in Nat
<1>1. KeyAt(L, e, x) \in SUBSET L /\ ValAt(L, e, x) \in SUBSET L
  BY DEF KeyAt, ValAt
<1>2. /\ IsFiniteSet(KeyAt(L, e, x)) /\ Cardinality(KeyAt(L, e, x)) <= Cardinality(L)
      /\ IsFiniteSet(ValAt(L, e, x)) /\ Cardinality(ValAt(L, e, x)) <= Cardinality(L)
  BY <1>1, FS_Subset
<1>3. /\ Cardinality(KeyAt(L, e, x)) \in Nat /\ Cardinality(ValAt(L, e, x)) \in Nat
      /\ Cardinality(L) \in Nat
  BY <1>2, FS_CardinalityType
<1>4. QED
  BY <1>2, <1>3 DEF Owns

LEMMA AddedOrNot ==
  ASSUME NEW A, IsFiniteSet(A), NEW ix, ix \notin A, NEW y, NEW x, NEW B,
         B = IF y = x THEN A \cup {ix} ELSE A
  PROVE  Cardinality(B) = Cardinality(A) + One(y, x)
<1>1. Cardinality(A) \in Nat
  BY FS_CardinalityType
<1>2. CASE y = x
  <2>1. Cardinality(A \cup {ix}) = Cardinality(A) + 1
    BY FS_AddElement
  <2>2. QED
    BY <1>2, <2>1 DEF One
<1>3. CASE y # x
  BY <1>1, <1>3 DEF One
<1>4. QED
  BY <1>2, <1>3

(* One more entry, at ix.                                                  *)
Grown(L, e, M, f, ix) ==
  IsFiniteSet(L) /\ ix \notin L /\ M = L \cup {ix} /\ \A jx \in L : f[jx] = e[jx]
OneMore(L, e, M, f, ix, x) ==
  Owns(M, f, x) = Owns(L, e, x) + One(f[ix].key, x) + One(f[ix].val, x)

LEMMA OwnsGrown ==
  ASSUME NEW L, NEW e, NEW M, NEW f, NEW ix, Grown(L, e, M, f, ix), NEW x
  PROVE  OneMore(L, e, M, f, ix, x) /\ Owns(L, e, x) \in Nat
<1> DEFINE A == KeyAt(L, e, x)
           B == KeyAt(M, f, x)
           C == ValAt(L, e, x)
           D == ValAt(M, f, x)
<1>1. IsFiniteSet(A) /\ IsFiniteSet(C) /\ Cardinality(A) \in Nat /\ Cardinality(C) \in Nat
      /\ Owns(L, e, x) \in Nat
  BY OwnsType DEF Grown
<1>2. ix \notin A /\ ix \notin C
  BY DEF KeyAt, ValAt, Grown
<1>3. B = IF f[ix].key = x THEN A \cup {ix} ELSE A
  BY DEF KeyAt, Grown
<1>4. D = IF f[ix].val = x THEN C \cup {ix} ELSE C
  BY DEF ValAt, Grown
<1> HIDE DEF A, B, C, D
<1>5. Cardinality(B) = Cardinality(A) + One(f[ix].key, x)
  BY <1>1, <1>2, <1>3, AddedOrNot
<1>6. Cardinality(D) = Cardinality(C) + One(f[ix].val, x)
  BY <1>1, <1>2, <1>4, AddedOrNot
<1>7. One(f[ix].key, x) \in Nat /\ One(f[ix].val, x) \in Nat
  BY DEF One
<1>8. Owns(M, f, x) = Cardinality(B) + Cardinality(D)
      /\ Owns(L, e, x) = Cardinality(A) + Cardinality(C)
  BY DEF Owns, A, B, C, D
<1>9. QED
  BY <1>1, <1>5, <1>6, <1>7, <1>8 DEF OneMore

LEMMA SetsMoved ==
  ASSUME NEW M, NEW L, IsFiniteSet(M), NEW g \in Bijection(M, L), NEW A \in SUBSET M,
         NEW B \in SUBSET L, \A ix \in M : ix \in A <=> g[ix] \in B
  PROVE  Cardinality(A) = Cardinality(B)
<1> DEFINE h == [ix \in A |-> g[ix]]
<1>1. g \in [M -> L] /\ (\A a, b \in M : g[a] = g[b] => a = b)
      /\ \A y \in L : \E a \in M : g[a] = y
  BY DEF Bijection, Injection, Surjection, IsInjective
<1>2. h \in [A -> B] /\ (\A a, b \in A : h[a] = h[b] => a = b)
  BY <1>1
<1>3. ASSUME NEW y \in B PROVE \E a \in A : h[a] = y
  <2>1. PICK a \in M : g[a] = y
    BY <1>1
  <2>2. a \in A
    BY <2>1
  <2>3. QED
    BY <2>1, <2>2
<1>4. h \in Bijection(A, B)
  BY <1>2, <1>3 DEF Bijection, Injection, Surjection, IsInjective
<1>5. IsFiniteSet(A)
  BY FS_Subset
<1>6. ExistsBijection(A, B)
  BY <1>4 DEF ExistsBijection
<1>7. QED
  BY <1>5, <1>6, FS_Bijection

LEMMA OwnsMoved ==
  ASSUME NEW M, NEW L, IsFiniteSet(M), NEW g \in Bijection(M, L), NEW e, NEW f,
         \A ix \in M : f[ix] = e[g[ix]], NEW x
  PROVE  Owns(M, f, x) = Owns(L, e, x)
<1>1. g \in [M -> L]
  BY DEF Bijection, Injection
<1>2. Cardinality(KeyAt(M, f, x)) = Cardinality(KeyAt(L, e, x))
  <2>1. KeyAt(M, f, x) \in SUBSET M /\ KeyAt(L, e, x) \in SUBSET L
    BY DEF KeyAt
  <2>2. \A ix \in M : ix \in KeyAt(M, f, x) <=> g[ix] \in KeyAt(L, e, x)
    BY <1>1 DEF KeyAt
  <2>3. QED
    BY <2>1, <2>2, SetsMoved
<1>3. Cardinality(ValAt(M, f, x)) = Cardinality(ValAt(L, e, x))
  <2>1. ValAt(M, f, x) \in SUBSET M /\ ValAt(L, e, x) \in SUBSET L
    BY DEF ValAt
  <2>2. \A ix \in M : ix \in ValAt(M, f, x) <=> g[ix] \in ValAt(L, e, x)
    BY <1>1 DEF ValAt
  <2>3. QED
    BY <2>1, <2>2, SetsMoved
<1>4. QED
  BY <1>2, <1>3 DEF Owns

(* A table has no more entries than there are keys.                        *)
LEMMA FiledBound ==
  ASSUME NEW L, NEW e, Filed(L, e), NEW S \in SUBSET Keys, \A ix \in L : e[ix].key \in S
  PROVE  /\ IsFiniteSet(L) /\ IsFiniteSet(S) /\ Cardinality(L) <= Cardinality(S)
         /\ Cardinality(L) \in Nat /\ Cardinality(S) \in Nat
<1>1. IsFiniteSet(Keys)
  BY ConstantsAssumption
<1>2. IsFiniteSet(S)
  BY <1>1, FS_Subset
<1> DEFINE g == [ix \in L |-> e[ix].key]
<1>3. g \in Injection(L, S)
  BY DEF Filed, Injection, IsInjective
<1>4. IsFiniteSet(L) /\ Cardinality(L) <= Cardinality(S)
  <2> HIDE DEF g
  <2>1. QED
    BY <1>2, <1>3, FS_Injection
<1>5. QED
  BY <1>2, <1>4, FS_CardinalityType

LEMMA OwnsBound ==
  ASSUME NEW L, NEW e, Filed(L, e), NEW x \in Keys \cup Vals
  PROVE  Owns(L, e, x) \in 0..Cardinality(Keys)
<1>1. \A ix \in L : e[ix].key \in Keys
  BY DEF Filed
<1>2. IsFiniteSet(L) /\ Cardinality(L) <= Cardinality(Keys) /\ Cardinality(L) \in Nat
      /\ Cardinality(Keys) \in Nat
  BY <1>1, FiledBound
<1>3. KeyAt(L, e, x) = {} \/ ValAt(L, e, x) = {}
  <2>1. CASE x \in Keys
    <3>1. x \notin Vals \cup {Zero}
      BY <2>1, ConstantsAssumption
    <3>2. QED
      BY <3>1 DEF ValAt, Filed
  <2>2. CASE x \in Vals
    <3>1. x \notin Keys
      BY <2>2, ConstantsAssumption
    <3>2. QED
      BY <3>1, <1>1 DEF KeyAt
  <2>3. QED
    BY <2>1, <2>2
<1>4. Cardinality(KeyAt(L, e, x)) = 0 \/ Cardinality(ValAt(L, e, x)) = 0
  BY <1>3, FS_EmptySet
<1>5. QED
  BY <1>2, <1>4, OwnsType DEF Owns

(* One reference more or less; nothing is counted for zero bytes.          *)
Refs == [Keys \cup Vals -> Int]

LEMMA IncrefIs ==
  ASSUME NEW r \in Refs, NEW x, NEW y \in Keys \cup Vals
  PROVE  /\ Incref(r, x) \in Refs /\ Incref(r, x)[y] = r[y] + One(x, y)
         /\ Decref(r, x) \in Refs /\ Decref(r, x)[y] = r[y] - One(x, y)
<1>1. DOMAIN r = Keys \cup Vals /\ \A z \in Keys \cup Vals : r[z] \in Int
  BY DEF Refs
<1> DEFINE s == [r EXCEPT ![x] = @ + 1]
           t == [r EXCEPT ![x] = @ - 1]
<1>2. DOMAIN s = Keys \cup Vals /\ DOMAIN t = Keys \cup Vals
  BY <1>1
<1>3. ASSUME NEW z \in Keys \cup Vals
      PROVE  s[z] = r[z] + One(x, z) /\ t[z] = r[z] - One(x, z)
  <2>1. CASE z = x
    BY <1>1, <2>1 DEF One
  <2>2. CASE z # x
    <3>1. r[z] \in Int /\ s[z] = r[z] /\ t[z] = r[z]
      BY <1>1, <2>2
    <3>2. QED
      BY <2>2, <3>1 DEF One
  <2>3. QED
    BY <2>1, <2>2
<1>4. \A z \in Keys \cup Vals : s[z] \in Int /\ t[z] \in Int
  BY <1>1, <1>3 DEF One
<1>5. s \in Refs /\ t \in Refs
  <2>1. s = [z \in Keys \cup Vals |-> s[z]] /\ t = [z \in Keys \cup Vals |-> t[z]]
    BY <1>1, <1>2
  <2> HIDE DEF s, t
  <2>2. QED
    BY <1>4, <2>1 DEF Refs
<1>6. s = Incref(r, x) /\ t = Decref(r, x)
  BY DEF Incref, Decref
<1> HIDE DEF s, t
<1>7. QED
  BY <1>3, <1>5, <1>6

Exact(r, L, e) == r \in Refs /\ \A x \in Keys \cup Vals : r[x] = Owns(L, e, x)

LEMMA ExactAdd ==
  ASSUME NEW L, NEW e, NEW M, NEW f, NEW ix, Grown(L, e, M, f, ix), NEW r, Exact(r, L, e)
  PROVE  Exact(Incref(Incref(r, f[ix].key), f[ix].val), M, f)
<1> PICK k : k = f[ix].key
  OBVIOUS
<1> PICK v : v = f[ix].val
  OBVIOUS
<1> PICK s : s = Incref(r, k)
  OBVIOUS
<1> PICK t : t = Incref(s, v)
  OBVIOUS
<1>1. r \in Refs
  BY DEF Exact
<1>2. CASE Keys \cup Vals = {}
  BY <1>1, <1>2 DEF Exact, Incref, Refs
<1>3. CASE Keys \cup Vals # {}
  <2>1. s \in Refs
    BY <1>1, <1>3, IncrefIs
  <2>2. t \in Refs
    BY <1>3, <2>1, IncrefIs
  <2>3. ASSUME NEW x \in Keys \cup Vals PROVE t[x] = Owns(M, f, x)
    <3>1. s[x] = r[x] + One(k, x)
      BY <1>1, IncrefIs
    <3>2. t[x] = s[x] + One(v, x)
      BY <2>1, IncrefIs
    <3>3. Owns(M, f, x) = Owns(L, e, x) + One(k, x) + One(v, x)
      BY OwnsGrown DEF OneMore
    <3>4. r[x] = Owns(L, e, x)
      BY DEF Exact
    <3>5. QED
      BY <3>1, <3>2, <3>3, <3>4
  <2>4. QED
    BY <2>2, <2>3 DEF Exact
<1>4. QED
  BY <1>2, <1>3

LEMMA ExactDrop ==
  ASSUME NEW L, NEW e, NEW M, NEW f, NEW ix, Grown(M, f, L, e, ix), NEW r, Exact(r, L, e)
  PROVE  Exact(Decref(Decref(r, e[ix].key), e[ix].val), M, f)
<1> PICK k : k = e[ix].key
  OBVIOUS
<1> PICK v : v = e[ix].val
  OBVIOUS
<1> PICK s : s = Decref(r, k)
  OBVIOUS
<1> PICK t : t = Decref(s, v)
  OBVIOUS
<1>1. r \in Refs
  BY DEF Exact
<1>2. CASE Keys \cup Vals = {}
  BY <1>1, <1>2 DEF Exact, Decref, Refs
<1>3. CASE Keys \cup Vals # {}
  <2>1. s \in Refs
    BY <1>1, <1>3, IncrefIs
  <2>2. t \in Refs
    BY <1>3, <2>1, IncrefIs
  <2>3. ASSUME NEW x \in Keys \cup Vals PROVE t[x] = Owns(M, f, x)
    <3>1. s[x] = r[x] - One(k, x)
      BY <1>1, IncrefIs
    <3>2. t[x] = s[x] - One(v, x)
      BY <2>1, IncrefIs
    <3>3. Owns(L, e, x) = Owns(M, f, x) + One(k, x) + One(v, x)
      BY OwnsGrown DEF OneMore
    <3>4. r[x] = Owns(L, e, x)
      BY DEF Exact
    <3>5. One(k, x) \in Nat /\ One(v, x) \in Nat /\ Owns(M, f, x) \in Nat
      BY OwnsGrown DEF One
    <3>6. QED
      BY <3>1, <3>2, <3>3, <3>4, <3>5
  <2>4. QED
    BY <2>2, <2>3 DEF Exact
<1>4. QED
  BY <1>2, <1>3

-----------------------------------------------------------------------------
(* A table in order, and the operations that keep it so.                   *)

EntrySet == [hash : Int, key : Keys \cup {Zero}, val : Vals \cup {Zero}]
Tables(size) == [addr : Addrs, usable : Nat, nentries : Nat, indices : [0..(size - 1) -> Int],
                 entries : [0..(USABLE_FRACTION(size) - 1) -> EntrySet]]
Paths(e, size) == [ix \in DOMAIN e |-> Probes[e[ix].hash][size]]
UsedSlots(I) == {i \in DOMAIN I : I[i] # EMPTY}

InOrder(d, size) ==
  /\ size \in Sizes /\ d \in Tables(size)
  /\ d.nentries + d.usable <= USABLE_FRACTION(size)
  /\ Cardinality(UsedSlots(d.indices)) + d.usable <= USABLE_FRACTION(size)
  /\ Filed(LiveIn(d), d.entries)
  /\ Filing(d.indices, LiveIn(d), Paths(d.entries, size), size)

LEMMA LimitIs ==
  ASSUME NEW size \in Nat, size >= 2
  PROVE  /\ USABLE_FRACTION(size) \in Nat /\ USABLE_FRACTION(size) >= 1
         /\ USABLE_FRACTION(size) < size
BY DEF USABLE_FRACTION

LEMMA UsedSlotsType ==
  ASSUME NEW size \in Nat, NEW I, DOMAIN I = 0..(size - 1)
  PROVE  /\ IsFiniteSet(UsedSlots(I)) /\ Cardinality(UsedSlots(I)) \in Nat
         /\ Cardinality(UsedSlots(I)) < size => \E y \in 0..(size - 1) : I[y] = EMPTY
<1>1. IsFiniteSet(0..(size - 1)) /\ Cardinality(0..(size - 1)) = size
  <2>1. 0 \in Int /\ size - 1 \in Int
    OBVIOUS
  <2>2. QED
    BY <2>1, FS_Interval
<1>2. UsedSlots(I) \in SUBSET (0..(size - 1))
  BY DEF UsedSlots
<1>3. IsFiniteSet(UsedSlots(I)) /\ Cardinality(UsedSlots(I)) \in Nat
  BY <1>1, <1>2, FS_Subset, FS_CardinalityType
<1>4. ASSUME Cardinality(UsedSlots(I)) < size PROVE \E y \in 0..(size - 1) : I[y] = EMPTY
  <2>1. UsedSlots(I) # 0..(size - 1)
    BY <1>1, <1>3, <1>4
  <2>2. QED
    BY <1>2, <2>1 DEF UsedSlots
<1>5. QED
  BY <1>3, <1>4

LEMMA UsedSlotsPut ==
  ASSUME NEW size \in Nat, NEW I, DOMAIN I = 0..(size - 1), NEW slot \in 0..(size - 1), NEW x
  PROVE  /\ Cardinality(UsedSlots([I EXCEPT ![slot] = x])) <= Cardinality(UsedSlots(I)) + 1
         /\ I[slot] # EMPTY
            => Cardinality(UsedSlots([I EXCEPT ![slot] = x])) <= Cardinality(UsedSlots(I))
<1> PICK J : J = [I EXCEPT ![slot] = x]
  OBVIOUS
<1> DEFINE A == UsedSlots(I)
           B == UsedSlots(J)
<1>1. IsFiniteSet(A) /\ Cardinality(A) \in Nat
  BY UsedSlotsType
<1>2. /\ DOMAIN J = 0..(size - 1) /\ J[slot] = x
      /\ \A i \in 0..(size - 1) : i # slot => J[i] = I[i]
  OBVIOUS
<1>3. B \in SUBSET (A \cup {slot})
  BY <1>2 DEF UsedSlots
<1>4. I[slot] # EMPTY => A \cup {slot} = A
  BY DEF UsedSlots
<1> HIDE DEF A, B
<1>5. /\ IsFiniteSet(A \cup {slot})
      /\ Cardinality(A \cup {slot}) = IF slot \in A THEN Cardinality(A) ELSE Cardinality(A) + 1
  BY <1>1, FS_AddElement
<1>6. Cardinality(B) <= Cardinality(A \cup {slot}) /\ Cardinality(B) \in Nat
  BY <1>3, <1>5, FS_Subset, FS_CardinalityType
<1>7. /\ Cardinality(B) <= Cardinality(A) + 1
      /\ I[slot] # EMPTY => Cardinality(B) <= Cardinality(A)
  BY <1>1, <1>4, <1>5, <1>6
<1>8. QED
  BY <1>7 DEF A, B

LEMMA InOrderFields ==
  ASSUME NEW d, NEW size, InOrder(d, size)
  PROVE  /\ size \in Sizes /\ size \in Nat /\ size >= 2
         /\ USABLE_FRACTION(size) \in Nat /\ USABLE_FRACTION(size) < size
         /\ d.usable \in Nat /\ d.nentries \in Nat /\ d.addr \in Addrs
         /\ d.indices \in [0..(size - 1) -> Int] /\ DOMAIN d.indices = 0..(size - 1)
         /\ d.entries \in [0..(USABLE_FRACTION(size) - 1) -> EntrySet]
         /\ DOMAIN d.entries = 0..(USABLE_FRACTION(size) - 1)
         /\ LiveIn(d) \in SUBSET (0..(d.nentries - 1))
         /\ LiveIn(d) \in SUBSET (0..(USABLE_FRACTION(size) - 1))
         /\ d.nentries + d.usable <= USABLE_FRACTION(size)
         /\ Cardinality(UsedSlots(d.indices)) + d.usable <= USABLE_FRACTION(size)
         /\ Cardinality(UsedSlots(d.indices)) \in Nat
<1>1. size \in Sizes /\ d \in Tables(size)
  BY DEF InOrder
<1>2. size \in Nat /\ size >= 2
  BY <1>1, SizesType
<1>3. USABLE_FRACTION(size) \in Nat /\ USABLE_FRACTION(size) < size
  BY <1>2, LimitIs
<1>4. /\ d.usable \in Nat /\ d.nentries \in Nat /\ d.addr \in Addrs
      /\ d.indices \in [0..(size - 1) -> Int]
      /\ d.entries \in [0..(USABLE_FRACTION(size) - 1) -> EntrySet]
  BY <1>1 DEF Tables
<1>5. Cardinality(UsedSlots(d.indices)) \in Nat
  <2>1. DOMAIN d.indices = 0..(size - 1)
    BY <1>4
  <2>2. QED
    BY <1>2, <2>1, UsedSlotsType
<1>6. d.nentries + d.usable <= USABLE_FRACTION(size)
      /\ Cardinality(UsedSlots(d.indices)) + d.usable <= USABLE_FRACTION(size)
  BY DEF InOrder
<1>7. LiveIn(d) \in SUBSET (0..(d.nentries - 1))
  BY DEF LiveIn
<1>8. LiveIn(d) \in SUBSET (0..(USABLE_FRACTION(size) - 1))
  <2>1. \A ix \in 0..(d.nentries - 1) : ix \in 0..(USABLE_FRACTION(size) - 1)
    BY <1>3, <1>4, <1>6
  <2>2. QED
    BY <1>7, <2>1
<1>9. QED
  BY <1>1, <1>2, <1>3, <1>4, <1>5, <1>6, <1>7, <1>8

IsTable(d, size, a, w, n, I, e) ==
  /\ d \in Tables(size) /\ d.addr = a /\ d.usable = w /\ d.nentries = n
  /\ d.indices = I /\ d.entries = e
WithIndices(d, J) == [d EXCEPT !.indices = J]
WithEntries(d, f) == [d EXCEPT !.entries = f]
WithUsable(d, w) == [d EXCEPT !.usable = w]
WithNentries(d, n) == [d EXCEPT !.nentries = n]

LEMMA PutIndices ==
  ASSUME NEW size, NEW d, NEW a, NEW w, NEW n, NEW I, NEW e, IsTable(d, size, a, w, n, I, e),
         NEW J \in [0..(size - 1) -> Int]
  PROVE  IsTable(WithIndices(d, J), size, a, w, n, J, e)
BY DEF Tables, IsTable, WithIndices

LEMMA PutEntries ==
  ASSUME NEW size, NEW d, NEW a, NEW w, NEW n, NEW I, NEW e, IsTable(d, size, a, w, n, I, e),
         NEW f \in [0..(USABLE_FRACTION(size) - 1) -> EntrySet]
  PROVE  IsTable(WithEntries(d, f), size, a, w, n, I, f)
BY DEF Tables, IsTable, WithEntries

LEMMA PutUsable ==
  ASSUME NEW size, NEW d, NEW a, NEW w, NEW n, NEW I, NEW e, IsTable(d, size, a, w, n, I, e),
         NEW w2 \in Nat
  PROVE  IsTable(WithUsable(d, w2), size, a, w2, n, I, e)
BY DEF Tables, IsTable, WithUsable

LEMMA PutNentries ==
  ASSUME NEW size, NEW d, NEW a, NEW w, NEW n, NEW I, NEW e, IsTable(d, size, a, w, n, I, e),
         NEW n2 \in Nat
  PROVE  IsTable(WithNentries(d, n2), size, a, w, n2, I, e)
BY DEF Tables, IsTable, WithNentries

LEMMA TableIs ==
  ASSUME NEW size, NEW d \in Tables(size)
  PROVE  IsTable(d, size, d.addr, d.usable, d.nentries, d.indices, d.entries)
BY DEF IsTable

(* What Place makes of a table.                                            *)
LEMMA PlaceFields ==
  ASSUME NEW size, NEW d \in Tables(size), NEW k, NEW v, NEW J \in [0..(size - 1) -> Int],
         J = [d.indices EXCEPT ![FindEmptySlot(d.indices, Hash[k])] = d.nentries],
         NEW f \in [0..(USABLE_FRACTION(size) - 1) -> EntrySet],
         f = [d.entries EXCEPT ![d.nentries] = [hash |-> Hash[k], key |-> k, val |-> v]],
         d.usable > 0
  PROVE  IsTable(Place(d, k, v), size, d.addr, d.usable - 1, d.nentries + 1, J, f)
<1> PICK w : w = d.usable - 1
  OBVIOUS
<1> PICK n : n = d.nentries + 1
  OBVIOUS
<1>1. IsTable(WithIndices(d, J), size, d.addr, d.usable, d.nentries, J, d.entries)
  BY TableIs, PutIndices
<1>2. IsTable(WithEntries(WithIndices(d, J), f), size, d.addr, d.usable, d.nentries, J, f)
  BY <1>1, PutEntries
<1>3. w \in Nat /\ n \in Nat
  BY DEF Tables
<1>4. IsTable(WithUsable(WithEntries(WithIndices(d, J), f), w), size, d.addr, w, d.nentries, J, f)
  BY <1>2, <1>3, PutUsable
<1>5. IsTable(WithNentries(WithUsable(WithEntries(WithIndices(d, J), f), w), n), size, d.addr, w,
              n, J, f)
  BY <1>3, <1>4, PutNentries
<1>6. Place(d, k, v) = WithNentries(WithUsable(WithEntries(WithIndices(d, J), f), w), n)
  <2>1. WithIndices(d, J).entries = d.entries
    BY DEF Tables, WithIndices
  <2>2. WithEntries(WithIndices(d, J), f).usable = d.usable
    BY <1>2 DEF IsTable
  <2>3. WithUsable(WithEntries(WithIndices(d, J), f), w).nentries = d.nentries
    BY <1>4 DEF IsTable
  <2>4. QED
    BY <2>1, <2>2, <2>3, Zenon DEF Place, WithNentries, WithUsable, WithEntries, WithIndices
<1>7. QED
  BY <1>5, <1>6

LEMMA PathAt ==
  ASSUME NEW size, NEW N, NEW e \in [0..(N - 1) -> EntrySet], NEW ix \in 0..(N - 1)
  PROVE  Paths(e, size)[ix] = Probes[e[ix].hash][size]
BY DEF Paths

(* An entry is written at n, and n into the first slot that is free.       *)
Filable(I, e, n, k, size) ==
  /\ DOMAIN I = 0..(size - 1) /\ Cardinality(UsedSlots(I)) < size
  /\ Filed(Lives(e, n), e) /\ Filing(I, Lives(e, n), Paths(e, size), size)
  /\ \A ix \in Lives(e, n) : e[ix].key # k
EntryOf(x, k) ==
  x.key = k /\ x.hash = Hash[k] /\ x.val \in Vals \cup {Zero}
Rest(e, f, n, N) == \A ix \in 0..(N - 1) : ix # n => f[ix] = e[ix]
Free(stops) == EMPTY \in stops /\ stops \in SUBSET {EMPTY, DUMMY}

LEMMA FilePlaced ==
  ASSUME NEW size \in Sizes, NEW N \in Nat, NEW n \in 0..(N - 1), NEW k \in Keys, NEW I,
         NEW e \in [0..(N - 1) -> EntrySet], NEW f \in [0..(N - 1) -> EntrySet],
         Rest(e, f, n, N), EntryOf(f[n], k), Filable(I, e, n, k, size),
         NEW stops, Free(stops), NEW slot, slot = FirstSlot(I, Hash[k], stops)
  PROVE  /\ slot \in 0..(size - 1)
         /\ Grown(Lives(e, n), e, Lives(f, n + 1), f, n)
         /\ Filed(Lives(f, n + 1), f)
         /\ Filing([I EXCEPT ![slot] = n], Lives(f, n + 1), Paths(f, size), size)
<1> PICK L : L = Lives(e, n)
  OBVIOUS
<1> PICK M : M = Lives(f, n + 1)
  OBVIOUS
<1>1. size \in Nat /\ size >= 2 /\ n \in Nat
  BY SizesType
<1>2. L \in SUBSET (0..(n - 1)) /\ n \notin L
  BY DEF Lives
<1>3. ASSUME NEW ix \in 0..(n - 1) PROVE f[ix] = e[ix] /\ ix \in 0..(N - 1)
  <2>1. ix \in 0..(N - 1) /\ ix # n
    OBVIOUS
  <2>2. QED
    BY <2>1 DEF Rest
<1>4. \A ix \in L : f[ix] = e[ix] /\ ix \in 0..(N - 1)
  BY <1>2, <1>3
<1>5. f[n].hash = Hash[k] /\ f[n].hash # EMPTY /\ f[n].key = k /\ f[n].val \in Vals \cup {Zero}
  BY ConstantsAssumption DEF EntryOf
<1>6. M = L \cup {n}
  <2>1. ASSUME NEW ix \in 0..(n - 1) PROVE ix \in L <=> f[ix].hash # EMPTY
    BY <1>3 DEF Lives
  <2>2. \A ix : ix \in 0..((n + 1) - 1) <=> ix \in 0..(n - 1) \/ ix = n
    OBVIOUS
  <2>3. \A ix : ix \in M <=> ix \in 0..((n + 1) - 1) /\ f[ix].hash # EMPTY
    BY DEF Lives
  <2>4. QED
    BY <1>2, <1>5, <2>1, <2>2, <2>3
<1>7. Grown(L, e, M, f, n)
  <2>1. IsFiniteSet(0..(n - 1))
    BY <1>1, FS_Interval
  <2>2. IsFiniteSet(L)
    BY <1>2, <2>1, FS_Subset
  <2>3. QED
    BY <1>2, <1>4, <1>6, <2>2 DEF Grown
<1>8. First(Probes[Hash[k]][size], I, stops, slot) /\ slot \in 0..(size - 1)
  <2>1. DOMAIN I = 0..(size - 1) /\ Cardinality(UsedSlots(I)) < size
    BY DEF Filable
  <2>2. PICK y \in 0..(size - 1) : I[y] = EMPTY
    BY <1>1, <2>1, UsedSlotsType
  <2>3. I[y] \in stops
    BY <2>2 DEF Free
  <2>4. QED
    BY <2>1, <2>3, FirstSlotFinds
<1>9. Filing([I EXCEPT ![slot] = n], M, Paths(f, size), size)
  <2> PICK P : P = Paths(e, size)
    OBVIOUS
  <2> PICK Q : Q = Paths(f, size)
    OBVIOUS
  <2>1. Filing(I, L, P, size)
    BY DEF Filable
  <2>2. ASSUME NEW jx \in L PROVE Q[jx] = P[jx]
    <3>1. jx \in 0..(N - 1) /\ f[jx] = e[jx]
      BY <1>4
    <3>2. P[jx] = Probes[e[jx].hash][size]
      BY <3>1, PathAt
    <3>3. Q[jx] = Probes[f[jx].hash][size]
      BY <3>1, PathAt
    <3>4. QED
      BY <3>1, <3>2, <3>3
  <2>3. Q[n] = Probes[Hash[k]][size]
    <3>1. Q[n] = Probes[f[n].hash][size]
      BY PathAt
    <3>2. QED
      BY <1>5, <3>1
  <2>4. IsPath(Q[n], size)
    BY <2>3, PathIs
  <2>5. First(Q[n], I, stops, slot)
    BY <1>8, <2>3
  <2>6. stops \in SUBSET {EMPTY, DUMMY} /\ EMPTY \in stops
    BY DEF Free
  <2>7. Filing([I EXCEPT ![slot] = n], L \cup {n}, Q, size)
    BY <1>1, <1>2, <2>1, <2>2, <2>4, <2>5, <2>6, Placed
  <2>8. QED
    BY <1>6, <2>7
<1>10. Filed(M, f)
  <2>1. Filed(L, e) /\ \A ix \in L : e[ix].key # k
    BY DEF Filable
  <2>2. ASSUME NEW ix \in M
        PROVE  f[ix].key \in Keys /\ f[ix].val \in Vals \cup {Zero} /\ f[ix].hash = Hash[f[ix].key]
    BY <1>4, <1>5, <1>6, <2>1 DEF Filed
  <2>3. ASSUME NEW ix \in M, NEW jx \in M, f[ix].key = f[jx].key
        PROVE  ix = jx
    <3>1. CASE ix \in L /\ jx \in L
      BY <1>4, <2>1, <2>3, <3>1 DEF Filed
    <3>2. CASE ix = n \/ jx = n
      BY <1>4, <1>5, <1>6, <2>1, <2>3, <3>2
    <3>3. QED
      BY <1>6, <3>1, <3>2
  <2>4. QED
    BY <2>2, <2>3 DEF Filed
<1>11. QED
  BY <1>7, <1>8, <1>9, <1>10

LEMMA FunctionPut ==
  ASSUME NEW D, NEW S, NEW g \in [D -> S], NEW i, NEW x \in S
  PROVE  [g EXCEPT ![i] = x] \in [D -> S]
OBVIOUS

LEMMA PlaceInOrder ==
  ASSUME NEW d, NEW size, InOrder(d, size), d.usable > 0, NEW k \in Keys,
         NEW v \in Vals \cup {Zero}, \A ix \in LiveIn(d) : d.entries[ix].key # k,
         NEW p, p = Place(d, k, v)
  PROVE  /\ InOrder(p, size)
         /\ p.usable = d.usable - 1 /\ p.addr = d.addr /\ p.nentries = d.nentries + 1
         /\ p.entries[d.nentries] = [hash |-> Hash[k], key |-> k, val |-> v]
         /\ Grown(LiveIn(d), d.entries, LiveIn(p), p.entries, d.nentries)
<1> PICK I : I = d.indices
  OBVIOUS
<1> PICK e : e = d.entries
  OBVIOUS
<1> PICK n : n = d.nentries
  OBVIOUS
<1> PICK w : w = d.usable
  OBVIOUS
<1> PICK u : u = USABLE_FRACTION(size)
  OBVIOUS
<1>1. /\ size \in Sizes /\ size \in Nat /\ size >= 2 /\ u \in Nat /\ u < size
      /\ w \in Nat /\ n \in Nat /\ n + w <= u
      /\ Cardinality(UsedSlots(I)) + w <= u /\ Cardinality(UsedSlots(I)) \in Nat
  BY InOrderFields
<1>2. I \in [0..(size - 1) -> Int] /\ e \in [0..(u - 1) -> EntrySet] /\ DOMAIN I = 0..(size - 1)
  BY InOrderFields
<1>3. n \in 0..(u - 1) /\ w > 0
  BY <1>1
<1>4. \E x : x = [hash |-> Hash[k], key |-> k, val |-> v] /\ x \in EntrySet /\ EntryOf(x, k)
  <2>1. Hash[k] \in Int
    BY ConstantsAssumption
  <2>2. [hash |-> Hash[k], key |-> k, val |-> v] \in EntrySet
    BY <2>1 DEF EntrySet
  <2>3. EntryOf([hash |-> Hash[k], key |-> k, val |-> v], k)
    BY DEF EntryOf
  <2>4. QED
    BY <2>2, <2>3, Zenon
<1>5. PICK x : x = [hash |-> Hash[k], key |-> k, val |-> v] /\ x \in EntrySet /\ EntryOf(x, k)
  BY <1>4, Zenon
<1> PICK slot : slot = FirstSlot(I, Hash[k], {EMPTY, DUMMY})
  OBVIOUS
<1>6. PICK f \in [0..(u - 1) -> EntrySet] : f = [e EXCEPT ![n] = x]
  BY <1>2, <1>5
<1>7. f[n] = x /\ Rest(e, f, n, u)
  BY <1>2, <1>3, <1>6 DEF Rest
<1>8. LiveIn(d) = Lives(e, n)
  BY DEF LiveIn, Lives
<1>9. Filable(I, e, n, k, size)
  <2>1. Cardinality(UsedSlots(I)) < size
    BY <1>1
  <2>2. Filed(Lives(e, n), e) /\ Filing(I, Lives(e, n), Paths(e, size), size)
    BY <1>8 DEF InOrder
  <2>3. QED
    BY <1>2, <1>8, <2>1, <2>2 DEF Filable
<1>10. /\ slot \in 0..(size - 1)
       /\ Grown(Lives(e, n), e, Lives(f, n + 1), f, n)
       /\ Filed(Lives(f, n + 1), f)
       /\ Filing([I EXCEPT ![slot] = n], Lives(f, n + 1), Paths(f, size), size)
  <2>1. EntryOf(f[n], k)
    BY <1>5, <1>7
  <2>2. Free({EMPTY, DUMMY})
    BY DEF Free
  <2>3. QED
    BY <1>1, <1>2, <1>3, <1>7, <1>9, <2>1, <2>2, FilePlaced
<1>11. PICK J \in [0..(size - 1) -> Int] : J = [I EXCEPT ![slot] = n]
  <2>1. n \in Int
    BY <1>1
  <2>2. [I EXCEPT ![slot] = n] \in [0..(size - 1) -> Int]
    BY <1>2, <2>1, FunctionPut
  <2>3. QED
    BY <2>2, Zenon
<1>12. IsTable(p, size, d.addr, w - 1, n + 1, J, f)
  <2>1. J = [d.indices EXCEPT ![FindEmptySlot(d.indices, Hash[k])] = d.nentries]
    BY <1>11, Zenon DEF FindEmptySlot
  <2>2. f = [d.entries EXCEPT ![d.nentries] = [hash |-> Hash[k], key |-> k, val |-> v]]
    BY <1>5, <1>6, Zenon
  <2>3. d \in Tables(size)
    BY DEF InOrder
  <2>4. QED
    BY <1>6, <1>11, <2>1, <2>2, <2>3, PlaceFields
<1>13. Cardinality(UsedSlots(J)) + (w - 1) <= u
  <2>1. Cardinality(UsedSlots(J)) <= Cardinality(UsedSlots(I)) + 1
    BY <1>1, <1>2, <1>10, <1>11, UsedSlotsPut
  <2>2. Cardinality(UsedSlots(J)) \in Nat
    <3>1. DOMAIN J = 0..(size - 1)
      BY <1>11
    <3>2. QED
      BY <1>1, <3>1, UsedSlotsType
  <2>3. QED
    BY <1>1, <2>1, <2>2
<1>14. /\ p \in Tables(size) /\ p.addr = d.addr /\ p.usable = w - 1 /\ p.nentries = n + 1
       /\ p.indices = J /\ p.entries = f
  BY <1>12 DEF IsTable
<1>15. LiveIn(p) = Lives(f, n + 1)
  BY <1>14 DEF LiveIn, Lives
<1>16. InOrder(p, size)
  <2>1. (n + 1) + (w - 1) <= u
    BY <1>1
  <2>2. Filing(J, Lives(f, n + 1), Paths(f, size), size)
    BY <1>10, <1>11
  <2>3. QED
    BY <1>1, <1>10, <1>13, <1>14, <1>15, <2>1, <2>2 DEF InOrder
<1>17. QED
  BY <1>5, <1>7, <1>8, <1>10, <1>14, <1>15, <1>16

(* An entry is dropped, from its slot and from those that are not empty.   *)
Droppable(I, e, n, f, m, ix, size, N) ==
  /\ ix \in Lives(e, n) /\ Lives(f, m) = Lives(e, n) \ {ix} /\ Rest(e, f, ix, N)
  /\ Filed(Lives(e, n), e) /\ Filing(I, Lives(e, n), Paths(e, size), size)

LEMMA FileDropped ==
  ASSUME NEW size \in Sizes, NEW N \in Nat, NEW n \in 0..N, NEW m \in 0..N,
         NEW I, NEW e \in [0..(N - 1) -> EntrySet], NEW f \in [0..(N - 1) -> EntrySet],
         NEW ix, Droppable(I, e, n, f, m, ix, size, N),
         NEW slot, slot = FirstSlot(I, e[ix].hash, {ix, EMPTY})
  PROVE  /\ Emptied(I, ix, slot, Lives(f, m), Paths(f, size), size)
         /\ Grown(Lives(f, m), f, Lives(e, n), e, ix)
         /\ Filed(Lives(f, m), f)
<1> PICK L : L = Lives(e, n)
  OBVIOUS
<1> PICK M : M = Lives(f, m)
  OBVIOUS
<1> PICK k : k = e[ix].key
  OBVIOUS
<1> PICK P : P = Paths(e, size)
  OBVIOUS
<1> PICK Q : Q = Paths(f, size)
  OBVIOUS
<1> PICK stops : stops = {ix, EMPTY}
  OBVIOUS
<1>1. size \in Nat /\ M = L \ {ix} /\ ix \in L
  BY SizesType DEF Droppable
<1>2. L \in SUBSET (0..(n - 1)) /\ (\A jx \in L : jx \in 0..(N - 1)) /\ ix \in 0..(N - 1)
  <2>1. L \in SUBSET (0..(n - 1)) /\ \A jx \in 0..(n - 1) : jx \in 0..(N - 1)
    BY DEF Lives
  <2>2. QED
    BY <1>1, <2>1
<1>3. ASSUME NEW jx \in M PROVE f[jx] = e[jx] /\ jx \in 0..(N - 1)
  BY <1>1, <1>2 DEF Rest, Droppable
<1>4. k \in Keys /\ e[ix].hash = Hash[k]
  BY <1>1 DEF Filed, Droppable
<1>5. Filing(I, L, P, size)
  BY DEF Droppable
<1>6. P[ix] = Probes[Hash[k]][size]
  <2>1. P[ix] = Probes[e[ix].hash][size]
    BY <1>2, PathAt
  <2>2. QED
    BY <1>4, <2>1
<1>7. First(P[ix], I, stops, slot)
  <2>1. IsPath(P[ix], size) /\ Reach(I, P[ix], ix) /\ DOMAIN I = 0..(size - 1)
    BY <1>1, <1>5 DEF Filing
  <2>2. \E y \in 0..(size - 1) : I[y] = ix
    BY <2>1 DEF IsPath, Reach
  <2>3. PICK y \in 0..(size - 1) : I[y] \in stops
    BY <2>2
  <2>4. slot = FirstSlot(I, Hash[k], stops)
    BY <1>4
  <2>5. First(Probes[Hash[k]][size], I, stops, FirstSlot(I, Hash[k], stops))
    <3>1. k \in Keys /\ DOMAIN I = 0..(size - 1)
      BY <1>4, <2>1
    <3>2. QED
      BY <2>3, <3>1, FirstSlotFinds
  <2>6. QED
    BY <1>6, <2>4, <2>5
<1>8. AgreeOn(Q, P, M)
  <2> SUFFICES ASSUME NEW jx \in M PROVE Q[jx] = P[jx]
    BY DEF AgreeOn
  <2>1. jx \in 0..(N - 1) /\ f[jx] = e[jx]
    BY <1>1, <1>3
  <2>2. P[jx] = Probes[e[jx].hash][size]
    BY <2>1, PathAt
  <2>3. Q[jx] = Probes[f[jx].hash][size]
    BY <2>1, PathAt
  <2>4. QED
    BY <2>1, <2>2, <2>3
<1>9. Emptied(I, ix, slot, M, Q, size)
  <2>1. Dropping(I, L, P, ix, slot, M, Q)
    BY <1>1, <1>7, <1>8 DEF Dropping
  <2>2. QED
    BY <1>1, <1>5, <2>1, Dropped
<1>10. Filed(M, f)
  <2>1. Filed(L, e)
    BY DEF Droppable
  <2>2. QED
    BY <1>1, <1>3, <2>1 DEF Filed
<1>11. Grown(M, f, L, e, ix)
  <2>1. IsFiniteSet(0..(n - 1))
    BY FS_Interval
  <2>2. IsFiniteSet(M)
    BY <1>1, <1>2, <2>1, FS_Subset
  <2>3. L = M \cup {ix} /\ ix \notin M
    BY <1>1
  <2>4. QED
    BY <1>3, <2>2, <2>3 DEF Grown
<1>12. QED
  BY <1>1, <1>9, <1>10, <1>11

(* The operations on the table that is there.                              *)
LEMMA LookupIs ==
  ASSUME NEW size, InOrder(keys, size), NEW k \in Keys
  PROVE  \/ \E ix \in LiveIn(keys) : keys.entries[ix].key = k /\ Lookup(k) = ix
         \/ (\A ix \in LiveIn(keys) : keys.entries[ix].key # k) /\ Lookup(k) = EMPTY
<1> PICK I : I = keys.indices
  OBVIOUS
<1> PICK e : e = keys.entries
  OBVIOUS
<1> PICK L : L = LiveIn(keys)
  OBVIOUS
<1> PICK u : u = USABLE_FRACTION(size)
  OBVIOUS
<1> PICK S : S = SameKey(keys, k)
  OBVIOUS
<1> PICK slot : slot = FirstSlot(I, Hash[k], S \cup {EMPTY})
  OBVIOUS
<1> PICK P : P = Paths(e, size)
  OBVIOUS
<1>1. /\ size \in Sizes /\ size \in Nat /\ u \in Nat /\ u < size /\ keys.usable \in Nat
      /\ Cardinality(UsedSlots(I)) + keys.usable <= u /\ Cardinality(UsedSlots(I)) \in Nat
  BY InOrderFields
<1>2. /\ I \in [0..(size - 1) -> Int] /\ e \in [0..(u - 1) -> EntrySet]
      /\ DOMAIN I = 0..(size - 1) /\ DOMAIN e = 0..(u - 1) /\ L \in SUBSET (0..(u - 1))
  BY InOrderFields
<1>3. Filed(L, e) /\ Filing(I, L, P, size)
  BY DEF InOrder
<1>4. S = {ix \in 0..(u - 1) : e[ix].hash = Hash[k] /\ e[ix].key = k}
  BY <1>2 DEF SameKey, SameHash
<1>5. PICK y \in 0..(size - 1) : I[y] = EMPTY
  <2>1. Cardinality(UsedSlots(I)) < size
    BY <1>1
  <2>2. QED
    BY <1>1, <1>2, <2>1, UsedSlotsType
<1>6. /\ First(Probes[Hash[k]][size], I, S \cup {EMPTY}, slot)
      /\ slot \in 0..(size - 1) /\ I[slot] \in S \cup {EMPTY}
  <2>1. I[y] \in S \cup {EMPTY}
    BY <1>5
  <2>2. QED
    BY <1>1, <1>2, <2>1, FirstSlotFinds
<1>7. Lookup(k) = I[slot]
  <2>1. slot # HANG
    BY <1>6 DEF HANG
  <2>2. QED
    BY <2>1 DEF Lookup
<1>8. CASE \E ix \in L : e[ix].key = k
  <2>1. PICK ix \in L : e[ix].key = k
    BY <1>8
  <2>2. e[ix].hash = Hash[k] /\ ix \in 0..(u - 1)
    BY <1>2, <1>3, <2>1 DEF Filed
  <2>3. ix \in S
    BY <1>4, <2>1, <2>2
  <2>4. P[ix] = Probes[Hash[k]][size]
    <3>1. P[ix] = Probes[e[ix].hash][size]
      BY <1>2, <2>2, PathAt
    <3>2. QED
      BY <2>2, <3>1
  <2>5. I[slot] \in L \/ I[slot] = DUMMY
    <3>1. First(P[ix], I, S \cup {EMPTY}, slot)
      BY <1>6, <2>4
    <3>2. QED
      BY <1>1, <1>3, <2>3, <3>1, Found
  <2>6. I[slot] \in L /\ I[slot] \in S
    <3>1. DUMMY \notin S /\ DUMMY # EMPTY
      BY <1>4 DEF DUMMY, EMPTY
    <3>2. EMPTY \notin L
      BY <1>2 DEF EMPTY
    <3>3. I[slot] # DUMMY
      BY <1>6, <3>1
    <3>4. QED
      BY <1>6, <2>5, <3>2, <3>3
  <2>7. I[slot] = ix
    BY <1>3, <1>4, <2>1, <2>6 DEF Filed
  <2>8. QED
    BY <1>7, <2>1, <2>7
<1>9. CASE ~ \E ix \in L : e[ix].key = k
  <2>1. I[slot] \notin S
    <3>1. ASSUME I[slot] \in S PROVE FALSE
      <4>1. I[slot] \in 0..(u - 1) /\ e[I[slot]].key = k
        BY <1>4, <3>1
      <4>2. I[slot] \in L
        BY <1>3, <1>6, <4>1 DEF Filing, EMPTY, DUMMY
      <4>3. QED
        BY <1>9, <4>1, <4>2
    <3>2. QED
      BY <3>1
  <2>2. I[slot] = EMPTY
    BY <1>6, <2>1
  <2>3. QED
    BY <1>7, <1>9, <2>2
<1>10. QED
  BY <1>8, <1>9

(* What is left of a table when an entry is dropped.                       *)
Emptying(I, h, ix, J) == J = [I EXCEPT ![FirstSlot(I, h, {ix, EMPTY})] = DUMMY]

LEMMA DroppedInOrder ==
  ASSUME NEW d, NEW size, InOrder(d, size), NEW m \in 0..d.nentries,
         NEW f \in [0..(USABLE_FRACTION(size) - 1) -> EntrySet], NEW ix,
         Droppable(d.indices, d.entries, d.nentries, f, m, ix, size, USABLE_FRACTION(size)),
         NEW J, Emptying(d.indices, d.entries[ix].hash, ix, J),
         NEW p, IsTable(p, size, d.addr, d.usable, m, J, f)
  PROVE  InOrder(p, size) /\ Grown(LiveIn(p), p.entries, LiveIn(d), d.entries, ix)
<1> PICK I : I = d.indices
  OBVIOUS
<1> PICK e : e = d.entries
  OBVIOUS
<1> PICK n : n = d.nentries
  OBVIOUS
<1> PICK w : w = d.usable
  OBVIOUS
<1> PICK u : u = USABLE_FRACTION(size)
  OBVIOUS
<1> PICK slot : slot = FirstSlot(I, e[ix].hash, {ix, EMPTY})
  OBVIOUS
<1>1. /\ size \in Sizes /\ size \in Nat /\ u \in Nat /\ w \in Nat /\ n \in Nat /\ n + w <= u
      /\ Cardinality(UsedSlots(I)) + w <= u /\ Cardinality(UsedSlots(I)) \in Nat
      /\ DOMAIN I = 0..(size - 1) /\ e \in [0..(u - 1) -> EntrySet]
  BY InOrderFields
<1>2. n \in 0..u /\ m \in 0..u /\ m \in Nat /\ m + w <= u
  BY <1>1
<1>3. /\ slot \in 0..(size - 1) /\ I[slot] = ix
      /\ Grown(Lives(f, m), f, Lives(e, n), e, ix)
      /\ Filed(Lives(f, m), f)
      /\ Filing([I EXCEPT ![slot] = DUMMY], Lives(f, m), Paths(f, size), size)
  <2>1. Droppable(I, e, n, f, m, ix, size, u)
    OBVIOUS
  <2>2. /\ Emptied(I, ix, slot, Lives(f, m), Paths(f, size), size)
        /\ Grown(Lives(f, m), f, Lives(e, n), e, ix)
        /\ Filed(Lives(f, m), f)
    BY <1>1, <1>2, <2>1, FileDropped
  <2>3. QED
    BY <2>2 DEF Emptied
<1>4. J = [I EXCEPT ![slot] = DUMMY]
  BY Zenon DEF Emptying
<1>5. /\ p \in Tables(size) /\ p.usable = w /\ p.nentries = m /\ p.indices = J /\ p.entries = f
  BY DEF IsTable
<1>6. LiveIn(p) = Lives(f, m) /\ LiveIn(d) = Lives(e, n)
  BY <1>5 DEF LiveIn, Lives
<1>7. Cardinality(UsedSlots(J)) + w <= u
  <2>1. I[slot] # EMPTY
    <3>1. ix \in Lives(e, n)
      BY DEF Droppable
    <3>2. QED
      BY <1>3, <3>1 DEF Lives, EMPTY
  <2>2. Cardinality(UsedSlots(J)) <= Cardinality(UsedSlots(I))
    BY <1>1, <1>3, <1>4, <2>1, UsedSlotsPut
  <2>3. Cardinality(UsedSlots(J)) \in Nat
    <3>1. DOMAIN J = 0..(size - 1)
      BY <1>1, <1>4
    <3>2. QED
      BY <1>1, <3>1, UsedSlotsType
  <2>4. QED
    BY <1>1, <2>2, <2>3
<1>8. Filing(J, Lives(f, m), Paths(f, size), size)
  BY <1>3, <1>4
<1>9. QED
  BY <1>1, <1>2, <1>3, <1>5, <1>6, <1>7, <1>8 DEF InOrder

(* The slot found for a live entry is the one that holds its index.        *)
LEMMA LookupIndexIs ==
  ASSUME NEW size, InOrder(keys, size), NEW ix \in LiveIn(keys)
  PROVE  /\ LookupIndex(keys.entries[ix].hash, ix) \in 0..(size - 1)
         /\ keys.indices[LookupIndex(keys.entries[ix].hash, ix)] = ix
<1> PICK I : I = keys.indices
  OBVIOUS
<1> PICK e : e = keys.entries
  OBVIOUS
<1> PICK n : n = keys.nentries
  OBVIOUS
<1> PICK u : u = USABLE_FRACTION(size)
  OBVIOUS
<1> PICK slot : slot = FirstSlot(I, e[ix].hash, {ix, EMPTY})
  OBVIOUS
<1>1. /\ size \in Sizes /\ size \in Nat /\ u \in Nat /\ n \in Nat /\ keys.usable \in Nat
      /\ n + keys.usable <= u /\ e \in [0..(u - 1) -> EntrySet] /\ LiveIn(keys) = Lives(e, n)
      /\ ix \in 0..(u - 1)
  BY InOrderFields DEF LiveIn, Lives
<1>2. Blank \in EntrySet /\ Blank.hash = EMPTY
  BY DEF Blank, EntrySet, EMPTY
<1>3. PICK f \in [0..(u - 1) -> EntrySet] : f = [e EXCEPT ![ix] = Blank]
  BY <1>1, <1>2, FunctionPut
<1>4. f[ix] = Blank /\ Rest(e, f, ix, u)
  BY <1>1, <1>3 DEF Rest
<1>5. Lives(f, n) = Lives(e, n) \ {ix}
  <2>1. n \in 0..u
    BY <1>1
  <2>2. \A jx \in 0..(n - 1) : jx # ix => f[jx] = e[jx]
    BY <1>1, <1>4, <2>1 DEF Rest
  <2>3. QED
    BY <1>2, <1>4, <2>2 DEF Lives
<1>6. Filed(Lives(e, n), e) /\ Filing(I, Lives(e, n), Paths(e, size), size)
  BY <1>1 DEF InOrder
<1>7. Droppable(I, e, n, f, n, ix, size, u)
  BY <1>1, <1>4, <1>5, <1>6 DEF Droppable
<1>8. slot \in 0..(size - 1) /\ I[slot] = ix
  <2>1. n \in 0..u
    BY <1>1
  <2>2. Emptied(I, ix, slot, Lives(f, n), Paths(f, size), size)
    BY <1>1, <1>3, <1>7, <2>1, FileDropped
  <2>3. QED
    BY <2>2 DEF Emptied
<1>9. LookupIndex(e[ix].hash, ix) = slot
  BY DEF LookupIndex
<1>10. QED
  BY <1>8, <1>9

(* del d[k] leaves a table in order.                                       *)
LEMMA DelInOrder ==
  ASSUME NEW size, InOrder(keys, size), NEW ix \in LiveIn(keys),
         NEW p, p = DelItem(ix, keys.entries[ix].hash)
  PROVE  /\ InOrder(p, size) /\ p.addr = keys.addr /\ p.usable = keys.usable
         /\ p.nentries = keys.nentries
         /\ Grown(LiveIn(p), p.entries, LiveIn(keys), keys.entries, ix)
<1> PICK I : I = keys.indices
  OBVIOUS
<1> PICK e : e = keys.entries
  OBVIOUS
<1> PICK n : n = keys.nentries
  OBVIOUS
<1> PICK u : u = USABLE_FRACTION(size)
  OBVIOUS
<1> PICK h : h = e[ix].hash
  OBVIOUS
<1>1. /\ size \in Sizes /\ size \in Nat /\ u \in Nat /\ n \in Nat /\ keys.usable \in Nat
      /\ n + keys.usable <= u /\ e \in [0..(u - 1) -> EntrySet] /\ LiveIn(keys) = Lives(e, n)
      /\ ix \in 0..(u - 1) /\ I \in [0..(size - 1) -> Int]
  BY InOrderFields DEF LiveIn, Lives
<1>2. Blank \in EntrySet /\ Blank.hash = EMPTY
  BY DEF Blank, EntrySet, EMPTY
<1>3. PICK f \in [0..(u - 1) -> EntrySet] : f = [e EXCEPT ![ix] = Blank]
  BY <1>1, <1>2, FunctionPut
<1>4. f[ix] = Blank /\ Rest(e, f, ix, u)
  BY <1>1, <1>3 DEF Rest
<1>5. Lives(f, n) = Lives(e, n) \ {ix}
  <2>1. n \in 0..u
    BY <1>1
  <2>2. \A jx \in 0..(n - 1) : jx # ix => f[jx] = e[jx]
    BY <1>1, <1>4, <2>1 DEF Rest
  <2>3. QED
    BY <1>2, <1>4, <2>2 DEF Lives
<1>6. Filed(Lives(e, n), e) /\ Filing(I, Lives(e, n), Paths(e, size), size)
  BY <1>1 DEF InOrder
<1>7. Droppable(I, e, n, f, n, ix, size, u)
  BY <1>1, <1>4, <1>5, <1>6 DEF Droppable
<1>8. PICK J \in [0..(size - 1) -> Int] : J = [I EXCEPT ![LookupIndex(h, ix)] = DUMMY]
  <2>1. DUMMY \in Int
    BY DEF DUMMY
  <2>2. [I EXCEPT ![LookupIndex(h, ix)] = DUMMY] \in [0..(size - 1) -> Int]
    BY <1>1, <2>1, FunctionPut
  <2>3. QED
    BY <2>2, Zenon
<1>9. Emptying(I, h, ix, J)
  <2>1. LookupIndex(h, ix) = FirstSlot(I, h, {ix, EMPTY})
    BY DEF LookupIndex
  <2>2. QED
    BY <1>8, <2>1, Zenon DEF Emptying
<1>10. p = WithEntries(WithIndices(keys, J), f)
  BY <1>3, <1>8 DEF DelItem, WithEntries, WithIndices, InOrder, Tables
<1>11. IsTable(p, size, keys.addr, keys.usable, n, J, f)
  <2>1. keys \in Tables(size)
    BY DEF InOrder
  <2>2. IsTable(keys, size, keys.addr, keys.usable, n, I, e)
    BY <2>1, TableIs
  <2>3. IsTable(WithIndices(keys, J), size, keys.addr, keys.usable, n, J, e)
    BY <1>8, <2>2, PutIndices
  <2>4. IsTable(WithEntries(WithIndices(keys, J), f), size, keys.addr, keys.usable, n, J, f)
    BY <1>3, <2>3, PutEntries
  <2>5. QED
    BY <1>10, <2>4
<1>12. InOrder(p, size) /\ Grown(LiveIn(p), p.entries, LiveIn(keys), e, ix)
  <2>1. n \in 0..n
    BY <1>1
  <2>2. QED
    BY <1>3, <1>7, <1>9, <1>11, <2>1, DroppedInOrder
<1>13. QED
  BY <1>11, <1>12 DEF IsTable

(* popitem() leaves a table in order.                                      *)
LEMMA LastLiveIs ==
  ASSUME NEW size, InOrder(keys, size), Cardinality(LiveIn(keys)) # 0
  PROVE  LastLive \in LiveIn(keys) /\ \A jx \in LiveIn(keys) : jx <= LastLive
<1> PICK L : L = LiveIn(keys)
  OBVIOUS
<1> PICK n : n = keys.nentries
  OBVIOUS
<1>1. L \in SUBSET (0..(n - 1)) /\ n \in Nat
  BY InOrderFields
<1>2. PICK a \in L : TRUE
  <2>1. L = {} => Cardinality(L) = 0
    BY FS_EmptySet
  <2>2. QED
    BY <2>1
<1> PICK S : S = {(n - 1) - jx : jx \in L}
  OBVIOUS
<1>3. S \in SUBSET Nat /\ (n - 1) - a \in S
  BY <1>1, <1>2
<1>4. Smallest(S) \in S /\ \A t \in S : Smallest(S) <= t
  BY <1>3, SmallestOf
<1>5. PICK ix \in L : Smallest(S) = (n - 1) - ix
  BY <1>4
<1>6. \A jx \in L : jx <= ix
  <2>1. \A jx \in L : (n - 1) - ix <= (n - 1) - jx
    BY <1>4, <1>5
  <2>2. QED
    BY <1>1, <2>1
<1>7. QED
  BY <1>6 DEF LastLive

LEMMA PopInOrder ==
  ASSUME NEW size, InOrder(keys, size), NEW ix \in LiveIn(keys),
         \A jx \in LiveIn(keys) : jx <= ix, NEW p, p = Popped(ix)
  PROVE  /\ InOrder(p, size) /\ p.addr = keys.addr /\ p.usable = keys.usable
         /\ p.nentries = ix
         /\ Grown(LiveIn(p), p.entries, LiveIn(keys), keys.entries, ix)
<1> PICK I : I = keys.indices
  OBVIOUS
<1> PICK e : e = keys.entries
  OBVIOUS
<1> PICK n : n = keys.nentries
  OBVIOUS
<1> PICK u : u = USABLE_FRACTION(size)
  OBVIOUS
<1> PICK h : h = e[ix].hash
  OBVIOUS
<1>1. /\ size \in Sizes /\ size \in Nat /\ u \in Nat /\ n \in Nat /\ keys.usable \in Nat
      /\ n + keys.usable <= u /\ e \in [0..(u - 1) -> EntrySet] /\ LiveIn(keys) = Lives(e, n)
      /\ ix \in 0..(u - 1) /\ I \in [0..(size - 1) -> Int] /\ keys \in Tables(size)
  BY InOrderFields DEF LiveIn, Lives, InOrder
<1>2. \E x : x = [[e[ix] EXCEPT !.key = Zero] EXCEPT !.val = Zero] /\ x \in EntrySet
  <2>1. e[ix] \in EntrySet
    BY <1>1
  <2>2. [[e[ix] EXCEPT !.key = Zero] EXCEPT !.val = Zero] \in EntrySet
    BY <2>1 DEF EntrySet
  <2>3. QED
    BY <2>2, Zenon
<1>3. PICK x : x = [[e[ix] EXCEPT !.key = Zero] EXCEPT !.val = Zero] /\ x \in EntrySet
  BY <1>2, Zenon
<1>4. PICK f \in [0..(u - 1) -> EntrySet] : f = [e EXCEPT ![ix] = x]
  <2>1. [e EXCEPT ![ix] = x] \in [0..(u - 1) -> EntrySet]
    BY <1>1, <1>3, FunctionPut
  <2>2. QED
    BY <2>1, Zenon
<1>5. Rest(e, f, ix, u)
  BY <1>1, <1>4 DEF Rest
<1>6. Lives(f, ix) = Lives(e, n) \ {ix}
  <2>1. n \in 0..u /\ ix \in 0..(n - 1)
    BY <1>1 DEF Lives
  <2>2. \A jx \in 0..(ix - 1) : jx # ix /\ f[jx] = e[jx] /\ jx \in 0..(n - 1)
    BY <1>1, <1>5, <2>1 DEF Rest
  <2>3. \A jx \in Lives(e, n) : jx # ix => jx \in 0..(ix - 1)
    BY <1>1, <2>1 DEF Lives
  <2>4. QED
    BY <2>2, <2>3 DEF Lives
<1>7. Filed(Lives(e, n), e) /\ Filing(I, Lives(e, n), Paths(e, size), size)
  BY <1>1 DEF InOrder
<1>8. Droppable(I, e, n, f, ix, ix, size, u)
  BY <1>1, <1>5, <1>6, <1>7 DEF Droppable
<1>9. PICK J \in [0..(size - 1) -> Int] : J = [I EXCEPT ![LookupIndex(h, ix)] = DUMMY]
  <2>1. DUMMY \in Int
    BY DEF DUMMY
  <2>2. [I EXCEPT ![LookupIndex(h, ix)] = DUMMY] \in [0..(size - 1) -> Int]
    BY <1>1, <2>1, FunctionPut
  <2>3. QED
    BY <2>2, Zenon
<1>10. Emptying(I, h, ix, J)
  <2>1. LookupIndex(h, ix) = FirstSlot(I, h, {ix, EMPTY})
    BY DEF LookupIndex
  <2>2. QED
    BY <1>9, <2>1, Zenon DEF Emptying
<1>11. IsTable(p, size, keys.addr, keys.usable, ix, J, f)
  <2> PICK a : a = [e EXCEPT ![ix] = [e[ix] EXCEPT !.key = Zero]]
    OBVIOUS
  <2>1. IsTable(keys, size, keys.addr, keys.usable, n, I, e)
    BY <1>1, TableIs
  <2>2. IsTable(WithIndices(keys, J), size, keys.addr, keys.usable, n, J, e)
    BY <1>9, <2>1, PutIndices
  <2>3. a \in [0..(u - 1) -> EntrySet]
    <3>1. e[ix] \in EntrySet
      BY <1>1
    <3>2. [e[ix] EXCEPT !.key = Zero] \in EntrySet
      BY <3>1 DEF EntrySet
    <3>3. QED
      BY <1>1, <3>2
  <2>4. IsTable(WithEntries(WithIndices(keys, J), a), size, keys.addr, keys.usable, n, J, a)
    BY <2>2, <2>3, PutEntries
  <2>5. IsTable(WithEntries(WithEntries(WithIndices(keys, J), a), f), size, keys.addr,
                keys.usable, n, J, f)
    BY <1>4, <2>4, PutEntries
  <2>6. ix \in Nat
    BY <1>1
  <2>7. IsTable(WithNentries(WithEntries(WithEntries(WithIndices(keys, J), a), f), ix), size,
                keys.addr, keys.usable, ix, J, f)
    BY <2>5, <2>6, PutNentries
  <2>8. p = WithNentries(WithEntries(WithEntries(WithIndices(keys, J), a), f), ix)
    <3>1. WithIndices(keys, J).entries = e
      BY <2>2 DEF IsTable
    <3>2. WithEntries(WithIndices(keys, J), a).entries = a
      BY <2>4 DEF IsTable
    <3>3. a[ix] = [e[ix] EXCEPT !.key = Zero]
      BY <1>1
    <3>4. [a EXCEPT ![ix] = [a[ix] EXCEPT !.val = Zero]] = f
      <4>1. [a[ix] EXCEPT !.val = Zero] = x
        BY <1>3, <3>3, Zenon
      <4>2. [a EXCEPT ![ix] = x] = f
        BY <1>1, <1>4, <2>3
      <4>3. QED
        BY <4>1, <4>2, Zenon
    <3>5. p = [[[[keys EXCEPT !.indices = J] EXCEPT !.entries = a]
                  EXCEPT !.entries = [a EXCEPT ![ix] = [a[ix] EXCEPT !.val = Zero]]]
                  EXCEPT !.nentries = ix]
      BY <1>9, <3>1, <3>2, Zenon DEF Popped, WithEntries, WithIndices
    <3>6. QED
      BY <3>4, <3>5, Zenon DEF WithNentries, WithEntries, WithIndices
  <2>9. QED
    BY <2>7, <2>8
<1>12. InOrder(p, size) /\ Grown(LiveIn(p), p.entries, LiveIn(keys), e, ix)
  <2>1. ix \in 0..n
    BY <1>1 DEF Lives
  <2>2. QED
    BY <1>4, <1>8, <1>10, <1>11, <2>1, DroppedInOrder
<1>13. QED
  BY <1>11, <1>12 DEF IsTable

(* Assigning to a key that is there changes a value and nothing else.      *)
LEMMA ReplaceInOrder ==
  ASSUME NEW size, InOrder(keys, size), NEW ix \in LiveIn(keys), NEW v \in Vals \cup {Zero},
         NEW p, p = [keys EXCEPT !.entries[ix].val = v],
         NEW r, Exact(r, LiveIn(keys), keys.entries)
  PROVE  /\ InOrder(p, size) /\ p.addr = keys.addr /\ p.usable = keys.usable
         /\ p.nentries = keys.nentries /\ LiveIn(p) = LiveIn(keys)
         /\ p.entries = [keys.entries EXCEPT ![ix] = [keys.entries[ix] EXCEPT !.val = v]]
         /\ Exact(Incref(Decref(r, keys.entries[ix].val), v), LiveIn(p), p.entries)
<1> PICK I : I = keys.indices
  OBVIOUS
<1> PICK e : e = keys.entries
  OBVIOUS
<1> PICK n : n = keys.nentries
  OBVIOUS
<1> PICK u : u = USABLE_FRACTION(size)
  OBVIOUS
<1> PICK L : L = LiveIn(keys)
  OBVIOUS
<1> PICK M : M = L \ {ix}
  OBVIOUS
<1> PICK old : old = e[ix].val
  OBVIOUS
<1>1. /\ size \in Sizes /\ size \in Nat /\ u \in Nat /\ n \in Nat /\ keys.usable \in Nat
      /\ n + keys.usable <= u /\ e \in [0..(u - 1) -> EntrySet] /\ LiveIn(keys) = Lives(e, n)
      /\ ix \in 0..(u - 1) /\ I \in [0..(size - 1) -> Int] /\ keys \in Tables(size)
      /\ L \in SUBSET (0..(u - 1))
  BY InOrderFields DEF LiveIn, Lives, InOrder
<1>2. \E x : x = [e[ix] EXCEPT !.val = v] /\ x \in EntrySet /\ x.key = e[ix].key
             /\ x.hash = e[ix].hash /\ x.val = v
  <2>1. e[ix] \in EntrySet
    BY <1>1
  <2>2. [e[ix] EXCEPT !.val = v] \in EntrySet /\ [e[ix] EXCEPT !.val = v].key = e[ix].key
        /\ [e[ix] EXCEPT !.val = v].hash = e[ix].hash /\ [e[ix] EXCEPT !.val = v].val = v
    BY <2>1 DEF EntrySet
  <2>3. QED
    BY <2>2, Zenon
<1>3. PICK x : x = [e[ix] EXCEPT !.val = v] /\ x \in EntrySet /\ x.key = e[ix].key
               /\ x.hash = e[ix].hash /\ x.val = v
  BY <1>2, Zenon
<1>4. PICK f \in [0..(u - 1) -> EntrySet] : f = [e EXCEPT ![ix] = x]
  <2>1. [e EXCEPT ![ix] = x] \in [0..(u - 1) -> EntrySet]
    BY <1>1, <1>3, FunctionPut
  <2>2. QED
    BY <2>1, Zenon
<1>5. Rest(e, f, ix, u) /\ f[ix] = x
  BY <1>1, <1>4 DEF Rest
<1>6. ASSUME NEW jx \in 0..(u - 1)
      PROVE  f[jx].key = e[jx].key /\ f[jx].hash = e[jx].hash
             /\ (f[jx].val = e[jx].val \/ f[jx].val = v)
  BY <1>3, <1>5 DEF Rest
<1>7. IsTable(p, size, keys.addr, keys.usable, n, I, f)
  <2>1. IsTable(keys, size, keys.addr, keys.usable, n, I, e)
    BY <1>1, TableIs
  <2>2. IsTable(WithEntries(keys, f), size, keys.addr, keys.usable, n, I, f)
    BY <1>4, <2>1, PutEntries
  <2>3. p = WithEntries(keys, f)
    BY <1>3, <1>4, Zenon DEF WithEntries
  <2>4. QED
    BY <2>2, <2>3
<1>8. /\ p \in Tables(size) /\ p.addr = keys.addr /\ p.usable = keys.usable /\ p.nentries = n
      /\ p.indices = I /\ p.entries = f
  BY <1>7 DEF IsTable
<1>9. LiveIn(p) = L
  <2>1. \A jx \in 0..(n - 1) : f[jx].hash = e[jx].hash
    BY <1>1, <1>6
  <2>2. QED
    BY <1>8, <2>1 DEF LiveIn
<1>10. Paths(f, size) = Paths(e, size)
  <2>1. DOMAIN f = 0..(u - 1) /\ DOMAIN e = 0..(u - 1)
    BY <1>1
  <2>2. QED
    BY <1>6, <2>1 DEF Paths
<1>11. Filed(L, e) /\ Filing(I, L, Paths(e, size), size)
  BY DEF InOrder
<1>12. Filed(L, f)
  <2>1. ASSUME NEW jx \in L
        PROVE  f[jx].key \in Keys /\ f[jx].val \in Vals \cup {Zero}
               /\ f[jx].hash = Hash[f[jx].key]
    <3>1. f[jx].key = e[jx].key /\ f[jx].hash = e[jx].hash
          /\ (f[jx].val = e[jx].val \/ f[jx].val = v)
      BY <1>1, <1>6
    <3>2. e[jx].key \in Keys /\ e[jx].val \in Vals \cup {Zero} /\ e[jx].hash = Hash[e[jx].key]
      BY <1>11, Zenon DEF Filed
    <3>3. QED
      BY <3>1, <3>2, Zenon
  <2>2. ASSUME NEW jx \in L, NEW mx \in L, f[jx].key = f[mx].key PROVE jx = mx
    <3>1. f[jx].key = e[jx].key /\ f[mx].key = e[mx].key
      BY <1>1, <1>6
    <3>2. Filed(L, e)
      BY <1>11
    <3>3. QED
      BY <2>2, <3>1, <3>2, Zenon DEF Filed
  <2>3. QED
    BY <2>1, <2>2 DEF Filed
<1>13. InOrder(p, size)
  <2>1. n + keys.usable <= u /\ Cardinality(UsedSlots(I)) + keys.usable <= u
    BY DEF InOrder
  <2>2. QED
    BY <1>1, <1>8, <1>9, <1>10, <1>11, <1>12, <2>1 DEF InOrder
<1>14. Grown(M, e, L, e, ix) /\ Grown(M, e, L, f, ix)
  <2>1. IsFiniteSet(0..(u - 1))
    <3>1. u - 1 \in Int
      BY <1>1
    <3>2. QED
      BY <3>1, FS_Interval
  <2>2. IsFiniteSet(M)
    BY <1>1, <2>1, FS_Subset
  <2>3. L = M \cup {ix} /\ ix \notin M
    OBVIOUS
  <2>4. \A jx \in M : f[jx] = e[jx]
    BY <1>1, <1>5 DEF Rest
  <2>5. QED
    BY <2>2, <2>3, <2>4 DEF Grown
<1> PICK s : s = Decref(r, old)
  OBVIOUS
<1> PICK t : t = Incref(s, v)
  OBVIOUS
<1>15. Exact(t, L, f)
  <2>1. r \in Refs
    BY DEF Exact
  <2>2. CASE Keys \cup Vals = {}
    <3>1. L = {}
      BY <1>12, <2>2 DEF Filed
    <3>2. QED
      BY <3>1
  <2>3. CASE Keys \cup Vals # {}
    <3>1. s \in Refs
      BY <2>1, <2>3, IncrefIs
    <3>2. t \in Refs
      BY <2>3, <3>1, IncrefIs
    <3>3. ASSUME NEW y \in Keys \cup Vals PROVE t[y] = Owns(L, f, y)
      <4>1. s[y] = r[y] - One(old, y)
        BY <2>1, IncrefIs
      <4>2. t[y] = s[y] + One(v, y)
        BY <3>1, IncrefIs
      <4>3. /\ Owns(L, e, y) = Owns(M, e, y) + One(x.key, y) + One(old, y)
            /\ Owns(M, e, y) \in Nat
        BY <1>3, <1>14, OwnsGrown DEF OneMore
      <4>4. Owns(L, f, y) = Owns(M, e, y) + One(x.key, y) + One(v, y)
        <5>1. OneMore(M, e, L, f, ix, y)
          BY <1>14, OwnsGrown
        <5>2. f[ix].key = x.key /\ f[ix].val = v
          BY <1>3, <1>5
        <5>3. QED
          BY <5>1, <5>2 DEF OneMore
      <4>5. r[y] = Owns(L, e, y)
        BY DEF Exact
      <4>6. One(x.key, y) \in Nat /\ One(old, y) \in Nat /\ One(v, y) \in Nat
        BY DEF One
      <4>7. QED
        BY <4>1, <4>2, <4>3, <4>4, <4>5, <4>6
    <3>4. QED
      BY <3>2, <3>3 DEF Exact
  <2>4. QED
    BY <2>2, <2>3
<1>16. f = [e EXCEPT ![ix] = [e[ix] EXCEPT !.val = v]]
  BY <1>3, <1>4, Zenon
<1>17. QED
  BY <1>8, <1>9, <1>13, <1>15, <1>16

(* Nothing is counted for zero bytes.                                      *)
LEMMA ZeroUncounted ==
  ASSUME NEW r \in Refs
  PROVE  Incref(r, Zero) = r /\ Decref(r, Zero) = r
<1>1. DOMAIN r = Keys \cup Vals /\ Zero \notin DOMAIN r
  BY ConstantsAssumption DEF Refs
<1>2. r = [x \in Keys \cup Vals |-> r[x]]
  BY DEF Refs
<1>3. QED
  BY <1>1, <1>2 DEF Incref, Decref

-----------------------------------------------------------------------------
(* New tables.                                                             *)

LEMMA NewKeysInOrder ==
  ASSUME NEW size \in Sizes, NEW a \in Addrs, NEW p, p = NewKeys(size, a)
  PROVE  /\ InOrder(p, size) /\ LiveIn(p) = {} /\ p.addr = a /\ p.nentries = 0
         /\ p.usable = USABLE_FRACTION(size)
         /\ p.indices = [i \in 0..(size - 1) |-> EMPTY]
<1> PICK u : u = USABLE_FRACTION(size)
  OBVIOUS
<1> PICK I : I = [i \in 0..(size - 1) |-> EMPTY]
  OBVIOUS
<1> PICK e : e = [ix \in 0..(u - 1) |-> Blank]
  OBVIOUS
<1>1. size \in Nat /\ u \in Nat /\ 0 \in Nat
  BY SizesType, LimitIs
<1>2. p = [addr |-> a, usable |-> u, nentries |-> 0, indices |-> I, entries |-> e]
  BY Zenon DEF NewKeys
<1>3. Blank \in EntrySet
  BY DEF Blank, EntrySet, EMPTY
<1>4. I \in [0..(size - 1) -> Int] /\ e \in [0..(u - 1) -> EntrySet]
  BY <1>3 DEF EMPTY
<1>5. /\ p \in Tables(size) /\ p.addr = a /\ p.usable = u /\ p.nentries = 0 /\ p.indices = I
      /\ p.entries = e
  BY <1>1, <1>2, <1>4 DEF Tables
<1>6. LiveIn(p) = {}
  BY <1>5 DEF LiveIn
<1>7. Cardinality(UsedSlots(I)) = 0
  <2>1. UsedSlots(I) = {}
    BY DEF UsedSlots
  <2>2. QED
    BY <2>1, FS_EmptySet
<1>8. Filed({}, e)
  BY DEF Filed
<1>9. Filing(I, {}, Paths(e, size), size)
  <2>1. \A i \in 0..(size - 1) : I[i] = EMPTY
    OBVIOUS
  <2>2. QED
    BY <1>4, <2>1 DEF Filing
<1>10. 0 + u <= u
  BY <1>1
<1>11. InOrder(p, size)
  BY <1>5, <1>6, <1>7, <1>8, <1>9, <1>10 DEF InOrder
<1>12. QED
  BY <1>5, <1>6, <1>11

(* A dictionary made for n keys has room for n.                            *)
LEMMA SmallestSize ==
  ASSUME NEW S, S \in SUBSET Sizes, NEW s \in S
  PROVE  Smallest(S) \in S
<1>1. S \in SUBSET Nat
  BY SizesType
<1>2. QED
  BY <1>1, SmallestOf

LEMMA SizeForIs ==
  ASSUME NEW n \in NewSizes
  PROVE  SizeFor(n) \in Sizes /\ USABLE_FRACTION(SizeFor(n)) >= n /\ n \in Nat
<1>1. n \in Nat
  BY ConstantsAssumption
<1>2. CASE n <= USABLE_FRACTION(D_MINSIZE)
  <2>1. SizeFor(n) = D_MINSIZE
    BY <1>2 DEF SizeFor
  <2>2. PICK s \in Sizes : TRUE
    BY RoomAssumption
  <2>3. PICK j \in 1..30 : D_MINSIZE = PowerOfTwo[j]
    BY ConstantsAssumption
  <2>4. D_MINSIZE \in Nat
    <3>1. j \in 0..30
      OBVIOUS
    <3>2. QED
      BY <2>3, <3>1, PowerSteps
  <2>5. D_MINSIZE \in D_MINSIZE..MaxSize
    BY <2>2, <2>4, ConstantsAssumption DEF Sizes
  <2>6. D_MINSIZE \in Sizes
    BY <2>3, <2>5 DEF Sizes
  <2>7. QED
    BY <1>1, <1>2, <2>1, <2>6
<1>3. CASE ~ (n <= USABLE_FRACTION(D_MINSIZE))
  <2> PICK S : S = {s \in Sizes : s > INV_USABLE_FRACTION(n) - 1}
    OBVIOUS
  <2>1. SizeFor(n) = Smallest(S)
    BY <1>3 DEF SizeFor
  <2>2. SizeFor(n) \in S
    <3>1. PICK s \in S : TRUE
      BY RoomAssumption
    <3>2. QED
      BY <2>1, SmallestSize
  <2> PICK size : size = SizeFor(n)
    OBVIOUS
  <2>3. size \in Sizes /\ size \in Nat /\ size > INV_USABLE_FRACTION(n) - 1
    BY <2>2, SizesType
  <2>4. size > n + (n \div 2)
    BY <1>1, <2>3 DEF INV_USABLE_FRACTION
  <2>5. USABLE_FRACTION(size) >= n
    BY <1>1, <2>3, <2>4 DEF USABLE_FRACTION
  <2>6. QED
    BY <1>1, <2>3, <2>5
<1>4. QED
  BY <1>2, <1>3

(* The new size of a table that lacks a key.                               *)
LEMMA ResizeToIs ==
  ASSUME NEW n \in Nat, n < Cardinality(Keys)
  PROVE  /\ ResizeTo(n * 3) \in Sizes
         /\ USABLE_FRACTION(ResizeTo(n * 3)) > n /\ USABLE_FRACTION(ResizeTo(n * 3)) \in Nat
<1> PICK S : S = {s \in Sizes : s >= n * 3}
  OBVIOUS
<1> PICK size : size = ResizeTo(n * 3)
  OBVIOUS
<1>1. PICK s \in Sizes : s >= (Cardinality(Keys) - 1) * 3
  BY RoomAssumption
<1>2. Cardinality(Keys) \in Nat /\ s \in Nat
  BY ConstantsAssumption, FS_CardinalityType, SizesType
<1>3. s \in S
  <2>1. n <= Cardinality(Keys) - 1
    BY <1>2
  <2>2. n * 3 <= (Cardinality(Keys) - 1) * 3
    BY <1>2, <2>1
  <2>3. n * 3 <= s
    BY <1>1, <1>2, <2>2
  <2>4. QED
    BY <2>3
<1>4. size \in S
  <2>1. size = Smallest(S)
    BY DEF ResizeTo
  <2>2. QED
    BY <1>3, <2>1, SmallestSize
<1>5. size \in Sizes /\ size \in Nat /\ size >= 2 /\ size >= n * 3
  BY <1>4, SizesType
<1>6. USABLE_FRACTION(size) > n /\ USABLE_FRACTION(size) \in Nat
  BY <1>5 DEF USABLE_FRACTION
<1>7. QED
  BY <1>5, <1>6

-----------------------------------------------------------------------------
(* Resizing: the live entries move, in their order, and no other.          *)

LEMMA WholeSeq ==
  ASSUME NEW S, NEW s \in Seq(S)
  PROVE  /\ SubSeq(s, 1, Len(s)) = s /\ SubSeq(s, Len(s) + 1, Len(s)) = <<>>
<1>1. Len(s) \in Nat /\ \A i \in 1..Len(s) : s[i] \in S
  OBVIOUS
<1> PICK t : t = SubSeq(s, 1, Len(s))
  OBVIOUS
<1>2. t \in Seq(S) /\ Len(t) = Len(s) /\ \A i \in 1..Len(s) : t[i] = s[i]
  <2>1. /\ t \in Seq(S) /\ Len(t) = IF 1 <= Len(s) THEN (Len(s) - 1) + 1 ELSE 0
        /\ \A i \in 1..((Len(s) - 1) + 1) : t[i] = s[(1 + i) - 1]
    BY <1>1, SubSeqProperties
  <2>2. QED
    BY <1>1, <2>1
<1>3. t = s
  BY <1>1, <1>2, SeqEqual
<1>4. SubSeq(s, Len(s) + 1, Len(s)) = <<>>
  BY <1>1, SubSeqEmpty
<1>5. QED
  BY <1>3, <1>4

LEMMA AllLive ==
  ASSUME NEW n \in Nat, NEW L \in SUBSET (0..(n - 1)), Cardinality(L) = n
  PROVE  L = 0..(n - 1)
<1>1. IsFiniteSet(0..(n - 1)) /\ Cardinality(0..(n - 1)) = n
  <2>1. n - 1 \in Int /\ 0 \in Int /\ (0 > n - 1 => n = 0)
    OBVIOUS
  <2>2. Cardinality(0..(n - 1)) = IF 0 > n - 1 THEN 0 ELSE ((n - 1) - 0) + 1
    BY <2>1, FS_Interval
  <2>3. IsFiniteSet(0..(n - 1))
    BY <2>1, FS_Interval
  <2>4. QED
    BY <2>1, <2>2, <2>3
<1>2. QED
  BY <1>1, FS_Subset

LEMMA MovedIs ==
  ASSUME NEW size, InOrder(keys, size), used = Cardinality(LiveIn(keys))
  PROVE  /\ Moved \in Seq(EntrySet) /\ Len(Moved) = used /\ Left = <<>>
         /\ \E f : Listing(f, Moved, LiveIn(keys), keys.entries)
<1> PICK e : e = keys.entries
  OBVIOUS
<1> PICK n : n = keys.nentries
  OBVIOUS
<1> PICK u : u = USABLE_FRACTION(size)
  OBVIOUS
<1> PICK L : L = LiveIn(keys)
  OBVIOUS
<1> PICK s : s = Live(keys)
  OBVIOUS
<1>1. /\ u \in Nat /\ n \in Nat /\ n \in 0..u /\ e \in [0..(u - 1) -> EntrySet]
      /\ L \in SUBSET (0..(n - 1))
  <2>1. /\ u \in Nat /\ n \in Nat /\ keys.usable \in Nat /\ n + keys.usable <= u
        /\ e \in [0..(u - 1) -> EntrySet] /\ L \in SUBSET (0..(n - 1))
    BY InOrderFields
  <2>2. QED
    BY <2>1
<1>2. s \in Seq(EntrySet) /\ \E f : Listing(f, s, L, e)
  BY <1>1, LiveLists
<1>3. Len(s) = used /\ used \in Nat
  <2>1. PICK f : Listing(f, s, L, e)
    BY <1>2
  <2>2. Cardinality(L) = Len(s)
    BY <1>1, <1>2, <2>1, ListingCounts
  <2>3. QED
    BY <1>2, <2>2
<1>4. Left = <<>>
  BY <1>2, <1>3, WholeSeq DEF Left
<1>5. CASE n # used
  <2>1. Moved = SubSeq(s, 1, used)
    BY <1>5 DEF Moved
  <2>2. Moved = s
    BY <1>2, <1>3, <2>1, WholeSeq
  <2>3. QED
    BY <1>2, <1>3, <1>4, <2>2
<1>6. CASE n = used
  <2>1. L = 0..(n - 1)
    BY <1>1, <1>6, AllLive
  <2> PICK t : t = [m \in 1..n |-> e[m - 1]]
    OBVIOUS
  <2>2. \A m \in 1..n : e[m - 1] \in EntrySet
    <3>1. \A m \in 1..n : m - 1 \in 0..(u - 1)
      BY <1>1
    <3>2. QED
      BY <1>1, <3>1
  <2>3. t \in Seq(EntrySet) /\ Len(t) = n
    <3>1. t \in [1..n -> EntrySet] /\ n \in Nat
      BY <1>1, <2>2
    <3>2. t \in Seq(EntrySet)
      BY <2>2, <3>1
    <3>3. DOMAIN t = 1..n
      BY <3>1
    <3>4. Len(t) = n
      BY <3>1, <3>2, <3>3, LenProperties
    <3>5. QED
      BY <3>2, <3>4
  <2>4. Moved = SubSeq(t, 1, used)
    BY <1>6 DEF Moved, Entries
  <2>5. Moved = t
    BY <1>6, <2>3, <2>4, WholeSeq
  <2> PICK f : f = [m \in 1..n |-> m - 1]
    OBVIOUS
  <2>6. Listing(f, t, L, e)
    <3>1. f \in [1..n -> L]
      BY <1>1, <2>1
    <3>2. Increasing(f, n)
      BY <1>1 DEF Increasing
    <3>3. \A ix \in L : \E m \in 1..n : f[m] = ix
      <4>1. ASSUME NEW ix \in L PROVE ix + 1 \in 1..n /\ f[ix + 1] = ix
        BY <1>1, <2>1
      <4>2. QED
        BY <4>1
    <3>4. \A m \in 1..n : t[m] = e[f[m]]
      OBVIOUS
    <3>5. QED
      <4>1. f \in [1..Len(t) -> L] /\ Increasing(f, Len(t))
        BY <2>3, <3>1, <3>2
      <4>2. \A ix \in L : \E m \in 1..Len(t) : f[m] = ix
        BY <2>3, <3>3, Zenon
      <4>3. \A m \in 1..Len(t) : t[m] = e[f[m]]
        BY <2>3, <3>4, Zenon
      <4>4. QED
        BY <4>1, <4>2, <4>3, Zenon DEF Listing
  <2>7. QED
    BY <1>4, <1>6, <2>3, <2>5, <2>6
<1>7. QED
  BY <1>5, <1>6

(* Nothing is released with the old table: every entry has moved.          *)
LEMMA NoneReleased ==
  ASSUME NEW r \in Refs
  PROVE  ReleaseAll(r, <<>>) = r
<1>1. DOMAIN <<>> = {}
  OBVIOUS
<1>2. ASSUME NEW x PROVE /\ {m \in DOMAIN <<>> : <<>>[m].key = x} = {}
                         /\ {m \in DOMAIN <<>> : <<>>[m].val = x} = {}
  BY <1>1
<1>3. ReleaseAll(r, <<>>) = [x \in DOMAIN r |-> r[x] - Cardinality({}) - Cardinality({})]
  BY <1>2 DEF ReleaseAll
<1>4. \A x \in DOMAIN r : r[x] - Cardinality({}) - Cardinality({}) = r[x]
  BY FS_EmptySet DEF Refs
<1>5. r = [x \in DOMAIN r |-> r[x]]
  BY DEF Refs
<1>6. QED
  BY <1>3, <1>4, <1>5

(* The recursive function of BuildIndices.                                 *)
BuildHistory(h, d, n) ==
  h = [m \in 0..n |->
         IF m = 0 THEN d.indices
         ELSE [h[m - 1] EXCEPT ![FirstSlot(h[m - 1], d.entries[m - 1].hash, {EMPTY})] = m - 1]]

(* The first m indexes are filed, and take no more slots than that.        *)
Built(b, m, f, size) ==
  /\ b \in [0..(size - 1) -> Int] /\ Cardinality(UsedSlots(b)) <= m
  /\ Filing(b, Lives(f, m), Paths(f, size), size)

BuildReached(d, n) == \E q : BuildHistory(q, d, n) /\ BuildIndices(d, n) = q[n]

LEMMA BuildRuns ==
  ASSUME NEW size \in Nat, NEW d, NEW n \in Nat, d.indices \in [0..(size - 1) -> Int]
  PROVE  BuildReached(d, n)
<1> PICK e : e = d.entries
  OBVIOUS
<1> DEFINE T == [0..(size - 1) -> Int]
           a == d.indices
           g == [mk \in T \X (1..n) |->
                   [mk[1] EXCEPT ![FirstSlot(mk[1], e[mk[2] - 1].hash, {EMPTY})] = mk[2] - 1]]
<1>1. a \in T
  OBVIOUS
<1>2. g \in [T \X (1..n) -> T]
  <2>1. ASSUME NEW b \in T, NEW m \in 1..n, NEW i PROVE [b EXCEPT ![i] = m - 1] \in T
    <3>1. m - 1 \in Int
      OBVIOUS
    <3>2. QED
      BY <3>1, FunctionPut
  <2>2. ASSUME NEW mk \in T \X (1..n)
        PROVE  [mk[1] EXCEPT ![FirstSlot(mk[1], e[mk[2] - 1].hash, {EMPTY})] = mk[2] - 1] \in T
    <3>1. mk[1] \in T /\ mk[2] \in 1..n
      <4> HIDE DEF T
      <4>1. QED
        OBVIOUS
    <3> HIDE DEF T
    <3>2. QED
      BY <2>1, <3>1
  <2> HIDE DEF T
  <2>3. QED
    BY <2>2
<1>3. PICK h \in [0..n -> T] : IsHistory(h, a, g, n)
  <2> HIDE DEF T, g, a
  <2>1. QED
    BY <1>1, <1>2, History
<1>4. ASSUME NEW m \in 0..n
      PROVE  h[m] = IF m = 0 THEN d.indices
                    ELSE [h[m - 1] EXCEPT ![FirstSlot(h[m - 1], e[m - 1].hash, {EMPTY})] = m - 1]
  <2>1. h[m] = IF m = 0 THEN d.indices ELSE g[<<h[m - 1], m>>]
    <3> HIDE DEF g
    <3>1. QED
      BY <1>3 DEF IsHistory
  <2>2. m # 0 => h[m - 1] \in T /\ m \in 1..n
    <3> HIDE DEF T
    <3>1. QED
      OBVIOUS
  <2>3. m # 0 => g[<<h[m - 1], m>>]
                   = [h[m - 1] EXCEPT ![FirstSlot(h[m - 1], e[m - 1].hash, {EMPTY})] = m - 1]
    <3> HIDE DEF T
    <3>1. QED
      BY <2>2
  <2>4. QED
    BY <2>1, <2>3
<1>5. h = [m \in 0..n |-> h[m]]
  OBVIOUS
<1>6. BuildHistory(h, d, n)
  <2> HIDE DEF T, g
  <2>1. QED
    BY <1>4, <1>5, Zenon DEF BuildHistory
<1>7. BuildIndices(d, n) = (CHOOSE q : BuildHistory(q, d, n))[n]
  BY DEF BuildIndices, BuildHistory
<1>8. BuildHistory(CHOOSE q : BuildHistory(q, d, n), d, n)
  BY <1>6
<1>9. QED
  BY <1>7, <1>8, Zenon DEF BuildReached

LEMMA BuiltIs ==
  ASSUME NEW size \in Sizes, NEW N \in Nat, NEW n \in 0..N, n < size,
         NEW d, d.entries \in [0..(N - 1) -> EntrySet], Built(d.indices, 0, d.entries, size),
         Lives(d.entries, n) = 0..(n - 1), Filed(0..(n - 1), d.entries)
  PROVE  Built(BuildIndices(d, n), n, d.entries, size)
<1>0. size \in Nat /\ n \in Nat /\ d.indices \in [0..(size - 1) -> Int]
  BY SizesType DEF Built
<1>2. PICK q : BuildHistory(q, d, n) /\ BuildIndices(d, n) = q[n]
  <2>1. BuildReached(d, n)
    BY <1>0, BuildRuns
  <2>2. QED
    BY <2>1 DEF BuildReached
<1> PICK f : f = d.entries
  OBVIOUS
<1>1. size \in Nat /\ n \in Nat /\ f \in [0..(N - 1) -> EntrySet]
  BY <1>0
<1>3. \A m \in 0..n :
        q[m] = IF m = 0 THEN d.indices
               ELSE [q[m - 1] EXCEPT ![FirstSlot(q[m - 1], f[m - 1].hash, {EMPTY})] = m - 1]
  BY <1>2 DEF BuildHistory
<1>4. ASSUME NEW m \in 0..n PROVE Lives(f, m) = 0..(m - 1)
  <2>1. \A ix \in 0..(n - 1) : f[ix].hash # EMPTY
    BY DEF Lives
  <2>2. \A ix \in 0..(m - 1) : ix \in 0..(n - 1)
    BY <1>1
  <2>3. QED
    BY <2>1, <2>2 DEF Lives
<1> DEFINE K == {m \in 0..n : Built(q[m], m, f, size)}
<1>5. 0 \in K
  <2>1. 0 \in 0..n
    BY <1>1
  <2>2. q[0] = d.indices
    BY <1>3, <2>1
  <2>3. QED
    BY <2>1, <2>2
<1>6. ASSUME NEW m \in 0..(n - 1), m \in K PROVE m + 1 \in K
  <2> PICK b : b = q[m]
    OBVIOUS
  <2> PICK k : k = f[m].key
    OBVIOUS
  <2> PICK slot : slot = FirstSlot(b, Hash[k], {EMPTY})
    OBVIOUS
  <2>1. m \in Nat /\ m + 1 \in 0..n /\ m + 1 # 0 /\ (m + 1) - 1 = m /\ m \in 0..(N - 1) /\ m < size
        /\ m \in 0..n
    BY <1>1
  <2>2. Built(b, m, f, size)
    BY <1>6
  <2>3. k \in Keys /\ EntryOf(f[m], k) /\ \A ix \in 0..(m - 1) : f[ix].key # k
    <3>1. \A ix \in 0..(m - 1) : ix \in 0..(n - 1) /\ ix # m
      BY <1>1
    <3>2. QED
      BY <3>1 DEF Filed, EntryOf
  <2>4. Filed(Lives(f, m), f)
    <3>1. \A ix \in 0..(m - 1) : ix \in 0..(n - 1)
      BY <1>1
    <3>2. Filed(0..(m - 1), f)
      BY <3>1 DEF Filed
    <3>3. QED
      BY <1>4, <2>1, <3>2
  <2>5. DOMAIN b = 0..(size - 1) /\ Cardinality(UsedSlots(b)) \in Nat
        /\ Cardinality(UsedSlots(b)) <= m
    BY <1>1, <2>2, UsedSlotsType DEF Built
  <2>6. Filable(b, f, m, k, size)
    <3>1. Cardinality(UsedSlots(b)) < size
      BY <1>1, <2>1, <2>5
    <3>2. QED
      BY <1>4, <2>1, <2>2, <2>3, <2>4, <2>5, <3>1 DEF Filable, Built
  <2>7. /\ slot \in 0..(size - 1)
        /\ Filing([b EXCEPT ![slot] = m], Lives(f, m + 1), Paths(f, size), size)
    <3>1. Rest(f, f, m, N)
      BY DEF Rest
    <3>2. Free({EMPTY})
      BY DEF Free
    <3>3. QED
      BY <1>1, <2>1, <2>3, <2>6, <3>1, <3>2, FilePlaced
  <2>8. q[m + 1] = [b EXCEPT ![slot] = m]
    <3>1. f[m].hash = Hash[k]
      BY <2>3 DEF EntryOf
    <3>2. q[m + 1] = [q[(m + 1) - 1] EXCEPT
                        ![FirstSlot(q[(m + 1) - 1], f[(m + 1) - 1].hash, {EMPTY})] = (m + 1) - 1]
      BY <1>3, <2>1
    <3>3. QED
      BY <2>1, <3>1, <3>2
  <2> PICK c : c = q[m + 1]
    OBVIOUS
  <2>9. c \in [0..(size - 1) -> Int]
    <3>1. m \in Int /\ b \in [0..(size - 1) -> Int]
      BY <2>1, <2>2 DEF Built
    <3>2. [b EXCEPT ![slot] = m] \in [0..(size - 1) -> Int]
      BY <3>1, FunctionPut
    <3>3. QED
      BY <2>8, <3>2
  <2>10. Cardinality(UsedSlots(c)) <= m + 1
    <3>1. Cardinality(UsedSlots(c)) <= Cardinality(UsedSlots(b)) + 1
      <4>1. DOMAIN b = 0..(size - 1)
        BY <2>2 DEF Built
      <4>2. Cardinality(UsedSlots([b EXCEPT ![slot] = m])) <= Cardinality(UsedSlots(b)) + 1
        BY <1>1, <2>7, <4>1, UsedSlotsPut, Zenon
      <4>3. c = [b EXCEPT ![slot] = m]
        BY <2>8
      <4>4. QED
        BY <4>2, <4>3, Zenon
    <3>2. Cardinality(UsedSlots(c)) \in Nat
      <4>1. DOMAIN c = 0..(size - 1)
        BY <2>9
      <4>2. QED
        BY <1>1, <4>1, UsedSlotsType
    <3>3. QED
      BY <2>1, <2>5, <3>1, <3>2
  <2>11. Built(c, m + 1, f, size)
    BY <2>7, <2>8, <2>9, <2>10 DEF Built
  <2>12. QED
    BY <2>1, <2>11
<1>7. \A m \in 0..n : m \in K
  <2> HIDE DEF K
  <2>1. QED
    BY <1>1, <1>5, <1>6, Induction
<1>8. QED
  BY <1>1, <1>2, <1>7

Filled(d, s) ==
  [d EXCEPT !.entries = [ix \in DOMAIN @ |-> IF ix < used THEN s[ix + 1] ELSE Blank]]

(* A resized table is in order, has room, and has the entries it had.      *)
LEMMA ResizedInOrder ==
  ASSUME NEW size, InOrder(keys, size), used = Cardinality(LiveIn(keys)),
         used < Cardinality(Keys), NEW addr \in Addrs, NEW p, p = Resized(used * 3, addr)
  PROVE  /\ used \in Nat
         /\ \E z : InOrder(p, z)
         /\ p.addr = addr /\ p.usable > 0 /\ p.nentries = used /\ LiveIn(p) = 0..(used - 1)
         /\ \A ix \in 0..(used - 1) : p.entries[ix] = Moved[ix + 1]
<1> PICK z : z = ResizeTo(used * 3)
  OBVIOUS
<1> PICK u : u = USABLE_FRACTION(z)
  OBVIOUS
<1> PICK s : s = Moved
  OBVIOUS
<1> PICK e : e = keys.entries
  OBVIOUS
<1> PICK L : L = LiveIn(keys)
  OBVIOUS
<1> PICK fresh : fresh = NewKeys(z, addr)
  OBVIOUS
<1>1. s \in Seq(EntrySet) /\ Len(s) = used /\ used \in Nat /\ \E f : Listing(f, s, L, e)
  <2>1. s \in Seq(EntrySet) /\ Len(s) = used /\ \E f : Listing(f, s, L, e)
    BY MovedIs
  <2>2. QED
    BY <2>1
<1>2. z \in Sizes /\ u > used /\ u \in Nat
  BY <1>1, ResizeToIs
<1>3. z \in Nat /\ u < z /\ used < z
  <2>1. z \in Nat /\ z >= 2
    BY <1>2, SizesType
  <2>2. u < z
    BY <2>1, LimitIs
  <2>3. QED
    BY <1>1, <1>2, <2>1, <2>2
<1>4. /\ InOrder(fresh, z) /\ fresh.addr = addr /\ fresh.nentries = 0 /\ fresh.usable = u
      /\ LiveIn(fresh) = {} /\ fresh.indices = [i \in 0..(z - 1) |-> EMPTY]
  BY <1>2, NewKeysInOrder
<1>5. /\ fresh \in Tables(z) /\ DOMAIN fresh.entries = 0..(u - 1)
      /\ fresh.indices \in [0..(z - 1) -> Int]
  BY <1>4, InOrderFields DEF InOrder
<1> PICK f : f = [ix \in 0..(u - 1) |-> IF ix < used THEN s[ix + 1] ELSE Blank]
  OBVIOUS
<1>6. f \in [0..(u - 1) -> EntrySet]
  <2>1. Blank \in EntrySet
    BY DEF Blank, EntrySet, EMPTY
  <2>2. ASSUME NEW ix \in 0..(u - 1) PROVE ix < used => s[ix + 1] \in EntrySet
    <3>1. ix < used => ix + 1 \in 1..Len(s)
      BY <1>1, <1>2
    <3>2. QED
      BY <1>1, <3>1
  <2>3. QED
    BY <2>1, <2>2
<1>7. ASSUME NEW ix \in 0..(used - 1) PROVE f[ix] = s[ix + 1] /\ ix \in 0..(u - 1)
  BY <1>1, <1>2
<1> PICK full : full = WithEntries(fresh, f)
  OBVIOUS
<1>8. IsTable(full, z, addr, u, 0, fresh.indices, f)
  BY <1>4, <1>5, <1>6, TableIs, PutEntries
<1>9. full.entries = f /\ full.indices = fresh.indices /\ full.usable = u
  BY <1>8 DEF IsTable
<1>10. PICK g : Listing(g, s, L, e)
  BY <1>1
<1>11. Filed(0..(used - 1), f)
  <2>1. Filed(L, e)
    BY DEF InOrder
  <2>2. ASSUME NEW ix \in 0..(used - 1)
        PROVE  g[ix + 1] \in L /\ f[ix] = e[g[ix + 1]] /\ ix + 1 \in 1..used
    <3>1. ix + 1 \in 1..Len(s)
      BY <1>1
    <3>2. QED
      BY <1>1, <1>7, <1>10, <3>1 DEF Listing
  <2>3. ASSUME NEW ix \in 0..(used - 1), NEW jx \in 0..(used - 1), g[ix + 1] = g[jx + 1]
        PROVE  ix = jx
    <3>1. ASSUME NEW a \in 0..(used - 1), NEW b \in 0..(used - 1), a < b
          PROVE  g[a + 1] < g[b + 1]
      <4>1. a + 1 \in 1..Len(s) /\ b + 1 \in 1..Len(s) /\ a + 1 < b + 1
        BY <1>1, <3>1
      <4>2. QED
        BY <1>10, <4>1 DEF Listing, Increasing
    <3>2. g[ix + 1] \in Nat
      <4>1. L \in SUBSET Nat
        BY DEF InOrder, Filing
      <4>2. QED
        BY <2>2, <4>1
    <3>3. CASE ix < jx
      BY <2>3, <3>1, <3>2, <3>3
    <3>4. CASE jx < ix
      BY <2>3, <3>1, <3>2, <3>4
    <3>5. QED
      BY <1>1, <3>3, <3>4
  <2>4. \A ix \in 0..(used - 1) : /\ f[ix].key \in Keys /\ f[ix].val \in Vals \cup {Zero}
                                  /\ f[ix].hash = Hash[f[ix].key]
    <3>1. ASSUME NEW n \in L
          PROVE  /\ e[n].key \in Keys /\ e[n].val \in Vals \cup {Zero}
                 /\ e[n].hash = Hash[e[n].key]
      BY <2>1, Zenon DEF Filed
    <3>2. TAKE ix \in 0..(used - 1)
    <3>3. g[ix + 1] \in L /\ f[ix] = e[g[ix + 1]]
      BY <2>2
    <3>4. QED
      BY <3>1, <3>3, Zenon
  <2>5. ASSUME NEW ix \in 0..(used - 1), NEW jx \in 0..(used - 1), f[ix].key = f[jx].key
        PROVE  ix = jx
    <3>1. g[ix + 1] \in L /\ g[jx + 1] \in L /\ e[g[ix + 1]].key = e[g[jx + 1]].key
      BY <2>2, <2>5
    <3>2. g[ix + 1] = g[jx + 1]
      BY <2>1, <3>1 DEF Filed
    <3>3. QED
      BY <2>3, <3>2
  <2>6. QED
    BY <2>4, <2>5 DEF Filed
<1>12. Lives(f, used) = 0..(used - 1)
  <2>1. ASSUME NEW ix \in 0..(used - 1) PROVE f[ix].hash # EMPTY
    <3>1. f[ix].hash = Hash[f[ix].key] /\ f[ix].key \in Keys
      BY <1>11 DEF Filed
    <3>2. QED
      BY <3>1, ConstantsAssumption
  <2>2. QED
    BY <2>1 DEF Lives
<1>13. Built(full.indices, 0, f, z)
  <2>1. Lives(f, 0) = {}
    BY DEF Lives
  <2>2. UsedSlots(fresh.indices) = {}
    <3>1. \A i \in DOMAIN fresh.indices : fresh.indices[i] = EMPTY
      BY <1>4
    <3>2. QED
      BY <3>1 DEF UsedSlots
  <2>3. Cardinality(UsedSlots(fresh.indices)) <= 0
    <3>1. Cardinality({}) = 0
      BY FS_EmptySet
    <3>2. Cardinality(UsedSlots(fresh.indices)) = 0
      BY <2>2, <3>1
    <3>3. QED
      BY <3>2
  <2>4. Filing(fresh.indices, {}, Paths(f, z), z)
    <3>1. \A i \in 0..(z - 1) : fresh.indices[i] = EMPTY
      BY <1>4
    <3>2. QED
      BY <1>5, <3>1 DEF Filing
  <2>5. QED
    BY <1>5, <1>9, <2>1, <2>3, <2>4 DEF Built
<1> PICK J : J = BuildIndices(full, used)
  OBVIOUS
<1>14. Built(J, used, f, z)
  <2>1. used \in 0..u
    BY <1>1, <1>2
  <2>2. Built(BuildIndices(full, used), used, full.entries, z)
    <3>1. /\ full.entries \in [0..(u - 1) -> EntrySet]
          /\ Built(full.indices, 0, full.entries, z)
          /\ Lives(full.entries, used) = 0..(used - 1) /\ Filed(0..(used - 1), full.entries)
      BY <1>6, <1>9, <1>11, <1>12, <1>13
    <3>2. z \in Sizes /\ u \in Nat /\ used < z
      BY <1>2, <1>3
    <3>3. QED
      BY <2>1, <3>1, <3>2, BuiltIs
  <2>3. QED
    BY <1>9, <2>2
<1> PICK w : w = u - used
  OBVIOUS
<1>15. IsTable(WithNentries(WithUsable(WithIndices(full, J), w), used), z, addr, w, used, J, f)
  <2>1. J \in [0..(z - 1) -> Int] /\ w \in Nat
    BY <1>1, <1>2, <1>14 DEF Built
  <2>2. IsTable(WithIndices(full, J), z, addr, u, 0, J, f)
    BY <1>8, <2>1, PutIndices
  <2>3. IsTable(WithUsable(WithIndices(full, J), w), z, addr, w, 0, J, f)
    BY <2>1, <2>2, PutUsable
  <2>4. QED
    BY <1>1, <2>3, PutNentries
<1>16. p = WithNentries(WithUsable(WithIndices(full, J), w), used)
  <2>1. full.usable = u
    BY <1>9
  <2>2. [ix \in DOMAIN fresh.entries |-> IF ix < used THEN s[ix + 1] ELSE Blank] = f
    BY <1>5
  <2>3. [fresh EXCEPT !.entries = [ix \in DOMAIN fresh.entries |->
                                     IF ix < used THEN s[ix + 1] ELSE Blank]] = full
    BY <2>2, Zenon DEF WithEntries
  <2>4. Resized(used * 3, addr)
          = [[[full EXCEPT !.indices = J] EXCEPT !.usable = full.usable - used]
              EXCEPT !.nentries = used]
    <3> PICK F : F = Filled(NewKeys(ResizeTo(used * 3), addr), Moved)
      OBVIOUS
    <3>1. Resized(used * 3, addr)
            = [F EXCEPT !.indices = BuildIndices(F, used), !.usable = @ - used, !.nentries = used]
      BY Zenon DEF Resized, Filled
    <3>2. F = full
      BY <2>3, Zenon DEF Filled
    <3>3. Resized(used * 3, addr)
            = [full EXCEPT !.indices = J, !.usable = @ - used, !.nentries = used]
      BY <3>1, <3>2, Zenon
    <3>4. QED
      BY <3>3, Zenon
  <2>5. QED
    BY <2>1, <2>4, Zenon DEF WithIndices, WithUsable, WithNentries
<1>17. /\ p \in Tables(z) /\ p.addr = addr /\ p.usable = w /\ p.nentries = used
       /\ p.indices = J /\ p.entries = f
  BY <1>15, <1>16 DEF IsTable
<1>18. LiveIn(p) = 0..(used - 1)
  BY <1>12, <1>17 DEF LiveIn, Lives
<1>19. InOrder(p, z)
  <2>1. used + w <= u
    BY <1>1, <1>2
  <2>2. Cardinality(UsedSlots(J)) + w <= u
    <3>1. Cardinality(UsedSlots(J)) \in Nat /\ Cardinality(UsedSlots(J)) <= used
      <4>1. DOMAIN J = 0..(z - 1) /\ Cardinality(UsedSlots(J)) <= used
        BY <1>14 DEF Built
      <4>2. QED
        BY <1>3, <4>1, UsedSlotsType
    <3>2. QED
      BY <1>1, <1>2, <3>1
  <2>3. Filing(J, 0..(used - 1), Paths(f, z), z)
    BY <1>12, <1>14 DEF Built
  <2>4. QED
    BY <1>2, <1>11, <1>17, <1>18, <2>1, <2>2, <2>3 DEF InOrder
<1>20. QED
  <2>1. w > 0
    BY <1>1, <1>2
  <2>2. QED
    BY <1>1, <1>7, <1>17, <1>18, <1>19, <2>1

-----------------------------------------------------------------------------
(* A table in order, that counts its items and their references.           *)
Consistent(d, r, c) ==
  /\ \E size : InOrder(d, size)
  /\ c = Cardinality(LiveIn(d)) /\ Exact(r, LiveIn(d), d.entries)

LEMMA SoundFinite ==
  ASSUME NEW d, NEW r, NEW c, Consistent(d, r, c)
  PROVE  IsFiniteSet(LiveIn(d)) /\ c \in 0..Cardinality(Keys)
<1>1. PICK size : InOrder(d, size)
  BY DEF Consistent
<1>2. Filed(LiveIn(d), d.entries)
  BY <1>1 DEF InOrder
<1>3. \A ix \in LiveIn(d) : d.entries[ix].key \in Keys
  BY <1>2 DEF Filed
<1>4. /\ IsFiniteSet(LiveIn(d)) /\ Cardinality(LiveIn(d)) <= Cardinality(Keys)
      /\ Cardinality(LiveIn(d)) \in Nat /\ Cardinality(Keys) \in Nat
  <2>1. Keys \in SUBSET Keys
    OBVIOUS
  <2>2. QED
    BY <1>2, <1>3, <2>1, FiledBound
<1>5. QED
  BY <1>4 DEF Consistent

LEMMA GrownCounts ==
  ASSUME NEW L, NEW e, NEW M, NEW f, NEW ix, Grown(L, e, M, f, ix)
  PROVE  Cardinality(M) = Cardinality(L) + 1 /\ Cardinality(L) \in Nat /\ IsFiniteSet(M)
<1>1. IsFiniteSet(L) /\ ix \notin L /\ M = L \cup {ix}
  BY DEF Grown
<1>2. Cardinality(L \cup {ix}) = Cardinality(L) + 1 /\ IsFiniteSet(L \cup {ix})
  BY <1>1, FS_AddElement
<1>3. Cardinality(L) \in Nat
  BY <1>1, FS_CardinalityType
<1>4. QED
  BY <1>1, <1>2, <1>3

(* One item more.                                                          *)
LEMMA PlaceSound ==
  ASSUME NEW d, NEW r, NEW c, Consistent(d, r, c), d.usable > 0, NEW k \in Keys,
         NEW v \in Vals \cup {Zero}, \A ix \in LiveIn(d) : d.entries[ix].key # k,
         NEW p, p = Place(d, k, v)
  PROVE  /\ Consistent(p, Incref(Incref(r, k), v), c + 1)
         /\ p.usable = d.usable - 1 /\ p.addr = d.addr
         /\ p.entries[d.nentries] = [hash |-> Hash[k], key |-> k, val |-> v]
         /\ Grown(LiveIn(d), d.entries, LiveIn(p), p.entries, d.nentries)
<1>1. PICK size : InOrder(d, size)
  BY DEF Consistent
<1>2. /\ InOrder(p, size) /\ p.usable = d.usable - 1 /\ p.addr = d.addr
      /\ p.entries[d.nentries] = [hash |-> Hash[k], key |-> k, val |-> v]
      /\ Grown(LiveIn(d), d.entries, LiveIn(p), p.entries, d.nentries)
  BY <1>1, PlaceInOrder
<1>3. Cardinality(LiveIn(p)) = c + 1
  BY <1>2, GrownCounts DEF Consistent
<1>4. Exact(Incref(Incref(r, k), v), LiveIn(p), p.entries)
  <2>1. Exact(r, LiveIn(d), d.entries)
    BY DEF Consistent
  <2>2. Exact(Incref(Incref(r, p.entries[d.nentries].key), p.entries[d.nentries].val),
              LiveIn(p), p.entries)
    BY <1>2, <2>1, ExactAdd
  <2>3. p.entries[d.nentries].key = k /\ p.entries[d.nentries].val = v
    BY <1>2
  <2>4. QED
    BY <2>2, <2>3
<1>5. QED
  BY <1>2, <1>3, <1>4 DEF Consistent

(* One item less: by del d[k], and by popitem().                           *)
LEMMA DropSound ==
  ASSUME NEW d, NEW r, NEW c, Consistent(d, r, c), NEW p, NEW size, InOrder(p, size), NEW ix,
         Grown(LiveIn(p), p.entries, LiveIn(d), d.entries, ix)
  PROVE  Consistent(p, DecrefEntry(r, d.entries[ix]), c - 1)
<1>1. Cardinality(LiveIn(d)) = Cardinality(LiveIn(p)) + 1 /\ Cardinality(LiveIn(p)) \in Nat
  BY GrownCounts
<1>2. c - 1 = Cardinality(LiveIn(p))
  BY <1>1 DEF Consistent
<1>3. Exact(r, LiveIn(d), d.entries)
  BY DEF Consistent
<1>4. Exact(Decref(Decref(r, d.entries[ix].key), d.entries[ix].val), LiveIn(p), p.entries)
  BY <1>3, ExactDrop
<1>5. QED
  BY <1>2, <1>4 DEF Consistent, DecrefEntry

(* A table that a key is not in has room after it was resized.             *)
LEMMA ResizedSound ==
  ASSUME Consistent(keys, refs, used), NEW k \in Keys,
         \A ix \in LiveIn(keys) : keys.entries[ix].key # k,
         NEW addr \in Addrs, NEW p, p = Resized(used * 3, addr)
  PROVE  /\ Consistent(p, ReleaseAll(refs, Left), used) /\ p.addr = addr /\ p.usable > 0
         /\ \A ix \in LiveIn(p) : \E jx \in LiveIn(keys) : p.entries[ix] = keys.entries[jx]
         /\ LiveIn(p) = 0..(used - 1) /\ p.nentries = used
         /\ \A ix \in 0..(used - 1) : p.entries[ix] = Moved[ix + 1]
<1> PICK L : L = LiveIn(keys)
  OBVIOUS
<1> PICK e : e = keys.entries
  OBVIOUS
<1> PICK M : M = LiveIn(p)
  OBVIOUS
<1> PICK f : f = p.entries
  OBVIOUS
<1> PICK s : s = Moved
  OBVIOUS
<1>1. PICK size : InOrder(keys, size)
  BY DEF Consistent
<1>2. used = Cardinality(L) /\ Exact(refs, L, e)
  BY DEF Consistent
<1>3. used < Cardinality(Keys)
  <2> PICK S : S = Keys \ {k}
    OBVIOUS
  <2>1. Filed(L, e)
    BY <1>1 DEF InOrder
  <2>2. \A ix \in L : e[ix].key \in S
    BY <2>1 DEF Filed
  <2>3. Cardinality(L) <= Cardinality(S) /\ Cardinality(L) \in Nat /\ Cardinality(S) \in Nat
    <3>1. S \in SUBSET Keys
      OBVIOUS
    <3>2. QED
      BY <2>1, <2>2, <3>1, FiledBound
  <2>4. Cardinality(Keys) = Cardinality(S) + 1
    <3>1. IsFiniteSet(S) /\ k \notin S /\ Keys = S \cup {k}
      BY ConstantsAssumption, FS_RemoveElement
    <3>2. QED
      BY <3>1, FS_AddElement
  <2>5. QED
    BY <1>2, <2>3, <2>4
<1>4. /\ used \in Nat /\ \E z : InOrder(p, z)
      /\ p.addr = addr /\ p.usable > 0 /\ p.nentries = used /\ M = 0..(used - 1)
      /\ \A ix \in 0..(used - 1) : f[ix] = s[ix + 1]
  BY <1>1, <1>2, <1>3, ResizedInOrder
<1>5. /\ s \in Seq(EntrySet) /\ Len(s) = used /\ Left = <<>>
      /\ \E g : Listing(g, s, L, e)
  BY <1>1, <1>2, MovedIs
<1>6. PICK g : Listing(g, s, L, e)
  BY <1>5
<1>7. IsFiniteSet(L) /\ g \in Bijection(1..used, L)
  <2>1. PICK n \in Nat : L \in SUBSET (0..(n - 1))
    <3>1. keys.nentries \in Nat /\ L \in SUBSET (0..(keys.nentries - 1))
      BY <1>1, InOrderFields
    <3>2. QED
      BY <3>1
  <2>2. IsFiniteSet(L) /\ g \in Bijection(1..Len(s), L)
    BY <1>5, <1>6, <2>1, ListingCounts
  <2>3. QED
    BY <1>5, <2>2
<1> PICK b : b = [ix \in M |-> g[ix + 1]]
  OBVIOUS
<1>8. \A ix \in M : ix + 1 \in 1..used /\ b[ix] = g[ix + 1] /\ b[ix] \in L /\ f[ix] = e[b[ix]]
  <2>1. \A n \in 1..used : g[n] \in L /\ s[n] = e[g[n]]
    BY <1>5, <1>6 DEF Listing
  <2>2. \A ix \in M : ix + 1 \in 1..used
    BY <1>4
  <2>3. QED
    BY <1>4, <2>1, <2>2
<1>9. b \in Bijection(M, L)
  <2>1. b \in [M -> L]
    BY <1>8
  <2>2. ASSUME NEW ix \in M, NEW jx \in M, b[ix] = b[jx] PROVE ix = jx
    <3>1. g[ix + 1] = g[jx + 1] /\ ix + 1 \in 1..used /\ jx + 1 \in 1..used
      BY <1>8, <2>2
    <3>2. ix + 1 = jx + 1
      BY <1>7, <3>1 DEF Bijection, Injection, IsInjective
    <3>3. QED
      BY <1>4, <3>2
  <2>3. ASSUME NEW y \in L PROVE \E ix \in M : b[ix] = y
    <3>1. PICK n \in 1..used : g[n] = y
      BY <1>7 DEF Bijection, Surjection
    <3>2. n - 1 \in M /\ (n - 1) + 1 = n
      BY <1>4
    <3>3. b[n - 1] = y
      BY <3>1, <3>2
    <3>4. QED
      BY <3>2, <3>3
  <2>4. QED
    BY <2>1, <2>2, <2>3 DEF Bijection, Injection, IsInjective, Surjection
<1>10. IsFiniteSet(M) /\ Cardinality(M) = used
  <2>1. IsFiniteSet(M)
    <3>1. used - 1 \in Int /\ 0 \in Int
      BY <1>4
    <3>2. QED
      BY <1>4, <3>1, FS_Interval
  <2>2. \A ix \in M : ix \in M <=> b[ix] \in L
    BY <1>8
  <2>3. M \in SUBSET M /\ L \in SUBSET L
    OBVIOUS
  <2>4. Cardinality(M) = Cardinality(L)
    BY <1>9, <2>1, <2>2, <2>3, SetsMoved
  <2>5. QED
    BY <1>2, <2>1, <2>4
<1>11. Exact(refs, M, f)
  <2>1. ASSUME NEW x PROVE Owns(M, f, x) = Owns(L, e, x)
    <3>1. \A ix \in M : f[ix] = e[b[ix]]
      BY <1>8
    <3>2. QED
      BY <1>9, <1>10, <3>1, OwnsMoved
  <2>2. QED
    BY <1>2, <2>1 DEF Exact
<1>12. ReleaseAll(refs, Left) = refs
  <2>1. refs \in Refs
    BY <1>2 DEF Exact
  <2>2. QED
    BY <1>5, <2>1, NoneReleased
<1>13. Consistent(p, refs, used)
  BY <1>4, <1>10, <1>11 DEF Consistent
<1>14. QED
  BY <1>4, <1>8, <1>12, <1>13

(* What such a table promises.                                             *)
LEMMA TablePromises ==
  ASSUME Consistent(keys, refs, used)
  PROVE  /\ LookupFinds /\ LoadBounded /\ RefsExact
         /\ used \in 0..Cardinality(Keys) /\ keys.addr \in Addrs
         /\ keys.nentries \in 0..Cardinality(Indexes) /\ keys.usable \in 0..Cardinality(Indexes)
         /\ \A i \in DOMAIN keys.indices : keys.indices[i] \in Indexes \cup {EMPTY, DUMMY}
         /\ \A x \in DOMAIN refs : refs[x] \in 0..Cardinality(Keys)
<1>1. PICK size : InOrder(keys, size)
  BY DEF Consistent
<1> PICK I : I = keys.indices
  OBVIOUS
<1> PICK e : e = keys.entries
  OBVIOUS
<1> PICK n : n = keys.nentries
  OBVIOUS
<1> PICK w : w = keys.usable
  OBVIOUS
<1> PICK u : u = USABLE_FRACTION(size)
  OBVIOUS
<1> PICK L : L = LiveIn(keys)
  OBVIOUS
<1>2. /\ size \in Nat /\ u \in Nat /\ w \in Nat /\ n \in Nat /\ n + w <= u
      /\ Cardinality(UsedSlots(I)) + w <= u
      /\ DOMAIN I = 0..(size - 1) /\ DOMAIN e = 0..(u - 1) /\ keys.addr \in Addrs
      /\ L \in SUBSET (0..(u - 1)) /\ size >= 2
  BY <1>1, InOrderFields
<1>3. Cardinality(Indexes) = u /\ Indexes = 0..(u - 1) /\ Cardinality(DOMAIN I) = size
  <2>1. ASSUME NEW m \in Nat PROVE Cardinality(0..(m - 1)) = m
    <3>1. m - 1 \in Int /\ 0 \in Int
      OBVIOUS
    <3>2. Cardinality(0..(m - 1)) = IF 0 > m - 1 THEN 0 ELSE ((m - 1) - 0) + 1
      BY <3>1, FS_Interval
    <3>3. QED
      BY <3>2
  <2>2. Indexes = 0..(u - 1)
    BY <1>2 DEF Indexes
  <2>3. QED
    BY <1>2, <2>1, <2>2
<1>4. Filed(L, e) /\ Filing(I, L, Paths(e, size), size)
  BY <1>1 DEF InOrder
<1>5. LookupFinds
  <2>1. ASSUME NEW k \in Keys
        PROVE  Lookup(k) = LET at == {ix \in LiveIndexes : keys.entries[ix].key = k}
                           IN IF at = {} THEN EMPTY ELSE Smallest(at)
    <3> PICK at : at = {ix \in L : e[ix].key = k}
      OBVIOUS
    <3>1. CASE \E ix \in L : e[ix].key = k /\ Lookup(k) = ix
      <4>1. PICK ix \in L : e[ix].key = k /\ Lookup(k) = ix
        BY <3>1
      <4>2. \A jx \in at : jx = ix
        BY <1>4, <4>1 DEF Filed
      <4>3. ix \in at /\ at \in SUBSET Nat
        BY <1>4, <4>1 DEF Filing
      <4>4. Smallest(at) = ix
        BY <4>2, <4>3, SmallestOf
      <4>5. at # {} /\ Lookup(k) = Smallest(at)
        BY <4>1, <4>3, <4>4
      <4>6. QED
        BY <4>5 DEF LiveIndexes
    <3>2. CASE (\A ix \in L : e[ix].key # k) /\ Lookup(k) = EMPTY
      <4>1. at = {}
        BY <3>2
      <4>2. QED
        BY <3>2, <4>1 DEF LiveIndexes
    <3>3. QED
      BY <1>1, <3>1, <3>2, LookupIs
  <2>2. ASSUME NEW ix \in LiveIndexes
        PROVE  LET slot == LookupIndex(keys.entries[ix].hash, ix)
               IN slot # HANG /\ keys.indices[slot] = ix
    <3>1. /\ LookupIndex(keys.entries[ix].hash, ix) \in 0..(size - 1)
          /\ keys.indices[LookupIndex(keys.entries[ix].hash, ix)] = ix
      BY <1>1, LookupIndexIs DEF LiveIndexes
    <3>2. QED
      BY <3>1 DEF HANG
  <2>3. QED
    BY <2>1, <2>2 DEF LookupFinds
<1>6. LoadBounded
  <2>1. used = Cardinality(L)
    BY DEF Consistent
  <2>2. Cardinality({i \in DOMAIN I : I[i] # EMPTY}) + w <= u
    BY <1>2 DEF UsedSlots
  <2>3. USABLE_FRACTION(Cardinality(DOMAIN I)) = u
    BY <1>3
  <2>4. QED
    BY <1>2, <2>1, <2>2, <2>3 DEF LoadBounded, LiveIndexes
<1>7. Exact(refs, L, e)
  BY DEF Consistent
<1>8. RefsExact
  BY <1>7 DEF Exact, RefsExact, Owns, KeyAt, ValAt, LiveIndexes
<1>9. used \in 0..Cardinality(Keys)
  BY SoundFinite
<1>10. n \in 0..Cardinality(Indexes) /\ w \in 0..Cardinality(Indexes)
  BY <1>2, <1>3
<1>11. \A i \in DOMAIN I : I[i] \in Indexes \cup {EMPTY, DUMMY}
  BY <1>2, <1>3, <1>4 DEF Filing
<1>12. \A x \in DOMAIN refs : refs[x] \in 0..Cardinality(Keys)
  <2>1. DOMAIN refs = Keys \cup Vals
    BY <1>7 DEF Exact, Refs
  <2>2. ASSUME NEW x \in Keys \cup Vals PROVE refs[x] \in 0..Cardinality(Keys)
    BY <1>4, <1>7, OwnsBound DEF Exact
  <2>3. QED
    BY <2>1, <2>2
<1>13. QED
  BY <1>2, <1>5, <1>6, <1>8, <1>9, <1>10, <1>11, <1>12

-----------------------------------------------------------------------------
(* The order of the entries: an enumeration of indexes, and of those that  *)
(* an iterator has passed.                                                 *)

Enumerates(f, n, L) ==
  /\ f \in [1..n -> L] /\ Increasing(f, n) /\ \A ix \in L : \E m \in 1..n : f[m] = ix
Before(L, pos) == {ix \in L : ix < pos}

PrefixOf(f, m, g, n) == m <= n /\ \A k \in 1..m : f[k] = g[k]

(* f lists the members of L that lie before pos as g lists them.           *)
ListsPrefix(f, m, g, n, L, pos) == PrefixOf(f, m, g, n) /\ (Before(L, pos) = L => m = n)

LEMMA PrefixUnique ==
  ASSUME NEW L \in SUBSET Nat, NEW m \in Nat, NEW n \in Nat, NEW pos \in Nat,
         NEW f, Enumerates(f, m, Before(L, pos)), NEW g, Enumerates(g, n, L)
  PROVE  ListsPrefix(f, m, g, n, L, pos)
<1>1. ASSUME NEW a \in 1..m, NEW b \in 1..m
      PROVE  f[a] \in L /\ f[a] \in Nat /\ f[a] < pos /\ (a < b => f[a] < f[b])
    BY DEF Enumerates, Increasing, Before
<1>2. ASSUME NEW a \in 1..n, NEW b \in 1..n
      PROVE  g[a] \in L /\ g[a] \in Nat /\ (a < b => g[a] < g[b])
    BY DEF Enumerates, Increasing
<1> DEFINE K == {k \in 0..m : k <= n /\ \A j \in 1..k : f[j] = g[j]}
<1>3. 0 \in K
  OBVIOUS
<1>4. ASSUME NEW k \in 0..(m - 1), k \in K PROVE k + 1 \in K
  <2>1. k + 1 \in 1..m /\ k \in Nat /\ \A j \in 1..k : f[j] = g[j] /\ j \in 1..m /\ j \in 1..n
    BY <1>4
  <2>2. PICK j \in 1..n : g[j] = f[k + 1]
    BY <1>1, <2>1 DEF Enumerates
  <2>3. ~ (j <= k)
    <3>1. ASSUME j <= k PROVE FALSE
      <4>1. j \in 1..k /\ j < k + 1
        BY <2>1, <3>1
      <4>2. f[j] < f[k + 1] /\ f[j] = g[j]
        BY <1>1, <2>1, <4>1
      <4>3. f[k + 1] \in Nat
        BY <1>1, <2>1
      <4>4. QED
        BY <2>2, <4>2, <4>3
    <3>2. QED
      BY <3>1
  <2>4. k + 1 <= j /\ k + 1 \in 1..n
    BY <2>1, <2>3
  <2>5. g[k + 1] <= f[k + 1]
    <3>1. CASE k + 1 = j
      <4>1. g[k + 1] = f[k + 1] /\ f[k + 1] \in Nat
        BY <1>1, <2>1, <2>2, <3>1
      <4>2. QED
        BY <4>1
    <3>2. CASE k + 1 < j
      <4>1. g[k + 1] < g[j] /\ g[j] \in Nat /\ g[k + 1] \in Nat
        BY <1>2, <2>4, <3>2
      <4>2. QED
        BY <2>2, <4>1
    <3>3. QED
      BY <2>4, <3>1, <3>2
  <2>6. g[k + 1] \in Before(L, pos)
    <3>1. f[k + 1] < pos /\ f[k + 1] \in Nat /\ g[k + 1] \in L /\ g[k + 1] \in Nat
      BY <1>1, <1>2, <2>1, <2>4
    <3>2. g[k + 1] < pos
      BY <2>5, <3>1
    <3>3. QED
      BY <3>1, <3>2 DEF Before
  <2>7. PICK i \in 1..m : f[i] = g[k + 1]
    BY <2>6 DEF Enumerates
  <2>8. ~ (i <= k)
    <3>1. ASSUME i <= k PROVE FALSE
      <4>1. i \in 1..k /\ i < k + 1
        BY <2>1, <3>1
      <4>2. i \in 1..n /\ f[i] = g[i]
        BY <2>1, <4>1
      <4>3. g[i] < g[k + 1] /\ g[k + 1] \in Nat
        BY <1>2, <2>4, <4>1, <4>2
      <4>4. QED
        BY <2>7, <4>2, <4>3
    <3>2. QED
      BY <3>1
  <2>9. f[k + 1] <= g[k + 1]
    <3>1. CASE k + 1 = i
      <4>1. g[k + 1] = f[k + 1] /\ f[k + 1] \in Nat
        BY <1>1, <2>1, <2>7, <3>1
      <4>2. QED
        BY <4>1
    <3>2. CASE k + 1 < i
      <4>1. f[k + 1] < f[i] /\ f[i] \in Nat /\ f[k + 1] \in Nat
        BY <1>1, <2>1, <3>2
      <4>2. QED
        BY <2>7, <4>1
    <3>3. QED
      BY <2>1, <2>8, <3>1, <3>2
  <2>10. f[k + 1] = g[k + 1]
    <3>1. f[k + 1] \in Nat /\ g[k + 1] \in Nat
      BY <1>1, <1>2, <2>1, <2>4
    <3>2. QED
      BY <2>5, <2>9, <3>1
  <2>11. \A h \in 1..(k + 1) : f[h] = g[h]
    <3>1. \A h \in 1..(k + 1) : h \in 1..k \/ h = k + 1
      BY <2>1
    <3>2. QED
      BY <2>1, <2>10, <3>1
  <2>12. k + 1 \in 0..m /\ k + 1 <= n
    BY <2>1, <2>4
  <2>13. QED
    BY <2>11, <2>12
<1>5. m \in K
  <2> HIDE DEF K
  <2>1. \A k \in 0..m : k \in K
    BY <1>3, <1>4, Induction
  <2>2. QED
    BY <2>1
<1>6. m <= n /\ \A k \in 1..m : f[k] = g[k]
  BY <1>5
<1>7. ASSUME Before(L, pos) = L PROVE m = n
  <2>1. ASSUME m < n PROVE FALSE
    <3>1. n \in 1..n /\ g[n] \in L
      BY <1>2, <2>1
    <3>2. PICK i \in 1..m : f[i] = g[n]
      BY <1>7, <3>1 DEF Enumerates
    <3>3. i \in 1..n /\ i < n /\ f[i] = g[i]
      BY <1>6, <2>1
    <3>4. g[i] < g[n] /\ g[n] \in Nat
      BY <1>2, <3>1, <3>3
    <3>5. QED
      BY <3>2, <3>3, <3>4
  <2>2. QED
    BY <1>6, <2>1
<1>8. QED
  BY <1>6, <1>7 DEF PrefixOf, ListsPrefix

(* A sequence that lists the live entries in their order is Live.          *)
LEMMA LiveIs ==
  ASSUME NEW d, NEW size, InOrder(d, size), NEW S, NEW s \in Seq(S), NEW g,
         Listing(g, s, LiveIn(d), d.entries)
  PROVE  Live(d) = s
<1> PICK L : L = LiveIn(d)
  OBVIOUS
<1> PICK e : e = d.entries
  OBVIOUS
<1> PICK t : t = Live(d)
  OBVIOUS
<1> PICK u : u = USABLE_FRACTION(size)
  OBVIOUS
<1>1. /\ u \in Nat /\ d.nentries \in 0..u /\ e \in [0..(u - 1) -> EntrySet]
      /\ L \in SUBSET Nat /\ L \in SUBSET (0..(u - 1))
  <2>1. /\ u \in Nat /\ d.nentries \in Nat /\ d.usable \in Nat /\ d.nentries + d.usable <= u
        /\ e \in [0..(u - 1) -> EntrySet] /\ L \in SUBSET (0..(u - 1))
    BY InOrderFields
  <2>2. L \in SUBSET Nat
    BY DEF InOrder, Filing
  <2>3. QED
    BY <2>1, <2>2
<1>2. t \in Seq(EntrySet) /\ \E f : Listing(f, t, L, e)
  BY <1>1, LiveLists
<1>3. PICK f : Listing(f, t, L, e)
  BY <1>2
<1>4. Len(t) \in Nat /\ Len(s) \in Nat
  BY <1>2
<1>5. Before(L, u) = L
  BY <1>1 DEF Before
<1>6. Enumerates(f, Len(t), Before(L, u)) /\ Enumerates(g, Len(s), L)
  BY <1>3, <1>5 DEF Enumerates, Listing
<1>7. Len(t) = Len(s) /\ \A k \in 1..Len(t) : f[k] = g[k]
  <2> PICK m : m = Len(t)
    OBVIOUS
  <2> PICK n : n = Len(s)
    OBVIOUS
  <2>1. m \in Nat /\ n \in Nat /\ u \in Nat /\ L \in SUBSET Nat
    BY <1>1, <1>4
  <2>2. Enumerates(f, m, Before(L, u)) /\ Enumerates(g, n, L)
    BY <1>6
  <2>3. PrefixOf(f, m, g, n) /\ (Before(L, u) = L => m = n)
    BY <2>1, <2>2, PrefixUnique DEF ListsPrefix
  <2>4. QED
    BY <1>5, <2>3 DEF PrefixOf
<1>8. \A k \in 1..Len(t) : t[k] = s[k]
  BY <1>3, <1>7 DEF Listing
<1>9. t \in Seq(S)
  <2>1. t \in [1..Len(t) -> EntrySet] /\ \A k \in 1..Len(s) : s[k] \in S
    BY <1>2, LenProperties
  <2>2. t \in [1..Len(t) -> S]
    BY <1>7, <1>8, <2>1
  <2>3. QED
    BY <1>4, <2>2
<1>10. QED
  BY <1>7, <1>8, <1>9, SeqEqual

-----------------------------------------------------------------------------
(* The iterator.                                                           *)

Iters == [state : {"running", "exhausted"}, parent_keys : Addrs, size : Nat, pos : Nat,
          seen : Seq(Keys), clean : BOOLEAN]

(* The keys it has handed out are those of the live entries it has passed. *)
Toured(i, L, e) ==
  \E f : /\ Enumerates(f, Len(i.seen), Before(L, i.pos))
         /\ \A m \in 1..Len(i.seen) : i.seen[m] = e[f[m]].key

Undisturbed(i, d, c) ==
  /\ i \in Iters /\ i.clean = TRUE /\ i.parent_keys = d.addr /\ i.size = c
  /\ Toured(i, LiveIn(d), d.entries)
  /\ i.state = "exhausted" => Before(LiveIn(d), i.pos) = LiveIn(d)

Disturbed(i) ==
  \/ i \in Iters /\ i.state = "running" /\ i.clean = FALSE
  \/ i = NoIter \/ i = [state |-> "mutated", clean |-> FALSE]

IterOK(i, d, c) == Disturbed(i) \/ Undisturbed(i, d, c)

LEMMA MovesOK ==
  ASSUME NEW i, NEW d, NEW c, IterOK(i, d, c)
  PROVE  Disturbed(Moves(i))
<1>1. CASE i \in Iters /\ i.state = "running"
  <2>1. Moves(i) = [i EXCEPT !.clean = FALSE, !.seen = <<>>]
    BY <1>1 DEF Moves
  <2>2. <<>> \in Seq(Keys)
    OBVIOUS
  <2>3. Moves(i) \in Iters /\ Moves(i).state = "running" /\ Moves(i).clean = FALSE
    BY <1>1, <2>1, <2>2 DEF Iters
  <2>4. QED
    BY <2>3 DEF Disturbed
<1>2. CASE i \in Iters /\ i.state = "exhausted"
  <2>1. Moves(i) = NoIter
    BY <1>2 DEF Moves
  <2>2. QED
    BY <2>1 DEF Disturbed
<1>3. CASE i = NoIter \/ i = [state |-> "mutated", clean |-> FALSE]
  <2>1. i.state # "running" /\ i.state # "exhausted"
    BY <1>3 DEF NoIter
  <2>2. Moves(i) = i
    BY <2>1 DEF Moves
  <2>3. QED
    BY <1>3, <2>2 DEF Disturbed
<1>4. QED
  BY <1>1, <1>2, <1>3 DEF IterOK, Disturbed, Undisturbed, Iters

LEMMA IterStarts ==
  ASSUME NEW d, NEW c \in Nat, d.addr \in Addrs, LiveIn(d) \in SUBSET Nat,
         NEW i, i = [state |-> "running", parent_keys |-> d.addr, size |-> c, pos |-> 0,
                     seen |-> <<>>, clean |-> TRUE]
  PROVE  IterOK(i, d, c)
<1>1. <<>> \in Seq(Keys)
  OBVIOUS
<1>2. /\ i \in Iters /\ i.clean = TRUE /\ i.parent_keys = d.addr /\ i.size = c
      /\ i.state = "running" /\ i.pos = 0 /\ i.seen = <<>>
  BY <1>1 DEF Iters
<1>3. Before(LiveIn(d), 0) = {}
  BY DEF Before
<1>4. Toured(i, LiveIn(d), d.entries)
  <2>1. Enumerates([m \in 1..0 |-> 0], 0, {})
    BY DEF Enumerates, Increasing
  <2>2. Len(i.seen) = 0 /\ Before(LiveIn(d), i.pos) = {}
    BY <1>2, <1>3
  <2>3. Enumerates([m \in 1..0 |-> 0], Len(i.seen), Before(LiveIn(d), i.pos))
    BY <2>1, <2>2
  <2>4. \A m \in 1..Len(i.seen) : i.seen[m] = d.entries[[n \in 1..0 |-> 0][m]].key
    BY <2>2
  <2>5. QED
    BY <2>3, <2>4, Zenon DEF Toured
<1>5. QED
  BY <1>2, <1>4 DEF IterOK, Undisturbed

(* One more key: that of the next live entry.                              *)
LEMMA TourGrows ==
  ASSUME NEW L \in SUBSET Nat, NEW e, NEW i \in Iters, Toured(i, L, e), NEW a \in L,
         a >= i.pos, \A jx \in L : jx >= i.pos => a <= jx, e[a].key \in Keys,
         NEW j \in Iters, j.seen = Append(i.seen, e[a].key), j.pos = a + 1
  PROVE  Toured(j, L, e)
<1> PICK s : s = i.seen
  OBVIOUS
<1> PICK n : n = Len(s)
  OBVIOUS
<1> PICK pos : pos = i.pos
  OBVIOUS
<1>1. s \in Seq(Keys) /\ n \in Nat /\ pos \in Nat /\ a \in Nat
  BY DEF Iters
<1>2. Len(j.seen) = n + 1 /\ j.seen[n + 1] = e[a].key /\ \A m \in 1..n : j.seen[m] = s[m]
  BY <1>1
<1>3. PICK f : Enumerates(f, n, Before(L, pos)) /\ \A m \in 1..n : s[m] = e[f[m]].key
  BY DEF Toured
<1> PICK B : B = Before(L, pos)
  OBVIOUS
<1> PICK C : C = Before(L, a + 1)
  OBVIOUS
<1>4. a \in C /\ a \notin B /\ B \in SUBSET C /\ \A ix \in C : ix \in B \/ ix = a
  <2>1. a \in C /\ a \notin B
    BY <1>1 DEF Before
  <2>2. ASSUME NEW ix \in B PROVE ix \in C
    BY <1>1 DEF Before
  <2>3. ASSUME NEW ix \in C PROVE ix \in B \/ ix = a
    <3>1. ix \in L /\ ix \in Nat /\ ix < a + 1
      BY DEF Before
    <3>2. CASE ix >= pos
      BY <1>1, <3>1, <3>2
    <3>3. CASE ix < pos
      BY <3>1, <3>3 DEF Before
    <3>4. QED
      BY <1>1, <3>1, <3>2, <3>3
  <2>4. QED
    BY <2>1, <2>2, <2>3
<1> PICK g : g = [m \in 1..(n + 1) |-> IF m = n + 1 THEN a ELSE f[m]]
  OBVIOUS
<1>5. \A m \in 1..n : m \in 1..(n + 1) /\ g[m] = f[m] /\ f[m] \in B /\ f[m] \in Nat /\ f[m] < a
  <2>1. ASSUME NEW m \in 1..n PROVE f[m] \in B /\ f[m] \in Nat /\ f[m] < pos
    BY <1>3 DEF Enumerates, Before
  <2>2. ASSUME NEW m \in 1..n PROVE m \in 1..(n + 1) /\ m # n + 1
    BY <1>1
  <2>3. QED
    BY <1>1, <2>1, <2>2
<1>6. n + 1 \in 1..(n + 1) /\ g[n + 1] = a /\ \A m \in 1..(n + 1) : m \in 1..n \/ m = n + 1
  BY <1>1
<1>7. g \in [1..(n + 1) -> C]
  <2>1. \A m \in 1..(n + 1) : g[m] \in C
    BY <1>4, <1>5, <1>6
  <2>2. QED
    BY <2>1
<1>8. Increasing(g, n + 1)
  <2>1. ASSUME NEW x \in 1..(n + 1), NEW y \in 1..(n + 1), x < y PROVE g[x] < g[y]
    <3>1. x \in 1..n
      BY <1>1, <2>1
    <3>2. CASE y \in 1..n
      BY <1>3, <1>5, <2>1, <3>1, <3>2 DEF Enumerates, Increasing
    <3>3. CASE y = n + 1
      BY <1>5, <1>6, <3>1, <3>3
    <3>4. QED
      BY <1>6, <3>2, <3>3
  <2>2. QED
    BY <2>1 DEF Increasing
<1>9. ASSUME NEW ix \in C PROVE \E m \in 1..(n + 1) : g[m] = ix
  <2>1. CASE ix = a
    BY <1>6, <2>1
  <2>2. CASE ix \in B
    <3>1. PICK m \in 1..n : f[m] = ix
      BY <1>3, <2>2 DEF Enumerates
    <3>2. QED
      BY <1>5, <3>1
  <2>3. QED
    BY <1>4, <2>1, <2>2
<1>10. Enumerates(g, n + 1, C)
  BY <1>7, <1>8, <1>9 DEF Enumerates
<1>11. ASSUME NEW m \in 1..(n + 1) PROVE j.seen[m] = e[g[m]].key
  <2>1. CASE m = n + 1
    BY <1>2, <1>6, <2>1
  <2>2. CASE m \in 1..n
    BY <1>2, <1>3, <1>5, <2>2
  <2>3. QED
    BY <1>6, <2>1, <2>2
<1>12. Enumerates(g, Len(j.seen), Before(L, j.pos))
       /\ \A m \in 1..Len(j.seen) : j.seen[m] = e[g[m]].key
  BY <1>2, <1>10, <1>11
<1>13. QED
  BY <1>12, Zenon DEF Toured

Passes(i, j, a, k) ==
  j = [i EXCEPT !.pos = a + 1, !.seen = IF i.clean THEN Append(i.seen, k) ELSE i.seen]

Passed(i, j, a, k) ==
  /\ j \in Iters /\ j.state = i.state /\ j.clean = i.clean /\ j.pos = a + 1
  /\ j.parent_keys = i.parent_keys /\ j.size = i.size
  /\ i.clean = TRUE => j.seen = Append(i.seen, k)

LEMMA PassFields ==
  ASSUME NEW i \in Iters, NEW a \in Nat, NEW k \in Keys, NEW j, Passes(i, j, a, k)
  PROVE  Passed(i, j, a, k)
<1>1. i.seen \in Seq(Keys) /\ a + 1 \in Nat /\ i.clean \in BOOLEAN
  BY DEF Iters
<1>2. \E s : s = (IF i.clean THEN Append(i.seen, k) ELSE i.seen) /\ s \in Seq(Keys)
             /\ (i.clean = TRUE => s = Append(i.seen, k))
  <2>1. Append(i.seen, k) \in Seq(Keys)
    BY <1>1
  <2>2. QED
    BY <1>1, <2>1
<1>3. PICK s : s = (IF i.clean THEN Append(i.seen, k) ELSE i.seen) /\ s \in Seq(Keys)
               /\ (i.clean = TRUE => s = Append(i.seen, k))
  BY <1>2
<1>4. j = [i EXCEPT !.pos = a + 1, !.seen = s]
  BY <1>3, Zenon DEF Passes
<1>5. QED
  BY <1>1, <1>3, <1>4 DEF Iters, Passed

LEMMA IterStepOK ==
  ASSUME Consistent(keys, refs, used), IterOK(it, keys, used), IterNext \/ SetIterNext
  PROVE  IterOK(it', keys, used)
<1> PICK L : L = LiveIn(keys)
  OBVIOUS
<1> PICK e : e = keys.entries
  OBVIOUS
<1> PICK i : i = it
  OBVIOUS
<1> PICK j : j = it'
  OBVIOUS
<1>1. PICK size : InOrder(keys, size)
  BY DEF Consistent
<1>2. L \in SUBSET Nat /\ \A ix \in L : e[ix].key \in Keys
  <2>1. Filed(L, e) /\ Filing(keys.indices, L, Paths(e, size), size)
    BY <1>1 DEF InOrder
  <2>2. QED
    BY <2>1 DEF Filed, Filing
<1>3. i.state = "running"
  BY DEF IterNext, SetIterNext
<1>4. i \in Iters /\ (i.clean = FALSE \/ Undisturbed(i, keys, used)) /\ i.clean \in BOOLEAN
  <2>1. i # NoIter /\ i # [state |-> "mutated", clean |-> FALSE]
    BY <1>3 DEF NoIter
  <2>2. QED
    BY <2>1 DEF IterOK, Disturbed, Undisturbed, Iters
<1>5. i.clean = TRUE => ~ Mutated
  BY <1>4 DEF Undisturbed, Mutated
<1>6. Ahead = {ix \in L : ix >= i.pos} /\ i.pos \in Nat
  BY <1>4 DEF Ahead, Iters
<1>7. CASE ~ Mutated /\ Ahead # {}
  <2> PICK a : a = Smallest(Ahead)
    OBVIOUS
  <2>1. a \in L /\ a \in Nat /\ a >= i.pos /\ (\A jx \in L : jx >= i.pos => a <= jx)
        /\ e[a].key \in Keys
    <3>1. Ahead \in SUBSET Nat
      BY <1>2, <1>6
    <3>2. PICK x \in Ahead : TRUE
      BY <1>7
    <3>3. a \in Ahead /\ \A t \in Ahead : a <= t
      BY <3>1, SmallestOf
    <3>4. QED
      BY <1>2, <1>6, <3>3
  <2>2. Passes(i, j, a, e[a].key)
    <3>1. it' = [it EXCEPT !.pos = Smallest(Ahead) + 1,
                   !.seen = IF it.clean THEN Append(@, keys.entries[Smallest(Ahead)].key) ELSE @]
      BY <1>7, Zenon DEF IterNext, SetIterNext
    <3>2. QED
      BY <3>1, Zenon DEF Passes
  <2>3. /\ j \in Iters /\ j.state = i.state /\ j.clean = i.clean /\ j.pos = a + 1
        /\ j.parent_keys = i.parent_keys /\ j.size = i.size
        /\ i.clean = TRUE => j.seen = Append(i.seen, e[a].key)
    <3>1. Passed(i, j, a, e[a].key)
      BY <1>4, <2>1, <2>2, PassFields
    <3>2. QED
      BY <3>1 DEF Passed
  <2>4. CASE i.clean = FALSE
    BY <1>3, <2>3, <2>4 DEF IterOK, Disturbed
  <2>5. CASE i.clean = TRUE
    <3>1. Undisturbed(i, keys, used)
      BY <1>4, <2>5
    <3>2. Toured(i, L, e)
      BY <3>1 DEF Undisturbed
    <3>3. Toured(j, L, e)
      BY <1>2, <1>4, <2>1, <2>3, <2>5, <3>2, TourGrows
    <3>4. Undisturbed(j, keys, used)
      BY <1>3, <2>3, <2>5, <3>1, <3>3 DEF Undisturbed
    <3>5. QED
      BY <3>4 DEF IterOK
  <2>6. QED
    BY <1>4, <2>4, <2>5
<1>8. CASE ~ Mutated /\ Ahead = {}
  <2>1. j = IF i.clean THEN [i EXCEPT !.state = "exhausted"] ELSE NoIter
    BY <1>8, Zenon DEF IterNext, SetIterNext
  <2>2. CASE i.clean = FALSE
    BY <2>1, <2>2 DEF IterOK, Disturbed
  <2>3. CASE i.clean = TRUE
    <3>1. j = [i EXCEPT !.state = "exhausted"]
      BY <2>1, <2>3
    <3>2. /\ j \in Iters /\ j.state = "exhausted" /\ j.clean = TRUE /\ j.pos = i.pos
          /\ j.parent_keys = i.parent_keys /\ j.size = i.size /\ j.seen = i.seen
      BY <1>4, <2>3, <3>1 DEF Iters
    <3>3. Undisturbed(i, keys, used)
      BY <1>4, <2>3
    <3>4. Toured(j, L, e)
      BY <3>2, <3>3 DEF Undisturbed, Toured
    <3>5. Before(L, j.pos) = L
      <4>1. \A ix \in L : ix < i.pos
        BY <1>2, <1>6, <1>8
      <4>2. QED
        BY <3>2, <4>1 DEF Before
    <3>6. Undisturbed(j, keys, used)
      BY <3>2, <3>3, <3>4, <3>5 DEF Undisturbed
    <3>7. QED
      BY <3>6 DEF IterOK
  <2>4. QED
    BY <1>4, <2>2, <2>3
<1>9. CASE Mutated
  <2>1. i.clean = FALSE
    BY <1>4, <1>5, <1>9
  <2>2. j = [state |-> "mutated", clean |-> FALSE] \/ j = NoIter
    BY <1>9, <2>1 DEF IterNext, SetIterNext
  <2>3. QED
    BY <2>2 DEF IterOK, Disturbed
<1>10. QED
  BY <1>7, <1>8, <1>9

(* The values may change under an iterator.                                *)
LEMMA IterKept ==
  ASSUME NEW i, NEW d, NEW c, IterOK(i, d, c), NEW p, p.addr = d.addr, LiveIn(p) = LiveIn(d),
         \A ix \in LiveIn(d) : p.entries[ix].key = d.entries[ix].key
  PROVE  IterOK(i, p, c)
<1>1. CASE Disturbed(i)
  BY <1>1 DEF IterOK
<1>2. CASE Undisturbed(i, d, c)
  <2>1. PICK f : /\ Enumerates(f, Len(i.seen), Before(LiveIn(d), i.pos))
                 /\ \A m \in 1..Len(i.seen) : i.seen[m] = d.entries[f[m]].key
    BY <1>2 DEF Undisturbed, Toured
  <2>2. \A m \in 1..Len(i.seen) : i.seen[m] = p.entries[f[m]].key
    <3>1. \A m \in 1..Len(i.seen) : f[m] \in LiveIn(d)
      BY <2>1 DEF Enumerates, Before
    <3>2. QED
      BY <2>1, <3>1
  <2>3. Toured(i, LiveIn(p), p.entries)
    BY <2>1, <2>2 DEF Toured
  <2>4. QED
    BY <1>2, <2>3 DEF IterOK, Undisturbed
<1>3. QED
  BY <1>1, <1>2 DEF IterOK

(* What such an iterator promises.                                         *)
LEMMA IterPromises ==
  ASSUME Consistent(keys, refs, used), IterOK(it, keys, used)
  PROVE  IterFaithful /\ it.state \in {"none", "running", "mutated", "exhausted"}
<1>1. PICK size : InOrder(keys, size)
  BY DEF Consistent
<1> PICK L : L = LiveIn(keys)
  OBVIOUS
<1> PICK e : e = keys.entries
  OBVIOUS
<1> PICK t : t = Live(keys)
  OBVIOUS
<1> PICK u : u = USABLE_FRACTION(size)
  OBVIOUS
<1>2. u \in Nat /\ keys.nentries \in 0..u /\ e \in [0..(u - 1) -> EntrySet] /\ L \in SUBSET Nat
  <2>1. /\ u \in Nat /\ keys.nentries \in Nat /\ keys.usable \in Nat
        /\ keys.nentries + keys.usable <= u /\ e \in [0..(u - 1) -> EntrySet]
    BY <1>1, InOrderFields
  <2>2. L \in SUBSET Nat
    BY <1>1 DEF InOrder, Filing
  <2>3. QED
    BY <2>1, <2>2
<1>3. t \in Seq(EntrySet) /\ \E g : Listing(g, t, L, e)
  BY <1>2, LiveLists
<1> PICK n : n = Len(t)
  OBVIOUS
<1>4. Len(Items) = n /\ n \in Nat /\ \A m \in 1..n : Items[m].key = t[m].key
  <2>1. n \in Nat
    BY <1>3
  <2>2. Items = [m \in 1..n |-> [key |-> t[m].key, val |-> t[m].val]]
    BY DEF Items
  <2>3. QED
    BY <2>1, <2>2
<1>5. CASE Disturbed(it)
  <2>1. it.clean = FALSE /\ it.state \in {"none", "running", "mutated"}
    BY <1>5 DEF Disturbed, NoIter
  <2>2. QED
    BY <2>1 DEF IterFaithful
<1>6. CASE Undisturbed(it, keys, used)
  <2> PICK m : m = Len(it.seen)
    OBVIOUS
  <2>1. /\ it.state \in {"running", "exhausted"} /\ m \in Nat /\ DOMAIN it.seen = 1..m
        /\ it.pos \in Nat
    BY <1>6 DEF Undisturbed, Iters
  <2>2. PICK f : /\ Enumerates(f, m, Before(L, it.pos))
                 /\ \A k \in 1..m : it.seen[k] = e[f[k]].key
    BY <1>6 DEF Undisturbed, Toured
  <2>3. PICK g : Listing(g, t, L, e)
    BY <1>3
  <2>4. Enumerates(g, n, L) /\ \A k \in 1..n : t[k] = e[g[k]]
    BY <2>3 DEF Enumerates, Listing
  <2>5. PrefixOf(f, m, g, n) /\ (Before(L, it.pos) = L => m = n)
    <3> PICK pos : pos = it.pos
      OBVIOUS
    <3>1. L \in SUBSET Nat /\ m \in Nat /\ n \in Nat /\ pos \in Nat
      BY <1>2, <1>4, <2>1
    <3>2. Enumerates(f, m, Before(L, pos)) /\ Enumerates(g, n, L)
      BY <2>2, <2>4
    <3>3. ListsPrefix(f, m, g, n, L, pos)
      BY <3>1, <3>2, PrefixUnique
    <3>4. QED
      BY <3>3 DEF ListsPrefix
  <2>6. \A k \in 1..m : k \in 1..n /\ k <= n /\ it.seen[k] = t[k].key
    <3>1. m <= n /\ \A k \in 1..m : f[k] = g[k]
      BY <2>5 DEF PrefixOf
    <3>2. \A k \in 1..m : k \in 1..n /\ k <= n
      BY <1>4, <2>1, <3>1
    <3>3. QED
      BY <2>2, <2>4, <3>1, <3>2
  <2>7. it.state = "exhausted" => m = n
    BY <1>6, <2>5 DEF Undisturbed
  <2>8. IterFaithful
    BY <1>4, <2>1, <2>6, <2>7 DEF IterFaithful
  <2>9. QED
    BY <2>1, <2>8
<1>7. QED
  BY <1>5, <1>6 DEF IterOK

-----------------------------------------------------------------------------
(* The inductive invariant of the hash table.                              *)

Booked(m, n, d) == n \in NewSizes /\ m \in 0..n /\ m + d.usable >= n

TableInv ==
  Consistent(keys, refs, used) /\ Booked(inserted, n_keys, keys) /\ IterOK(it, keys, used)

(* The values of a set are zero bytes.                                     *)
NoValues(d) == \A ix \in LiveIn(d) : d.entries[ix].val = Zero

LEMMA TableFields ==
  ASSUME TableInv
  PROVE  /\ keys.usable \in Nat /\ used \in Nat /\ keys.addr \in Addrs
         /\ n_keys \in Nat /\ inserted \in 0..n_keys /\ inserted + keys.usable >= n_keys
         /\ LiveIn(keys) \in SUBSET Nat
<1>1. Consistent(keys, refs, used) /\ Booked(inserted, n_keys, keys)
  BY DEF TableInv
<1>2. PICK size : InOrder(keys, size)
  BY <1>1 DEF Consistent
<1>3. keys.usable \in Nat /\ keys.addr \in Addrs
  BY <1>2, InOrderFields
<1>4. LiveIn(keys) \in SUBSET Nat
  BY <1>2 DEF InOrder, Filing
<1>5. used \in Nat
  BY <1>1, SoundFinite
<1>6. n_keys \in Nat
  BY <1>1, ConstantsAssumption DEF Booked
<1>7. QED
  BY <1>1, <1>3, <1>4, <1>5, <1>6 DEF Booked

(* A key that is not there is put into d: the table, or what it was        *)
(* resized to because it was full.                                         *)
Base(d, r, k) ==
  \/ d = keys /\ r = refs /\ keys.usable > 0
  \/ /\ keys.usable <= 0 /\ r = ReleaseAll(refs, Left)
     /\ \E addr \in Addrs : d = Resized(used * 3, addr)

LEMMA BaseIs ==
  ASSUME TableInv, NEW k \in Keys, \A ix \in LiveIn(keys) : keys.entries[ix].key # k,
         NEW d, NEW r, Base(d, r, k)
  PROVE  /\ Consistent(d, r, used) /\ d.usable > 0 /\ d.usable \in Nat
         /\ \A ix \in LiveIn(d) : d.entries[ix].key # k
         /\ NoValues(keys) => NoValues(d)
         /\ inserted = n_keys \/ d.usable = keys.usable
<1>1. Consistent(keys, refs, used)
  BY DEF TableInv
<1>2. CASE d = keys /\ r = refs /\ keys.usable > 0
  BY <1>1, <1>2, TableFields
<1>3. CASE keys.usable <= 0 /\ r = ReleaseAll(refs, Left)
           /\ \E addr \in Addrs : d = Resized(used * 3, addr)
  <2>1. PICK addr \in Addrs : d = Resized(used * 3, addr)
    BY <1>3
  <2>2. /\ Consistent(d, ReleaseAll(refs, Left), used) /\ d.addr = addr /\ d.usable > 0
        /\ \A ix \in LiveIn(d) : \E jx \in LiveIn(keys) : d.entries[ix] = keys.entries[jx]
    BY <1>1, <2>1, ResizedSound
  <2>3. Consistent(d, r, used)
    BY <1>3, <2>2
  <2>4. d.usable \in Nat
    <3>1. PICK size : InOrder(d, size)
      BY <2>3 DEF Consistent
    <3>2. QED
      BY <3>1, InOrderFields
  <2>5. (\A ix \in LiveIn(d) : d.entries[ix].key # k) /\ (NoValues(keys) => NoValues(d))
    BY <2>2 DEF NoValues
  <2>6. inserted = n_keys
    BY <1>3, TableFields
  <2>7. QED
    BY <2>2, <2>3, <2>4, <2>5, <2>6
<1>4. QED
  BY <1>2, <1>3 DEF Base

LEMMA AddedOK ==
  ASSUME TableInv, NEW k \in Keys, \A ix \in LiveIn(keys) : keys.entries[ix].key # k,
         NEW d, NEW r, Base(d, r, k), NEW v \in Vals \cup {Zero},
         keys' = Place(d, k, v), refs' = Incref(Incref(r, k), v), used' = used + 1,
         inserted' = IF inserted = n_keys THEN inserted ELSE inserted + 1,
         it' = Moves(it), n_keys' = n_keys
  PROVE  TableInv' /\ (v = Zero /\ NoValues(keys) => NoValues(keys'))
<1> PICK p : p = Place(d, k, v)
  OBVIOUS
<1>1. /\ Consistent(d, r, used) /\ d.usable > 0 /\ d.usable \in Nat
      /\ \A ix \in LiveIn(d) : d.entries[ix].key # k
      /\ NoValues(keys) => NoValues(d)
      /\ inserted = n_keys \/ d.usable = keys.usable
  BY BaseIs
<1>2. /\ Consistent(p, Incref(Incref(r, k), v), used + 1)
      /\ p.usable = d.usable - 1 /\ p.addr = d.addr
      /\ p.entries[d.nentries] = [hash |-> Hash[k], key |-> k, val |-> v]
      /\ Grown(LiveIn(d), d.entries, LiveIn(p), p.entries, d.nentries)
  BY <1>1, PlaceSound
<1>3. Disturbed(it')
  <2>1. IterOK(it, keys, used)
    BY DEF TableInv
  <2>2. QED
    BY <2>1, MovesOK
<1>4. Booked(inserted', n_keys', keys')
  <2>1. n_keys \in NewSizes
    BY DEF TableInv, Booked
  <2>2. keys'.usable = d.usable - 1
    BY <1>2
  <2>3. inserted' \in 0..n_keys /\ inserted' + (d.usable - 1) >= n_keys
    <3>1. CASE inserted = n_keys
      BY <1>1, <3>1, TableFields
    <3>2. CASE inserted # n_keys
      BY <1>1, <3>2, TableFields
    <3>3. QED
      BY <3>1, <3>2
  <2>4. QED
    BY <2>1, <2>2, <2>3 DEF Booked
<1>5. TableInv'
  <2>1. Consistent(keys', refs', used')
    BY <1>2
  <2>2. IterOK(it', keys', used')
    BY <1>3 DEF IterOK
  <2>3. QED
    BY <1>4, <2>1, <2>2 DEF TableInv
<1>6. ASSUME v = Zero, NoValues(keys) PROVE NoValues(p)
  <2>1. NoValues(d) /\ p.entries[d.nentries].val = Zero
    BY <1>1, <1>2, <1>6
  <2>2. LiveIn(p) = LiveIn(d) \cup {d.nentries}
        /\ \A jx \in LiveIn(d) : p.entries[jx] = d.entries[jx]
    BY <1>2 DEF Grown
  <2>3. QED
    BY <2>1, <2>2 DEF NoValues
<1>7. QED
  BY <1>5, <1>6

(* An item is dropped.                                                     *)
LEMMA DroppedOK ==
  ASSUME TableInv, NEW size, InOrder(keys', size), keys'.addr = keys.addr,
         keys'.usable = keys.usable, NEW ix,
         Grown(LiveIn(keys'), keys'.entries, LiveIn(keys), keys.entries, ix),
         refs' = DecrefEntry(refs, keys.entries[ix]), used' = used - 1, it' = Moves(it),
         n_keys' = n_keys, inserted' = inserted
  PROVE  TableInv' /\ (NoValues(keys) => NoValues(keys'))
<1> PICK p : p = keys'
  OBVIOUS
<1>1. Consistent(keys, refs, used) /\ IterOK(it, keys, used) /\ Booked(inserted, n_keys, keys)
  BY DEF TableInv
<1>2. Consistent(p, DecrefEntry(refs, keys.entries[ix]), used - 1)
  BY <1>1, DropSound
<1>3. Disturbed(it')
  BY <1>1, MovesOK
<1>4. Booked(inserted', n_keys', keys')
  BY <1>1 DEF Booked
<1>5. TableInv'
  <2>1. Consistent(keys', refs', used')
    BY <1>2
  <2>2. IterOK(it', keys', used')
    BY <1>3 DEF IterOK
  <2>3. QED
    BY <1>4, <2>1, <2>2 DEF TableInv
<1>6. ASSUME NoValues(keys) PROVE NoValues(p)
  BY <1>6 DEF NoValues, Grown
<1>7. QED
  BY <1>5, <1>6

(* The table is freed, and a new one made.                                 *)
LEMMA FreshConsistent ==
  ASSUME NEW n \in NewSizes, NEW a \in Addrs, NEW d, d = NewKeys(SizeFor(n), a), NEW r \in Refs,
         \A x \in Keys \cup Vals : r[x] = 0
  PROVE  /\ Consistent(d, r, 0) /\ Booked(0, n, d) /\ LiveIn(d) = {}
<1> PICK size : size = SizeFor(n)
  OBVIOUS
<1>1. size \in Sizes /\ USABLE_FRACTION(size) >= n /\ n \in Nat
  BY SizeForIs
<1>2. /\ InOrder(d, size) /\ LiveIn(d) = {} /\ d.usable = USABLE_FRACTION(size)
  BY <1>1, NewKeysInOrder
<1>3. \A x : Owns({}, d.entries, x) = 0
  <2>1. ASSUME NEW x PROVE Owns({}, d.entries, x) = 0
    <3>1. KeyAt({}, d.entries, x) = {} /\ ValAt({}, d.entries, x) = {}
      BY DEF KeyAt, ValAt
    <3>2. Cardinality({}) = 0
      BY FS_EmptySet
    <3>3. QED
      BY <3>1, <3>2 DEF Owns
  <2>2. QED
    BY <2>1
<1>4. Exact(r, {}, d.entries)
  BY <1>3 DEF Exact
<1>5. Cardinality({}) = 0
  BY FS_EmptySet
<1>6. Consistent(d, r, 0)
  BY <1>2, <1>4, <1>5 DEF Consistent
<1>7. Booked(0, n, d)
  <2>1. 0 \in 0..n
    BY <1>1
  <2>2. USABLE_FRACTION(size) \in Nat
    BY <1>2, InOrderFields
  <2>3. 0 + d.usable >= n
    BY <1>1, <1>2, <2>2
  <2>4. QED
    BY <2>1, <2>3 DEF Booked
<1>8. QED
  BY <1>2, <1>6, <1>7

(* numba_dictkeys_free() gives every reference back.                       *)
LEMMA AllReleased ==
  ASSUME Consistent(keys, refs, used)
  PROVE  /\ ReleaseAll(refs, Live(keys)) \in Refs
         /\ \A x \in Keys \cup Vals : ReleaseAll(refs, Live(keys))[x] = 0
<1> PICK L : L = LiveIn(keys)
  OBVIOUS
<1> PICK e : e = keys.entries
  OBVIOUS
<1> PICK s : s = Live(keys)
  OBVIOUS
<1> PICK r : r = refs
  OBVIOUS
<1>1. PICK size : InOrder(keys, size)
  BY DEF Consistent
<1> PICK u : u = USABLE_FRACTION(size)
  OBVIOUS
<1>2. /\ u \in Nat /\ keys.nentries \in Nat /\ keys.nentries \in 0..u
      /\ e \in [0..(u - 1) -> EntrySet] /\ L \in SUBSET (0..(keys.nentries - 1))
  <2>1. /\ u \in Nat /\ keys.nentries \in Nat /\ keys.usable \in Nat
        /\ keys.nentries + keys.usable <= u /\ e \in [0..(u - 1) -> EntrySet]
        /\ L \in SUBSET (0..(keys.nentries - 1))
    BY <1>1, InOrderFields
  <2>2. QED
    BY <2>1
<1>3. s \in Seq(EntrySet) /\ \E g : Listing(g, s, L, e)
  BY <1>2, LiveLists
<1>4. PICK g : Listing(g, s, L, e)
  BY <1>3
<1> PICK n : n = Len(s)
  OBVIOUS
<1>5. IsFiniteSet(L) /\ g \in Bijection(1..n, L)
  <2>1. IsFiniteSet(L) /\ Cardinality(L) = Len(s) /\ g \in Bijection(1..Len(s), L)
    BY <1>2, <1>3, <1>4, ListingCounts
  <2>2. QED
    BY <2>1
<1>6. r \in Refs /\ \A x \in Keys \cup Vals : r[x] = Owns(L, e, x)
  BY DEF Consistent, Exact
<1>7. n \in Nat /\ DOMAIN s = 1..n /\ IsFiniteSet(1..n) /\ \A m \in 1..n : s[m] = e[g[m]]
  <2>1. n \in Nat /\ DOMAIN s = 1..n
    BY <1>3
  <2>2. IsFiniteSet(1..n)
    BY <2>1, FS_Interval
  <2>3. QED
    BY <1>4, <2>1, <2>2 DEF Listing
<1>8. ASSUME NEW x \in Keys \cup Vals
      PROVE  /\ Cardinality({m \in DOMAIN s : s[m].key = x}) = Cardinality(KeyAt(L, e, x))
             /\ Cardinality({m \in DOMAIN s : s[m].val = x}) = Cardinality(ValAt(L, e, x))
  <2> PICK A : A = {m \in DOMAIN s : s[m].key = x}
    OBVIOUS
  <2> PICK B : B = {m \in DOMAIN s : s[m].val = x}
    OBVIOUS
  <2> PICK M : M = 1..n
    OBVIOUS
  <2>1. \A m \in M : g[m] \in L /\ s[m] = e[g[m]]
    BY <1>4, <1>7 DEF Listing
  <2>2. A \in SUBSET M /\ B \in SUBSET M
        /\ KeyAt(L, e, x) \in SUBSET L /\ ValAt(L, e, x) \in SUBSET L
    BY <1>7 DEF KeyAt, ValAt
  <2>3. \A m \in M : (m \in A <=> g[m] \in KeyAt(L, e, x)) /\ (m \in B <=> g[m] \in ValAt(L, e, x))
    BY <1>7, <2>1 DEF KeyAt, ValAt
  <2>4. IsFiniteSet(M) /\ g \in Bijection(M, L)
    BY <1>5, <1>7
  <2>5. Cardinality(A) = Cardinality(KeyAt(L, e, x))
    BY <2>2, <2>3, <2>4, SetsMoved
  <2>6. Cardinality(B) = Cardinality(ValAt(L, e, x))
    BY <2>2, <2>3, <2>4, SetsMoved
  <2>7. QED
    BY <2>5, <2>6
<1> PICK q : q = ReleaseAll(r, s)
  OBVIOUS
<1>9. ASSUME NEW x \in Keys \cup Vals PROVE q[x] = 0
  <2>1. q[x] = r[x] - Cardinality({m \in DOMAIN s : s[m].key = x})
                    - Cardinality({m \in DOMAIN s : s[m].val = x})
    BY <1>6 DEF ReleaseAll, Refs
  <2>2. q[x] = Owns(L, e, x) - Cardinality(KeyAt(L, e, x)) - Cardinality(ValAt(L, e, x))
    BY <1>6, <1>8, <2>1
  <2>3. Cardinality(KeyAt(L, e, x)) \in Nat /\ Cardinality(ValAt(L, e, x)) \in Nat
    BY <1>5, OwnsType
  <2>4. QED
    BY <2>2, <2>3 DEF Owns
<1>10. q \in Refs
  <2>1. r \in [Keys \cup Vals -> Int] /\ DOMAIN r = Keys \cup Vals
    BY <1>6 DEF Refs
  <2>2. q = [x \in DOMAIN r |-> (r[x] - Cardinality({m \in DOMAIN s : s[m].key = x}))
                                    - Cardinality({m \in DOMAIN s : s[m].val = x})]
    BY Zenon DEF ReleaseAll
  <2>3. q = [x \in Keys \cup Vals |-> (r[x] - Cardinality({m \in DOMAIN s : s[m].key = x}))
                                         - Cardinality({m \in DOMAIN s : s[m].val = x})]
    BY <2>1, <2>2, Zenon
  <2>4. ASSUME NEW x \in Keys \cup Vals
        PROVE  (r[x] - Cardinality({m \in DOMAIN s : s[m].key = x}))
                 - Cardinality({m \in DOMAIN s : s[m].val = x}) \in Int
    <3>1. q[x] = (r[x] - Cardinality({m \in DOMAIN s : s[m].key = x}))
                   - Cardinality({m \in DOMAIN s : s[m].val = x})
      BY <2>3, Zenon
    <3>2. QED
      BY <1>9, <3>1
  <2>5. QED
    BY <2>3, <2>4, Zenon DEF Refs
<1>11. QED
  BY <1>9, <1>10

LEMMA RecreateOK ==
  ASSUME TableInv, NEW n \in NewSizes, Recreate(n)
  PROVE  TableInv' /\ NoValues(keys')
<1>1. Consistent(keys, refs, used)
  BY DEF TableInv
<1>2. PICK addr \in Addrs : keys' = NewKeys(SizeFor(n), addr)
  BY DEF Recreate
<1>3. refs' \in Refs /\ \A x \in Keys \cup Vals : refs'[x] = 0
  BY <1>1, AllReleased DEF Recreate
<1>4. Consistent(keys', refs', 0) /\ Booked(0, n, keys') /\ LiveIn(keys') = {}
  BY <1>2, <1>3, FreshConsistent
<1>5. used' = 0 /\ n_keys' = n /\ inserted' = 0 /\ it' = NoIter
  BY DEF Recreate
<1>6. IterOK(it', keys', used')
  BY <1>5 DEF IterOK, Disturbed
<1>7. QED
  BY <1>4, <1>5, <1>6 DEF TableInv, NoValues

LEMMA TableInit ==
  ASSUME Init
  PROVE  TableInv /\ NoValues(keys)
<1>1. n_keys \in NewSizes
  BY DEF Init
<1>2. PICK addr \in Addrs : keys = NewKeys(SizeFor(n_keys), addr)
  BY DEF Init
<1>3. refs \in Refs /\ \A x \in Keys \cup Vals : refs[x] = 0
  BY DEF Init, Refs
<1>4. Consistent(keys, refs, 0) /\ Booked(0, n_keys, keys) /\ LiveIn(keys) = {}
  BY <1>1, <1>2, <1>3, FreshConsistent
<1>5. used = 0 /\ inserted = 0 /\ it = NoIter
  BY DEF Init
<1>6. IterOK(it, keys, used)
  BY <1>5 DEF IterOK, Disturbed
<1>7. QED
  BY <1>4, <1>5, <1>6 DEF TableInv, NoValues

(* A step that leaves the table alone.                                     *)
LEMMA TableKept ==
  ASSUME TableInv, UNCHANGED <<used, keys, refs, n_keys, inserted>>, IterOK(it', keys, used)
  PROVE  TableInv' /\ keys' = keys
BY DEF TableInv

LEMMA IterationOK ==
  ASSUME TableInv, Iter \/ IterNext \/ SetIterNext
  PROVE  TableInv' /\ keys' = keys
<1>1. UNCHANGED <<used, keys, refs, n_keys, inserted>>
  BY DEF Iter, IterNext, SetIterNext
<1>2. IterOK(it', keys, used)
  <2>1. CASE Iter
    <3>1. it' = [state |-> "running", parent_keys |-> keys.addr, size |-> used,
                 pos |-> 0, seen |-> <<>>, clean |-> TRUE]
      BY <2>1 DEF Iter
    <3>2. QED
      BY <3>1, TableFields, IterStarts
  <2>2. CASE IterNext \/ SetIterNext
    BY <2>2, IterStepOK DEF TableInv
  <2>3. QED
    BY <2>1, <2>2
<1>3. QED
  BY <1>1, <1>2, TableKept

LEMMA LookupMissing ==
  ASSUME TableInv, NEW k \in Keys, Lookup(k) = EMPTY
  PROVE  \A ix \in LiveIn(keys) : keys.entries[ix].key # k
<1>1. PICK size : InOrder(keys, size)
  BY DEF TableInv, Consistent
<1>2. EMPTY \notin LiveIn(keys)
  BY TableFields DEF EMPTY
<1>3. \/ \E ix \in LiveIn(keys) : keys.entries[ix].key = k /\ Lookup(k) = ix
      \/ (\A ix \in LiveIn(keys) : keys.entries[ix].key # k) /\ Lookup(k) = EMPTY
  BY <1>1, LookupIs
<1>4. QED
  BY <1>2, <1>3

LEMMA InsertOK ==
  ASSUME TableInv, NEW k \in Keys, NEW v \in Vals, NEW ix, ix = Lookup(k),
         Insert(k, v, ix) \/ InsertResizing(k, v, ix)
  PROVE  TableInv'
<1>1. ix = EMPTY
  BY DEF Insert, InsertResizing
<1>2. \A jx \in LiveIn(keys) : keys.entries[jx].key # k
  BY <1>1, LookupMissing
<1>3. \E d, r : Base(d, r, k) /\ InsertInto(d, r, k, v)
  <2>1. CASE Insert(k, v, ix)
    <3>1. Base(keys, refs, k) /\ InsertInto(keys, refs, k, v)
      BY <2>1 DEF Insert, Base
    <3>2. QED
      BY <3>1
  <2>2. CASE InsertResizing(k, v, ix)
    <3>1. PICK addr \in Addrs \ {keys.addr} :
            InsertInto(Resized(used * 3, addr), ReleaseAll(refs, Left), k, v)
      BY <2>2 DEF InsertResizing
    <3>2. Base(Resized(used * 3, addr), ReleaseAll(refs, Left), k)
      BY <2>2 DEF InsertResizing, Base
    <3>3. QED
      BY <3>1, <3>2
  <2>3. QED
    BY <2>1, <2>2
<1>4. PICK d, r : Base(d, r, k) /\ InsertInto(d, r, k, v)
  BY <1>3
<1>5. v \in Vals \cup {Zero}
  OBVIOUS
<1>6. /\ keys' = Place(d, k, v) /\ refs' = Incref(Incref(r, k), v) /\ used' = used + 1
      /\ inserted' = IF inserted = n_keys THEN inserted ELSE inserted + 1
      /\ it' = Moves(it) /\ n_keys' = n_keys
  BY <1>4 DEF InsertInto
<1>7. QED
  BY <1>2, <1>4, <1>5, <1>6, AddedOK

LEMMA SetAddOK ==
  ASSUME TableInv, NoValues(keys), NEW k \in Keys, NEW ix, ix = Lookup(k),
         SetAdd(k, ix) \/ SetAddResizing(k, ix)
  PROVE  TableInv' /\ NoValues(keys')
<1>1. ix = EMPTY
  BY DEF SetAdd, SetAddResizing
<1>2. \A jx \in LiveIn(keys) : keys.entries[jx].key # k
  BY <1>1, LookupMissing
<1>3. \E d, r : Base(d, r, k) /\ AddInto(d, r, k)
  <2>1. CASE SetAdd(k, ix)
    <3>1. Base(keys, refs, k) /\ AddInto(keys, refs, k)
      BY <2>1 DEF SetAdd, Base
    <3>2. QED
      BY <3>1
  <2>2. CASE SetAddResizing(k, ix)
    <3>1. PICK addr \in Addrs \ {keys.addr} :
            AddInto(Resized(used * 3, addr), ReleaseAll(refs, Left), k)
      BY <2>2 DEF SetAddResizing
    <3>2. Base(Resized(used * 3, addr), ReleaseAll(refs, Left), k)
      BY <2>2 DEF SetAddResizing, Base
    <3>3. QED
      BY <3>1, <3>2
  <2>3. QED
    BY <2>1, <2>2
<1>4. PICK d, r : Base(d, r, k) /\ AddInto(d, r, k)
  BY <1>3
<1>5. Zero \in Vals \cup {Zero}
  OBVIOUS
<1>6. /\ keys' = Place(d, k, Zero) /\ refs' = Incref(r, k) /\ used' = used + 1
      /\ inserted' = IF inserted = n_keys THEN inserted ELSE inserted + 1
      /\ it' = Moves(it) /\ n_keys' = n_keys
  BY <1>4 DEF AddInto
<1>7. Incref(r, k) = Incref(Incref(r, k), Zero)
  <2>1. Consistent(d, r, used)
    BY <1>2, <1>4, BaseIs
  <2>2. r \in Refs
    BY <2>1 DEF Consistent, Exact
  <2>3. Incref(r, k) \in Refs
    BY <2>2, IncrefIs
  <2>4. QED
    BY <2>3, ZeroUncounted
<1>8. refs' = Incref(Incref(r, k), Zero)
  BY <1>6, <1>7
<1>9. QED
  BY <1>2, <1>4, <1>5, <1>6, <1>8, AddedOK

(* An index that a lookup returned and that is none of the two marks.      *)
LEMMA LookupLive ==
  ASSUME TableInv, NEW k \in Keys, NEW ix, ix = Lookup(k), ix >= 0
  PROVE  ix \in LiveIn(keys) /\ keys.entries[ix].key = k /\ keys.entries[ix].hash = Hash[k]
<1>1. PICK size : InOrder(keys, size)
  BY DEF TableInv, Consistent
<1>2. ix # EMPTY
  BY DEF EMPTY
<1>3. ix \in LiveIn(keys) /\ keys.entries[ix].key = k
  BY <1>1, <1>2, LookupIs
<1>4. keys.entries[ix].hash = Hash[k]
  BY <1>1, <1>3 DEF InOrder, Filed
<1>5. QED
  BY <1>3, <1>4

LEMMA ReplaceOK ==
  ASSUME TableInv, NEW k \in Keys, NEW v \in Vals, NEW ix, ix = Lookup(k), Replace(v, ix)
  PROVE  TableInv'
<1>1. ix \in LiveIn(keys)
  BY LookupLive DEF Replace
<1>2. PICK size : InOrder(keys, size)
  BY DEF TableInv, Consistent
<1>3. Consistent(keys, refs, used) /\ IterOK(it, keys, used) /\ Booked(inserted, n_keys, keys)
  BY DEF TableInv
<1>4. /\ keys' = [keys EXCEPT !.entries[ix].val = v]
      /\ refs' = Incref(Decref(refs, keys.entries[ix].val), v)
      /\ UNCHANGED <<used, it, n_keys, inserted>>
  BY DEF Replace
<1>5. v \in Vals \cup {Zero} /\ Exact(refs, LiveIn(keys), keys.entries)
  BY <1>3 DEF Consistent
<1> PICK p : p = [keys EXCEPT !.entries[ix].val = v]
  OBVIOUS
<1>6. /\ InOrder(p, size) /\ p.addr = keys.addr /\ p.usable = keys.usable
      /\ LiveIn(p) = LiveIn(keys)
      /\ p.entries = [keys.entries EXCEPT ![ix] = [keys.entries[ix] EXCEPT !.val = v]]
      /\ Exact(Incref(Decref(refs, keys.entries[ix].val), v), LiveIn(p), p.entries)
  BY <1>1, <1>2, <1>5, ReplaceInOrder
<1>7. \A jx \in LiveIn(keys) : p.entries[jx].key = keys.entries[jx].key
  <2>1. ASSUME NEW jx \in LiveIn(keys) PROVE p.entries[jx].key = keys.entries[jx].key
    <3>1. jx \in DOMAIN keys.entries /\ keys.entries[jx] \in EntrySet
      BY <1>2, InOrderFields
    <3>2. [keys.entries[jx] EXCEPT !.val = v].key = keys.entries[jx].key
      BY <3>1 DEF EntrySet
    <3>3. QED
      BY <1>6, <3>1, <3>2
  <2>2. QED
    BY <2>1
<1>8. IterOK(it, p, used)
  <2>1. IterOK(it, keys, used) /\ p.addr = keys.addr /\ LiveIn(p) = LiveIn(keys)
    BY <1>3, <1>6
  <2>2. QED
    BY <1>7, <2>1, IterKept, Zenon
<1>9. Consistent(p, refs', used)
  BY <1>3, <1>4, <1>6 DEF Consistent
<1>10. Booked(inserted, n_keys, p)
  BY <1>3, <1>6 DEF Booked
<1>11. QED
  BY <1>4, <1>8, <1>9, <1>10 DEF TableInv

LEMMA DeleteOK ==
  ASSUME TableInv, NEW k \in Keys, NEW ix, ix = Lookup(k), ix >= 0,
         keys' = DelItem(ix, Hash[k]), refs' = DecrefEntry(refs, keys.entries[ix]),
         used' = used - 1, it' = Moves(it), n_keys' = n_keys, inserted' = inserted
  PROVE  TableInv' /\ (NoValues(keys) => NoValues(keys'))
<1>1. ix \in LiveIn(keys) /\ keys.entries[ix].hash = Hash[k]
  BY LookupLive
<1>2. PICK size : InOrder(keys, size)
  BY DEF TableInv, Consistent
<1>3. keys' = DelItem(ix, keys.entries[ix].hash)
  BY <1>1
<1>4. /\ InOrder(keys', size) /\ keys'.addr = keys.addr /\ keys'.usable = keys.usable
      /\ Grown(LiveIn(keys'), keys'.entries, LiveIn(keys), keys.entries, ix)
  BY <1>1, <1>2, <1>3, DelInOrder
<1>5. QED
  BY <1>4, DroppedOK

LEMMA PopItemOK ==
  ASSUME TableInv, PopItem
  PROVE  TableInv'
<1> PICK ix : ix = LastLive
  OBVIOUS
<1>1. PICK size : InOrder(keys, size)
  BY DEF TableInv, Consistent
<1>2. /\ used # 0 /\ keys' = Popped(ix) /\ refs' = DecrefEntry(refs, keys.entries[ix])
      /\ used' = used - 1 /\ it' = Moves(it) /\ n_keys' = n_keys /\ inserted' = inserted
  BY DEF PopItem
<1>3. ix \in LiveIn(keys) /\ \A jx \in LiveIn(keys) : jx <= ix
  <2>1. Cardinality(LiveIn(keys)) # 0
    BY <1>2 DEF TableInv, Consistent
  <2>2. QED
    BY <1>1, <2>1, LastLiveIs
<1>4. /\ InOrder(keys', size) /\ keys'.addr = keys.addr /\ keys'.usable = keys.usable
      /\ Grown(LiveIn(keys'), keys'.entries, LiveIn(keys), keys.entries, ix)
  BY <1>1, <1>2, <1>3, PopInOrder
<1>5. QED
  BY <1>2, <1>4, DroppedOK

LEMMA DiscardOK ==
  ASSUME TableInv, NoValues(keys), NEW k \in Keys, NEW ix, ix = Lookup(k), SetDiscard(k, ix)
  PROVE  TableInv' /\ NoValues(keys')
<1>1. /\ ix >= 0 /\ keys' = DelItem(ix, Hash[k]) /\ refs' = Decref(refs, k) /\ used' = used - 1
      /\ it' = Moves(it) /\ n_keys' = n_keys /\ inserted' = inserted
  BY DEF SetDiscard, Discarded
<1>2. ix \in LiveIn(keys) /\ keys.entries[ix].key = k
  BY <1>1, LookupLive
<1>3. refs' = DecrefEntry(refs, keys.entries[ix])
  <2>1. keys.entries[ix].val = Zero
    BY <1>2 DEF NoValues
  <2>2. refs \in Refs
    BY DEF TableInv, Consistent, Exact
  <2>3. Decref(refs, k) \in Refs
    BY <2>2, IncrefIs
  <2>4. Decref(Decref(refs, k), Zero) = Decref(refs, k)
    BY <2>3, ZeroUncounted
  <2>5. QED
    BY <1>1, <1>2, <2>1, <2>4 DEF DecrefEntry
<1>4. QED
  BY <1>1, <1>3, DeleteOK

(* Every step of a dictionary, and every step of a set.                    *)
LEMMA DictStepOK ==
  ASSUME TableInv, Next
  PROVE  TableInv'
<1>1. CASE Iter \/ IterNext
  BY <1>1, IterationOK
<1>2. CASE PopItem
  BY <1>2, PopItemOK
<1>3. ASSUME NEW n \in NewSizes, Recreate(n) PROVE TableInv'
  BY <1>3, RecreateOK
<1>4. ASSUME UNCHANGED <<used, keys, refs, it, n_keys, inserted>> PROVE TableInv'
  BY <1>4 DEF TableInv
<1>5. CASE PopEmpty
  BY <1>4, <1>5 DEF PopEmpty
<1>6. ASSUME NEW k \in Keys, NEW ix, ix = Lookup(k),
             \/ \E v \in Vals : Insert(k, v, ix) \/ InsertResizing(k, v, ix) \/ Replace(v, ix)
             \/ Delete(k, ix) \/ DeleteMissing(ix) \/ ResizeFails(ix)
             \/ CompareFails(k)
      PROVE  TableInv'
  <2>1. ASSUME NEW v \in Vals, Insert(k, v, ix) \/ InsertResizing(k, v, ix) PROVE TableInv'
    BY <1>6, <2>1, InsertOK
  <2>2. ASSUME NEW v \in Vals, Replace(v, ix) PROVE TableInv'
    BY <1>6, <2>2, ReplaceOK
  <2>3. CASE Delete(k, ix)
    <3>1. /\ ix >= 0 /\ keys' = DelItem(ix, Hash[k])
          /\ refs' = DecrefEntry(refs, keys.entries[ix])
          /\ used' = used - 1 /\ it' = Moves(it) /\ n_keys' = n_keys /\ inserted' = inserted
      BY <2>3 DEF Delete
    <3>2. QED
      BY <1>6, <3>1, DeleteOK
  <2>4. CASE DeleteMissing(ix) \/ ResizeFails(ix) \/ CompareFails(k)
    BY <1>4, <2>4 DEF DeleteMissing, ResizeFails, CompareFails
  <2>5. QED
    BY <1>6, <2>1, <2>2, <2>3, <2>4
<1>7. QED
  BY <1>1, <1>2, <1>3, <1>5, <1>6 DEF Next

LEMMA SetStepOK ==
  ASSUME TableInv, NoValues(keys), SetNext
  PROVE  TableInv' /\ NoValues(keys')
<1>1. CASE Iter \/ SetIterNext
  BY <1>1, IterationOK DEF NoValues
<1>2. ASSUME NEW n \in NewSizes, Recreate(n) PROVE TableInv' /\ NoValues(keys')
  BY <1>2, RecreateOK
<1>3. ASSUME UNCHANGED <<used, keys, refs, it, n_keys, inserted>>
      PROVE  TableInv' /\ NoValues(keys')
  BY <1>3 DEF TableInv, NoValues
<1>4. ASSUME NEW k \in Keys, NEW ix, ix = Lookup(k),
             \/ SetAdd(k, ix) \/ SetAddResizing(k, ix) \/ SetAddPresent(ix) \/ ResizeFails(ix)
             \/ SetDiscard(k, ix) \/ SetDiscardMissing(ix) \/ SetContains(ix)
      PROVE  TableInv' /\ NoValues(keys')
  <2>1. CASE SetAdd(k, ix) \/ SetAddResizing(k, ix)
    BY <1>4, <2>1, SetAddOK
  <2>2. CASE SetDiscard(k, ix)
    BY <1>4, <2>2, DiscardOK
  <2>3. CASE SetAddPresent(ix) \/ ResizeFails(ix) \/ SetDiscardMissing(ix) \/ SetContains(ix)
    BY <1>3, <2>3 DEF SetAddPresent, ResizeFails, SetDiscardMissing, SetContains
  <2>4. QED
    BY <1>4, <2>1, <2>2, <2>3
<1>5. QED
  BY <1>1, <1>2, <1>4 DEF SetNext

HashInv == TableInv /\ (kind = "Set" => NoValues(keys))

LEMMA HashInvAlways == ContainersSpec => []HashInv
<1>1. Init3 => HashInv
  BY TableInit DEF Init3, HashInv
<1>2. HashInv /\ [Next3]_<<vars, listvars, kind>> => HashInv'
  <2> SUFFICES ASSUME HashInv, [Next3]_<<vars, listvars, kind>>
               PROVE  HashInv'
    OBVIOUS
  <2>1. CASE kind = "Dict" /\ Next /\ UNCHANGED <<listvars, kind>>
    BY <2>1, DictStepOK DEF HashInv
  <2>2. CASE kind = "Set" /\ SetNext /\ UNCHANGED <<listvars, kind>>
    BY <2>2, SetStepOK DEF HashInv
  <2>3. CASE UNCHANGED <<vars, kind>>
    BY <2>3 DEF HashInv, vars, TableInv, NoValues
  <2>4. QED
    BY <2>1, <2>2, <2>3 DEF Next3
<1>3. QED
  BY <1>1, <1>2, PTL DEF ContainersSpec

(* Between any two calls on a typed dictionary or a typed set, whatever    *)
(* its keys hash to and however large its table is: every lookup ends, at  *)
(* the entry of the key or, if there is none, at a slot never used; no     *)
(* array is overrun; and the table owns one reference to each key and each *)
(* value it has, after any order of insertion, replacement, deletion,      *)
(* popitem() and resizing, and when memory or a comparison fails           *)
(* (numba/cext/dictobject.c, numba/cext/setobject.c).                      *)
THEOREM TypedTableSound == ContainersSpec => []TableSound
<1>1. HashInv => TableSound
  <2> SUFFICES ASSUME HashInv PROVE TableSound
    OBVIOUS
  <2>1. Consistent(keys, refs, used) /\ IterOK(it, keys, used) /\ Booked(inserted, n_keys, keys)
    BY DEF HashInv, TableInv
  <2>2. it.state \in {"none", "running", "mutated", "exhausted"}
    BY <2>1, IterPromises
  <2>3. /\ LookupFinds /\ LoadBounded /\ RefsExact
        /\ used \in 0..Cardinality(Keys) /\ keys.addr \in Addrs
        /\ keys.nentries \in 0..Cardinality(Indexes) /\ keys.usable \in 0..Cardinality(Indexes)
        /\ \A i \in DOMAIN keys.indices : keys.indices[i] \in Indexes \cup {EMPTY, DUMMY}
        /\ \A x \in DOMAIN refs : refs[x] \in 0..Cardinality(Keys)
    BY <2>1, TablePromises
  <2>4. TypeOK
    BY <2>1, <2>2, <2>3 DEF TypeOK, Booked
  <2>5. QED
    BY <2>3, <2>4 DEF TableSound
<1>2. QED
  BY <1>1, HashInvAlways, PTL

(* While no key is added or removed, an iteration over a typed dictionary  *)
(* or set (numba_dict_iter_next, numba_set_iter_next) is never interrupted *)
(* and hands out all keys, each once and in the order of their insertion,  *)
(* whatever values are assigned meanwhile.                                 *)
THEOREM TypedIterationFaithful == ContainersSpec => []IterFaithful
<1>1. HashInv => IterFaithful
  BY IterPromises DEF HashInv, TableInv
<1>2. QED
  BY <1>1, HashInvAlways, PTL

(* numba_dict_new_sized() and numba_set_new(): a dictionary or a set made  *)
(* for n keys takes n insertions in the table it was made with.            *)
THEOREM TypedSizedNeverResizes == ContainersSpec => SizedNeverResizes
<1>1. HashInv /\ [Next3]_<<vars, listvars, kind>>
        => [keys'.addr # keys.addr /\ inserted' # 0 => inserted >= n_keys]_vars
  <2> SUFFICES ASSUME HashInv, Next3, keys'.addr # keys.addr, inserted' # 0
               PROVE  inserted >= n_keys
    BY DEF vars
  <2>1. TableInv
    BY DEF HashInv
  <2>2. keys.usable <= 0 => inserted >= n_keys
    BY <2>1, TableFields
  <2>3. PICK size : InOrder(keys, size)
    BY <2>1 DEF TableInv, Consistent
  <2>4. ASSUME NEW k \in Keys, NEW ix, ix = Lookup(k), ix >= 0, keys' = DelItem(ix, Hash[k])
        PROVE  keys'.addr = keys.addr
    <3>1. ix \in LiveIn(keys) /\ keys' = DelItem(ix, keys.entries[ix].hash)
      BY <2>1, <2>4, LookupLive
    <3>2. QED
      BY <2>3, <3>1, DelInOrder
  <2>5. ASSUME NEW k \in Keys, NEW v, keys' = Place(keys, k, v)
        PROVE  keys'.addr = keys.addr
    <3>1. keys \in Tables(size)
      BY <2>3 DEF InOrder
    <3>2. QED
      BY <2>5, <3>1 DEF Place, Tables
  <2>6. ASSUME keys' = Popped(LastLive) PROVE keys'.addr = keys.addr
    <3>1. keys \in Tables(size)
      BY <2>3 DEF InOrder
    <3>2. QED
      BY <2>6, <3>1 DEF Popped, Tables
  <2>7. ASSUME NEW v, NEW ix, Replace(v, ix) PROVE keys'.addr = keys.addr
    <3>1. keys \in Tables(size)
      BY <2>3 DEF InOrder
    <3>2. QED
      BY <2>7, <3>1 DEF Replace, Tables
  <2>8. keys' # keys
    OBVIOUS
  <2>9. CASE Next
    <3>1. ASSUME NEW k \in Keys, NEW ix, ix = Lookup(k),
                 \/ \E v \in Vals : Insert(k, v, ix) \/ InsertResizing(k, v, ix) \/ Replace(v, ix)
                 \/ Delete(k, ix) \/ DeleteMissing(ix) \/ ResizeFails(ix)
                 \/ CompareFails(k)
          PROVE  keys.usable <= 0
      <4>1. ASSUME NEW v \in Vals, Insert(k, v, ix) PROVE FALSE
        BY <2>5, <4>1 DEF Insert, InsertInto
      <4>2. ASSUME NEW v \in Vals, Replace(v, ix) PROVE FALSE
        BY <2>7, <4>2
      <4>3. CASE Delete(k, ix)
        BY <2>4, <3>1, <4>3 DEF Delete
      <4>4. CASE DeleteMissing(ix) \/ ResizeFails(ix) \/ CompareFails(k)
        BY <2>8, <4>4 DEF DeleteMissing, ResizeFails, CompareFails
      <4>5. ASSUME NEW v \in Vals, InsertResizing(k, v, ix) PROVE keys.usable <= 0
        BY <4>5 DEF InsertResizing
      <4>6. QED
        BY <3>1, <4>1, <4>2, <4>3, <4>4, <4>5
    <3>2. ~ PopItem
      BY <2>6 DEF PopItem
    <3>3. ~ PopEmpty /\ ~ Iter /\ ~ IterNext
      BY <2>8 DEF PopEmpty, Iter, IterNext
    <3>4. ~ \E n \in NewSizes : Recreate(n)
      BY DEF Recreate
    <3>5. QED
      BY <2>2, <2>9, <3>1, <3>2, <3>3, <3>4 DEF Next
  <2>10. CASE SetNext
    <3>1. ASSUME NEW k \in Keys, NEW ix, ix = Lookup(k),
                 \/ SetAdd(k, ix) \/ SetAddResizing(k, ix) \/ SetAddPresent(ix) \/ ResizeFails(ix)
                 \/ SetDiscard(k, ix) \/ SetDiscardMissing(ix) \/ SetContains(ix)
          PROVE  keys.usable <= 0
      <4>1. ~ SetAdd(k, ix)
        BY <2>5 DEF SetAdd, AddInto
      <4>2. ~ SetDiscard(k, ix)
        BY <2>4, <3>1 DEF SetDiscard, Discarded
      <4>3. ~ (SetAddPresent(ix) \/ ResizeFails(ix) \/ SetDiscardMissing(ix) \/ SetContains(ix))
        BY <2>8 DEF SetAddPresent, ResizeFails, SetDiscardMissing, SetContains
      <4>4. SetAddResizing(k, ix) => keys.usable <= 0
        BY DEF SetAddResizing
      <4>5. QED
        BY <3>1, <4>1, <4>2, <4>3, <4>4
    <3>2. ~ Iter /\ ~ SetIterNext
      BY <2>8 DEF Iter, SetIterNext
    <3>3. ~ \E n \in NewSizes : Recreate(n)
      BY DEF Recreate
    <3>4. QED
      BY <2>2, <2>10, <3>1, <3>2, <3>3 DEF SetNext
  <2>11. QED
    BY <2>8, <2>9, <2>10 DEF Next3, vars
<1>2. QED
  BY <1>1, HashInvAlways, PTL DEF ContainersSpec, SizedNeverResizes

-----------------------------------------------------------------------------
(* What the calls make of the live entries, as a sequence.                 *)

Joins(t, a, b) ==
  /\ Len(t) = Len(a) + Len(b) /\ \A m \in 1..Len(a) : t[m] = a[m]
  /\ \A m \in 1..Len(b) : t[Len(a) + m] = b[m]

LEMMA JoinIs ==
  ASSUME NEW S, NEW a \in Seq(S), NEW b \in Seq(S), NEW t, t = a \o b
  PROVE  t \in Seq(S) /\ Joins(t, a, b)
<1>1. a \o b \in Seq(S) /\ Joins(a \o b, a, b)
  BY DEF Joins
<1>2. QED
  BY <1>1, Zenon

Slice(t, s, m, n) == Len(t) = (n - m) + 1 /\ \A i \in 1..((n - m) + 1) : t[i] = s[(m + i) - 1]

LEMMA SliceIs ==
  ASSUME NEW S, NEW s \in Seq(S), NEW m \in Int, NEW n \in Int, m >= 1, n <= Len(s), m <= n + 1,
         NEW t, t = SubSeq(s, m, n)
  PROVE  t \in Seq(S) /\ Slice(t, s, m, n)
<1>1. \A i \in m .. n : s[i] \in S
  OBVIOUS
<1>2. SubSeq(s, m, n) \in Seq(S) /\ Slice(SubSeq(s, m, n), s, m, n)
  BY <1>1 DEF Slice
<1>3. QED
  BY <1>2, Zenon

(* A sequence without its item n.                                          *)
Cut(s, n) == SubSeq(s, 1, n - 1) \o SubSeq(s, n + 1, Len(s))
CutOf(t, s, n) ==
  /\ Len(t) = Len(s) - 1
  /\ \A m \in 1..(Len(s) - 1) : t[m] = IF m < n THEN s[m] ELSE s[m + 1]

LEMMA CutIs ==
  ASSUME NEW S, NEW s \in Seq(S), NEW n \in 1..Len(s), NEW t, t = Cut(s, n)
  PROVE  t \in Seq(S) /\ CutOf(t, s, n)
<1>1. Len(s) \in Nat /\ n - 1 \in Int /\ n + 1 \in Int
  OBVIOUS
<1>2. PICK a : a = SubSeq(s, 1, n - 1)
  OBVIOUS
<1>3. PICK b : b = SubSeq(s, n + 1, Len(s))
  OBVIOUS
<1>4. a \in Seq(S) /\ Slice(a, s, 1, n - 1)
  <2>1. 1 \in Int /\ 1 >= 1 /\ n - 1 <= Len(s) /\ 1 <= (n - 1) + 1
    BY <1>1
  <2>2. QED
    BY <1>1, <1>2, <2>1, SliceIs, Zenon
<1>5. b \in Seq(S) /\ Slice(b, s, n + 1, Len(s))
  <2>1. Len(s) \in Int /\ n + 1 >= 1 /\ Len(s) <= Len(s) /\ n + 1 <= Len(s) + 1
    BY <1>1
  <2>2. QED
    BY <1>1, <1>3, <2>1, SliceIs, Zenon
<1>6. t \in Seq(S) /\ Joins(t, a, b)
  <2>1. t = a \o b
    BY <1>2, <1>3, Zenon DEF Cut
  <2>2. QED
    BY <1>4, <1>5, <2>1, JoinIs
<1>7. /\ Len(a) = n - 1 /\ \A m \in 1..(n - 1) : a[m] = s[m]
      /\ Len(b) = Len(s) - n /\ \A m \in 1..(Len(s) - n) : b[m] = s[n + m]
  <2>1. Len(a) = n - 1 /\ Len(b) = Len(s) - n
    BY <1>1, <1>4, <1>5 DEF Slice
  <2>2. ASSUME NEW m \in 1..(n - 1) PROVE a[m] = s[m]
    <3>1. m \in 1..(((n - 1) - 1) + 1) /\ (1 + m) - 1 = m
      BY <1>1
    <3>2. QED
      BY <1>4, <3>1 DEF Slice
  <2>3. ASSUME NEW m \in 1..(Len(s) - n) PROVE b[m] = s[n + m]
    <3>1. m \in 1..((Len(s) - (n + 1)) + 1) /\ ((n + 1) + m) - 1 = n + m
      BY <1>1
    <3>2. QED
      BY <1>5, <3>1 DEF Slice
  <2>4. QED
    BY <2>1, <2>2, <2>3
<1>8. ASSUME NEW m \in 1..(Len(s) - 1) PROVE t[m] = IF m < n THEN s[m] ELSE s[m + 1]
  <2>1. CASE m < n
    BY <1>1, <1>6, <1>7, <2>1 DEF Joins
  <2>2. CASE m >= n
    <3>1. PICK i \in 1..(Len(s) - n) : m = (n - 1) + i
      <4>1. (m - n) + 1 \in 1..(Len(s) - n) /\ m = (n - 1) + ((m - n) + 1)
        BY <1>1, <2>2
      <4>2. QED
        BY <4>1
    <3>2. t[m] = b[i]
      BY <1>6, <1>7, <3>1 DEF Joins
    <3>3. b[i] = s[n + i] /\ n + i = m + 1
      BY <1>1, <1>7, <3>1
    <3>4. QED
      BY <1>1, <2>2, <3>2, <3>3
  <2>3. QED
    BY <1>1, <2>1, <2>2
<1>9. Len(t) = Len(s) - 1
  BY <1>1, <1>6, <1>7 DEF Joins
<1>10. QED
  BY <1>6, <1>8, <1>9 DEF CutOf

(* What is seen of a sequence of entries.                                  *)
Shows(F, S, T) == F \in [S -> T]
Along(s, F) == [n \in 1..Len(s) |-> F[s[n]]]
AlongOf(a, s, F) == Len(a) = Len(s) /\ \A m \in 1..Len(s) : a[m] = F[s[m]]

LEMMA AlongIs ==
  ASSUME NEW S, NEW T, NEW s \in Seq(S), NEW F, Shows(F, S, T), NEW a, a = Along(s, F)
  PROVE  a \in Seq(T) /\ AlongOf(a, s, F)
<1>1. \A m \in 1..Len(s) : s[m] \in S
  OBVIOUS
<1>2. Along(s, F) \in Seq(T) /\ AlongOf(Along(s, F), s, F)
  BY <1>1 DEF Along, Shows, AlongOf
<1>3. QED
  BY <1>2, Zenon

AppendOf(t, s, x) ==
  Len(t) = Len(s) + 1 /\ t[Len(s) + 1] = x /\ \A m \in 1..Len(s) : t[m] = s[m]

LEMMA AppendIs ==
  ASSUME NEW S, NEW s \in Seq(S), NEW x \in S, NEW t, t = Append(s, x)
  PROVE  t \in Seq(S) /\ AppendOf(t, s, x)
<1>1. Append(s, x) \in Seq(S) /\ AppendOf(Append(s, x), s, x)
  BY DEF AppendOf
<1>2. QED
  BY <1>1, Zenon

PutOf(t, s, n, x) == Len(t) = Len(s) /\ \A m \in 1..Len(s) : t[m] = IF m = n THEN x ELSE s[m]

LEMMA PutIs ==
  ASSUME NEW S, NEW s \in Seq(S), NEW n \in 1..Len(s), NEW x \in S, NEW t, t = [s EXCEPT ![n] = x]
  PROVE  t \in Seq(S) /\ PutOf(t, s, n, x)
<1>1. [s EXCEPT ![n] = x] \in Seq(S) /\ PutOf([s EXCEPT ![n] = x], s, n, x)
  BY DEF PutOf
<1>2. QED
  BY <1>1, Zenon

AppendsAlong(s, x, F) == Along(Append(s, x), F) = Append(Along(s, F), F[x])

LEMMA AlongAppend ==
  ASSUME NEW S, NEW T, NEW s \in Seq(S), NEW F, Shows(F, S, T), NEW x \in S
  PROVE  AppendsAlong(s, x, F)
<1>1. PICK t : t = Append(s, x)
  OBVIOUS
<1>2. PICK a : a = Along(s, F)
  OBVIOUS
<1>3. PICK b : b = Along(t, F)
  OBVIOUS
<1>4. PICK c : c = Append(a, F[x])
  OBVIOUS
<1>5. t \in Seq(S) /\ AppendOf(t, s, x) /\ Len(s) \in Nat
  <2>1. Len(s) \in Nat
    OBVIOUS
  <2>2. QED
    BY <1>1, <2>1, AppendIs, Zenon
<1>6. a \in Seq(T) /\ AlongOf(a, s, F)
  BY <1>2, AlongIs
<1>7. b \in Seq(T) /\ AlongOf(b, t, F)
  BY <1>3, <1>5, AlongIs, Zenon
<1>8. c \in Seq(T) /\ AppendOf(c, a, F[x])
  <2>1. F[x] \in T
    BY DEF Shows
  <2>2. QED
    BY <1>4, <1>6, <2>1, AppendIs
<1>9. ASSUME NEW m \in 1..(Len(s) + 1) PROVE b[m] = c[m]
  <2>1. CASE m = Len(s) + 1
    BY <1>5, <1>6, <1>7, <1>8, <2>1 DEF AppendOf, AlongOf
  <2>2. CASE m \in 1..Len(s)
    BY <1>5, <1>6, <1>7, <1>8, <2>2 DEF AppendOf, AlongOf
  <2>3. QED
    BY <1>5, <2>1, <2>2
<1>10. b = c
  <2>1. Len(b) = Len(s) + 1 /\ Len(c) = Len(s) + 1
    BY <1>5, <1>6, <1>7, <1>8 DEF AppendOf, AlongOf
  <2>2. QED
    BY <1>7, <1>8, <1>9, <2>1, SeqEqual
<1>11. QED
  BY <1>1, <1>2, <1>3, <1>4, <1>10, Zenon DEF AppendsAlong

LEMMA AlongCut ==
  ASSUME NEW S, NEW T, NEW s \in Seq(S), NEW F, Shows(F, S, T), NEW n \in 1..Len(s)
  PROVE  Along(Cut(s, n), F) = Cut(Along(s, F), n)
<1>1. PICK t : t = Cut(s, n)
  OBVIOUS
<1>2. PICK a : a = Along(s, F)
  OBVIOUS
<1>3. PICK b : b = Along(t, F)
  OBVIOUS
<1>4. PICK c : c = Cut(a, n)
  OBVIOUS
<1>5. t \in Seq(S) /\ CutOf(t, s, n) /\ Len(s) \in Nat
  BY <1>1, CutIs
<1>6. a \in Seq(T) /\ AlongOf(a, s, F)
  BY <1>2, AlongIs
<1>7. b \in Seq(T) /\ AlongOf(b, t, F)
  BY <1>3, <1>5, AlongIs, Zenon
<1>8. c \in Seq(T) /\ CutOf(c, a, n)
  <2>1. n \in 1..Len(a)
    BY <1>6 DEF AlongOf
  <2>2. QED
    BY <1>4, <1>6, <2>1, CutIs
<1>9. ASSUME NEW m \in 1..(Len(s) - 1) PROVE b[m] = c[m]
  <2>1. m \in 1..Len(s) /\ m + 1 \in 1..Len(s)
    BY <1>5
  <2>2. b[m] = F[t[m]]
    BY <1>5, <1>7 DEF CutOf, AlongOf
  <2>3. c[m] = IF m < n THEN a[m] ELSE a[m + 1]
    BY <1>6, <1>8 DEF CutOf, AlongOf
  <2>4. t[m] = IF m < n THEN s[m] ELSE s[m + 1]
    BY <1>5 DEF CutOf
  <2>5. a[m] = F[s[m]] /\ a[m + 1] = F[s[m + 1]]
    BY <1>6, <2>1 DEF AlongOf
  <2>6. QED
    BY <2>2, <2>3, <2>4, <2>5
<1>10. b = c
  <2>1. Len(b) = Len(s) - 1 /\ Len(c) = Len(s) - 1
    BY <1>5, <1>6, <1>7, <1>8 DEF CutOf, AlongOf
  <2>2. QED
    BY <1>7, <1>8, <1>9, <2>1, SeqEqual
<1>11. QED
  BY <1>1, <1>2, <1>3, <1>4, <1>10, Zenon

PutsAlong(s, n, x, F) == Along([s EXCEPT ![n] = x], F) = [Along(s, F) EXCEPT ![n] = F[x]]

LEMMA AlongPut ==
  ASSUME NEW S, NEW T, NEW s \in Seq(S), NEW F, Shows(F, S, T), NEW n \in 1..Len(s), NEW x \in S
  PROVE  PutsAlong(s, n, x, F)
<1>1. PICK t : t = [s EXCEPT ![n] = x]
  OBVIOUS
<1>2. PICK a : a = Along(s, F)
  OBVIOUS
<1>3. PICK b : b = Along(t, F)
  OBVIOUS
<1>4. PICK c : c = [a EXCEPT ![n] = F[x]]
  OBVIOUS
<1>5. t \in Seq(S) /\ PutOf(t, s, n, x) /\ Len(s) \in Nat
  <2>1. Len(s) \in Nat
    OBVIOUS
  <2>2. QED
    BY <1>1, <2>1, PutIs, Zenon
<1>6. a \in Seq(T) /\ AlongOf(a, s, F)
  BY <1>2, AlongIs
<1>7. b \in Seq(T) /\ AlongOf(b, t, F)
  BY <1>3, <1>5, AlongIs, Zenon
<1>8. c \in Seq(T) /\ PutOf(c, a, n, F[x])
  <2>1. n \in 1..Len(a)
    BY <1>6 DEF AlongOf
  <2>2. F[x] \in T
    BY DEF Shows
  <2>3. QED
    BY <1>4, <1>6, <2>1, <2>2, PutIs
<1>9. ASSUME NEW m \in 1..Len(s) PROVE b[m] = c[m]
  <2>1. b[m] = F[t[m]] /\ a[m] = F[s[m]]
    BY <1>5, <1>6, <1>7 DEF PutOf, AlongOf
  <2>2. c[m] = IF m = n THEN F[x] ELSE a[m]
    BY <1>6, <1>8 DEF PutOf, AlongOf
  <2>3. t[m] = IF m = n THEN x ELSE s[m]
    BY <1>5 DEF PutOf
  <2>4. QED
    BY <2>1, <2>2, <2>3
<1>10. b = c
  <2>1. Len(b) = Len(s) /\ Len(c) = Len(s)
    BY <1>5, <1>6, <1>7, <1>8 DEF PutOf, AlongOf
  <2>2. QED
    BY <1>7, <1>8, <1>9, <2>1, SeqEqual
<1>11. QED
  BY <1>1, <1>2, <1>3, <1>4, <1>10, Zenon DEF PutsAlong

(* What Live is after a call: an item more at the end, an item less, an    *)
(* item changed, and the items in another table.                           *)

LEMMA LiveListed ==
  ASSUME NEW d, NEW size, InOrder(d, size)
  PROVE  /\ Live(d) \in Seq(EntrySet) /\ \E g : Listing(g, Live(d), LiveIn(d), d.entries)
         /\ LiveIn(d) \in SUBSET Nat
<1> PICK u : u = USABLE_FRACTION(size)
  OBVIOUS
<1>1. /\ u \in Nat /\ d.nentries \in Nat /\ d.usable \in Nat /\ d.nentries + d.usable <= u
      /\ d.entries \in [0..(u - 1) -> EntrySet]
  BY InOrderFields
<1>2. LiveIn(d) \in SUBSET Nat
  BY DEF InOrder, Filing
<1>3. d.nentries \in 0..u
  BY <1>1
<1>4. QED
  BY <1>1, <1>2, <1>3, LiveLists

LEMMA LiveTyped ==
  ASSUME NEW d, NEW size, InOrder(d, size), NEW ix \in LiveIn(d)
  PROVE  d.entries[ix] \in EntrySet /\ ix \in DOMAIN d.entries
BY InOrderFields

LEMMA LiveGrows ==
  ASSUME NEW d, NEW size, InOrder(d, size), NEW p, NEW z, InOrder(p, z), NEW ix \in Nat,
         Grown(LiveIn(d), d.entries, LiveIn(p), p.entries, ix),
         \A jx \in LiveIn(d) : jx < ix
  PROVE  p.entries[ix] \in EntrySet /\ Live(p) = Append(Live(d), p.entries[ix])
<1>1. PICK s : s = Live(d)
  OBVIOUS
<1>2. PICK L : L = LiveIn(d)
  OBVIOUS
<1>3. PICK M : M = LiveIn(p)
  OBVIOUS
<1>4. PICK e : e = d.entries
  OBVIOUS
<1>5. PICK f : f = p.entries
  OBVIOUS
<1>6. Grown(L, e, M, f, ix) /\ \A jx \in L : jx < ix
  BY <1>2, <1>3, <1>4, <1>5
<1>7. s \in Seq(EntrySet) /\ (\E g : Listing(g, s, L, e)) /\ L \in SUBSET Nat
  BY <1>1, <1>2, <1>4, LiveListed
<1>8. PICK g : Listing(g, s, L, e)
  BY <1>7
<1>9. ix \in M /\ M = L \cup {ix} /\ \A jx \in L : f[jx] = e[jx]
  BY <1>6 DEF Grown
<1>10. f[ix] \in EntrySet
  BY <1>3, <1>5, <1>9, LiveTyped
<1>11. Len(s) \in Nat
  BY <1>7
<1>12. PICK t : t = Append(s, f[ix])
  OBVIOUS
<1>13. t \in Seq(EntrySet) /\ AppendOf(t, s, f[ix])
  BY <1>7, <1>10, <1>12, AppendIs
<1>14. PICK h : h = [n \in 1..(Len(s) + 1) |-> IF n <= Len(s) THEN g[n] ELSE ix]
  OBVIOUS
<1>15. /\ g \in [1..Len(s) -> L] /\ Increasing(g, Len(s))
       /\ \A jx \in L : \E n \in 1..Len(s) : g[n] = jx
       /\ \A n \in 1..Len(s) : s[n] = e[g[n]]
  BY <1>8 DEF Listing
<1>16. ASSUME NEW n \in 1..Len(s)
       PROVE  h[n] = g[n] /\ n \in 1..(Len(s) + 1) /\ g[n] \in L /\ g[n] \in Nat /\ g[n] < ix
  <2>1. n \in 1..(Len(s) + 1) /\ n <= Len(s)
    BY <1>11
  <2>2. QED
    BY <1>6, <1>7, <1>14, <1>15, <2>1
<1>17. h[Len(s) + 1] = ix
  BY <1>11, <1>14
<1>18. ASSUME NEW n \in 1..(Len(s) + 1), n \notin 1..Len(s) PROVE n = Len(s) + 1
  BY <1>11, <1>18
<1>19. Len(t) = Len(s) + 1
  BY <1>13 DEF AppendOf
<1>20. h \in [1..Len(t) -> M]
  <2>1. ASSUME NEW n \in 1..(Len(s) + 1) PROVE (IF n <= Len(s) THEN g[n] ELSE ix) \in M
    <3>1. CASE n \in 1..Len(s)
      BY <1>9, <1>11, <1>16, <3>1
    <3>2. CASE n \notin 1..Len(s)
      BY <1>9, <1>11, <3>2
    <3>3. QED
      BY <3>1, <3>2
  <2>2. QED
    BY <1>14, <1>19, <2>1
<1>21. Increasing(h, Len(t))
  <2>1. ASSUME NEW a \in 1..(Len(s) + 1), NEW b \in 1..(Len(s) + 1), a < b PROVE h[a] < h[b]
    <3>1. a \in 1..Len(s)
      BY <1>11, <2>1
    <3>2. CASE b \in 1..Len(s)
      BY <1>15, <1>16, <2>1, <3>1, <3>2 DEF Increasing
    <3>3. CASE b \notin 1..Len(s)
      BY <1>16, <1>17, <1>18, <3>1, <3>3
    <3>4. QED
      BY <3>2, <3>3
  <2>2. QED
    BY <1>19, <2>1 DEF Increasing
<1>22. \A jx \in M : \E n \in 1..Len(t) : h[n] = jx
  <2>1. ASSUME NEW jx \in L PROVE \E n \in 1..Len(t) : h[n] = jx
    <3>1. PICK n \in 1..Len(s) : g[n] = jx
      BY <1>15
    <3>2. QED
      BY <1>16, <1>19, <3>1
  <2>2. Len(s) + 1 \in 1..Len(t)
    BY <1>11, <1>19
  <2>3. QED
    BY <1>9, <1>17, <2>1, <2>2
<1>23. ASSUME NEW n \in 1..Len(t) PROVE t[n] = f[h[n]]
  <2>1. CASE n \in 1..Len(s)
    BY <1>9, <1>13, <1>15, <1>16, <2>1 DEF AppendOf
  <2>2. CASE n \notin 1..Len(s)
    BY <1>13, <1>17, <1>18, <1>19, <2>2 DEF AppendOf
  <2>3. QED
    BY <2>1, <2>2
<1>24. Listing(h, t, M, f)
  BY <1>20, <1>21, <1>22, <1>23 DEF Listing
<1>25. Listing(h, t, LiveIn(p), p.entries)
  BY <1>3, <1>5, <1>24, Zenon
<1>26. Live(p) = t
  BY <1>13, <1>25, LiveIs, Zenon
<1>27. QED
  BY <1>1, <1>5, <1>10, <1>12, <1>26, Zenon

(* n is where the entry ix was.                                            *)
Shrunk(t, s, n, L, ix) ==
  t = Cut(s, n) /\ ((\A jx \in L : jx <= ix) => n = Len(s))

LEMMA LiveShrinks ==
  ASSUME NEW d, NEW size, InOrder(d, size), NEW p, NEW z, InOrder(p, z), NEW ix,
         Grown(LiveIn(p), p.entries, LiveIn(d), d.entries, ix)
  PROVE  \E n \in 1..Len(Live(d)) :
           Live(d)[n] = d.entries[ix] /\ Shrunk(Live(p), Live(d), n, LiveIn(d), ix)
<1>1. PICK s : s = Live(d)
  OBVIOUS
<1>2. PICK L : L = LiveIn(d)
  OBVIOUS
<1>3. PICK M : M = LiveIn(p)
  OBVIOUS
<1>4. PICK e : e = d.entries
  OBVIOUS
<1>5. PICK f : f = p.entries
  OBVIOUS
<1>6. Grown(M, f, L, e, ix)
  BY <1>2, <1>3, <1>4, <1>5
<1>7. s \in Seq(EntrySet) /\ (\E g : Listing(g, s, L, e)) /\ L \in SUBSET Nat
  BY <1>1, <1>2, <1>4, LiveListed
<1>8. PICK g : Listing(g, s, L, e)
  BY <1>7
<1>9. ix \notin M /\ ix \in L /\ L = M \cup {ix} /\ \A jx \in M : e[jx] = f[jx]
  BY <1>6 DEF Grown
<1>10. Len(s) \in Nat
  BY <1>7
<1>11. /\ g \in [1..Len(s) -> L] /\ Increasing(g, Len(s))
       /\ \A jx \in L : \E n \in 1..Len(s) : g[n] = jx
       /\ \A n \in 1..Len(s) : s[n] = e[g[n]]
  BY <1>8 DEF Listing
<1>12. PICK n \in 1..Len(s) : g[n] = ix
  BY <1>9, <1>11
<1>13. ASSUME NEW m \in 1..Len(s) PROVE g[m] \in L /\ g[m] \in Nat
  BY <1>7, <1>11
<1>14. ASSUME NEW m \in 1..Len(s), m # n PROVE g[m] \in M
  <2>1. CASE m < n
    BY <1>9, <1>11, <1>12, <1>13, <2>1 DEF Increasing
  <2>2. CASE n < m
    BY <1>9, <1>11, <1>12, <1>13, <2>2 DEF Increasing
  <2>3. QED
    BY <1>10, <1>14, <2>1, <2>2
<1>15. PICK t : t = Cut(s, n)
  OBVIOUS
<1>16. t \in Seq(EntrySet) /\ CutOf(t, s, n)
  BY <1>7, <1>15, CutIs
<1>17. PICK at : at = [m \in 1..(Len(s) - 1) |-> IF m < n THEN m ELSE m + 1]
  OBVIOUS
<1>18. ASSUME NEW m \in 1..(Len(s) - 1)
       PROVE  /\ at[m] \in 1..Len(s) /\ at[m] # n
              /\ at[m] = IF m < n THEN m ELSE m + 1
  BY <1>10, <1>17
<1>19. PICK h : h = [m \in 1..(Len(s) - 1) |-> g[at[m]]]
  OBVIOUS
<1>20. Len(t) = Len(s) - 1
  BY <1>16 DEF CutOf
<1>21. ASSUME NEW m \in 1..(Len(s) - 1) PROVE h[m] = g[at[m]] /\ h[m] \in M
  BY <1>14, <1>18, <1>19
<1>22. h \in [1..Len(t) -> M]
  BY <1>19, <1>20, <1>21
<1>23. Increasing(h, Len(t))
  <2>1. ASSUME NEW a \in 1..(Len(s) - 1), NEW b \in 1..(Len(s) - 1), a < b PROVE h[a] < h[b]
    <3>1. at[a] < at[b]
      BY <1>10, <1>18, <2>1
    <3>2. g[at[a]] < g[at[b]]
      BY <1>11, <1>18, <3>1 DEF Increasing
    <3>3. QED
      BY <1>21, <3>2
  <2>2. QED
    BY <1>20, <2>1 DEF Increasing
<1>24. \A jx \in M : \E m \in 1..Len(t) : h[m] = jx
  <2>1. ASSUME NEW jx \in M PROVE \E m \in 1..(Len(s) - 1) : h[m] = jx
    <3>1. PICK i \in 1..Len(s) : g[i] = jx
      BY <1>9, <1>11
    <3>2. i # n
      BY <1>9, <1>12, <3>1
    <3>3. PICK m \in 1..(Len(s) - 1) : at[m] = i
      <4>1. CASE i < n
        <5>1. i \in 1..(Len(s) - 1)
          BY <1>10, <4>1
        <5>2. QED
          BY <1>18, <4>1, <5>1
      <4>2. CASE n < i
        <5>1. i - 1 \in 1..(Len(s) - 1) /\ ~ (i - 1 < n) /\ (i - 1) + 1 = i
          BY <1>10, <4>2
        <5>2. QED
          BY <1>18, <5>1
      <4>3. QED
        BY <1>10, <3>2, <4>1, <4>2
    <3>4. QED
      BY <1>21, <3>1, <3>3
  <2>2. QED
    BY <1>20, <2>1
<1>25. ASSUME NEW m \in 1..Len(t) PROVE t[m] = f[h[m]]
  <2>1. m \in 1..(Len(s) - 1)
    BY <1>20
  <2>2. t[m] = s[at[m]]
    <3>1. t[m] = IF m < n THEN s[m] ELSE s[m + 1]
      BY <1>16, <2>1 DEF CutOf
    <3>2. QED
      BY <1>18, <2>1, <3>1
  <2>3. s[at[m]] = e[h[m]]
    BY <1>11, <1>18, <1>21, <2>1
  <2>4. QED
    BY <1>9, <1>21, <2>1, <2>2, <2>3
<1>26. Listing(h, t, M, f)
  BY <1>22, <1>23, <1>24, <1>25 DEF Listing
<1>27. Listing(h, t, LiveIn(p), p.entries)
  BY <1>3, <1>5, <1>26, Zenon
<1>28. Live(p) = t
  BY <1>16, <1>27, LiveIs, Zenon
<1>29. s[n] = e[ix]
  BY <1>11, <1>12
<1>30. ASSUME \A jx \in L : jx <= ix PROVE n = Len(s)
  <2>1. SUFFICES ASSUME n < Len(s) PROVE FALSE
    BY <1>10
  <2>2. Len(s) \in 1..Len(s)
    BY <1>10
  <2>3. g[n] < g[Len(s)]
    BY <1>11, <2>1, <2>2 DEF Increasing
  <2>4. g[Len(s)] <= ix
    BY <1>13, <1>30, <2>2
  <2>5. QED
    BY <1>12, <1>13, <2>2, <2>3, <2>4
<1>31. s[n] = e[ix] /\ Shrunk(t, s, n, L, ix)
  BY <1>15, <1>29, <1>30 DEF Shrunk
<1>32. n \in 1..Len(Live(d))
  BY <1>1
<1>33. Live(d)[n] = d.entries[ix] /\ Shrunk(Live(p), Live(d), n, LiveIn(d), ix)
  BY <1>1, <1>2, <1>4, <1>28, <1>31, Zenon
<1>34. QED
  BY <1>32, <1>33

(* The entry at ix is x now, and no other is different.                    *)
Changed(L, e, f, ix, x) == ix \in L /\ f[ix] = x /\ \A jx \in L : jx # ix => f[jx] = e[jx]
Assigned(t, s, n, x) == t = [s EXCEPT ![n] = x]

LEMMA LiveReplaced ==
  ASSUME NEW d, NEW size, InOrder(d, size), NEW p, NEW z, InOrder(p, z),
         LiveIn(p) = LiveIn(d), NEW ix, NEW x \in EntrySet,
         Changed(LiveIn(d), d.entries, p.entries, ix, x)
  PROVE  \E n \in 1..Len(Live(d)) :
           Live(d)[n] = d.entries[ix] /\ Assigned(Live(p), Live(d), n, x)
<1>1. PICK s : s = Live(d)
  OBVIOUS
<1>2. PICK L : L = LiveIn(d)
  OBVIOUS
<1>4. PICK e : e = d.entries
  OBVIOUS
<1>5. PICK f : f = p.entries
  OBVIOUS
<1>6. ix \in L /\ f[ix] = x /\ \A jx \in L : jx # ix => f[jx] = e[jx]
  BY <1>2, <1>4, <1>5 DEF Changed
<1>7. s \in Seq(EntrySet) /\ (\E g : Listing(g, s, L, e)) /\ L \in SUBSET Nat
  BY <1>1, <1>2, <1>4, LiveListed
<1>8. PICK g : Listing(g, s, L, e)
  BY <1>7
<1>10. Len(s) \in Nat
  BY <1>7
<1>11. /\ g \in [1..Len(s) -> L] /\ Increasing(g, Len(s))
       /\ \A jx \in L : \E n \in 1..Len(s) : g[n] = jx
       /\ \A n \in 1..Len(s) : s[n] = e[g[n]]
  BY <1>8 DEF Listing
<1>12. PICK n \in 1..Len(s) : g[n] = ix
  BY <1>6, <1>11
<1>13. ASSUME NEW m \in 1..Len(s) PROVE g[m] \in L /\ g[m] \in Nat
  BY <1>7, <1>11
<1>14. ASSUME NEW m \in 1..Len(s), m # n PROVE g[m] # ix
  <2>1. CASE m < n
    BY <1>11, <1>12, <1>13, <2>1 DEF Increasing
  <2>2. CASE n < m
    BY <1>11, <1>12, <1>13, <2>2 DEF Increasing
  <2>3. QED
    BY <1>10, <1>14, <2>1, <2>2
<1>15. PICK t : t = [s EXCEPT ![n] = x]
  OBVIOUS
<1>16. t \in Seq(EntrySet) /\ PutOf(t, s, n, x)
  BY <1>7, <1>15, PutIs
<1>17. Len(t) = Len(s)
  BY <1>16 DEF PutOf
<1>18. ASSUME NEW m \in 1..Len(t) PROVE t[m] = f[g[m]]
  <2>1. m \in 1..Len(s)
    BY <1>17
  <2>2. t[m] = IF m = n THEN x ELSE s[m]
    BY <1>16, <2>1 DEF PutOf
  <2>3. CASE m = n
    BY <1>6, <1>12, <2>2, <2>3
  <2>4. CASE m # n
    BY <1>6, <1>11, <1>13, <1>14, <2>1, <2>2, <2>4
  <2>5. QED
    BY <2>3, <2>4
<1>19. Listing(g, t, L, f)
  BY <1>11, <1>17, <1>18 DEF Listing
<1>20. Listing(g, t, LiveIn(p), p.entries)
  BY <1>2, <1>5, <1>19, Zenon
<1>21. Live(p) = t
  BY <1>16, <1>20, LiveIs, Zenon
<1>22. s[n] = e[ix]
  BY <1>11, <1>12
<1>23. n \in 1..Len(Live(d)) /\ Live(d)[n] = d.entries[ix]
  BY <1>1, <1>4, <1>22
<1>24. Assigned(Live(p), Live(d), n, x)
  BY <1>1, <1>15, <1>21, Zenon DEF Assigned
<1>25. QED
  BY <1>23, <1>24

LEMMA LiveMoved ==
  ASSUME NEW size, InOrder(keys, size), used = Cardinality(LiveIn(keys)),
         NEW p, NEW z, InOrder(p, z), LiveIn(p) = 0..(used - 1),
         \A ix \in 0..(used - 1) : p.entries[ix] = Moved[ix + 1]
  PROVE  Live(p) = Live(keys)
<1>1. PICK s : s = Moved
  OBVIOUS
<1>2. PICK c : c = used
  OBVIOUS
<1>3. /\ s \in Seq(EntrySet) /\ Len(s) = c
      /\ \E f : Listing(f, s, LiveIn(keys), keys.entries)
  BY <1>1, <1>2, MovedIs
<1>4. c \in Nat
  BY <1>3
<1>5. PICK f : f = p.entries
  OBVIOUS
<1>6. PICK M : M = LiveIn(p)
  OBVIOUS
<1>7. M = 0..(c - 1) /\ \A ix \in 0..(c - 1) : f[ix] = s[ix + 1]
  BY <1>1, <1>2, <1>5, <1>6
<1>8. PICK h : h = [n \in 1..c |-> n - 1]
  OBVIOUS
<1>9. ASSUME NEW n \in 1..c PROVE h[n] = n - 1 /\ n - 1 \in 0..(c - 1) /\ (n - 1) + 1 = n
  BY <1>4, <1>8
<1>10. h \in [1..Len(s) -> M]
  BY <1>3, <1>7, <1>8, <1>9
<1>11. Increasing(h, Len(s))
  BY <1>3, <1>4, <1>9 DEF Increasing
<1>12. \A jx \in M : \E n \in 1..Len(s) : h[n] = jx
  <2>1. ASSUME NEW jx \in 0..(c - 1) PROVE \E n \in 1..c : h[n] = jx
    <3>1. jx + 1 \in 1..c /\ (jx + 1) - 1 = jx
      BY <1>4
    <3>2. QED
      BY <1>9, <3>1
  <2>2. QED
    BY <1>3, <1>7, <2>1
<1>13. \A n \in 1..Len(s) : s[n] = f[h[n]]
  BY <1>3, <1>7, <1>9
<1>14. Listing(h, s, M, f)
  BY <1>10, <1>11, <1>12, <1>13 DEF Listing
<1>15. Listing(h, s, LiveIn(p), p.entries)
  BY <1>5, <1>6, <1>14, Zenon
<1>16. Live(p) = s
  BY <1>3, <1>15, LiveIs, Zenon
<1>17. Live(keys) = s
  BY <1>3, LiveIs, Zenon
<1>18. QED
  BY <1>16, <1>17

LEMMA LiveEmpty ==
  ASSUME NEW d, NEW size, InOrder(d, size), LiveIn(d) = {}
  PROVE  Live(d) = <<>>
<1>1. Live(d) \in Seq(EntrySet) /\ \E g : Listing(g, Live(d), LiveIn(d), d.entries)
  BY LiveListed
<1>2. PICK g : g \in [1..Len(Live(d)) -> {}]
  BY <1>1 DEF Listing
<1>3. PICK s : s = Live(d)
  OBVIOUS
<1>4. s \in Seq(EntrySet) /\ g \in [1..Len(s) -> {}]
  BY <1>1, <1>2, <1>3
<1>5. Len(s) \in Nat /\ Len(s) < 1
  BY <1>4
<1>6. s = <<>>
  BY <1>4, <1>5, EmptySeq
<1>7. QED
  BY <1>3, <1>6

LEMMA AddedItems ==
  ASSUME TableInv, NEW k \in Keys, \A ix \in LiveIn(keys) : keys.entries[ix].key # k,
         NEW d, NEW r, Base(d, r, k), NEW v \in Vals \cup {Zero}, NEW p, p = Place(d, k, v),
         NEW x, x = [hash |-> Hash[k], key |-> k, val |-> v]
  PROVE  x \in EntrySet /\ Live(p) = Append(Live(keys), x)
<1>1. /\ Consistent(d, r, used) /\ d.usable > 0
      /\ \A ix \in LiveIn(d) : d.entries[ix].key # k
  BY BaseIs
<1>2. /\ Consistent(p, Incref(Incref(r, k), v), used + 1)
      /\ p.entries[d.nentries] = [hash |-> Hash[k], key |-> k, val |-> v]
      /\ Grown(LiveIn(d), d.entries, LiveIn(p), p.entries, d.nentries)
  BY <1>1, PlaceSound
<1>3. PICK size : InOrder(d, size)
  BY <1>1 DEF Consistent
<1>4. PICK z : InOrder(p, z)
  BY <1>2 DEF Consistent
<1>5. d.nentries \in Nat /\ LiveIn(d) \in SUBSET (0..(d.nentries - 1))
  BY <1>3, InOrderFields
<1>6. \A jx \in LiveIn(d) : jx < d.nentries
  BY <1>5
<1>7. p.entries[d.nentries] \in EntrySet /\ Live(p) = Append(Live(d), p.entries[d.nentries])
  BY <1>2, <1>3, <1>4, <1>5, <1>6, LiveGrows
<1>8. Live(d) = Live(keys)
  <2>1. CASE d = keys
    BY <2>1
  <2>2. ASSUME NEW addr \in Addrs, d = Resized(used * 3, addr) PROVE Live(d) = Live(keys)
    <3>1. Consistent(keys, refs, used)
      BY DEF TableInv
    <3>2. PICK w : InOrder(keys, w)
      BY <3>1 DEF Consistent
    <3>3. used = Cardinality(LiveIn(keys))
      BY <3>1 DEF Consistent
    <3>4. LiveIn(d) = 0..(used - 1) /\ \A ix \in 0..(used - 1) : d.entries[ix] = Moved[ix + 1]
      BY <2>2, <3>1, ResizedSound
    <3>5. QED
      BY <1>3, <3>2, <3>3, <3>4, LiveMoved
  <2>3. QED
    BY <2>1, <2>2 DEF Base
<1>9. QED
  BY <1>2, <1>7, <1>8, Zenon

LEMMA DroppedItems ==
  ASSUME TableInv, NEW k \in Keys, NEW ix, ix = Lookup(k), ix >= 0,
         NEW p, p = DelItem(ix, Hash[k])
  PROVE  \E n \in 1..Len(Live(keys)) :
           Live(keys)[n].key = k /\ Live(p) = Cut(Live(keys), n)
<1>1. ix \in LiveIn(keys) /\ keys.entries[ix].key = k /\ keys.entries[ix].hash = Hash[k]
  BY LookupLive
<1>2. PICK size : InOrder(keys, size)
  BY DEF TableInv, Consistent
<1>3. p = DelItem(ix, keys.entries[ix].hash)
  BY <1>1
<1>4. InOrder(p, size) /\ Grown(LiveIn(p), p.entries, LiveIn(keys), keys.entries, ix)
  BY <1>1, <1>2, <1>3, DelInOrder
<1>5. PICK n \in 1..Len(Live(keys)) :
        Live(keys)[n] = keys.entries[ix] /\ Shrunk(Live(p), Live(keys), n, LiveIn(keys), ix)
  BY <1>2, <1>4, LiveShrinks, Zenon
<1>6. Live(keys)[n].key = k /\ Live(p) = Cut(Live(keys), n)
  BY <1>1, <1>5, Zenon DEF Shrunk
<1>7. QED
  BY <1>6

LEMMA PoppedItems ==
  ASSUME TableInv, used # 0, NEW p, p = Popped(LastLive)
  PROVE  Len(Live(keys)) \in 1..Len(Live(keys)) /\ Live(p) = Cut(Live(keys), Len(Live(keys)))
<1>1. PICK ix : ix = LastLive
  OBVIOUS
<1>2. PICK size : InOrder(keys, size)
  BY DEF TableInv, Consistent
<1>3. ix \in LiveIn(keys) /\ \A jx \in LiveIn(keys) : jx <= ix
  <2>1. Cardinality(LiveIn(keys)) # 0
    BY DEF TableInv, Consistent
  <2>2. QED
    BY <1>1, <1>2, <2>1, LastLiveIs
<1>4. p = Popped(ix)
  BY <1>1
<1>5. InOrder(p, size) /\ Grown(LiveIn(p), p.entries, LiveIn(keys), keys.entries, ix)
  BY <1>2, <1>3, <1>4, PopInOrder
<1>6. PICK n \in 1..Len(Live(keys)) :
        Live(keys)[n] = keys.entries[ix] /\ Shrunk(Live(p), Live(keys), n, LiveIn(keys), ix)
  BY <1>2, <1>5, LiveShrinks, Zenon
<1>7. n = Len(Live(keys)) /\ Live(p) = Cut(Live(keys), n)
  BY <1>3, <1>6 DEF Shrunk
<1>8. QED
  BY <1>6, <1>7, Zenon

Rewritten(p, d, ix, v) == p = [d EXCEPT !.entries[ix].val = v]
Revalued(x, y, v) == x = [y EXCEPT !.val = v]

LEMMA ReplacedItems ==
  ASSUME TableInv, NEW k \in Keys, NEW ix, ix = Lookup(k), ix >= 0, NEW v \in Vals,
         NEW p, Rewritten(p, keys, ix, v)
  PROVE  \E n \in 1..Len(Live(keys)) : \E x \in EntrySet :
           /\ Live(keys)[n].key = k /\ Revalued(x, Live(keys)[n], v)
           /\ Assigned(Live(p), Live(keys), n, x)
<1>1. ix \in LiveIn(keys) /\ keys.entries[ix].key = k
  BY LookupLive
<1>2. Consistent(keys, refs, used)
  BY DEF TableInv
<1>3. PICK size : InOrder(keys, size)
  BY <1>2 DEF Consistent
<1>4. v \in Vals \cup {Zero} /\ Exact(refs, LiveIn(keys), keys.entries)
  BY <1>2 DEF Consistent
<1>5. /\ InOrder(p, size) /\ LiveIn(p) = LiveIn(keys)
      /\ p.entries = [keys.entries EXCEPT ![ix] = [keys.entries[ix] EXCEPT !.val = v]]
  <2>1. /\ InOrder(p, size) /\ p.addr = keys.addr /\ p.usable = keys.usable
        /\ p.nentries = keys.nentries /\ LiveIn(p) = LiveIn(keys)
        /\ p.entries = [keys.entries EXCEPT ![ix] = [keys.entries[ix] EXCEPT !.val = v]]
        /\ Exact(Incref(Decref(refs, keys.entries[ix].val), v), LiveIn(p), p.entries)
    BY <1>1, <1>3, <1>4, ReplaceInOrder DEF Rewritten
  <2>2. QED
    BY <2>1, Zenon
<1>6. PICK x : x = [keys.entries[ix] EXCEPT !.val = v]
  OBVIOUS
<1>7. keys.entries[ix] \in EntrySet /\ ix \in DOMAIN keys.entries
  BY <1>1, <1>3, LiveTyped
<1>8. x \in EntrySet
  BY <1>4, <1>6, <1>7 DEF EntrySet
<1>9. Changed(LiveIn(keys), keys.entries, p.entries, ix, x)
  <2>1. \A jx \in LiveIn(keys) : jx \in DOMAIN keys.entries
    BY <1>3, LiveTyped
  <2>2. p.entries = [keys.entries EXCEPT ![ix] = x]
    BY <1>5, <1>6, Zenon
  <2>3. QED
    BY <1>1, <1>7, <2>1, <2>2 DEF Changed
<1>10. PICK n \in 1..Len(Live(keys)) :
         Live(keys)[n] = keys.entries[ix] /\ Assigned(Live(p), Live(keys), n, x)
  BY <1>1, <1>3, <1>5, <1>8, <1>9, LiveReplaced
<1>11. Revalued(x, Live(keys)[n], v)
  BY <1>6, <1>10, Zenon DEF Revalued
<1>12. QED
  BY <1>1, <1>8, <1>10, <1>11, Zenon

LEMMA MissingItems ==
  ASSUME TableInv, NEW k \in Keys, \A ix \in LiveIn(keys) : keys.entries[ix].key # k
  PROVE  \A n \in 1..Len(Live(keys)) : Live(keys)[n].key # k
<1>1. PICK size : InOrder(keys, size)
  BY DEF TableInv, Consistent
<1>2. PICK g : Listing(g, Live(keys), LiveIn(keys), keys.entries)
  BY <1>1, LiveListed
<1>3. QED
  BY <1>2 DEF Listing

LEMMA NoItems ==
  ASSUME TableInv
  PROVE  /\ Live(keys) \in Seq(EntrySet)
         /\ used = 0 => Live(keys) = <<>>
<1>1. Consistent(keys, refs, used)
  BY DEF TableInv
<1>2. PICK size : InOrder(keys, size)
  BY <1>1 DEF Consistent
<1>3. Live(keys) \in Seq(EntrySet)
  BY <1>2, LiveListed
<1>4. used = 0 => LiveIn(keys) = {}
  <2>1. IsFiniteSet(LiveIn(keys)) /\ used = Cardinality(LiveIn(keys))
    BY <1>1, SoundFinite DEF Consistent
  <2>2. QED
    BY <2>1, FS_EmptySet
<1>5. QED
  BY <1>2, <1>3, <1>4, LiveEmpty

LEMMA FreshItems ==
  ASSUME NEW n \in NewSizes, NEW a \in Addrs, NEW d, d = NewKeys(SizeFor(n), a)
  PROVE  Live(d) = <<>>
<1>1. SizeFor(n) \in Sizes
  BY SizeForIs
<1>2. InOrder(d, SizeFor(n)) /\ LiveIn(d) = {}
  BY <1>1, NewKeysInOrder
<1>3. QED
  BY <1>2, LiveEmpty

LEMMA CutLast ==
  ASSUME NEW S, NEW s \in Seq(S), Len(s) \in 1..Len(s)
  PROVE  Cut(s, Len(s)) = SubSeq(s, 1, Len(s) - 1)
<1>1. Len(s) \in Nat
  OBVIOUS
<1>2. PICK t : t = Cut(s, Len(s))
  OBVIOUS
<1>3. PICK u : u = SubSeq(s, 1, Len(s) - 1)
  OBVIOUS
<1>4. t \in Seq(S) /\ CutOf(t, s, Len(s))
  BY <1>2, CutIs
<1>5. u \in Seq(S) /\ Slice(u, s, 1, Len(s) - 1)
  <2>1. /\ 1 \in Int /\ Len(s) - 1 \in Int /\ 1 >= 1 /\ Len(s) - 1 <= Len(s)
        /\ 1 <= (Len(s) - 1) + 1
    BY <1>1
  <2>2. QED
    BY <1>3, <2>1, SliceIs, Zenon
<1>6. Len(t) = Len(s) - 1 /\ Len(u) = Len(s) - 1
  BY <1>1, <1>4, <1>5 DEF CutOf, Slice
<1>7. ASSUME NEW m \in 1..(Len(s) - 1) PROVE t[m] = u[m]
  <2>1. m < Len(s)
    BY <1>1
  <2>2. t[m] = s[m]
    BY <1>4, <2>1 DEF CutOf
  <2>3. m \in 1..(((Len(s) - 1) - 1) + 1) /\ (1 + m) - 1 = m
    BY <1>1
  <2>4. u[m] = s[m]
    BY <1>5, <2>3 DEF Slice
  <2>5. QED
    BY <2>2, <2>4
<1>8. t = u
  BY <1>4, <1>5, <1>6, <1>7, SeqEqual
<1>9. QED
  BY <1>2, <1>3, <1>8

-----------------------------------------------------------------------------
(* The dictionary is an ordered map: every call, as seen by its items.     *)

ItemOf == [x \in EntrySet |-> [key |-> x.key, val |-> x.val]]
ItemSet == [key : Keys \cup {Zero}, val : Vals \cup {Zero}]
ItemsOf(d) == Along(Live(d), ItemOf)

LEMMA ItemShows == Shows(ItemOf, EntrySet, ItemSet)
BY DEF Shows, ItemOf, EntrySet, ItemSet

LEMMA ItemsAre ==
  ASSUME NEW s \in Seq(EntrySet)
  PROVE  [n \in 1..Len(s) |-> [key |-> s[n].key, val |-> s[n].val]] = Along(s, ItemOf)
<1>1. ASSUME NEW n \in 1..Len(s) PROVE ItemOf[s[n]] = [key |-> s[n].key, val |-> s[n].val]
  <2>1. s[n] \in EntrySet
    OBVIOUS
  <2>2. QED
    BY <2>1, Zenon DEF ItemOf
<1>2. QED
  BY <1>1, Zenon DEF Along

(* Positions of a key among the items.                                     *)
KeyIs(is, k, n) == n \in DOMAIN is /\ is[n].key = k

LEMMA ItemAt ==
  ASSUME NEW s \in Seq(EntrySet), NEW is, is = Along(s, ItemOf), NEW k
  PROVE  /\ is \in Seq(ItemSet) /\ Len(is) = Len(s)
         /\ \A n : KeyIs(is, k, n) <=> n \in 1..Len(s) /\ s[n].key = k
<1>1. is \in Seq(ItemSet) /\ AlongOf(is, s, ItemOf)
  BY ItemShows, AlongIs
<1>2. DOMAIN is = 1..Len(s) /\ Len(is) = Len(s)
  BY <1>1 DEF AlongOf
<1>3. ASSUME NEW n \in 1..Len(s) PROVE is[n].key = s[n].key
  <2>1. s[n] \in EntrySet
    OBVIOUS
  <2>2. is[n] = ItemOf[s[n]]
    BY <1>1 DEF AlongOf
  <2>3. ItemOf[s[n]] = [key |-> s[n].key, val |-> s[n].val]
    BY <2>1, Zenon DEF ItemOf
  <2>4. QED
    BY <2>2, <2>3
<1>4. QED
  BY <1>1, <1>2, <1>3 DEF KeyIs

(* The operations of OrderedMap, without its variables.                    *)
Adds(is, js, k, v) == (\A n : ~ KeyIs(is, k, n)) /\ js = Append(is, [key |-> k, val |-> v])
Assigns(is, js, k, v) == \E n : KeyIs(is, k, n) /\ js = [is EXCEPT ![n].val = v]
Pops(is, js, k) == \E n : KeyIs(is, k, n) /\ js = Cut(is, n)
Lacks(is, js, k) == (\A n : ~ KeyIs(is, k, n)) /\ js = is
PopsLast(is, js) == is # <<>> /\ js = SubSeq(is, 1, Len(is) - 1)

LEMMA InsertItems ==
  ASSUME TableInv, NEW k \in Keys, NEW v \in Vals, NEW ix, ix = Lookup(k),
         Insert(k, v, ix) \/ InsertResizing(k, v, ix)
  PROVE  Adds(ItemsOf(keys), ItemsOf(keys'), k, v)
<1>1. \A jx \in LiveIn(keys) : keys.entries[jx].key # k
  BY LookupMissing DEF Insert, InsertResizing
<1>2. PICK s : s = Live(keys)
  OBVIOUS
<1>3. PICK is : is = ItemsOf(keys)
  OBVIOUS
<1>4. s \in Seq(EntrySet) /\ is = Along(s, ItemOf)
  BY <1>2, <1>3, NoItems DEF ItemsOf
<1>5. \A n \in 1..Len(s) : s[n].key # k
  BY <1>1, <1>2, MissingItems
<1>6. \A n : ~ KeyIs(is, k, n)
  BY <1>4, <1>5, ItemAt
<1>7. \E d, r : Base(d, r, k) /\ keys' = Place(d, k, v)
  <2>1. CASE Insert(k, v, ix)
    BY <2>1 DEF Insert, InsertInto, Base
  <2>2. CASE InsertResizing(k, v, ix)
    BY <2>2 DEF InsertResizing, InsertInto, Base
  <2>3. QED
    BY <2>1, <2>2
<1>8. PICK d, r : Base(d, r, k) /\ keys' = Place(d, k, v)
  BY <1>7
<1>9. PICK x : x = [hash |-> Hash[k], key |-> k, val |-> v]
  OBVIOUS
<1>10. x \in EntrySet /\ Live(keys') = Append(Live(keys), x)
  <2>1. v \in Vals \cup {Zero}
    OBVIOUS
  <2>2. QED
    BY <1>1, <1>8, <1>9, <2>1, AddedItems
<1>11. ItemOf[x] = [key |-> k, val |-> v]
  <2>1. ItemOf[x] = [key |-> x.key, val |-> x.val]
    BY <1>10, Zenon DEF ItemOf
  <2>2. x.key = k /\ x.val = v
    BY <1>9
  <2>3. QED
    BY <2>1, <2>2
<1>12. ItemsOf(keys') = Append(is, ItemOf[x])
  <2>1. AppendsAlong(s, x, ItemOf)
    BY <1>4, <1>10, ItemShows, AlongAppend
  <2>2. QED
    BY <1>2, <1>4, <1>10, <2>1, Zenon DEF ItemsOf, AppendsAlong
<1>13. QED
  BY <1>3, <1>6, <1>11, <1>12, Zenon DEF Adds

LEMMA ReplaceItems ==
  ASSUME TableInv, NEW k \in Keys, NEW v \in Vals, NEW ix, ix = Lookup(k), Replace(v, ix)
  PROVE  Assigns(ItemsOf(keys), ItemsOf(keys'), k, v)
<1>1. ix >= 0 /\ Rewritten(keys', keys, ix, v)
  BY DEF Replace, Rewritten
<1>2. PICK s : s = Live(keys)
  OBVIOUS
<1>3. PICK is : is = ItemsOf(keys)
  OBVIOUS
<1>4. s \in Seq(EntrySet) /\ is = Along(s, ItemOf)
  BY <1>2, <1>3, NoItems DEF ItemsOf
<1>5. PICK n \in 1..Len(s), x \in EntrySet :
        s[n].key = k /\ Revalued(x, s[n], v) /\ Assigned(Live(keys'), s, n, x)
  BY <1>1, <1>2, ReplacedItems
<1>7. KeyIs(is, k, n)
  BY <1>4, <1>5, ItemAt
<1>8. s[n] \in EntrySet /\ x \in EntrySet
  BY <1>4
<1>9. ItemOf[x] = [is[n] EXCEPT !.val = v]
  <2>1. ItemOf[x] = [key |-> x.key, val |-> x.val]
    BY <1>8, Zenon DEF ItemOf
  <2>2. x.key = s[n].key /\ x.val = v
    BY <1>5, <1>8 DEF EntrySet, Revalued
  <2>3. is[n] = [key |-> s[n].key, val |-> s[n].val]
    <3>1. AlongOf(is, s, ItemOf)
      BY <1>4, ItemShows, AlongIs
    <3>2. is[n] = ItemOf[s[n]]
      BY <3>1 DEF AlongOf
    <3>3. ItemOf[s[n]] = [key |-> s[n].key, val |-> s[n].val]
      BY <1>8, Zenon DEF ItemOf
    <3>4. QED
      BY <3>2, <3>3
  <2>4. [[key |-> s[n].key, val |-> s[n].val] EXCEPT !.val = v] = [key |-> s[n].key, val |-> v]
    OBVIOUS
  <2>5. QED
    BY <2>1, <2>2, <2>3, <2>4, Zenon
<1>10. ItemsOf(keys') = [is EXCEPT ![n] = ItemOf[x]]
  <2>1. PutsAlong(s, n, x, ItemOf)
    BY <1>4, <1>8, ItemShows, AlongPut
  <2>2. QED
    BY <1>4, <1>5, <2>1, Zenon DEF ItemsOf, PutsAlong, Assigned
<1>11. ItemsOf(keys') = [is EXCEPT ![n].val = v]
  <2>1. n \in DOMAIN is
    BY <1>7 DEF KeyIs
  <2>2. [is EXCEPT ![n] = [is[n] EXCEPT !.val = v]] = [is EXCEPT ![n].val = v]
    BY <2>1
  <2>3. QED
    BY <1>9, <1>10, <2>2, Zenon
<1>12. QED
  BY <1>3, <1>7, <1>11, Zenon DEF Assigns

LEMMA DeleteItems ==
  ASSUME TableInv, NEW k \in Keys, NEW ix, ix = Lookup(k), Delete(k, ix)
  PROVE  Pops(ItemsOf(keys), ItemsOf(keys'), k)
<1>1. ix >= 0 /\ keys' = DelItem(ix, Hash[k])
  BY DEF Delete
<1>2. PICK s : s = Live(keys)
  OBVIOUS
<1>3. PICK is : is = ItemsOf(keys)
  OBVIOUS
<1>4. s \in Seq(EntrySet) /\ is = Along(s, ItemOf)
  BY <1>2, <1>3, NoItems DEF ItemsOf
<1>5. PICK n \in 1..Len(s) : s[n].key = k /\ Live(keys') = Cut(s, n)
  BY <1>1, <1>2, DroppedItems
<1>6. KeyIs(is, k, n)
  BY <1>4, <1>5, ItemAt
<1>7. Along(Cut(s, n), ItemOf) = Cut(Along(s, ItemOf), n)
  BY <1>4, ItemShows, AlongCut
<1>8. ItemsOf(keys') = Cut(is, n)
  BY <1>4, <1>5, <1>7, Zenon DEF ItemsOf
<1>9. QED
  BY <1>3, <1>6, <1>8, Zenon DEF Pops

LEMMA PopItems ==
  ASSUME TableInv, PopItem
  PROVE  PopsLast(ItemsOf(keys), ItemsOf(keys'))
<1>1. used # 0 /\ keys' = Popped(LastLive)
  BY DEF PopItem
<1>2. PICK s : s = Live(keys)
  OBVIOUS
<1>3. PICK is : is = ItemsOf(keys)
  OBVIOUS
<1>4. s \in Seq(EntrySet) /\ is = Along(s, ItemOf)
  BY <1>2, <1>3, NoItems DEF ItemsOf
<1>5. Len(s) \in 1..Len(s) /\ Live(keys') = Cut(s, Len(s))
  BY <1>1, <1>2, PoppedItems
<1>6. is \in Seq(ItemSet) /\ Len(is) = Len(s)
  BY <1>4, ItemAt
<1>7. Along(Cut(s, Len(s)), ItemOf) = Cut(Along(s, ItemOf), Len(s))
  BY <1>4, <1>5, ItemShows, AlongCut
<1>8. ItemsOf(keys') = Cut(is, Len(is))
  BY <1>4, <1>5, <1>6, <1>7, Zenon DEF ItemsOf
<1>9. Cut(is, Len(is)) = SubSeq(is, 1, Len(is) - 1)
  BY <1>5, <1>6, CutLast
<1>10. is # <<>>
  BY <1>5, <1>6
<1>11. QED
  BY <1>3, <1>8, <1>9, <1>10, Zenon DEF PopsLast

LEMMA MissItems ==
  ASSUME TableInv, NEW k \in Keys, NEW ix, ix = Lookup(k), DeleteMissing(ix)
  PROVE  Lacks(ItemsOf(keys), ItemsOf(keys'), k)
<1>1. ix = EMPTY /\ keys' = keys
  BY DEF DeleteMissing
<1>2. \A jx \in LiveIn(keys) : keys.entries[jx].key # k
  BY <1>1, LookupMissing
<1>3. PICK s : s = Live(keys)
  OBVIOUS
<1>4. PICK is : is = ItemsOf(keys)
  OBVIOUS
<1>5. s \in Seq(EntrySet) /\ is = Along(s, ItemOf)
  BY <1>3, <1>4, NoItems DEF ItemsOf
<1>6. \A n \in 1..Len(s) : s[n].key # k
  BY <1>2, <1>3, MissingItems
<1>7. \A n : ~ KeyIs(is, k, n)
  BY <1>5, <1>6, ItemAt
<1>8. QED
  BY <1>1, <1>4, <1>7, Zenon DEF Lacks

LEMMA EmptyAlong ==
  ASSUME NEW F
  PROVE  Along(<<>>, F) = <<>>
BY DEF Along

LEMMA FreedItems ==
  ASSUME NEW n \in NewSizes, Recreate(n)
  PROVE  ItemsOf(keys') = <<>>
<1>1. PICK a \in Addrs : keys' = NewKeys(SizeFor(n), a)
  BY DEF Recreate
<1>2. Live(keys') = <<>>
  BY <1>1, FreshItems
<1>3. QED
  BY <1>2, EmptyAlong DEF ItemsOf

(* Every call on a dictionary, in the terms of OrderedMap.                 *)
MapStep(is, js, t) ==
  \/ /\ t = "OK"
     /\ \/ PopsLast(is, js)
        \/ \E k \in Keys : Pops(is, js, k) \/ \E v \in Vals : Adds(is, js, k, v)
  \/ t = "OK_REPLACED" /\ \E k \in Keys, v \in Vals : Assigns(is, js, k, v)
  \/ t = "DKIX_EMPTY" /\ \E k \in Keys : Lacks(is, js, k)
  \/ t = "ERR_DICT_EMPTY" /\ is = <<>> /\ js = is
  \/ t \in {"ERR_NO_MEMORY", "ERR_CMP_FAILED"} /\ js = is
  \/ t = "NEW" /\ js = <<>>

LEMMA DictStepMaps ==
  ASSUME TableInv, Next
  PROVE  \/ MapStep(ItemsOf(keys), ItemsOf(keys'), status')
         \/ ItemsOf(keys') = ItemsOf(keys) /\ status' = status
<1> DEFINE Goal == \/ MapStep(ItemsOf(keys), ItemsOf(keys'), status')
                   \/ ItemsOf(keys') = ItemsOf(keys) /\ status' = status
<1>1. CASE Iter \/ IterNext
  <2>1. keys' = keys /\ status' = status
    BY <1>1 DEF Iter, IterNext
  <2>2. QED
    BY <2>1, Zenon
<1>2. CASE PopItem
  <2>1. PopsLast(ItemsOf(keys), ItemsOf(keys'))
    BY <1>2, PopItems
  <2>2. status' = "OK"
    BY <1>2 DEF PopItem
  <2>3. QED
    BY <2>1, <2>2 DEF MapStep
<1>3. ASSUME NEW n \in NewSizes, Recreate(n) PROVE Goal
  <2>1. ItemsOf(keys') = <<>>
    BY <1>3, FreedItems
  <2>2. status' = "NEW"
    BY <1>3 DEF Recreate
  <2>3. QED
    BY <2>1, <2>2 DEF MapStep
<1>4. CASE PopEmpty
  <2>1. used = 0 /\ keys' = keys /\ status' = "ERR_DICT_EMPTY"
    BY <1>4 DEF PopEmpty
  <2>2. ItemsOf(keys) = <<>>
    BY <2>1, NoItems, EmptyAlong DEF ItemsOf
  <2>3. ItemsOf(keys') = ItemsOf(keys)
    BY <2>1
  <2>4. QED
    BY <2>1, <2>2, <2>3 DEF MapStep
<1>5. ASSUME NEW k \in Keys, NEW ix, ix = Lookup(k),
             \/ \E v \in Vals : Insert(k, v, ix) \/ InsertResizing(k, v, ix) \/ Replace(v, ix)
             \/ Delete(k, ix) \/ DeleteMissing(ix) \/ ResizeFails(ix)
             \/ CompareFails(k)
      PROVE  Goal
  <2>1. ASSUME NEW v \in Vals, Insert(k, v, ix) \/ InsertResizing(k, v, ix) PROVE Goal
    <3>1. Adds(ItemsOf(keys), ItemsOf(keys'), k, v)
      BY <1>5, <2>1, InsertItems
    <3>2. status' = "OK"
      BY <2>1 DEF Insert, InsertResizing, InsertInto
    <3>3. QED
      BY <3>1, <3>2 DEF MapStep
  <2>2. ASSUME NEW v \in Vals, Replace(v, ix) PROVE Goal
    <3>1. Assigns(ItemsOf(keys), ItemsOf(keys'), k, v)
      BY <1>5, <2>2, ReplaceItems
    <3>2. status' = "OK_REPLACED"
      BY <2>2 DEF Replace
    <3>3. QED
      BY <3>1, <3>2 DEF MapStep
  <2>3. CASE Delete(k, ix)
    <3>1. Pops(ItemsOf(keys), ItemsOf(keys'), k)
      BY <1>5, <2>3, DeleteItems
    <3>2. status' = "OK"
      BY <2>3 DEF Delete
    <3>3. QED
      BY <3>1, <3>2 DEF MapStep
  <2>4. CASE DeleteMissing(ix)
    <3>1. Lacks(ItemsOf(keys), ItemsOf(keys'), k)
      BY <1>5, <2>4, MissItems
    <3>2. status' = "DKIX_EMPTY"
      BY <2>4 DEF DeleteMissing
    <3>3. QED
      BY <3>1, <3>2 DEF MapStep
  <2>5. CASE ResizeFails(ix) \/ CompareFails(k)
    <3>1. keys' = keys /\ status' \in {"ERR_NO_MEMORY", "ERR_CMP_FAILED"}
      BY <2>5 DEF ResizeFails, CompareFails
    <3>2. ItemsOf(keys') = ItemsOf(keys)
      BY <3>1
    <3>3. QED
      BY <3>1, <3>2 DEF MapStep
  <2>6. QED
    BY <1>5, <2>1, <2>2, <2>3, <2>4, <2>5
<1>6. QED
  BY <1>1, <1>2, <1>3, <1>4, <1>5 DEF Next

MapOf(is, js, t, u) == MapStep(is, js, u) \/ (js = is /\ u = t)

(* MapStep is a step of OrderedMap.                                        *)
LEMMA MapStepIs ==
  ASSUME NEW is, NEW js, is = IF kind = "Dict" THEN Items ELSE <<>>,
         js = IF kind' = "Dict" THEN Items' ELSE <<>>,
         NEW u, u = IF kind' = "Dict" THEN status' ELSE "NEW", MapStep(is, js, u)
  PROVE  Map!Next
<1>1. \A k : Map!At(is, k) = {n \in DOMAIN is : is[n].key = k}
  BY DEF Map!At
<1>2. \A k, n : n \in Map!At(is, k) <=> KeyIs(is, k, n)
  BY <1>1 DEF KeyIs
<1>3. ASSUME NEW k, NEW v, Adds(is, js, k, v) PROVE Map!Add(is, k, v)
  <2>1. Map!At(is, k) = {}
    BY <1>2, <1>3 DEF Adds
  <2>2. QED
    BY <1>3, <2>1, Zenon DEF Adds, Map!Add
<1>4. ASSUME NEW k, NEW v, Assigns(is, js, k, v) PROVE Map!Assign(is, k, v)
  <2>1. PICK n : KeyIs(is, k, n) /\ js = [is EXCEPT ![n].val = v]
    BY <1>4 DEF Assigns
  <2>2. n \in Map!At(is, k)
    BY <1>2, <2>1
  <2>3. QED
    BY <2>1, <2>2, Zenon DEF Map!Assign
<1>5. ASSUME NEW k, Pops(is, js, k) PROVE Map!Pop(is, k)
  <2>1. PICK n : KeyIs(is, k, n) /\ js = Cut(is, n)
    BY <1>5 DEF Pops
  <2>2. n \in Map!At(is, k)
    BY <1>2, <2>1
  <2>3. QED
    BY <2>1, <2>2, Zenon DEF Map!Pop, Cut
<1>6. ASSUME NEW k, Lacks(is, js, k) PROVE Map!PopMissing(is, k)
  <2>1. Map!At(is, k) = {}
    BY <1>2, <1>6 DEF Lacks
  <2>2. QED
    BY <1>6, <2>1, Zenon DEF Lacks, Map!PopMissing
<1>7. PopsLast(is, js) => Map!PopItem(is)
  BY Zenon DEF PopsLast, Map!PopItem
<1>8. is = <<>> /\ js = is => Map!PopEmpty(is)
  BY Zenon DEF Map!PopEmpty
<1>9. js = is => Map!Refuse(is)
  BY Zenon DEF Map!Refuse
<1>10. js = <<>> => Map!Reset
  BY Zenon DEF Map!Reset
<1>11. Map!Step(is)
  <2>1. CASE u = "OK" /\ PopsLast(is, js)
    BY <1>7, <2>1, Zenon DEF Map!Step
  <2>2. ASSUME NEW k \in Keys, u = "OK", Pops(is, js, k) PROVE Map!Step(is)
    BY <1>5, <2>2, Zenon DEF Map!Step
  <2>3. ASSUME NEW k \in Keys, NEW v \in Vals, u = "OK", Adds(is, js, k, v) PROVE Map!Step(is)
    BY <1>3, <2>3, Zenon DEF Map!Step
  <2>4. ASSUME NEW k \in Keys, NEW v \in Vals, u = "OK_REPLACED", Assigns(is, js, k, v)
        PROVE  Map!Step(is)
    BY <1>4, <2>4, Zenon DEF Map!Step
  <2>5. ASSUME NEW k \in Keys, u = "DKIX_EMPTY", Lacks(is, js, k) PROVE Map!Step(is)
    BY <1>6, <2>5, Zenon DEF Map!Step
  <2>6. CASE u = "ERR_DICT_EMPTY" /\ is = <<>> /\ js = is
    BY <1>8, <2>6, Zenon DEF Map!Step
  <2>7. CASE u \in {"ERR_NO_MEMORY", "ERR_CMP_FAILED"} /\ js = is
    BY <1>9, <2>7, Zenon DEF Map!Step
  <2>8. CASE u = "NEW" /\ js = <<>>
    BY <1>10, <2>8, Zenon DEF Map!Step
  <2>9. QED
    BY <2>1, <2>2, <2>3, <2>4, <2>5, <2>6, <2>7, <2>8 DEF MapStep
<1>12. QED
  BY <1>11, Zenon DEF Map!Next

LEMMA ItemsHere ==
  ASSUME TableInv
  PROVE  Items = ItemsOf(keys) /\ (used = 0 => Items = <<>>)
<1>1. Live(keys) \in Seq(EntrySet)
  BY NoItems
<1>2. Items = ItemsOf(keys)
  BY <1>1, ItemsAre, Zenon DEF Items, ItemsOf
<1>3. used = 0 => Items = <<>>
  BY <1>2, NoItems, EmptyAlong DEF ItemsOf
<1>4. QED
  BY <1>2, <1>3

(* The typed dictionary behaves as an ordered map: whatever the order of   *)
(* assignments, deletions, popitem(), resizing and failures, each call of  *)
(* numba/cext/dictobject.c changes its items as the call of OrderedMap     *)
(* with the same status does, or changes nothing.                          *)
THEOREM TypedDictImplementsMap == ContainersSpec => ImplementsMap
<1>1. Init3 => Map!Init
  <2> SUFFICES ASSUME Init3 PROVE Map!Init
    OBVIOUS
  <2>1. TableInv /\ used = 0 /\ status = "NEW"
    BY TableInit DEF Init3, Init
  <2>2. Items = <<>>
    BY <2>1, ItemsHere
  <2>3. QED
    BY <2>1, <2>2 DEF Map!Init
<1>2. TableInv => Items = ItemsOf(keys)
  BY ItemsHere
<1>3. (TableInv => Items = ItemsOf(keys))'
  BY <1>2, PTL
<1>4. HashInv /\ HashInv' /\ [Next3]_<<vars, listvars, kind>> => [Map!Next]_Map!vars
  <2> SUFFICES ASSUME HashInv, HashInv', [Next3]_<<vars, listvars, kind>>
               PROVE  [Map!Next]_Map!vars
    OBVIOUS
  <2>1. Items = ItemsOf(keys) /\ Items' = ItemsOf(keys')
    <3>1. TableInv /\ TableInv'
      BY DEF HashInv
    <3>2. QED
      BY <1>2, <1>3, <3>1
  <2>2. CASE kind = "Dict" /\ Next /\ UNCHANGED <<listvars, kind>>
    <3>1. kind = "Dict" /\ kind' = "Dict" /\ Next
      BY <2>2
    <3>2. CASE MapStep(ItemsOf(keys), ItemsOf(keys'), status')
      <4>1. PICK is : is = IF kind = "Dict" THEN Items ELSE <<>>
        OBVIOUS
      <4>2. PICK js : js = IF kind' = "Dict" THEN Items' ELSE <<>>
        OBVIOUS
      <4>3. PICK u : u = IF kind' = "Dict" THEN status' ELSE "NEW"
        OBVIOUS
      <4>4. MapStep(is, js, u)
        BY <2>1, <3>1, <3>2, <4>1, <4>2, <4>3, Zenon
      <4>5. Map!Next
        BY <4>1, <4>2, <4>3, <4>4, MapStepIs, Zenon
      <4>6. QED
        BY <4>5
    <3>3. CASE ItemsOf(keys') = ItemsOf(keys) /\ status' = status
      BY <2>1, <3>1, <3>3 DEF Map!vars
    <3>4. QED
      BY <3>1, <3>2, <3>3, DictStepMaps DEF HashInv
  <2>3. CASE kind # "Dict" /\ UNCHANGED kind
    BY <2>3 DEF Map!vars
  <2>4. CASE UNCHANGED <<vars, listvars, kind>>
    BY <2>1, <2>4 DEF Map!vars, vars
  <2>5. QED
    BY <2>2, <2>3, <2>4 DEF Next3
<1>5. QED
  BY <1>1, <1>4, HashInvAlways, PTL DEF ContainersSpec, ImplementsMap, Map!Spec

-----------------------------------------------------------------------------
(* The set remembers the order of insertion: every call, as seen by its    *)
(* items.                                                                  *)

KeyOf == [x \in EntrySet |-> x.key]
KeysOf(d) == Along(Live(d), KeyOf)

LEMMA KeyShows == Shows(KeyOf, EntrySet, Keys \cup {Zero})
BY DEF Shows, KeyOf, EntrySet

LEMMA KeysAre ==
  ASSUME NEW s \in Seq(EntrySet)
  PROVE  [n \in 1..Len(s) |-> s[n].key] = Along(s, KeyOf)
<1>1. ASSUME NEW n \in 1..Len(s) PROVE KeyOf[s[n]] = s[n].key
  <2>1. s[n] \in EntrySet
    OBVIOUS
  <2>2. QED
    BY <2>1, Zenon DEF KeyOf
<1>2. QED
  BY <1>1, Zenon DEF Along

ItemIs(is, k, n) == n \in DOMAIN is /\ is[n] = k

LEMMA KeyAtItem ==
  ASSUME NEW s \in Seq(EntrySet), NEW is, is = Along(s, KeyOf), NEW k
  PROVE  \A n : ItemIs(is, k, n) <=> n \in 1..Len(s) /\ s[n].key = k
<1>1. is \in Seq(Keys \cup {Zero}) /\ AlongOf(is, s, KeyOf)
  BY KeyShows, AlongIs
<1>2. DOMAIN is = 1..Len(s)
  BY <1>1 DEF AlongOf
<1>3. ASSUME NEW n \in 1..Len(s) PROVE is[n] = s[n].key
  <2>1. s[n] \in EntrySet
    OBVIOUS
  <2>2. is[n] = KeyOf[s[n]]
    BY <1>1 DEF AlongOf
  <2>3. KeyOf[s[n]] = s[n].key
    BY <2>1, Zenon DEF KeyOf
  <2>4. QED
    BY <2>2, <2>3
<1>4. QED
  BY <1>2, <1>3 DEF ItemIs

(* A lookup tells whether there is such an item.                           *)
Holds(is, k) == \E n : ItemIs(is, k, n)

LEMMA LookupHolds ==
  ASSUME TableInv, NEW k \in Keys, NEW ix, ix = Lookup(k)
  PROVE  /\ ix >= 0 => Holds(KeysOf(keys), k)
         /\ ix = EMPTY => ~ Holds(KeysOf(keys), k)
         /\ ix # EMPTY /\ ix # DUMMY <=> Holds(KeysOf(keys), k)
<1>1. PICK s : s = Live(keys)
  OBVIOUS
<1>2. PICK is : is = KeysOf(keys)
  OBVIOUS
<1>3. s \in Seq(EntrySet) /\ is = Along(s, KeyOf)
  BY <1>1, <1>2, NoItems DEF KeysOf
<1>4. PICK size : InOrder(keys, size)
  BY DEF TableInv, Consistent
<1>5. \A n : ItemIs(is, k, n) <=> n \in 1..Len(s) /\ s[n].key = k
  BY <1>3, KeyAtItem
<1>6. \/ \E jx \in LiveIn(keys) : keys.entries[jx].key = k /\ ix = jx
      \/ (\A jx \in LiveIn(keys) : keys.entries[jx].key # k) /\ ix = EMPTY
  BY <1>4, LookupIs
<1>7. ASSUME NEW jx \in LiveIn(keys), keys.entries[jx].key = k PROVE Holds(is, k) /\ jx \in Nat
  <2>1. PICK g : Listing(g, s, LiveIn(keys), keys.entries)
    BY <1>1, <1>4, LiveListed
  <2>2. PICK n \in 1..Len(s) : s[n] = keys.entries[jx]
    BY <2>1 DEF Listing
  <2>3. jx \in Nat
    BY <1>4, LiveListed
  <2>4. QED
    BY <1>5, <1>7, <2>2, <2>3 DEF Holds
<1>8. ASSUME \A jx \in LiveIn(keys) : keys.entries[jx].key # k PROVE ~ Holds(is, k)
  <2>1. \A n \in 1..Len(s) : s[n].key # k
    BY <1>1, <1>8, MissingItems
  <2>2. QED
    BY <1>5, <2>1 DEF Holds
<1>9. QED
  BY <1>2, <1>6, <1>7, <1>8 DEF EMPTY, DUMMY

SetStep(is, js, t) ==
  \/ t = "OK" /\ \E k \in Keys : ~ Holds(is, k) /\ js = Append(is, k)
  \/ t = "OK_REPLACED" /\ \E k \in Keys : Holds(is, k) /\ js = is
  \/ t = "OK" /\ \E k \in Keys : \E n : ItemIs(is, k, n) /\ js = Cut(is, n)
  \/ t = "OK" /\ \E k \in Keys : ~ Holds(is, k) /\ js = is
  \/ t = "present" /\ \E k \in Keys : Holds(is, k) /\ js = is
  \/ t = "absent" /\ \E k \in Keys : ~ Holds(is, k) /\ js = is
  \/ t = "ERR_NO_MEMORY" /\ js = is
  \/ t = "NEW" /\ js = <<>>

LEMMA AddKeys ==
  ASSUME TableInv, NEW k \in Keys, NEW ix, ix = Lookup(k),
         SetAdd(k, ix) \/ SetAddResizing(k, ix)
  PROVE  ~ Holds(KeysOf(keys), k) /\ KeysOf(keys') = Append(KeysOf(keys), k)
<1>1. ix = EMPTY
  BY DEF SetAdd, SetAddResizing
<1>2. \A jx \in LiveIn(keys) : keys.entries[jx].key # k
  BY <1>1, LookupMissing
<1>3. ~ Holds(KeysOf(keys), k)
  BY <1>1, LookupHolds
<1>4. \E d, r : Base(d, r, k) /\ keys' = Place(d, k, Zero)
  <2>1. CASE SetAdd(k, ix)
    BY <2>1 DEF SetAdd, AddInto, Base
  <2>2. CASE SetAddResizing(k, ix)
    BY <2>2 DEF SetAddResizing, AddInto, Base
  <2>3. QED
    BY <2>1, <2>2
<1>5. PICK d, r : Base(d, r, k) /\ keys' = Place(d, k, Zero)
  BY <1>4
<1>6. PICK x : x = [hash |-> Hash[k], key |-> k, val |-> Zero]
  OBVIOUS
<1>7. x \in EntrySet /\ Live(keys') = Append(Live(keys), x)
  <2>1. Zero \in Vals \cup {Zero}
    OBVIOUS
  <2>2. QED
    BY <1>2, <1>5, <1>6, <2>1, AddedItems
<1>8. KeyOf[x] = k
  <2>1. KeyOf[x] = x.key
    BY <1>7, Zenon DEF KeyOf
  <2>2. QED
    BY <1>6, <2>1
<1>9. AppendsAlong(Live(keys), x, KeyOf)
  <2>1. Live(keys) \in Seq(EntrySet)
    BY NoItems
  <2>2. QED
    BY <1>7, <2>1, KeyShows, AlongAppend
<1>10. QED
  BY <1>3, <1>7, <1>8, <1>9, Zenon DEF KeysOf, AppendsAlong

LEMMA DiscardKeys ==
  ASSUME TableInv, NEW k \in Keys, NEW ix, ix = Lookup(k), SetDiscard(k, ix)
  PROVE  \E n : ItemIs(KeysOf(keys), k, n) /\ KeysOf(keys') = Cut(KeysOf(keys), n)
<1>1. ix >= 0 /\ keys' = DelItem(ix, Hash[k])
  BY DEF SetDiscard, Discarded
<1>2. PICK s : s = Live(keys)
  OBVIOUS
<1>3. PICK is : is = KeysOf(keys)
  OBVIOUS
<1>4. s \in Seq(EntrySet) /\ is = Along(s, KeyOf)
  BY <1>2, <1>3, NoItems DEF KeysOf
<1>5. PICK n \in 1..Len(s) : s[n].key = k /\ Live(keys') = Cut(s, n)
  BY <1>1, <1>2, DroppedItems
<1>6. ItemIs(is, k, n)
  BY <1>4, <1>5, KeyAtItem
<1>7. Along(Cut(s, n), KeyOf) = Cut(Along(s, KeyOf), n)
  BY <1>4, KeyShows, AlongCut
<1>8. KeysOf(keys') = Cut(is, n)
  BY <1>4, <1>5, <1>7, Zenon DEF KeysOf
<1>9. QED
  BY <1>3, <1>6, <1>8, Zenon

LEMMA SetStepMaps ==
  ASSUME TableInv, SetNext
  PROVE  \/ SetStep(KeysOf(keys), KeysOf(keys'), status')
         \/ KeysOf(keys') = KeysOf(keys) /\ status' = status
<1> DEFINE Goal == \/ SetStep(KeysOf(keys), KeysOf(keys'), status')
                   \/ KeysOf(keys') = KeysOf(keys) /\ status' = status
<1>1. CASE Iter \/ SetIterNext
  <2>1. keys' = keys /\ status' = status
    BY <1>1 DEF Iter, SetIterNext
  <2>2. QED
    BY <2>1, Zenon
<1>2. ASSUME NEW n \in NewSizes, Recreate(n) PROVE Goal
  <2>1. PICK a \in Addrs : keys' = NewKeys(SizeFor(n), a)
    BY <1>2 DEF Recreate
  <2>2. KeysOf(keys') = <<>>
    BY <2>1, FreshItems, EmptyAlong DEF KeysOf
  <2>3. status' = "NEW"
    BY <1>2 DEF Recreate
  <2>4. QED
    BY <2>2, <2>3 DEF SetStep
<1>3. ASSUME NEW k \in Keys, NEW ix, ix = Lookup(k),
             \/ SetAdd(k, ix) \/ SetAddResizing(k, ix) \/ SetAddPresent(ix) \/ ResizeFails(ix)
             \/ SetDiscard(k, ix) \/ SetDiscardMissing(ix) \/ SetContains(ix)
      PROVE  Goal
  <2>1. CASE SetAdd(k, ix) \/ SetAddResizing(k, ix)
    <3>1. status' = "OK"
      BY <2>1 DEF SetAdd, SetAddResizing, AddInto
    <3>2. QED
      BY <1>3, <2>1, <3>1, AddKeys DEF SetStep
  <2>2. CASE SetAddPresent(ix)
    <3>1. ix >= 0 /\ status' = "OK_REPLACED" /\ keys' = keys
      BY <2>2 DEF SetAddPresent
    <3>2. Holds(KeysOf(keys), k) /\ KeysOf(keys') = KeysOf(keys)
      BY <1>3, <3>1, LookupHolds
    <3>3. QED
      BY <3>1, <3>2 DEF SetStep
  <2>3. CASE ResizeFails(ix)
    <3>1. status' = "ERR_NO_MEMORY" /\ keys' = keys
      BY <2>3 DEF ResizeFails
    <3>2. KeysOf(keys') = KeysOf(keys)
      BY <3>1
    <3>3. QED
      BY <3>1, <3>2 DEF SetStep
  <2>4. CASE SetDiscard(k, ix)
    <3>1. status' = "OK"
      BY <2>4 DEF SetDiscard
    <3>2. QED
      BY <1>3, <2>4, <3>1, DiscardKeys DEF SetStep
  <2>5. CASE SetDiscardMissing(ix)
    <3>1. ix = EMPTY /\ status' = "OK" /\ keys' = keys
      BY <2>5 DEF SetDiscardMissing
    <3>2. ~ Holds(KeysOf(keys), k) /\ KeysOf(keys') = KeysOf(keys)
      BY <1>3, <3>1, LookupHolds
    <3>3. QED
      BY <3>1, <3>2 DEF SetStep
  <2>6. CASE SetContains(ix)
    <3>1. /\ status' = IF ix # EMPTY /\ ix # DUMMY THEN "present" ELSE "absent"
          /\ keys' = keys
      BY <2>6 DEF SetContains
    <3>2. ix # EMPTY /\ ix # DUMMY <=> Holds(KeysOf(keys), k)
      BY <1>3, LookupHolds
    <3>3. KeysOf(keys') = KeysOf(keys)
      BY <3>1
    <3>4. CASE Holds(KeysOf(keys), k)
      BY <3>1, <3>2, <3>3, <3>4 DEF SetStep
    <3>5. CASE ~ Holds(KeysOf(keys), k)
      BY <3>1, <3>2, <3>3, <3>5 DEF SetStep
    <3>6. QED
      BY <3>4, <3>5
  <2>7. QED
    BY <1>3, <2>1, <2>2, <2>3, <2>4, <2>5, <2>6
<1>4. QED
  BY <1>1, <1>2, <1>3 DEF SetNext

(* SetStep is a step of OrderedSet.                                        *)
LEMMA SetStepIs ==
  ASSUME NEW is, NEW js, is = IF kind = "Set" THEN SetItems ELSE <<>>,
         js = IF kind' = "Set" THEN SetItems' ELSE <<>>,
         NEW u, u = IF kind' = "Set" THEN status' ELSE "NEW", SetStep(is, js, u)
  PROVE  Ordered!Next
<1>1. \A k : Ordered!At(k) = {n \in DOMAIN is : is[n] = k}
  BY DEF Ordered!At
<1>2. \A k, n : n \in Ordered!At(k) <=> ItemIs(is, k, n)
  BY <1>1 DEF ItemIs
<1>3. \A k : Ordered!In(k) <=> Holds(is, k)
  BY <1>2 DEF Ordered!In, Holds
<1>4. ASSUME NEW k, ~ Holds(is, k), js = Append(is, k), u = "OK" PROVE Ordered!Add(k)
  BY <1>3, <1>4, Zenon DEF Ordered!Add
<1>5. ASSUME NEW k, Holds(is, k), js = is, u = "OK_REPLACED" PROVE Ordered!Add(k)
  BY <1>3, <1>5, Zenon DEF Ordered!Add
<1>6. ASSUME NEW k, NEW n, ItemIs(is, k, n), js = Cut(is, n), u = "OK" PROVE Ordered!Discard(k)
  <2>1. n \in Ordered!At(k)
    BY <1>2, <1>6
  <2>2. QED
    BY <1>6, <2>1, Zenon DEF Ordered!Discard, Cut
<1>7. ASSUME NEW k, ~ Holds(is, k), js = is, u = "OK" PROVE Ordered!Discard(k)
  BY <1>3, <1>7, Zenon DEF Ordered!Discard
<1>8. ASSUME NEW k, Holds(is, k), js = is, u = "present" PROVE Ordered!Contains(k)
  BY <1>3, <1>8, Zenon DEF Ordered!Contains
<1>9. ASSUME NEW k, ~ Holds(is, k), js = is, u = "absent" PROVE Ordered!Contains(k)
  BY <1>3, <1>9, Zenon DEF Ordered!Contains
<1>10. CASE u = "ERR_NO_MEMORY" /\ js = is
  BY <1>10, Zenon DEF Ordered!Refuse, Ordered!Next
<1>11. CASE u = "NEW" /\ js = <<>>
  BY <1>11, Zenon DEF Ordered!Reset, Ordered!Next
<1>12. ASSUME NEW k \in Keys, Ordered!Add(k) \/ Ordered!Discard(k) \/ Ordered!Contains(k)
       PROVE  Ordered!Next
  BY <1>12, Zenon DEF Ordered!Next
<1>13. QED
  BY <1>4, <1>5, <1>6, <1>7, <1>8, <1>9, <1>10, <1>11, <1>12 DEF SetStep

LEMMA KeysHere ==
  ASSUME TableInv
  PROVE  SetItems = KeysOf(keys) /\ (used = 0 => SetItems = <<>>)
<1>1. Live(keys) \in Seq(EntrySet)
  BY NoItems
<1>2. SetItems = KeysOf(keys)
  BY <1>1, KeysAre, Zenon DEF SetItems, KeysOf
<1>3. used = 0 => SetItems = <<>>
  BY <1>2, NoItems, EmptyAlong DEF KeysOf
<1>4. QED
  BY <1>2, <1>3

(* The typed set behaves as a set that remembers the order of insertion:   *)
(* each call of numba/cext/setobject.c changes its items as the call of    *)
(* OrderedSet with the same status does, or changes nothing, and `in` and  *)
(* add() say truly whether the item was there.                             *)
THEOREM TypedSetImplementsSet == ContainersSpec => ImplementsSet
<1>1. Init3 => Ordered!Init
  <2> SUFFICES ASSUME Init3 PROVE Ordered!Init
    OBVIOUS
  <2>1. TableInv /\ used = 0 /\ status = "NEW"
    BY TableInit DEF Init3, Init
  <2>2. SetItems = <<>>
    BY <2>1, KeysHere
  <2>3. QED
    BY <2>1, <2>2 DEF Ordered!Init
<1>2. TableInv => SetItems = KeysOf(keys)
  BY KeysHere
<1>3. (TableInv => SetItems = KeysOf(keys))'
  BY <1>2, PTL
<1>4. HashInv /\ HashInv' /\ [Next3]_<<vars, listvars, kind>> => [Ordered!Next]_Ordered!vars
  <2> SUFFICES ASSUME HashInv, HashInv', [Next3]_<<vars, listvars, kind>>
               PROVE  [Ordered!Next]_Ordered!vars
    OBVIOUS
  <2>1. SetItems = KeysOf(keys) /\ SetItems' = KeysOf(keys')
    <3>1. TableInv /\ TableInv'
      BY DEF HashInv
    <3>2. QED
      BY <1>2, <1>3, <3>1
  <2>2. CASE kind = "Set" /\ SetNext /\ UNCHANGED <<listvars, kind>>
    <3>1. kind = "Set" /\ kind' = "Set" /\ SetNext
      BY <2>2
    <3>2. CASE SetStep(KeysOf(keys), KeysOf(keys'), status')
      <4>1. PICK is : is = IF kind = "Set" THEN SetItems ELSE <<>>
        OBVIOUS
      <4>2. PICK js : js = IF kind' = "Set" THEN SetItems' ELSE <<>>
        OBVIOUS
      <4>3. PICK u : u = IF kind' = "Set" THEN status' ELSE "NEW"
        OBVIOUS
      <4>4. SetStep(is, js, u)
        BY <2>1, <3>1, <3>2, <4>1, <4>2, <4>3, Zenon
      <4>5. Ordered!Next
        BY <4>1, <4>2, <4>3, <4>4, SetStepIs, Zenon
      <4>6. QED
        BY <4>5
    <3>3. CASE KeysOf(keys') = KeysOf(keys) /\ status' = status
      BY <2>1, <3>1, <3>3 DEF Ordered!vars
    <3>4. QED
      BY <3>1, <3>2, <3>3, SetStepMaps DEF HashInv
  <2>3. CASE kind # "Set" /\ UNCHANGED kind
    BY <2>3 DEF Ordered!vars
  <2>4. CASE UNCHANGED <<vars, listvars, kind>>
    BY <2>1, <2>4 DEF Ordered!vars, vars
  <2>5. QED
    BY <2>2, <2>3, <2>4 DEF Next3
<1>5. QED
  BY <1>1, <1>4, HashInvAlways, PTL DEF ContainersSpec, ImplementsSet, Ordered!Spec

=============================================================================
