------------------------------ MODULE ListProofs ------------------------------
(***************************************************************************)
(* The paged lists, for any number of rows, pages and writes in between:   *)
(* what LIMIT and OFFSET over a changing result can hide from a client,    *)
(* and what they can show twice.                                           *)
(*                                                                         *)
(* Behind a given offset there are as many rows as before it, whatever     *)
(* happens, so one row that leaves pulls at most one other across the      *)
(* offset the client has come to, and one that comes in pushes at most one *)
(* back.  The invariant counts those that crossed.                         *)
(***************************************************************************)
EXTENDS ReadersProofs

(***************************************************************************)
(* Offsets in an ordered finite set                                        *)
(***************************************************************************)
\* The offset of x in S, ordered by c from the highest down.
Offset(c, x, S) == Cardinality({y \in S : c[y] > c[x]})

\* c tells the members of S apart.
Orders(c, S) ==
    /\ IsFiniteSet(S)
    /\ \A x \in S : c[x] \in Nat
    /\ \A x, y \in S : c[x] = c[y] => x = y

\* The rows before offset m.
First(c, S, m) == {x \in S : Offset(c, x, S) < m}

LEMMA OffsetRange ==
    ASSUME NEW c, NEW S, Orders(c, S), NEW x \in S
    PROVE  /\ IsFiniteSet(S) /\ Cardinality(S) \in Nat
           /\ Offset(c, x, S) \in 0 .. Cardinality(S) - 1
  <1>1. IsFiniteSet(S) /\ Cardinality(S) \in Nat
    BY FS_CardinalityType DEF Orders
  <1>2. PICK A : A = {y \in S : c[y] > c[x]}
    OBVIOUS
  <1>3. A \in SUBSET (S \ {x})
    BY <1>2 DEF Orders
  <1>4. IsFiniteSet(S \ {x}) /\ Cardinality(S \ {x}) = Cardinality(S) - 1
    BY <1>1, FS_RemoveElement
  <1>5. IsFiniteSet(A) /\ Cardinality(A) <= Cardinality(S) - 1
    BY <1>3, <1>4, FS_Subset
  <1>6. Cardinality(A) \in Nat
    BY <1>5, FS_CardinalityType
  <1>. QED BY <1>1, <1>2, <1>5, <1>6 DEF Offset

LEMMA OffsetOrder ==
    ASSUME NEW c, NEW S, Orders(c, S), NEW x \in S, NEW y \in S
    PROVE  c[y] > c[x] <=> Offset(c, y, S) < Offset(c, x, S)
  <1>1. ASSUME NEW u \in S, NEW v \in S, c[u] > c[v]
        PROVE  Offset(c, u, S) < Offset(c, v, S)
    <2>1. PICK A, B : A = {z \in S : c[z] > c[u]} /\ B = {z \in S : c[z] > c[v]}
      OBVIOUS
    <2>2. IsFiniteSet(A) /\ IsFiniteSet(B)
      BY <2>1, FS_Subset DEF Orders
    <2>3. A \cup {u} \in SUBSET B /\ u \notin A
      BY <1>1, <2>1 DEF Orders
    <2>4. Cardinality(A \cup {u}) = Cardinality(A) + 1
      BY <2>2, <2>3, FS_AddElement
    <2>5. Cardinality(A \cup {u}) <= Cardinality(B)
      BY <2>2, <2>3, FS_Subset
    <2>6. Cardinality(A) \in Nat /\ Cardinality(B) \in Nat
      BY <2>2, FS_CardinalityType
    <2>. QED BY <2>1, <2>4, <2>5, <2>6 DEF Offset
  <1>2. Offset(c, x, S) \in Nat /\ Offset(c, y, S) \in Nat
    BY OffsetRange
  <1>3. CASE c[y] > c[x]
    BY <1>1, <1>3
  <1>4. CASE c[x] > c[y]
    BY <1>1, <1>2, <1>4 DEF Orders
  <1>5. CASE x = y
    BY <1>2, <1>5 DEF Orders
  <1>. QED BY <1>3, <1>4, <1>5 DEF Orders

\* Every offset is taken: there are m rows before offset m, or all there are.
LEMMA FirstCount ==
    ASSUME NEW c, NEW S, Orders(c, S), NEW m \in Nat
    PROVE  /\ IsFiniteSet(First(c, S, m))
           /\ Cardinality(First(c, S, m)) = IF m <= Cardinality(S) THEN m ELSE Cardinality(S)
  <1>1. PICK k \in Nat : k = Cardinality(S) /\ IsFiniteSet(S)
    BY FS_CardinalityType DEF Orders
  <1>2. PICK f : f = [x \in S |-> Offset(c, x, S)]
    OBVIOUS
  <1>3. f \in Injection(S, 0 .. k - 1)
    <2>1. f \in [S -> 0 .. k - 1]
      BY <1>1, <1>2, OffsetRange
    <2>2. ASSUME NEW x \in S, NEW y \in S, f[x] = f[y] PROVE x = y
      <3>1. Offset(c, x, S) = Offset(c, y, S) /\ Offset(c, x, S) \in Nat
        BY <1>2, <2>2, OffsetRange
      <3>2. ~(c[y] > c[x]) /\ ~(c[x] > c[y])
        BY <3>1, OffsetOrder
      <3>. QED BY <3>2 DEF Orders
    <2>. QED BY <2>1, <2>2 DEF Injection, IsInjective
  <1>4. IsFiniteSet(0 .. k - 1) /\ Cardinality(0 .. k - 1) = k
    BY FS_Interval
  <1>5. f \in Surjection(S, 0 .. k - 1)
    BY <1>1, <1>3, <1>4, FS_Injection
  <1>6. PICK n \in Nat : n = IF m <= k THEN m ELSE k
    OBVIOUS
  <1>7. PICK F : F = First(c, S, m)
    OBVIOUS
  <1>8. IsFiniteSet(0 .. n - 1) /\ Cardinality(0 .. n - 1) = n
    BY FS_Interval
  <1>9. [x \in F |-> f[x]] \in Bijection(F, 0 .. n - 1)
    <2>1. \A x \in F : x \in S /\ f[x] \in 0 .. n - 1
      BY <1>2, <1>3, <1>6, <1>7 DEF First, Injection
    <2>2. \A i \in 0 .. n - 1 : \E x \in F : f[x] = i
      <3>. SUFFICES ASSUME NEW i \in 0 .. n - 1 PROVE \E x \in F : f[x] = i
        OBVIOUS
      <3>1. i \in 0 .. k - 1 /\ i < m
        BY <1>6
      <3>2. PICK x \in S : f[x] = i
        BY <1>5, <3>1 DEF Surjection
      <3>. QED BY <1>2, <1>7, <3>1, <3>2 DEF First
    <2>3. [x \in F |-> f[x]] \in Injection(F, 0 .. n - 1)
      BY <1>3, <2>1 DEF Injection, IsInjective
    <2>4. [x \in F |-> f[x]] \in Surjection(F, 0 .. n - 1)
      BY <2>1, <2>2 DEF Surjection
    <2>. QED BY <2>3, <2>4 DEF Bijection
  <1>10. F \in SUBSET S
    BY <1>7 DEF First
  <1>11. IsFiniteSet(F)
    BY <1>1, <1>10, FS_Subset
  <1>12. ExistsBijection(F, 0 .. n - 1)
    BY <1>9 DEF ExistsBijection
  <1>. QED BY <1>1, <1>6, <1>7, <1>8, <1>11, <1>12, FS_Bijection

\* The rows that come to lie before offset m as S becomes T.
Crossed(c, S, T, m) == {x \in S \cap T : Offset(c, x, S) >= m /\ Offset(c, x, T) < m}

LEMMA DisjointUnion ==
    ASSUME NEW A, NEW B, IsFiniteSet(A), IsFiniteSet(B), A \cap B = {}
    PROVE  /\ IsFiniteSet(A \cup B)
           /\ Cardinality(A) \in Nat /\ Cardinality(B) \in Nat
           /\ Cardinality(A \cup B) = Cardinality(A) + Cardinality(B)
  <1>1. /\ IsFiniteSet(A \cup B)
        /\ Cardinality(A \cup B) = Cardinality(A) + Cardinality(B) - Cardinality(A \cap B)
    BY FS_Union
  <1>2. Cardinality(A \cap B) = 0
    BY FS_EmptySet
  <1>3. Cardinality(A) \in Nat /\ Cardinality(B) \in Nat
    BY FS_CardinalityType
  <1>. QED BY <1>1, <1>2, <1>3

\* As S becomes T, no more rows cross offset m towards the front than leave before it.
LEMMA Crossing ==
    ASSUME NEW c, NEW S, NEW T, Orders(c, S), Orders(c, T), NEW m \in Nat
    PROVE  /\ IsFiniteSet(Crossed(c, S, T, m))
           /\ Cardinality(Crossed(c, S, T, m)) <= Cardinality(First(c, S, m) \ T)
  <1>. DEFINE X == Crossed(c, S, T, m)
  <1>0. X = {x \in S \cap T : Offset(c, x, S) >= m /\ Offset(c, x, T) < m}
    BY DEF Crossed
  <1>. HIDE DEF X
  <1>. SUFFICES IsFiniteSet(X) /\ Cardinality(X) <= Cardinality(First(c, S, m) \ T)
    BY DEF X
  <1>1. PICK A, B : A = First(c, S, m) /\ B = First(c, T, m)
    OBVIOUS
  <1>2. /\ IsFiniteSet(A) /\ IsFiniteSet(B)
        /\ Cardinality(A) \in Nat /\ Cardinality(B) \in Nat
        /\ Cardinality(B) <= m
    <2>1. IsFiniteSet(A) /\ IsFiniteSet(B)
      BY <1>1, FirstCount
    <2>2. Cardinality(T) \in Nat
      BY FS_CardinalityType DEF Orders
    <2>3. Cardinality(B) = IF m <= Cardinality(T) THEN m ELSE Cardinality(T)
      BY <1>1, FirstCount
    <2>. QED BY <2>1, <2>2, <2>3, FS_CardinalityType
  <1>3. X \in SUBSET B
    BY <1>0, <1>1 DEF First
  <1>4. IsFiniteSet(X) /\ Cardinality(X) \in Nat
    BY <1>2, <1>3, FS_Subset, FS_CardinalityType
  <1>5. /\ IsFiniteSet(A \ T) /\ Cardinality(A \ T) \in Nat
        /\ IsFiniteSet(A \cap T) /\ Cardinality(A \cap T) \in Nat
        /\ Cardinality(A \ T) = Cardinality(A) - Cardinality(A \cap T)
    BY <1>2, FS_Difference, FS_Intersection, FS_CardinalityType
  <1>6. CASE X = {}
    BY <1>1, <1>4, <1>5, <1>6, FS_EmptySet
  <1>7. CASE X # {}
    <2>1. PICK x \in X : TRUE
      BY <1>7
    <2>2. x \in S /\ x \in T /\ Offset(c, x, S) >= m /\ Offset(c, x, T) < m
      BY <1>0
    <2>3. Cardinality(A) = m
      BY <1>1, <2>2, FirstCount, OffsetRange
    <2>4. A \cap T \in SUBSET B
      <3>. SUFFICES ASSUME NEW y \in A \cap T PROVE y \in B
        OBVIOUS
      <3>1. y \in S /\ y \in T /\ Offset(c, y, S) < m
        BY <1>1 DEF First
      <3>2. /\ Offset(c, x, S) \in Nat /\ Offset(c, y, S) \in Nat
            /\ Offset(c, x, T) \in Nat /\ Offset(c, y, T) \in Nat
        BY <2>2, <3>1, OffsetRange
      <3>3. c[y] > c[x]
        BY <2>2, <3>1, <3>2, OffsetOrder
      <3>4. Offset(c, y, T) < Offset(c, x, T)
        BY <2>2, <3>1, <3>3, OffsetOrder
      <3>5. Offset(c, y, T) < m
        BY <2>2, <3>2, <3>4
      <3>. QED BY <1>1, <3>1, <3>5 DEF First
    <2>5. X \cap (A \cap T) = {}
      <3>1. ASSUME NEW y \in X PROVE y \notin A
        <4>1. y \in S /\ Offset(c, y, S) >= m
          BY <1>0
        <4>2. Offset(c, y, S) \in Nat
          BY <4>1, OffsetRange
        <4>. QED BY <1>1, <4>1, <4>2 DEF First
      <3>. QED BY <3>1
    <2>6. Cardinality(X \cup (A \cap T)) = Cardinality(X) + Cardinality(A \cap T)
      BY <1>4, <1>5, <2>5, DisjointUnion
    <2>7. Cardinality(X \cup (A \cap T)) <= Cardinality(B)
      BY <1>2, <1>3, <2>4, FS_Subset
    <2>. QED BY <1>1, <1>2, <1>4, <1>5, <2>3, <2>6, <2>7
  <1>. QED BY <1>4, <1>6, <1>7

(***************************************************************************)
(* The invariant                                                           *)
(***************************************************************************)
Tables == {HouseholdId, PickupId, PaymentId}

\* c tells the rows of a table apart, once they have a rank.
Ranked(c) ==
    /\ c \in [Row -> Nat]
    /\ \A K \in Tables : \A x, y \in K : c[x] = c[y] /\ c[x] # 0 => x = y

\* created_at orders the rows of a table.
CreatedInv ==
    /\ Ranked(created)
    /\ \A x \in RowsOf(households, pickups, payments) : created[x] # 0

WalkReader ==
    [at : {"count", "select", "walked"}, list : List, perPage : PerPage, page : Nat \ {0},
     total : Nat, got : SUBSET Row, repeated : Nat]

WalkWatch ==
    [at : {"walk"}, stayed : SUBSET Row, left : Nat, joined : Nat, joinedSinceCount : Nat]

\* The offset the client has come to.
Asked == (reader.page - 1) * reader.perPage

\* Rows that were there all the time and crossed it towards the front, untold.
Missed(m) == {x \in during.stayed \ reader.got : Before(x, Result(reader.list)) < m}

\* Rows that crossed it towards the end, and will be told again.
Again(m) == {x \in reader.got \cap Result(reader.list) : Before(x, Result(reader.list)) >= m}

WalkInv ==
    reader.at \in {"count", "select", "walked"} =>
        /\ reader \in WalkReader
        /\ during \in WalkWatch
        /\ during.stayed \subseteq Result(reader.list)
        /\ reader.at # "walked" =>
              /\ Cardinality(Missed(Asked)) <= during.left
              /\ reader.repeated + Cardinality(Again(Asked)) <= during.joined
        /\ reader.at = "select" =>
              Cardinality(Result(reader.list)) <= reader.total + during.joinedSinceCount
        /\ WalkIsComplete

(***************************************************************************)
(* Pages                                                                   *)
(***************************************************************************)
LEMMA PageArithmetic ==
    ASSUME NEW page \in Nat \ {0}, NEW n \in Nat \ {0}
    PROVE  /\ (page - 1) * n \in Nat
           /\ page * n = (page - 1) * n + n
           /\ ((page + 1) - 1) * n = page * n
  <1>1. PICK k \in Nat : page = k + 1
    <2>1. page - 1 \in Nat /\ page = (page - 1) + 1
      OBVIOUS
    <2>. QED BY <2>1
  <1>2. k * n \in Nat
    OBVIOUS
  <1>3. (k + 1) * n = k * n + n
    OBVIOUS
  <1>4. page - 1 = k /\ (page + 1) - 1 = page
    BY <1>1
  <1>. QED BY <1>1, <1>2, <1>3, <1>4

\* The pages cover the total they are counted for.
LEMMA LastPage ==
    ASSUME NEW page \in Nat \ {0}, NEW n \in Nat \ {0}, NEW total \in Nat,
           ~(page < TotalPages(total, n))
    PROVE  page * n >= total
  <1>1. CASE total = 0
    BY <1>1
  <1>2. CASE total # 0
    <2>1. PICK d : d = (total + n - 1) \div n
      OBVIOUS
    <2>2. d \in Nat /\ d * n >= total
      BY <1>2, <2>1
    <2>3. page >= d
      BY <1>2, <2>1, <2>2 DEF TotalPages
    <2>4. page * n >= d * n
      BY <2>2, <2>3
    <2>. QED BY <2>2, <2>4
  <1>. QED BY <1>1, <1>2

\* The untold rows of U before offset m, and the told ones behind it.
Untold(c, S, U, G, m) == {x \in U \ G : Offset(c, x, S) < m}
Told(c, S, G, m) == {x \in G \cap S : Offset(c, x, S) >= m}

\* As S becomes T, what was in S all the time and is now before m, and what was told
\* and is now behind it, grows by no more than what left and what came in.
LEMMA ShiftForward ==
    ASSUME NEW c, NEW S, NEW T, Orders(c, S), Orders(c, T), NEW m \in Nat,
           NEW U \in SUBSET S, NEW G
    PROVE  /\ Cardinality(Untold(c, S, U, G, m)) \in Nat
           /\ Cardinality(Untold(c, T, U \cap T, G, m)) \in Nat
           /\ Cardinality(Untold(c, T, U \cap T, G, m))
                <= Cardinality(Untold(c, S, U, G, m)) + Cardinality(S \ T)
  <1>0. PICK A, B : /\ A = Untold(c, S, U, G, m)
                    /\ B = Untold(c, T, U \cap T, G, m)
    OBVIOUS
  <1>1. PICK X, L : X = Crossed(c, S, T, m) /\ L = First(c, S, m) \ T
    OBVIOUS
  <1>2. IsFiniteSet(X) /\ Cardinality(X) <= Cardinality(L)
    BY <1>1, Crossing
  <1>3. /\ L \in SUBSET (S \ T) /\ A \in SUBSET S
        /\ S \ T \in SUBSET S /\ IsFiniteSet(S) /\ IsFiniteSet(T)
    BY <1>0, <1>1 DEF First, Orders, Untold
  <1>4. B \in SUBSET (A \cup X)
    <2>. SUFFICES ASSUME NEW x \in B, x \notin A PROVE x \in X
      OBVIOUS
    <2>1. x \in S /\ x \in T /\ Offset(c, x, T) < m /\ ~(Offset(c, x, S) < m)
      BY <1>0 DEF Untold
    <2>2. Offset(c, x, S) \in Nat
      BY <2>1, OffsetRange
    <2>. QED BY <1>1, <2>1, <2>2 DEF Crossed
  <1>5. IsFiniteSet(S \ T) /\ IsFiniteSet(A)
    BY <1>3, FS_Subset
  <1>6. IsFiniteSet(L) /\ Cardinality(L) <= Cardinality(S \ T)
    BY <1>3, <1>5, FS_Subset
  <1>7. /\ IsFiniteSet(A \cup X)
        /\ Cardinality(A \cup X) = Cardinality(A) + Cardinality(X) - Cardinality(A \cap X)
        /\ IsFiniteSet(A \cap X)
    BY <1>2, <1>5, FS_Union, FS_Intersection
  <1>8. IsFiniteSet(B) /\ Cardinality(B) <= Cardinality(A \cup X)
    BY <1>4, <1>7, FS_Subset
  <1>9. /\ Cardinality(A) \in Nat /\ Cardinality(B) \in Nat /\ Cardinality(S \ T) \in Nat
        /\ Cardinality(X) \in Nat /\ Cardinality(L) \in Nat /\ Cardinality(A \cap X) \in Nat
    BY <1>2, <1>5, <1>6, <1>7, <1>8, FS_CardinalityType
  <1>. QED BY <1>0, <1>2, <1>6, <1>7, <1>8, <1>9

LEMMA ShiftBack ==
    ASSUME NEW c, NEW S, NEW T, Orders(c, S), Orders(c, T), NEW m \in Nat, NEW G
    PROVE  /\ Cardinality(Told(c, S, G, m)) \in Nat /\ Cardinality(Told(c, T, G, m)) \in Nat
           /\ Cardinality(Told(c, T, G, m)) <= Cardinality(Told(c, S, G, m)) + Cardinality(T \ S)
  <1>0. PICK A, B : A = Told(c, S, G, m) /\ B = Told(c, T, G, m)
    OBVIOUS
  <1>1. PICK Y, J, Z :
           /\ Y = Crossed(c, T, S, m)
           /\ J = First(c, T, m) \ S
           /\ Z = {x \in T \ S : Offset(c, x, T) >= m}
    OBVIOUS
  <1>2. IsFiniteSet(Y) /\ Cardinality(Y) <= Cardinality(J)
    BY <1>1, Crossing
  <1>3. /\ J \in SUBSET (T \ S) /\ Z \in SUBSET (T \ S) /\ A \in SUBSET S
        /\ T \ S \in SUBSET T /\ IsFiniteSet(S) /\ IsFiniteSet(T)
    BY <1>0, <1>1 DEF First, Orders, Told
  <1>4. B \in SUBSET (A \cup (Y \cup Z))
    <2>. SUFFICES ASSUME NEW x \in B, x \notin A, x \notin Z PROVE x \in Y
      OBVIOUS
    <2>1. x \in S /\ x \in T /\ Offset(c, x, T) >= m /\ ~(Offset(c, x, S) >= m)
      BY <1>0, <1>1 DEF Told
    <2>2. Offset(c, x, S) \in Nat
      BY <2>1, OffsetRange
    <2>. QED BY <1>1, <2>1, <2>2 DEF Crossed
  <1>5. J \cap Z = {}
    <2>1. ASSUME NEW x \in Z PROVE x \notin J
      <3>1. x \in T /\ Offset(c, x, T) >= m
        BY <1>1
      <3>2. Offset(c, x, T) \in Nat
        BY <3>1, OffsetRange
      <3>. QED BY <1>1, <3>1, <3>2 DEF First
    <2>. QED BY <2>1
  <1>6. IsFiniteSet(T \ S) /\ IsFiniteSet(A)
    BY <1>3, FS_Subset
  <1>7. IsFiniteSet(J) /\ IsFiniteSet(Z)
    BY <1>3, <1>6, FS_Subset
  <1>8. /\ Cardinality(J) \in Nat /\ Cardinality(Z) \in Nat
        /\ Cardinality(J \cup Z) = Cardinality(J) + Cardinality(Z)
    BY <1>5, <1>7, DisjointUnion
  <1>9. Cardinality(J \cup Z) <= Cardinality(T \ S)
    <2>1. J \cup Z \in SUBSET (T \ S)
      BY <1>3
    <2>. QED BY <1>6, <2>1, FS_Subset
  <1>10. /\ IsFiniteSet(Y \cup Z) /\ Cardinality(Y) \in Nat /\ Cardinality(Z) \in Nat
         /\ Cardinality(Y \cup Z) = Cardinality(Y) + Cardinality(Z)
    <2>1. Y \cap Z = {}
      BY <1>1 DEF Crossed
    <2>. QED BY <1>2, <1>7, <2>1, DisjointUnion
  <1>11. /\ IsFiniteSet(A \cup (Y \cup Z)) /\ IsFiniteSet(A \cap (Y \cup Z))
         /\ Cardinality(A \cup (Y \cup Z)) =
               Cardinality(A) + Cardinality(Y \cup Z) - Cardinality(A \cap (Y \cup Z))
    BY <1>6, <1>10, FS_Union, FS_Intersection
  <1>12. IsFiniteSet(B) /\ Cardinality(B) <= Cardinality(A \cup (Y \cup Z))
    BY <1>4, <1>11, FS_Subset
  <1>13. /\ Cardinality(A) \in Nat /\ Cardinality(B) \in Nat /\ Cardinality(T \ S) \in Nat
         /\ Cardinality(A \cap (Y \cup Z)) \in Nat
    BY <1>6, <1>11, <1>12, FS_CardinalityType
  <1>. QED BY <1>0, <1>2, <1>8, <1>9, <1>10, <1>11, <1>12, <1>13

(***************************************************************************)
(* Rows and results                                                        *)
(***************************************************************************)
LEMMA OneNewRow ==
    ASSUME TablesType, ContractNext
    PROVE  \E z : RowsOf(households', pickups', payments')
                     \ RowsOf(households, pickups, payments) \subseteq {z}
  <1>. USE NoRowAssumption DEF TablesType, RowsOf, Has
  <1>1. ASSUME NEW z, households' \subseteq households \cup {z},
               \A x \in PickupId : pickups'[x] # NoRow => pickups[x] # NoRow \/ x = z,
               \A x \in PaymentId : payments'[x] # NoRow => payments[x] # NoRow \/ x = z
        PROVE  \E y : RowsOf(households', pickups', payments')
                         \ RowsOf(households, pickups, payments) \subseteq {y}
    BY <1>1
  <1>2. ASSUME NEW h \in HouseholdId, Join(h) \/ Leave(h)
        PROVE  \E y : RowsOf(households', pickups', payments')
                         \ RowsOf(households, pickups, payments) \subseteq {y}
    <2>1. /\ households' \subseteq households \cup {h}
          /\ \A x \in PickupId : pickups'[x] # NoRow => pickups[x] # NoRow
          /\ \A x \in PaymentId : payments'[x] # NoRow => payments[x] # NoRow
      BY <1>2 DEF Join, Leave
    <2>. QED BY <1>1, <2>1
  <1>3. ASSUME NEW p \in PickupId, NEW h \in HouseholdId, NEW t \in Types, NEW s \in BOOLEAN,
               Ask(p, h, t, s)
        PROVE  \E y : RowsOf(households', pickups', payments')
                         \ RowsOf(households, pickups, payments) \subseteq {y}
    <2>1. /\ UNCHANGED <<households, payments>>
          /\ \A x \in PickupId : x # p => pickups'[x] = pickups[x]
      BY <1>3 DEF Ask
    <2>. QED BY <1>1, <2>1
  <1>4. ASSUME NEW p \in PickupId, NEW d \in PickupDate, Plan(p, d)
        PROVE  \E y : RowsOf(households', pickups', payments')
                         \ RowsOf(households, pickups, payments) \subseteq {y}
    <2>1. /\ UNCHANGED <<households, payments>>
          /\ \A x \in PickupId : x # p => pickups'[x] = pickups[x]
      BY <1>4 DEF Plan
    <2>. QED BY <1>1, <2>1
  <1>5. ASSUME NEW p \in PickupId, NEW q \in PaymentId, Bill(p, q),
               UNCHANGED pickups \/ pickups' = [pickups EXCEPT ![p].status = "completed"]
        PROVE  \E y : RowsOf(households', pickups', payments')
                         \ RowsOf(households, pickups, payments) \subseteq {y}
    <2>1. /\ households' = households
          /\ pickups[p] # NoRow
          /\ \A x \in PickupId : x # p => pickups'[x] = pickups[x]
          /\ \A x \in PaymentId : x # q => payments'[x] = payments[x]
      BY <1>5 DEF Bill
    <2>2. \A x \in PickupId : pickups'[x] # NoRow => pickups[x] # NoRow
      BY <2>1
    <2>. QED BY <1>1, <2>1, <2>2
  <1>6. ASSUME NEW P \in SUBSET PickupId, Cancel(P)
        PROVE  \E y : RowsOf(households', pickups', payments')
                         \ RowsOf(households, pickups, payments) \subseteq {y}
    <2>1. /\ UNCHANGED <<households, payments>>
          /\ \A x \in PickupId : pickups'[x] # NoRow => pickups[x] # NoRow
      BY <1>6 DEF Cancel
    <2>. QED BY <1>1, <2>1
  <1>7. ASSUME NEW q \in PaymentId, NEW u \in ProofId, Pay(q, u)
        PROVE  \E y : RowsOf(households', pickups', payments')
                         \ RowsOf(households, pickups, payments) \subseteq {y}
    <2>1. /\ UNCHANGED <<households, pickups>>
          /\ \A x \in PaymentId : x # q => payments'[x] = payments[x]
      BY <1>7 DEF Pay
    <2>. QED BY <1>1, <2>1
  <1>. QED BY <1>2, <1>3, <1>4, <1>5, <1>6, <1>7 DEF ContractNext, Collect, BillOnly

\* The rank of a new row is no other's of its table.
LEMMA CreatedStep ==
    ASSUME TablesType, TablesType', CreatedInv, Write
    PROVE  /\ CreatedInv'
           /\ \A x \in RowsOf(households, pickups, payments) : created'[x] = created[x]
  <1>1. PICK old, now : /\ old = RowsOf(households, pickups, payments)
                        /\ now = RowsOf(households', pickups', payments')
    OBVIOUS
  <1>2. old \subseteq Row /\ now \subseteq Row
    BY <1>1 DEF TablesType, RowsOf, Row
  <1>3. PICK z : now \ old \subseteq {z}
    BY <1>1, OneNewRow DEF Write
  <1>4. CASE now \ old = {} /\ UNCHANGED created
    BY <1>1, <1>4 DEF CreatedInv, Ranked
  <1>5. ASSUME NEW x \in now \ old, NEW t \in Ranks(x),
               created[x] = 0, created' = [created EXCEPT ![x] = t]
        PROVE  /\ CreatedInv'
               /\ \A y \in old : created'[y] = created[y]
    <2>1. PICK K \in Tables : x \in K
      BY <1>2 DEF Tables, Row
    <2>2. \A J \in Tables : x \in J => J = K
      BY <2>1, KeysAssumption DEF Tables
    <2>3. Ranks(x) = (1 .. Cardinality(K)) \ {created[y] : y \in K}
      <3>1. (CHOOSE J \in {HouseholdId, PickupId, PaymentId} : x \in J) = K
        BY <2>1, <2>2 DEF Tables
      <3>. QED BY <3>1 DEF Ranks
    <2>4. t \in Nat /\ t # 0 /\ \A y \in K : created[y] # t
      <3>1. Cardinality(K) \in Nat
        BY <2>1, FiniteAssumption, FS_CardinalityType DEF Tables
      <3>. QED BY <2>3, <3>1
    <2>5. /\ created' \in [Row -> Nat]
          /\ created'[x] = t
          /\ \A y \in Row : y # x => created'[y] = created[y]
      BY <1>2, <1>5, <2>4 DEF CreatedInv, Ranked
    <2>6. \A y \in now : created'[y] # 0
      BY <1>1, <1>2, <1>3, <2>4, <2>5 DEF CreatedInv, Ranked
    <2>7. ASSUME NEW J \in Tables, NEW u \in J, NEW v \in J,
                 created'[u] = created'[v], created'[u] # 0
          PROVE  u = v
      <3>1. u \in Row /\ v \in Row
        BY DEF Tables, Row
      <3>2. CASE u # x /\ v # x
        BY <2>5, <2>7, <3>1, <3>2 DEF CreatedInv, Ranked
      <3>3. CASE u = x
        BY <2>2, <2>4, <2>5, <2>7, <3>1, <3>3
      <3>4. CASE v = x
        BY <2>2, <2>4, <2>5, <2>7, <3>1, <3>4
      <3>. QED BY <3>2, <3>3, <3>4
    <2>. QED BY <1>1, <1>2, <2>5, <2>6, <2>7 DEF CreatedInv, Ranked
  <1>. QED BY <1>1, <1>4, <1>5 DEF Write

\* A list shows rows of one table.
LEMMA ResultFits ==
    ASSUME NEW list \in List, NEW h \in SUBSET HouseholdId, NEW p, NEW q
    PROVE  \E K \in Tables : ResultIn(list, h, p, q) \subseteq K \cap RowsOf(h, p, q)
  <1>1. list.table \in {"households", "pickups", "payments"}
    BY DEF List
  <1>2. CASE list.table = "households"
    BY <1>2 DEF ResultIn, RowsOf, Tables
  <1>3. CASE list.table = "pickups"
    BY <1>3 DEF ResultIn, RowsOf, Tables, Where
  <1>4. CASE list.table = "payments"
    BY <1>4 DEF ResultIn, RowsOf, Tables, Where
  <1>. QED BY <1>1, <1>2, <1>3, <1>4

LEMMA RowsAreOrdered ==
    ASSUME NEW c, Ranked(c), NEW K \in Tables, NEW S \in SUBSET K, \A x \in S : c[x] # 0
    PROVE  Orders(c, S)
  <1>1. IsFiniteSet(S)
    BY FiniteAssumption, FS_Subset DEF Tables
  <1>2. \A x \in S : c[x] \in Nat
    BY DEF Ranked, Tables, Row
  <1>. QED BY <1>1, <1>2 DEF Orders, Ranked

(***************************************************************************)
(* The steps of a walk                                                     *)
(***************************************************************************)
LEMMA WalkWriteStep ==
    ASSUME ReadersInv, CreatedInv, WalkInv, Write
    PROVE  WalkInv'
  <1>. SUFFICES ASSUME reader.at \in {"count", "select", "walked"}
                PROVE  WalkInv'
    BY DEF Write, WalkInv, WalkIsComplete
  <1>1. /\ reader \in WalkReader /\ during \in WalkWatch
        /\ during.stayed \subseteq Result(reader.list) /\ reader' = reader
    BY DEF WalkInv, Write
  <1>2. PICK list, R, S :
           /\ list \in List /\ list = reader.list
           /\ R = Result(list) /\ S = ResultIn(list, households', pickups', payments')
    BY <1>1 DEF WalkReader
  <1>3. /\ during' = WalkDuring(R, S)
        /\ Result(reader.list)' = S
    BY <1>1, <1>2 DEF Write, WalkWatch, Result
  <1>4. /\ TablesType /\ TablesType'
        /\ CreatedInv'
        /\ \A x \in RowsOf(households, pickups, payments) : created'[x] = created[x]
    BY WritesKeepTables, CreatedStep DEF ReadersInv, Write
  <1>5. PICK c : c = created'
    OBVIOUS
  <1>6. Orders(c, R) /\ R \subseteq Row /\ \A x \in R : c[x] = created[x]
    <2>1. PICK K \in Tables : R \subseteq K \cap RowsOf(households, pickups, payments)
      BY <1>2, <1>4, ResultFits DEF Result, TablesType
    <2>2. \A x \in R : c[x] = created[x] /\ c[x] # 0
      BY <1>4, <1>5, <2>1 DEF CreatedInv
    <2>3. Orders(c, R)
      BY <1>4, <1>5, <2>1, <2>2, RowsAreOrdered DEF CreatedInv
    <2>. QED BY <2>1, <2>2, <2>3 DEF Tables, Row
  <1>7. Orders(c, S)
    <2>1. PICK K \in Tables : S \subseteq K \cap RowsOf(households', pickups', payments')
      BY <1>2, <1>4, ResultFits DEF TablesType
    <2>2. \A x \in S : c[x] # 0
      BY <1>4, <1>5, <2>1 DEF CreatedInv
    <2>. QED BY <1>4, <1>5, <2>1, <2>2, RowsAreOrdered DEF CreatedInv
  <1>8. PICK l, j : l = Cardinality(R \ S) /\ j = Cardinality(S \ R)
    OBVIOUS
  <1>9. /\ l \in Nat /\ j \in Nat
        /\ during' \in WalkWatch
        /\ during'.stayed = during.stayed \cap S
        /\ during'.left = during.left + l
        /\ during'.joined = during.joined + j
        /\ during'.joinedSinceCount = during.joinedSinceCount + j
    <2>1. IsFiniteSet(R \ S) /\ IsFiniteSet(S \ R)
      BY <1>6, <1>7, FS_Difference DEF Orders
    <2>2. l \in Nat /\ j \in Nat
      BY <1>8, <2>1, FS_CardinalityType
    <2>3. during' = [during EXCEPT !.stayed = @ \cap S, !.left = @ + l,
                                   !.joined = @ + j, !.joinedSinceCount = @ + j]
      BY <1>3, <1>8 DEF WalkDuring
    <2>4. during.stayed \cap S \in SUBSET Row
      BY <1>1 DEF WalkWatch
    <2>5. /\ during.left + l \in Nat /\ during.joined + j \in Nat
          /\ during.joinedSinceCount + j \in Nat
      BY <1>1, <2>2 DEF WalkWatch
    <2>6. during' \in WalkWatch
      BY <1>1, <2>3, <2>4, <2>5 DEF WalkWatch
    <2>. QED BY <1>1, <2>2, <2>3, <2>6 DEF WalkWatch
  <1>10. PICK m, U, G : m = Asked /\ U = during.stayed /\ G = reader.got
    OBVIOUS
  <1>11. m \in Nat /\ U \in SUBSET R /\ Asked' = m
    <2>1. reader.page \in Nat \ {0} /\ reader.perPage \in Nat \ {0}
      BY <1>1, ReadersAssumption DEF WalkReader
    <2>. QED BY <1>1, <1>2, <1>10, <2>1, PageArithmetic DEF Asked
  <1>12. \A x \in R : Before(x, R) = Offset(c, x, R)
    <2>. SUFFICES ASSUME NEW x \in R PROVE Before(x, R) = Offset(c, x, R)
      OBVIOUS
    <2>1. {y \in R : created[y] > created[x]} = {y \in R : c[y] > c[x]}
      BY <1>6
    <2>. QED BY <2>1 DEF Before, Offset
  <1>13. PICK A, B, C, D :
            /\ A = Untold(c, R, U, G, m) /\ B = Untold(c, S, U \cap S, G, m)
            /\ C = Told(c, R, G, m)      /\ D = Told(c, S, G, m)
    OBVIOUS
  <1>14. Missed(m) = A /\ Again(m) = C
    BY <1>2, <1>10, <1>11, <1>12, <1>13 DEF Missed, Again, Untold, Told
  <1>15. Missed(m)' = B /\ Again(m)' = D
    BY <1>1, <1>3, <1>5, <1>9, <1>10, <1>13 DEF Missed, Again, Before, Offset, Untold, Told
  <1>16. /\ Cardinality(A) \in Nat /\ Cardinality(B) \in Nat
         /\ Cardinality(B) <= Cardinality(A) + l
    BY <1>6, <1>7, <1>8, <1>11, <1>13, ShiftForward
  <1>17. /\ Cardinality(C) \in Nat /\ Cardinality(D) \in Nat
         /\ Cardinality(D) <= Cardinality(C) + j
    BY <1>6, <1>7, <1>8, <1>11, <1>13, ShiftBack
  <1>18. reader.at # "walked" =>
            /\ Cardinality(Missed(m)') <= during'.left
            /\ reader.repeated + Cardinality(Again(m)') <= during'.joined
    <2>1. reader.at # "walked" => /\ Cardinality(A) <= during.left
                                  /\ reader.repeated + Cardinality(C) <= during.joined
      BY <1>10, <1>14 DEF WalkInv
    <2>2. during.left \in Nat /\ during.joined \in Nat /\ reader.repeated \in Nat
      BY <1>1 DEF WalkReader, WalkWatch
    <2>. QED BY <1>9, <1>15, <1>16, <1>17, <2>1, <2>2
  <1>19. reader.at = "select" => Cardinality(S) <= reader.total + during'.joinedSinceCount
    <2>1. reader.at = "select" => Cardinality(R) <= reader.total + during.joinedSinceCount
      BY <1>2 DEF WalkInv
    <2>2. IsFiniteSet(R) /\ IsFiniteSet(S \ R) /\ R \cap (S \ R) = {}
      BY <1>6, <1>7, FS_Difference DEF Orders
    <2>3. /\ IsFiniteSet(R \cup (S \ R)) /\ Cardinality(R) \in Nat
          /\ Cardinality(R \cup (S \ R)) = Cardinality(R) + j
      BY <1>8, <2>2, DisjointUnion
    <2>4. Cardinality(S) <= Cardinality(R \cup (S \ R))
      <3>1. S \in SUBSET (R \cup (S \ R))
        OBVIOUS
      <3>. QED BY <2>3, <3>1, FS_Subset
    <2>5. during.joinedSinceCount \in Nat /\ reader.total \in Nat /\ Cardinality(S) \in Nat
      BY <1>1, <1>7, FS_CardinalityType DEF WalkReader, WalkWatch, Orders
    <2>. QED BY <1>9, <2>1, <2>3, <2>4, <2>5
  <1>20. WalkIsComplete'
    <2>. SUFFICES ASSUME reader.at = "walked"
                  PROVE  /\ Cardinality(during'.stayed \ G)
                               <= during'.left + during'.joinedSinceCount
                         /\ reader.repeated <= during'.joined
      BY <1>1, <1>10 DEF WalkIsComplete
    <2>1. /\ Cardinality(U \ G) <= during.left + during.joinedSinceCount
          /\ reader.repeated <= during.joined
      BY <1>10 DEF WalkInv, WalkIsComplete
    <2>2. IsFiniteSet(U \ G)
      BY <1>6, <1>11, FS_Subset, FS_Difference DEF Orders
    <2>3. (U \cap S) \ G \in SUBSET (U \ G)
      OBVIOUS
    <2>4. /\ Cardinality((U \cap S) \ G) <= Cardinality(U \ G)
          /\ Cardinality((U \cap S) \ G) \in Nat /\ Cardinality(U \ G) \in Nat
      BY <2>2, <2>3, FS_Subset, FS_CardinalityType
    <2>5. /\ during.left \in Nat /\ during.joined \in Nat /\ reader.repeated \in Nat
          /\ during.joinedSinceCount \in Nat
      BY <1>1 DEF WalkReader, WalkWatch
    <2>. QED BY <1>9, <1>10, <2>1, <2>4, <2>5
  <1>. QED BY <1>1, <1>3, <1>9, <1>10, <1>11, <1>18, <1>19, <1>20 DEF WalkInv

\* The rows of the list a client walks through have an order.
LEMMA ResultIsOrdered ==
    ASSUME TablesType, CreatedInv, NEW list \in List
    PROVE  Orders(created, Result(list)) /\ Result(list) \subseteq Row
  <1>1. PICK K \in Tables : Result(list) \subseteq K \cap RowsOf(households, pickups, payments)
    BY ResultFits DEF Result, TablesType
  <1>2. \A x \in Result(list) : created[x] # 0
    BY <1>1 DEF CreatedInv
  <1>3. Orders(created, Result(list))
    BY <1>1, <1>2, RowsAreOrdered DEF CreatedInv
  <1>. QED BY <1>1, <1>3 DEF Tables, Row

LEMMA StartWalkStep ==
    ASSUME ReadersInv, CreatedInv, NEW list \in List, NEW n \in PerPage, StartWalk(list, n)
    PROVE  WalkInv'
  <1>1. PICK R : R = Result(list) /\ R \subseteq Row
    BY ResultIsOrdered DEF ReadersInv
  <1>2. n \in Nat \ {0}
    BY ReadersAssumption
  <1>3. /\ reader' = [at |-> "count", list |-> list, perPage |-> n, page |-> 1,
                      total |-> 0, got |-> {}, repeated |-> 0]
        /\ during' = [at |-> "walk", stayed |-> R, left |-> 0, joined |-> 0,
                      joinedSinceCount |-> 0]
        /\ UNCHANGED <<households, pickups, payments, created>>
    BY <1>1 DEF StartWalk, contractVars
  <1>4. Result(list)' = R
    BY <1>1, <1>3 DEF Result
  <1>5. /\ reader' \in WalkReader /\ during' \in WalkWatch
        /\ reader'.at = "count" /\ reader'.list = list /\ reader'.repeated = 0
        /\ reader'.got = {} /\ (reader'.page - 1) * reader'.perPage = 0
        /\ during'.stayed = R /\ during'.left = 0 /\ during'.joined = 0
    BY <1>1, <1>2, <1>3 DEF WalkReader, WalkWatch
  <1>6. Asked' = 0 /\ Result(reader.list)' = R
    BY <1>4, <1>5 DEF Asked, Result
  <1>7. \A x \in R : Before(x, R)' \in Nat
    <2>. SUFFICES ASSUME NEW x \in R PROVE Before(x, R)' \in Nat
      OBVIOUS
    <2>1. Orders(created, R)
      BY <1>1, ResultIsOrdered DEF ReadersInv
    <2>2. Offset(created, x, R) \in Nat
      BY <2>1, OffsetRange
    <2>3. Before(x, R)' = Offset(created, x, R)
      BY <1>3 DEF Before, Offset
    <2>. QED BY <2>2, <2>3
  <1>8. Missed(Asked)' = {}
    <2>1. Missed(Asked)' = {x \in R \ {} : Before(x, R)' < 0}
      BY <1>5, <1>6 DEF Missed, Before
    <2>. QED BY <1>7, <2>1
  <1>9. Again(Asked)' = {}
    BY <1>5 DEF Again
  <1>10. Cardinality({}) = 0
    BY FS_EmptySet
  <1>. QED BY <1>1, <1>5, <1>6, <1>8, <1>9, <1>10 DEF WalkInv, WalkIsComplete

LEMMA CountStep ==
    ASSUME ReadersInv, CreatedInv, WalkInv, Count
    PROVE  WalkInv'
  <1>1. /\ reader.at = "count" /\ reader \in WalkReader /\ during \in WalkWatch
        /\ during.stayed \subseteq Result(reader.list)
        /\ UNCHANGED <<households, pickups, payments, created>>
    BY DEF WalkInv, Count, contractVars
  <1>2. PICK list, R : list = reader.list /\ list \in List /\ R = Result(list)
    BY <1>1 DEF WalkReader
  <1>3. Cardinality(R) \in Nat
    BY <1>2, ResultIsOrdered, FS_CardinalityType DEF Orders, ReadersInv
  <1>4. /\ reader' = [reader EXCEPT !.at = "select", !.total = Cardinality(R)]
        /\ during' = [during EXCEPT !.joinedSinceCount = 0]
    BY <1>2 DEF Count
  <1>5. /\ reader' \in WalkReader /\ during' \in WalkWatch
        /\ reader'.at = "select" /\ reader'.list = list /\ reader'.total = Cardinality(R)
        /\ reader'.page = reader.page /\ reader'.perPage = reader.perPage
        /\ reader'.got = reader.got /\ reader'.repeated = reader.repeated
        /\ during'.stayed = during.stayed /\ during'.left = during.left
        /\ during'.joined = during.joined /\ during'.joinedSinceCount = 0
    BY <1>1, <1>2, <1>3, <1>4 DEF WalkReader, WalkWatch
  <1>6. Asked' = Asked /\ Result(reader.list)' = R
    BY <1>1, <1>2, <1>5 DEF Asked, Result
  <1>7. \A x : Before(x, R)' = Before(x, R)
    BY <1>1 DEF Before
  <1>8. Missed(Asked)' = Missed(Asked) /\ Again(Asked)' = Again(Asked)
    BY <1>2, <1>5, <1>6, <1>7 DEF Missed, Again, Before
  <1>9. /\ Cardinality(Missed(Asked)) <= during.left
        /\ reader.repeated + Cardinality(Again(Asked)) <= during.joined
    BY <1>1 DEF WalkInv
  <1>. QED BY <1>1, <1>2, <1>3, <1>5, <1>6, <1>8, <1>9 DEF WalkInv, WalkIsComplete

LEMMA SelectStep ==
    ASSUME ReadersInv, CreatedInv, WalkInv, Select
    PROVE  WalkInv'
  <1>1. /\ reader.at = "select" /\ reader \in WalkReader /\ during \in WalkWatch
        /\ during.stayed \subseteq Result(reader.list)
        /\ UNCHANGED <<households, pickups, payments, created, during>>
    BY DEF WalkInv, Select, contractVars
  <1>2. PICK list, R, U, G, page, n, total, rows :
           /\ list = reader.list /\ list \in List
           /\ R = Result(list) /\ U = during.stayed /\ G = reader.got
           /\ page = reader.page /\ n = reader.perPage /\ total = reader.total
           /\ rows = OnPage(R, page, n)
    BY <1>1 DEF WalkReader
  <1>3. /\ page \in Nat \ {0} /\ n \in Nat \ {0} /\ total \in Nat
        /\ U \subseteq R /\ reader.repeated \in Nat /\ G \subseteq Row
    BY <1>1, <1>2, ReadersAssumption DEF WalkReader
  <1>4. Orders(created, R) /\ R \subseteq Row /\ IsFiniteSet(R) /\ Cardinality(R) \in Nat
    <2>1. Orders(created, R) /\ R \subseteq Row
      BY <1>2, ResultIsOrdered DEF ReadersInv
    <2>. QED BY <2>1, FS_CardinalityType DEF Orders
  <1>5. \A x \in R : Before(x, R) \in Nat /\ Before(x, R) = Offset(created, x, R)
    BY <1>4, OffsetRange DEF Before, Offset
  <1>6. PICK m \in Nat : /\ m = Asked /\ m = (page - 1) * n /\ page * n = m + n
                         /\ ((page + 1) - 1) * n = m + n
    BY <1>2, <1>3, PageArithmetic DEF Asked
  <1>7. \A x \in R : x \in rows <=> Before(x, R) >= m /\ Before(x, R) < m + n
    BY <1>2, <1>3, <1>5, <1>6 DEF OnPage
  <1>8. rows \subseteq R
    BY <1>2 DEF OnPage
  <1>9. PICK A, C : A = Missed(m) /\ C = Again(m)
    OBVIOUS
  <1>10. /\ A = {x \in U \ G : Before(x, R) < m}
         /\ C = {x \in G \cap R : Before(x, R) >= m}
    BY <1>2, <1>9 DEF Missed, Again
  <1>11. /\ IsFiniteSet(A) /\ Cardinality(A) \in Nat /\ Cardinality(A) <= during.left
         /\ IsFiniteSet(C) /\ Cardinality(C) \in Nat
         /\ reader.repeated + Cardinality(C) <= during.joined
    <2>1. A \in SUBSET R /\ C \in SUBSET R
      BY <1>3, <1>10
    <2>2. IsFiniteSet(A) /\ IsFiniteSet(C)
      BY <1>4, <2>1, FS_Subset
    <2>3. /\ Cardinality(A) <= during.left
          /\ reader.repeated + Cardinality(C) <= during.joined
      BY <1>1, <1>6, <1>9 DEF WalkInv
    <2>. QED BY <2>2, <2>3, FS_CardinalityType
  <1>12. PICK k : k = Cardinality(rows \cap G)
    OBVIOUS
  <1>13. k \in Nat /\ k <= Cardinality(C) /\ IsFiniteSet(rows \cap G)
    <2>1. rows \cap G \in SUBSET C
      BY <1>7, <1>8, <1>10
    <2>. QED BY <1>11, <1>12, <2>1, FS_Subset, FS_CardinalityType
  <1>14. PICK told : /\ told = [reader EXCEPT !.got = G \cup rows, !.repeated = reader.repeated + k]
                     /\ reader' = IF page < TotalPages(total, n)
                                  THEN [told EXCEPT !.at = "count", !.page = page + 1]
                                  ELSE [told EXCEPT !.at = "walked"]
    BY <1>2, <1>12 DEF Select
  <1>15. reader.repeated + k \in Nat /\ G \cup rows \in SUBSET Row /\ page + 1 \in Nat \ {0}
    BY <1>3, <1>4, <1>8, <1>13
  <1>16. Result(list)' = R /\ \A x : Before(x, R)' = Before(x, R)
    BY <1>1, <1>2 DEF Result, Before
  <1>17. during.left \in Nat /\ during.joined \in Nat /\ during.joinedSinceCount \in Nat
    BY <1>1 DEF WalkWatch
  <1>18. CASE page < TotalPages(total, n)
    <2>1. /\ reader' \in WalkReader
          /\ reader'.at = "count" /\ reader'.list = list
          /\ reader'.page = page + 1 /\ reader'.perPage = n
          /\ reader'.got = G \cup rows /\ reader'.repeated = reader.repeated + k
      BY <1>1, <1>2, <1>14, <1>15, <1>18 DEF WalkReader
    <2>2. Asked' = m + n /\ Result(reader.list)' = R
      BY <1>6, <1>16, <2>1 DEF Asked, Result
    <2>3. PICK A2, C2 : /\ A2 = {x \in U \ (G \cup rows) : Before(x, R) < m + n}
                        /\ C2 = {x \in (G \cup rows) \cap R : Before(x, R) >= m + n}
      OBVIOUS
    <2>4. Missed(Asked)' = A2 /\ Again(Asked)' = C2
      BY <1>1, <1>2, <1>16, <2>1, <2>2, <2>3 DEF Missed, Again, Before
    <2>5. A2 \in SUBSET A
      <3>. SUFFICES ASSUME NEW x \in A2 PROVE x \in A
        OBVIOUS
      <3>1. x \in U /\ x \in R /\ x \notin G /\ x \notin rows /\ Before(x, R) < m + n
        BY <1>3, <2>3
      <3>2. Before(x, R) < m
        BY <1>5, <1>7, <3>1
      <3>. QED BY <1>10, <3>1, <3>2
    <2>6. /\ C2 \cup (rows \cap G) \in SUBSET C
          /\ C2 \cap (rows \cap G) = {}
      <3>1. ASSUME NEW x \in C2 PROVE x \in C /\ x \notin rows
        <4>1. x \in R /\ (x \in G \/ x \in rows) /\ Before(x, R) >= m + n
          BY <2>3
        <4>2. x \notin rows /\ Before(x, R) >= m
          BY <1>3, <1>5, <1>7, <4>1
        <4>. QED BY <1>10, <4>1, <4>2
      <3>2. rows \cap G \subseteq C
        BY <1>7, <1>8, <1>10
      <3>. QED BY <3>1, <3>2
    <2>7. Cardinality(A2) <= during.left
      <3>1. Cardinality(A2) <= Cardinality(A) /\ Cardinality(A2) \in Nat
        BY <1>11, <2>5, FS_Subset, FS_CardinalityType
      <3>. QED BY <1>11, <1>17, <3>1
    <2>8. (reader.repeated + k) + Cardinality(C2) <= during.joined
      <3>1. IsFiniteSet(C2)
        BY <1>11, <2>6, FS_Subset
      <3>2. /\ Cardinality(C2) \in Nat
            /\ Cardinality(C2 \cup (rows \cap G)) = Cardinality(C2) + k
        BY <1>12, <1>13, <2>6, <3>1, DisjointUnion
      <3>3. Cardinality(C2 \cup (rows \cap G)) <= Cardinality(C)
        BY <1>11, <2>6, FS_Subset
      <3>. QED BY <1>3, <1>11, <1>13, <1>17, <3>2, <3>3
    <2>. QED BY <1>1, <1>2, <1>3, <2>1, <2>2, <2>4, <2>7, <2>8 DEF WalkInv, WalkIsComplete
  <1>19. CASE ~(page < TotalPages(total, n))
    <2>1. /\ reader' \in WalkReader
          /\ reader'.at = "walked" /\ reader'.list = list
          /\ reader'.got = G \cup rows /\ reader'.repeated = reader.repeated + k
      BY <1>1, <1>2, <1>14, <1>15, <1>19 DEF WalkReader
    <2>2. m + n >= total
      BY <1>3, <1>6, <1>19, LastPage
    <2>3. PICK F : F = First(created, R, m + n)
      OBVIOUS
    <2>4. /\ IsFiniteSet(F) /\ IsFiniteSet(R \ F) /\ Cardinality(R \ F) \in Nat
          /\ Cardinality(R \ F) <= during.joinedSinceCount
      <3>1. /\ IsFiniteSet(F)
            /\ Cardinality(F) = IF m + n <= Cardinality(R) THEN m + n ELSE Cardinality(R)
        BY <1>3, <1>4, <2>3, FirstCount
      <3>2. IsFiniteSet(R \ F) /\ Cardinality(R \ F) = Cardinality(R) - Cardinality(R \cap F)
        BY <1>4, <3>1, FS_Difference
      <3>3. R \cap F = F
        BY <2>3 DEF First
      <3>4. Cardinality(R) <= total + during.joinedSinceCount
        BY <1>1, <1>2 DEF WalkInv
      <3>5. PICK r, f, d : /\ r = Cardinality(R) /\ f = Cardinality(F)
                           /\ d = Cardinality(R \ F)
        OBVIOUS
      <3>6. r \in Nat /\ f \in Nat /\ d \in Nat /\ d = r - f
        BY <1>4, <3>1, <3>2, <3>3, <3>5, FS_CardinalityType
      <3>7. f = (IF m + n <= r THEN m + n ELSE r) /\ r <= total + during.joinedSinceCount
        BY <3>1, <3>4, <3>5
      <3>8. d <= during.joinedSinceCount
        BY <1>3, <1>17, <2>2, <3>6, <3>7
      <3>. QED BY <3>1, <3>2, <3>5, <3>6, <3>8
    <2>5. U \ (G \cup rows) \in SUBSET (A \cup (R \ F))
      <3>. SUFFICES ASSUME NEW x \in U \ (G \cup rows), x \in F PROVE x \in A
        BY <1>3
      <3>1. x \in R /\ Before(x, R) < m + n
        BY <1>3, <1>5, <2>3 DEF First
      <3>2. Before(x, R) < m
        BY <1>5, <1>7, <3>1
      <3>. QED BY <1>10, <3>2
    <2>6. Cardinality(U \ (G \cup rows)) <= during.left + during.joinedSinceCount
      <3>1. /\ IsFiniteSet(A \cup (R \ F)) /\ IsFiniteSet(A \cap (R \ F))
            /\ Cardinality(A \cup (R \ F)) =
                  Cardinality(A) + Cardinality(R \ F) - Cardinality(A \cap (R \ F))
        BY <1>11, <2>4, FS_Union, FS_Intersection
      <3>2. /\ IsFiniteSet(U \ (G \cup rows))
            /\ Cardinality(U \ (G \cup rows)) <= Cardinality(A \cup (R \ F))
        BY <2>5, <3>1, FS_Subset
      <3>3. Cardinality(U \ (G \cup rows)) \in Nat /\ Cardinality(A \cap (R \ F)) \in Nat
        BY <3>1, <3>2, FS_CardinalityType
      <3>. QED BY <1>11, <1>17, <2>4, <3>1, <3>2, <3>3
    <2>7. reader.repeated + k <= during.joined
      BY <1>3, <1>11, <1>13, <1>17
    <2>8. Result(reader.list)' = R
      BY <1>16, <2>1 DEF Result
    <2>9. WalkIsComplete'
      BY <1>1, <1>2, <2>1, <2>6, <2>7 DEF WalkIsComplete
    <2>. QED BY <1>1, <1>2, <1>3, <2>1, <2>8, <2>9 DEF WalkInv
  <1>. QED BY <1>18, <1>19

LEMMA NoWalkStep ==
    ASSUME ReadersInv, WalkInv,
           \/ \E h \in HouseholdId : StartHistory(h)
           \/ ReadHousehold \/ ReadPickups \/ ReadPayments
           \/ StartSummaries \/ ReadWasteSummary \/ ReadPaymentSummary
           \/ Stop \/ UNCHANGED readerVars
    PROVE  WalkInv'
  <1>1. CASE reader'.at \notin {"count", "select", "walked"}
    BY <1>1 DEF WalkInv
  <1>2. CASE reader'.at \in {"count", "select", "walked"}
    <2>1. UNCHANGED readerVars
      <3>1. CASE \/ \E h \in HouseholdId : StartHistory(h)
                 \/ StartSummaries \/ ReadWasteSummary \/ ReadPaymentSummary \/ Stop
        BY <1>2, <3>1 DEF StartHistory, StartSummaries, ReadWasteSummary, ReadPaymentSummary,
                          Stop, Idle
      <3>2. CASE ReadHousehold \/ ReadPickups \/ ReadPayments
        BY <1>2, <3>2 DEF ReadHousehold, ReadPickups, ReadPayments, Read, ReadersInv, ReaderType,
                          HistoryReader
      <3>. QED BY <3>1, <3>2
    <2>2. /\ Asked' = Asked /\ Result(reader.list)' = Result(reader.list)
          /\ Missed(Asked)' = Missed(Asked) /\ Again(Asked)' = Again(Asked)
      BY <2>1 DEF readerVars, Asked, Result, Missed, Again, Before
    <2>. QED BY <2>1, <2>2 DEF readerVars, WalkInv, WalkIsComplete
  <1>. QED BY <1>1, <1>2

(***************************************************************************)
(* The theorem                                                             *)
(***************************************************************************)
\* Pages are read one by one, each with a COUNT of its own, while rows come and go:
\* still a client that walks to the last page misses no more of the rows that were
\* there all the time than rows that left, or came in after the last COUNT, and is
\* told no more rows twice than came in.
THEOREM WalksAreComplete == ReadersSpec => []WalkIsComplete
  <1>1. ReadersInit => CreatedInv /\ WalkInv
    <2>. SUFFICES ASSUME ReadersInit PROVE CreatedInv /\ WalkInv
      OBVIOUS
    <2>1. WalkInv
      BY DEF ReadersInit, Idle, WalkInv
    <2>2. RowsOf(households, pickups, payments) = {} /\ created = [x \in Row |-> 0]
      BY DEF ReadersInit, ContractInit, RowsOf, Has
    <2>3. Ranked(created)
      BY <2>2 DEF Ranked, Tables, Row
    <2>. QED BY <2>1, <2>2, <2>3 DEF CreatedInv
  <1>2. ReadersInv /\ ReadersInv' /\ CreatedInv /\ [ReadersNext]_readerVars => CreatedInv'
    <2>. SUFFICES ASSUME ReadersInv, ReadersInv', CreatedInv, [ReadersNext]_readerVars
                  PROVE  CreatedInv'
      OBVIOUS
    <2>1. CASE Write
      BY <2>1, CreatedStep DEF ReadersInv
    <2>2. CASE ~Write
      <3>1. UNCHANGED <<households, pickups, payments, created>>
        BY <2>2 DEF ReadersNext, StartWalk, Count, Select, StartHistory, ReadHousehold,
                    ReadPickups, ReadPayments, Read, StartSummaries, ReadWasteSummary,
                    ReadPaymentSummary, Stop, contractVars, readerVars
      <3>. QED BY <3>1 DEF CreatedInv
    <2>. QED BY <2>1, <2>2
  <1>3. ReadersInv /\ CreatedInv /\ WalkInv /\ [ReadersNext]_readerVars => WalkInv'
    BY WalkWriteStep, StartWalkStep, CountStep, SelectStep, NoWalkStep DEF ReadersNext
  <1>4. WalkInv => WalkIsComplete
    BY DEF WalkInv, WalkIsComplete
  <1>. QED BY <1>1, <1>2, <1>3, <1>4, ReadersInvAlways, PTL DEF ReadersSpec

=============================================================================
