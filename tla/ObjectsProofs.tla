--------------------------- MODULE ObjectsProofs ---------------------------
(***************************************************************************)
(* Proofs about the construction of objects, for chains of any number of   *)
(* classes with any fields, and about default arguments for every width of *)
(* the integers.                                                           *)
(*                                                                         *)
(* The structures of the classes and the powers of two are functions that  *)
(* are defined by recursion.  They are shown to exist first (Recursion),   *)
(* so that their equations can be used; facts about them go by induction   *)
(* over a set of numbers (Induction).                                      *)
(***************************************************************************)
EXTENDS Objects, SequenceTheorems, WellFoundedInduction, TLAPS

(* A set that has 0 and with each number the next one has all up to n.     *)
LEMMA Induction ==
  ASSUME NEW n \in Nat, NEW T \in SUBSET (0..n), 0 \in T,
         \A k \in 0..(n - 1) : k \in T => k + 1 \in T
  PROVE  T = 0..n
<1> SUFFICES ASSUME T # 0..n PROVE FALSE
  OBVIOUS
<1>1. PICK R : R = OpToRel(<, Nat)
  OBVIOUS
<1>2. IsWellFoundedOn(R, Nat)
  BY <1>1, NatLessThanWellFounded
<1>3. PICK Rest : Rest = (0..n) \ T
  OBVIOUS
<1>4. Rest \in SUBSET Nat /\ Rest # {}
  <2>1. Rest \in SUBSET Nat
    BY <1>3
  <2>2. Rest # {}
    BY <1>3, Zenon
  <2> QED
    BY <2>1, <2>2
<1>5. PICK x \in Rest : \A y \in Rest : ~ (<<y, x>> \in R)
  BY <1>2, <1>4, WFMin
<1>6. x \in 0..n /\ x \notin T
  BY <1>3, <1>5
<1>7. x # 0
  BY <1>6
<1>8. x - 1 \in 0..(n - 1) /\ x - 1 \in Nat /\ x \in Nat /\ x - 1 < x /\ (x - 1) + 1 = x
  BY <1>6, <1>7
<1>9. <<x - 1, x>> \in R
  BY <1>1, <1>8 DEF OpToRel
<1>10. x - 1 \notin Rest
  BY <1>5, <1>9
<1>11. x - 1 \in T
  BY <1>3, <1>8, <1>10
<1> QED
  BY <1>6, <1>8, <1>11

(* A function is defined by its value at 0 and a step to each number.      *)
Follows(f, n, S, a, F) ==
  /\ f \in [0..n -> S] /\ f[0] = a
  /\ \A k \in 1..n : f[k] = F[k][f[k - 1]]

LEMMA Recursion ==
  ASSUME NEW n \in Nat, NEW S, NEW a \in S, NEW F \in [1..n -> [S -> S]]
  PROVE  \E f : Follows(f, n, S, a, F)
<1>1. PICK T : T = {m \in 0..n : \E f \in [0..m -> S] :
                       f[0] = a /\ \A k \in 1..m : f[k] = F[k][f[k - 1]]}
  OBVIOUS
<1>2. 0 \in T
  <2>1. PICK f : f = [k \in 0..0 |-> a]
    OBVIOUS
  <2>2. f \in [0..0 -> S] /\ f[0] = a /\ \A k \in 1..0 : f[k] = F[k][f[k - 1]]
    BY <2>1
  <2> QED
    BY <1>1, <2>2
<1>3. \A m \in 0..(n - 1) : m \in T => m + 1 \in T
  <2> SUFFICES ASSUME NEW m \in 0..(n - 1), m \in T PROVE m + 1 \in T
    OBVIOUS
  <2>1. PICK f \in [0..m -> S] : f[0] = a /\ \A k \in 1..m : f[k] = F[k][f[k - 1]]
    BY <1>1
  <2>2. f[m] \in S /\ m + 1 \in 1..n /\ m \in Nat
    BY <2>1
  <2>3. F[m + 1][f[m]] \in S
    BY <2>2
  <2>4. PICK g : g = [k \in 0..(m + 1) |-> IF k = m + 1 THEN F[m + 1][f[m]] ELSE f[k]]
    OBVIOUS
  <2>5. g \in [0..(m + 1) -> S] /\ g[m + 1] = F[m + 1][f[m]] /\ \A k \in 0..m : g[k] = f[k]
    BY <2>2, <2>3, <2>4
  <2>6. g[0] = a
    BY <2>1, <2>2, <2>5
  <2>7. \A k \in 1..(m + 1) : g[k] = F[k][g[k - 1]]
    <3> SUFFICES ASSUME NEW k \in 1..(m + 1) PROVE g[k] = F[k][g[k - 1]]
      OBVIOUS
    <3>1. CASE k = m + 1
      <4>1. k - 1 = m /\ m \in 0..m
        BY <2>2, <3>1
      <4>2. g[k - 1] = f[m]
        BY <2>5, <4>1
      <4> QED
        BY <2>5, <3>1, <4>2
    <3>2. CASE k # m + 1
      <4>1. k \in 1..m /\ k \in 0..m /\ k - 1 \in 0..m
        BY <2>2, <3>2
      <4> QED
        BY <2>1, <2>5, <4>1
    <3> QED
      BY <3>1, <3>2
  <2>8. m + 1 \in 0..n
    BY <2>2
  <2> QED
    BY <1>1, <2>5, <2>6, <2>7, <2>8
<1>4. T = 0..n
  <2>1. T \in SUBSET (0..n)
    BY <1>1
  <2> QED
    BY <1>2, <1>3, <2>1, Induction
<1>5. n \in T
  BY <1>4
<1> QED
  BY <1>1, <1>5 DEF Follows

-----------------------------------------------------------------------------
(* L are the structures of the classes that declare the fields D.          *)
Layers(L, D) ==
  /\ D \in [Classes -> Seq(Fields)]
  /\ L \in [0..Depth -> Seq(Fields)]
  /\ L[0] = << >>
  /\ \A k \in Classes : L[k] = L[k - 1] \o D[k]

Once(D) ==
  \A k, l \in Classes : \A i \in DOMAIN D[k], j \in DOMAIN D[l] :
    D[k][i] = D[l][j] => k = l /\ i = j

LEMMA LayersExist ==
  ASSUME NEW D \in [Classes -> Seq(Fields)]
  PROVE  \E f : f = [k \in 0..Depth |-> IF k = 0 THEN << >> ELSE f[k - 1] \o D[k]]
<1>1. Depth \in Nat /\ Classes = 1..Depth
  BY ObjectsAssumption DEF ObjectsAssumption, Classes
<1>2. PICK S : S = Seq(Fields)
  OBVIOUS
<1>3. PICK F : F = [k \in 1..Depth |-> [x \in S |-> x \o D[k]]]
  OBVIOUS
<1>4. << >> \in S
  BY <1>2
<1>5. \A k \in 1..Depth : \A x \in S : x \o D[k] \in S
  BY <1>1, <1>2
<1>6. F \in [1..Depth -> [S -> S]]
  BY <1>3, <1>5
<1>7. PICK f \in [0..Depth -> S] :
        f[0] = << >> /\ \A k \in 1..Depth : f[k] = F[k][f[k - 1]]
  <2>1. PICK a : a = << >>
    OBVIOUS
  <2>2. a \in S /\ Depth \in Nat
    BY <1>1, <1>4, <2>1
  <2>3. PICK f : Follows(f, Depth, S, a, F)
    BY <1>6, <2>2, Recursion
  <2> QED
    BY <2>1, <2>3 DEF Follows
<1>8. \A k \in 1..Depth : f[k] = f[k - 1] \o D[k]
  <2> SUFFICES ASSUME NEW k \in 1..Depth PROVE f[k] = f[k - 1] \o D[k]
    OBVIOUS
  <2>1. k - 1 \in 0..Depth
    BY <1>1
  <2>2. f[k - 1] \in S
    BY <1>7, <2>1
  <2> QED
    BY <1>3, <1>7, <2>2
<1>9. \A k \in 0..Depth : f[k] = IF k = 0 THEN << >> ELSE f[k - 1] \o D[k]
  <2> SUFFICES ASSUME NEW k \in 0..Depth
               PROVE  f[k] = IF k = 0 THEN << >> ELSE f[k - 1] \o D[k]
    OBVIOUS
  <2>1. k = 0 \/ k \in 1..Depth
    BY <1>1
  <2>2. ~(0 \in 1..Depth)
    BY <1>1
  <2> QED
    BY <1>7, <1>8, <2>1, <2>2, Zenon
<1>10. PICK g : g = [k \in 0..Depth |-> IF k = 0 THEN << >> ELSE f[k - 1] \o D[k]]
  OBVIOUS
<1>11. f = g
  BY <1>7, <1>9, <1>10, Zenon
<1> QED
  BY <1>10, <1>11, Zenon

LEMMA FromEquation ==
  ASSUME NEW D \in [Classes -> Seq(Fields)], NEW L,
         L = [k \in 0..Depth |-> IF k = 0 THEN << >> ELSE L[k - 1] \o D[k]]
  PROVE  Layers(L, D)
<1>1. Depth \in Nat /\ Classes = 1..Depth
  BY ObjectsAssumption DEF ObjectsAssumption, Classes
<1>2. L[0] = << >> /\ \A k \in Classes : L[k] = L[k - 1] \o D[k]
  <2>1. \A k \in 0..Depth : L[k] = IF k = 0 THEN << >> ELSE L[k - 1] \o D[k]
    BY Zenon
  <2>2. 0 \in 0..Depth /\ \A k \in Classes : k \in 0..Depth /\ k # 0
    BY <1>1
  <2> QED
    BY <2>1, <2>2, Zenon
<1>3. PICK T : T = {k \in 0..Depth : L[k] \in Seq(Fields)}
  OBVIOUS
<1>4. T \in SUBSET (0..Depth) /\ 0 \in T
  <2>1. 0 \in 0..Depth /\ << >> \in Seq(Fields)
    BY <1>1
  <2> QED
    BY <1>2, <1>3, <2>1, Zenon
<1>5. \A k \in 0..(Depth - 1) : k \in T => k + 1 \in T
  <2> SUFFICES ASSUME NEW k \in 0..(Depth - 1), k \in T PROVE k + 1 \in T
    OBVIOUS
  <2>1. k + 1 \in Classes /\ k + 1 \in 0..Depth /\ (k + 1) - 1 = k
    BY <1>1
  <2>2. L[k + 1] = L[k] \o D[k + 1]
    BY <1>2, <2>1
  <2>3. L[k] \in Seq(Fields) /\ D[k + 1] \in Seq(Fields)
    BY <1>3, <2>1, Zenon
  <2>4. L[k] \o D[k + 1] \in Seq(Fields)
    BY <2>3, ConcatProperties, Zenon
  <2> QED
    BY <1>3, <2>1, <2>2, <2>4, Zenon
<1>6. T = 0..Depth
  BY <1>1, <1>4, <1>5, Induction
<1>7. \A k \in 0..Depth : L[k] \in Seq(Fields)
  BY <1>3, <1>6, Zenon
<1>8. L \in [0..Depth -> Seq(Fields)]
  BY <1>7, Zenon
<1> QED
  BY <1>2, <1>8 DEF Layers

LEMMA PublicLayers == Layers(PublicLayout, Public) /\ Once(Public)
<1>1. Public \in [Classes -> Seq(Fields)] /\ Once(Public)
  BY FieldsAssumption DEF FieldsAssumption, Once
<1>2. \E f : f = [k \in 0..Depth |-> IF k = 0 THEN << >> ELSE f[k - 1] \o Public[k]]
  BY <1>1, LayersExist
<1>3. PublicLayout = [k \in 0..Depth |->
                        IF k = 0 THEN << >> ELSE PublicLayout[k - 1] \o Public[k]]
  BY <1>2 DEF PublicLayout, Extended
<1> QED
  BY <1>1, <1>3, FromEquation

LEMMA PrivateLayers == Layers(PrivateLayout, Private) /\ Once(Private)
<1>1. Private \in [Classes -> Seq(Fields)] /\ Once(Private)
  BY FieldsAssumption DEF FieldsAssumption, Once
<1>2. \E f : f = [k \in 0..Depth |-> IF k = 0 THEN << >> ELSE f[k - 1] \o Private[k]]
  BY <1>1, LayersExist
<1>3. PrivateLayout = [k \in 0..Depth |->
                         IF k = 0 THEN << >> ELSE PrivateLayout[k - 1] \o Private[k]]
  BY <1>2 DEF PrivateLayout
<1> QED
  BY <1>1, <1>3, FromEquation

-----------------------------------------------------------------------------
(* A structure begins with those of the classes it extends.                *)
Starts(s, t) == Len(s) <= Len(t) /\ \A i \in 1..Len(s) : t[i] = s[i]

LEMMA LayerAt ==
  ASSUME NEW L, NEW D, Layers(L, D), NEW k \in Classes
  PROVE  /\ k - 1 \in 0..Depth /\ k \in 0..Depth
         /\ L[k] \in Seq(Fields) /\ L[k - 1] \in Seq(Fields) /\ D[k] \in Seq(Fields)
         /\ Len(L[k]) = Len(L[k - 1]) + Len(D[k])
         /\ Starts(L[k - 1], L[k])
         /\ \A i \in 1..Len(L[k]) :
              i > Len(L[k - 1]) => L[k][i] = D[k][i - Len(L[k - 1])]
<1>1. k - 1 \in 0..Depth /\ k \in 0..Depth
  BY ObjectsAssumption DEF ObjectsAssumption, Classes
<1>2. PICK s : s = L[k - 1]
  OBVIOUS
<1>3. PICK t : t = D[k]
  OBVIOUS
<1>4. s \in Seq(Fields) /\ t \in Seq(Fields) /\ L[k] = s \o t /\ L[k] \in Seq(Fields)
  BY <1>1, <1>2, <1>3 DEF Layers
<1>5. /\ Len(s \o t) = Len(s) + Len(t) /\ Len(s) \in Nat /\ Len(t) \in Nat
      /\ \A i \in 1..(Len(s) + Len(t)) :
           (s \o t)[i] = IF i <= Len(s) THEN s[i] ELSE t[i - Len(s)]
  BY <1>4, ConcatProperties, LenProperties
<1>6. PICK u : u = s \o t
  OBVIOUS
<1>7. Len(u) = Len(s) + Len(t) /\ Starts(s, u)
      /\ \A i \in 1..Len(u) : i > Len(s) => u[i] = t[i - Len(s)]
  BY <1>5, <1>6 DEF Starts
<1> QED
  BY <1>1, <1>2, <1>3, <1>4, <1>6, <1>7

LEMMA StartsTransitive ==
  ASSUME NEW r \in Seq(Fields), NEW s \in Seq(Fields), NEW t \in Seq(Fields)
  PROVE  Starts(r, r) /\ (Starts(r, s) /\ Starts(s, t) => Starts(r, t))
<1>1. Len(r) \in Nat /\ Len(s) \in Nat /\ Len(t) \in Nat
  OBVIOUS
<1> QED
  BY <1>1 DEF Starts

LEMMA LayoutStarts ==
  ASSUME NEW L, NEW D, Layers(L, D), NEW k \in 0..Depth, NEW m \in k..Depth
  PROVE  Starts(L[k], L[m])
<1>1. Depth \in Nat /\ Classes = 1..Depth
  BY ObjectsAssumption DEF ObjectsAssumption, Classes
<1>2. PICK T : T = {x \in 0..Depth : x >= k => Starts(L[k], L[x])}
  OBVIOUS
<1>3. \A x \in 0..Depth : L[x] \in Seq(Fields)
  BY DEF Layers
<1>4. 0 \in T
  <2>1. 0 >= k => k = 0
    OBVIOUS
  <2>2. Starts(L[k], L[k])
    BY <1>3, StartsTransitive
  <2> QED
    BY <1>1, <1>2, <2>1, <2>2
<1>5. \A x \in 0..(Depth - 1) : x \in T => x + 1 \in T
  <2> SUFFICES ASSUME NEW x \in 0..(Depth - 1), x \in T, x + 1 >= k
               PROVE  Starts(L[k], L[x + 1])
    BY <1>1, <1>2
  <2>1. x + 1 \in Classes /\ x \in 0..Depth /\ x + 1 \in 0..Depth /\ (x + 1) - 1 = x
    BY <1>1
  <2>2. CASE x + 1 = k
    BY <1>3, <2>2, StartsTransitive
  <2>3. CASE x >= k
    <3>1. Starts(L[k], L[x])
      BY <1>2, <2>3
    <3>2. Starts(L[x], L[x + 1])
      BY <2>1, LayerAt
    <3> QED
      BY <1>3, <2>1, <3>1, <3>2, StartsTransitive
  <2> QED
    BY <2>1, <2>2, <2>3
<1>6. T = 0..Depth
  BY <1>1, <1>2, <1>4, <1>5, Induction
<1>7. m \in 0..Depth /\ m >= k
  BY <1>1
<1> QED
  BY <1>2, <1>6, <1>7

(* Whatever is in a structure was declared by one of its classes.          *)
Origin(L, D, x, i) ==
  \E k \in 1..x : \E j \in 1..Len(D[k]) : L[x][i] = D[k][j] /\ i = Len(L[k - 1]) + j

LEMMA LayoutFrom ==
  ASSUME NEW L, NEW D, Layers(L, D), NEW m \in 0..Depth, NEW i \in 1..Len(L[m])
  PROVE  Origin(L, D, m, i)
<1>1. Depth \in Nat /\ Classes = 1..Depth
  BY ObjectsAssumption DEF ObjectsAssumption, Classes
<1>2. PICK T : T = {x \in 0..Depth : \A h \in 1..Len(L[x]) : Origin(L, D, x, h)}
  OBVIOUS
<1>3. 0 \in T
  <2>1. 1..Len(L[0]) = {}
    BY DEF Layers
  <2> QED
    BY <1>1, <1>2, <2>1
<1>4. \A x \in 0..(Depth - 1) : x \in T => x + 1 \in T
  <2> SUFFICES ASSUME NEW x \in 0..(Depth - 1), x \in T, NEW h \in 1..Len(L[x + 1])
               PROVE  Origin(L, D, x + 1, h)
    BY <1>1, <1>2
  <2>1. x + 1 \in Classes /\ x \in 0..Depth /\ x + 1 \in 0..Depth /\ (x + 1) - 1 = x
    BY <1>1
  <2>2. /\ L[x + 1] \in Seq(Fields) /\ L[x] \in Seq(Fields) /\ D[x + 1] \in Seq(Fields)
        /\ Len(L[x + 1]) = Len(L[x]) + Len(D[x + 1])
        /\ Starts(L[x], L[x + 1])
        /\ h > Len(L[x]) => L[x + 1][h] = D[x + 1][h - Len(L[x])]
    <3>1. PICK y : y = x + 1 /\ y \in Classes /\ y - 1 = x
      BY <2>1
    <3>2. h \in 1..Len(L[y])
      BY <3>1
    <3>3. /\ L[y] \in Seq(Fields) /\ L[y - 1] \in Seq(Fields) /\ D[y] \in Seq(Fields)
          /\ Len(L[y]) = Len(L[y - 1]) + Len(D[y])
          /\ Starts(L[y - 1], L[y])
          /\ \A g \in 1..Len(L[y]) :
               g > Len(L[y - 1]) => L[y][g] = D[y][g - Len(L[y - 1])]
      <4>1. y \in Classes /\ Layers(L, D)
        BY <3>1
      <4>2. L[y] \in Seq(Fields) /\ L[y - 1] \in Seq(Fields) /\ D[y] \in Seq(Fields)
        BY <4>1, LayerAt
      <4>3. Len(L[y]) = Len(L[y - 1]) + Len(D[y])
        <5>1. PICK s, t : s = L[y - 1] /\ t = D[y]
          OBVIOUS
        <5>2. L[y] = s \o t /\ s \in Seq(Fields) /\ t \in Seq(Fields)
          BY <4>1, <4>2, <5>1 DEF Layers
        <5>3. Len(L[y]) = Len(s) + Len(t)
          BY <5>2
        <5> QED
          BY <5>1, <5>3
      <4>4. Starts(L[y - 1], L[y])
        BY <4>1, LayerAt
      <4>5. \A g \in 1..Len(L[y]) :
               g > Len(L[y - 1]) => L[y][g] = D[y][g - Len(L[y - 1])]
        BY <4>1, LayerAt
      <4> QED
        BY <4>2, <4>3, <4>4, <4>5
    <3>4. L[y - 1] = L[x]
      BY <3>1
    <3>5. h > Len(L[x]) => L[y][h] = D[y][h - Len(L[x])]
      BY <3>2, <3>3, <3>4, Zenon
    <3> QED
      BY <3>1, <3>3, <3>4, <3>5
  <2>3. Len(L[x]) \in Nat /\ Len(D[x + 1]) \in Nat
    BY <2>2
  <2>4. CASE h <= Len(L[x])
    <3>1. h \in 1..Len(L[x])
      BY <2>2, <2>3, <2>4
    <3>2. PICK k \in 1..x : \E j \in 1..Len(D[k]) :
            L[x][h] = D[k][j] /\ h = Len(L[k - 1]) + j
      BY <1>2, <3>1 DEF Origin
    <3>3. L[x + 1][h] = L[x][h]
      BY <2>2, <3>1 DEF Starts
    <3>4. k \in 1..(x + 1)
      BY <1>1
    <3>5. \E j \in 1..Len(D[k]) : L[x + 1][h] = D[k][j] /\ h = Len(L[k - 1]) + j
      BY <3>2, <3>3, Zenon
    <3> QED
      BY <3>4, <3>5, Zenon DEF Origin
  <2>5. CASE h > Len(L[x])
    <3>1. PICK j : j = h - Len(L[x])
      OBVIOUS
    <3>2. j \in 1..Len(D[x + 1]) /\ h = Len(L[x]) + j
      <4>1. PICK a, b : a = Len(L[x]) /\ b = Len(D[x + 1])
        OBVIOUS
      <4>2. a \in Nat /\ b \in Nat /\ h \in 1..(a + b) /\ h > a /\ j = h - a
        BY <2>2, <2>3, <2>5, <3>1, <4>1
      <4>3. j \in 1..b /\ h = a + j
        BY <4>2
      <4> QED
        BY <4>1, <4>3
    <3>3. L[x + 1][h] = D[x + 1][j]
      BY <2>2, <2>5, <3>1
    <3>4. x + 1 \in 1..(x + 1)
      BY <1>1
    <3> QED
      BY <2>1, <3>2, <3>3, <3>4, Zenon DEF Origin
  <2> QED
    BY <2>2, <2>3, <2>4, <2>5
<1>5. T = 0..Depth
  BY <1>1, <1>2, <1>3, <1>4, Induction
<1> QED
  BY <1>2, <1>5

(* So no field is in a structure twice.                                    *)
LEMMA LayoutOnce ==
  ASSUME NEW L, NEW D, Layers(L, D), Once(D), NEW m \in 0..Depth,
         NEW g \in 1..Len(L[m]), NEW h \in 1..Len(L[m]), L[m][g] = L[m][h]
  PROVE  g = h
<1>1. Depth \in Nat /\ Classes = 1..Depth
  BY ObjectsAssumption DEF ObjectsAssumption, Classes
<1>2. Origin(L, D, m, g) /\ Origin(L, D, m, h)
  BY LayoutFrom
<1>3. PICK k, j : /\ k \in 1..m /\ j \in 1..Len(D[k])
                  /\ L[m][g] = D[k][j] /\ g = Len(L[k - 1]) + j
  BY <1>2 DEF Origin
<1>4. PICK k2, j2 : /\ k2 \in 1..m /\ j2 \in 1..Len(D[k2])
                    /\ L[m][h] = D[k2][j2] /\ h = Len(L[k2 - 1]) + j2
  BY <1>2 DEF Origin
<1>5. k \in Classes /\ k2 \in Classes
  BY <1>1, <1>3, <1>4
<1>6. D[k] \in Seq(Fields) /\ D[k2] \in Seq(Fields)
  BY <1>5 DEF Layers
<1>7. j \in DOMAIN D[k] /\ j2 \in DOMAIN D[k2] /\ D[k][j] = D[k2][j2]
  <2>1. DOMAIN D[k] = 1..Len(D[k]) /\ DOMAIN D[k2] = 1..Len(D[k2])
    <3>1. PICK s, s2 : s = D[k] /\ s2 = D[k2]
      OBVIOUS
    <3>2. DOMAIN s = 1..Len(s) /\ DOMAIN s2 = 1..Len(s2)
      BY <1>6, <3>1
    <3> QED
      BY <3>1, <3>2
  <2> QED
    BY <1>3, <1>4, <2>1
<1>8. k = k2 /\ j = j2
  <2>1. \A i \in DOMAIN D[k], i2 \in DOMAIN D[k2] : D[k][i] = D[k2][i2] => k = k2 /\ i = i2
    BY <1>5 DEF Once
  <2> QED
    BY <1>7, <2>1
<1> QED
  BY <1>3, <1>4, <1>8

(* A field has one place in the structures of its class and of all that    *)
(* extend it.                                                              *)
PlacedAt(L, k, f, i) ==
  \A m \in k..Depth : i \in DOMAIN L[m] /\ L[m][i] = f /\ Position(L[m], f) = i

LEMMA Placed ==
  ASSUME NEW L, NEW D, Layers(L, D), Once(D), NEW k \in Classes, NEW f \in Elements(D[k])
  PROVE  \E i : PlacedAt(L, k, f, i)
<1>1. Depth \in Nat /\ Classes = 1..Depth
  BY ObjectsAssumption DEF ObjectsAssumption, Classes
<1>2. PICK s, t : s = L[k - 1] /\ t = D[k]
  OBVIOUS
<1>3. /\ k - 1 \in 0..Depth /\ k \in 0..Depth
      /\ L[k] = s \o t /\ s \in Seq(Fields) /\ t \in Seq(Fields) /\ L[k] \in Seq(Fields)
  <2>1. k - 1 \in 0..Depth /\ k \in 0..Depth
    BY <1>1
  <2>2. L[k] = L[k - 1] \o D[k] /\ L[k - 1] \in Seq(Fields) /\ D[k] \in Seq(Fields)
    BY <2>1 DEF Layers
  <2>3. L[k] \in Seq(Fields)
    BY <2>1 DEF Layers
  <2> QED
    BY <1>2, <2>1, <2>2, <2>3
<1>4. PICK j \in 1..Len(t) : t[j] = f
  BY <1>2, <1>3 DEF Elements
<1>5. PICK i : i = Len(s) + j
  OBVIOUS
<1>6. i \in 1..Len(L[k]) /\ L[k][i] = f
  BY <1>3, <1>4, <1>5
<1>7. ASSUME NEW m \in k..Depth
      PROVE  i \in DOMAIN L[m] /\ L[m][i] = f /\ Position(L[m], f) = i
  <2>1. m \in 0..Depth
    BY <1>1
  <2>2. L[m] \in Seq(Fields) /\ Len(L[m]) \in Nat /\ DOMAIN L[m] = 1..Len(L[m])
    BY <2>1 DEF Layers
  <2>3. Starts(L[k], L[m])
    BY <1>3, LayoutStarts
  <2>4. i \in 1..Len(L[m]) /\ L[m][i] = f
    BY <1>3, <1>6, <2>2, <2>3 DEF Starts
  <2>5. \A h \in 1..Len(L[m]) : L[m][h] = f => h = i
    BY <2>1, <2>4, LayoutOnce
  <2>6. Position(L[m], f) = i
    BY <2>2, <2>4, <2>5 DEF Position
  <2> QED
    BY <2>2, <2>4, <2>6
<1> QED
  BY <1>7 DEF PlacedAt

LEMMA LayoutElements ==
  ASSUME NEW L, NEW D, Layers(L, D), NEW m \in 0..Depth, NEW f \in Elements(L[m])
  PROVE  \E k \in 1..m : f \in Elements(D[k])
<1>1. Depth \in Nat /\ Classes = 1..Depth
  BY ObjectsAssumption DEF ObjectsAssumption, Classes
<1>2. L[m] \in Seq(Fields)
  BY DEF Layers
<1>3. PICK i \in 1..Len(L[m]) : L[m][i] = f
  BY <1>2 DEF Elements
<1>4. PICK k, j : /\ k \in 1..m /\ j \in 1..Len(D[k]) /\ L[m][i] = D[k][j]
  <2>1. Origin(L, D, m, i)
    BY LayoutFrom
  <2> QED
    BY <2>1 DEF Origin
<1>5. D[k] \in Seq(Fields)
  BY <1>1, <1>4 DEF Layers
<1>6. f \in Elements(D[k])
  BY <1>3, <1>4, <1>5 DEF Elements
<1> QED
  BY <1>4, <1>6

-----------------------------------------------------------------------------
(* The places of the fields, wherever they are seen from.                  *)
Spot(f) == Place(Depth, f)

LEMMA PublicPlace ==
  ASSUME NEW k \in Classes, NEW f \in Elements(Public[k])
  PROVE  \E i : /\ PlacedAt(PublicLayout, k, f, i)
                /\ \A m \in k..Depth : Place(m, f) = <<"object", i>>
<1>1. PICK i : PlacedAt(PublicLayout, k, f, i)
  BY PublicLayers, Placed
<1>2. ASSUME NEW m \in k..Depth PROVE Place(m, f) = <<"object", i>>
  <2>1. i \in DOMAIN PublicLayout[m] /\ PublicLayout[m][i] = f /\ Position(PublicLayout[m], f) = i
    BY <1>1 DEF PlacedAt
  <2>2. f \in Elements(PublicLayout[m])
    BY <2>1 DEF Elements
  <2> QED
    BY <2>1, <2>2 DEF Place
<1> QED
  BY <1>1, <1>2

LEMMA PrivatePlace ==
  ASSUME NEW k \in Classes, NEW f \in Elements(Private[k])
  PROVE  \E i : /\ PlacedAt(PrivateLayout, k, f, i)
                /\ \A m \in k..Depth : Place(m, f) = <<"prv", i>>
<1>1. PICK i : PlacedAt(PrivateLayout, k, f, i)
  BY PrivateLayers, Placed
<1>2. Depth \in Nat /\ Classes = 1..Depth
  BY ObjectsAssumption DEF ObjectsAssumption, Classes
<1>3. ASSUME NEW m \in k..Depth PROVE Place(m, f) = <<"prv", i>>
  <2>1. Position(PrivateLayout[m], f) = i
    BY <1>1 DEF PlacedAt
  <2>2. ASSUME f \in Elements(PublicLayout[m]) PROVE FALSE
    <3>1. m \in 0..Depth
      BY <1>2
    <3>2. PICK l \in 1..m : f \in Elements(Public[l])
      BY <2>2, <3>1, PublicLayers, LayoutElements
    <3>3. l \in Classes
      BY <1>2, <3>2
    <3>4. Elements(Public[l]) \cap Elements(Private[k]) = {}
      BY <3>3, FieldsAssumption DEF FieldsAssumption
    <3> QED
      BY <3>2, <3>4
  <2> QED
    BY <2>1, <2>2 DEF Place
<1> QED
  BY <1>1, <1>3

LEMMA SamePlace ==
  ASSUME NEW k \in Classes, NEW f \in Own(k), NEW m \in k..Depth
  PROVE  Place(m, f) = Spot(f) /\ Spot(f) \in Places(m)
<1>1. Depth \in Nat /\ Classes = 1..Depth
  BY ObjectsAssumption DEF ObjectsAssumption, Classes
<1>2. Depth \in k..Depth
  BY <1>1
<1>3. CASE f \in Elements(Public[k])
  <2>1. PICK i : /\ PlacedAt(PublicLayout, k, f, i)
                 /\ \A l \in k..Depth : Place(l, f) = <<"object", i>>
    BY <1>3, PublicPlace
  <2>2. i \in DOMAIN PublicLayout[m]
    BY <2>1 DEF PlacedAt
  <2>3. <<"object", i>> \in {"object"} \X DOMAIN PublicLayout[m]
    BY <2>2
  <2> QED
    BY <1>2, <2>1, <2>3 DEF Spot, Places
<1>4. CASE f \in Elements(Private[k])
  <2>1. PICK i : /\ PlacedAt(PrivateLayout, k, f, i)
                 /\ \A l \in k..Depth : Place(l, f) = <<"prv", i>>
    BY <1>4, PrivatePlace
  <2>2. i \in DOMAIN PrivateLayout[m]
    BY <2>1 DEF PlacedAt
  <2>3. <<"prv", i>> \in {"prv"} \X DOMAIN PrivateLayout[m]
    BY <2>2
  <2> QED
    BY <1>2, <2>1, <2>3 DEF Spot, Places
<1> QED
  BY <1>3, <1>4 DEF Own

LEMMA OwnPlace ==
  ASSUME NEW f \in Fields, NEW g \in Fields, Spot(f) = Spot(g)
  PROVE  f = g
<1>1. Depth \in Nat /\ Classes = 1..Depth
  BY ObjectsAssumption DEF ObjectsAssumption, Classes
<1>2. PICK k, l : k \in Classes /\ f \in Own(k) /\ l \in Classes /\ g \in Own(l)
  BY DEF Fields
<1>3. Depth \in k..Depth /\ Depth \in l..Depth
  BY <1>1, <1>2
<1>4. \/ \E i : Spot(f) = <<"object", i>> /\ PublicLayout[Depth][i] = f
      \/ \E i : Spot(f) = <<"prv", i>> /\ PrivateLayout[Depth][i] = f
  <2>1. CASE f \in Elements(Public[k])
    BY <1>2, <1>3, <2>1, PublicPlace DEF PlacedAt, Spot
  <2>2. CASE f \in Elements(Private[k])
    BY <1>2, <1>3, <2>2, PrivatePlace DEF PlacedAt, Spot
  <2> QED
    BY <1>2, <2>1, <2>2 DEF Own
<1>5. \/ \E i : Spot(g) = <<"object", i>> /\ PublicLayout[Depth][i] = g
      \/ \E i : Spot(g) = <<"prv", i>> /\ PrivateLayout[Depth][i] = g
  <2>1. CASE g \in Elements(Public[l])
    BY <1>2, <1>3, <2>1, PublicPlace DEF PlacedAt, Spot
  <2>2. CASE g \in Elements(Private[l])
    BY <1>2, <1>3, <2>2, PrivatePlace DEF PlacedAt, Spot
  <2> QED
    BY <1>2, <2>1, <2>2 DEF Own
<1>6. \A i, j : <<"object", i>> = <<"object", j>> => i = j
  OBVIOUS
<1>7. \A i, j : <<"prv", i>> = <<"prv", j>> => i = j
  OBVIOUS
<1>8. \A i, j : <<"prv", i>> # <<"object", j>>
  OBVIOUS
<1> QED
  BY <1>4, <1>5, <1>6, <1>7, <1>8

LEMMA AccessibleOwn ==
  ASSUME NEW m \in Classes, NEW f \in Accessible(m)
  PROVE  \E k \in 1..m : k \in Classes /\ f \in Own(k)
<1>1. Depth \in Nat /\ Classes = 1..Depth
  BY ObjectsAssumption DEF ObjectsAssumption, Classes
<1>2. CASE f \in Elements(PublicLayout[m])
  <2>1. PICK k \in 1..m : f \in Elements(Public[k])
    BY <1>1, <1>2, PublicLayers, LayoutElements
  <2> QED
    BY <1>1, <2>1 DEF Own
<1>3. CASE f \in Elements(Private[m])
  BY <1>1, <1>3 DEF Own
<1> QED
  BY <1>2, <1>3 DEF Accessible

LEMMA OwnAccessible ==
  ASSUME NEW k \in Classes, NEW f \in Own(k)
  PROVE  f \in Accessible(k)
<1>1. k \in k..Depth
  BY ObjectsAssumption DEF ObjectsAssumption, Classes
<1>2. CASE f \in Elements(Public[k])
  <2>1. PICK i : PlacedAt(PublicLayout, k, f, i)
    BY <1>2, PublicPlace
  <2>2. i \in DOMAIN PublicLayout[k] /\ PublicLayout[k][i] = f
    BY <1>1, <2>1 DEF PlacedAt
  <2> QED
    BY <2>2 DEF Accessible, Elements
<1>3. CASE f \in Elements(Private[k])
  BY <1>3 DEF Accessible
<1> QED
  BY <1>2, <1>3 DEF Own

LEMMA OwnFields == \A k \in Classes : \A f \in Own(k) : f \in Fields
BY DEF Fields

-----------------------------------------------------------------------------
(* The calls of a constructor, by their place in it.                       *)
DoAt(c, i) ==
  IF i = 1 THEN "vtable" ELSE IF i <= c \/ i = 2 * c THEN "assign" ELSE "init"

OfAt(c, i) ==
  IF i = 1 THEN c ELSE IF i <= c THEN i - 1 ELSE IF i < 2 * c THEN i - c ELSE c

Task == [do : {"vtable", "assign", "init"}, of : Nat]

Item(do, k) == [do |-> do, of |-> k]

Joins(u, s, t, n, m) ==
  /\ u \in Seq(Task) /\ Len(u) = n + m
  /\ \A i \in 1..n : u[i] = s[i]
  /\ \A i \in (n + 1)..(n + m) : u[i] = t[i - n]

LEMMA JoinedAt ==
  ASSUME NEW s \in Seq(Task), NEW t \in Seq(Task), NEW n \in Nat, NEW m \in Nat,
         Len(s) = n, Len(t) = m, NEW u, u = s \o t
  PROVE  Joins(u, s, t, n, m)
<1>1. /\ s \o t \in Seq(Task) /\ Len(s \o t) = n + m
      /\ \A i \in 1..n : (s \o t)[i] = s[i]
      /\ \A i \in (n + 1)..(n + m) : (s \o t)[i] = t[i - n]
  <2>1. /\ s \o t \in Seq(Task) /\ Len(s \o t) = n + m
        /\ \A i \in 1..(n + m) : (s \o t)[i] = IF i <= n THEN s[i] ELSE t[i - n]
    BY ConcatProperties
  <2>2. PICK x : x = s \o t
    OBVIOUS
  <2>3. /\ \A i \in 1..n : x[i] = s[i]
        /\ \A i \in (n + 1)..(n + m) : x[i] = t[i - n]
    BY <2>1, <2>2
  <2> QED
    BY <2>1, <2>2, <2>3
<1> QED
  BY <1>1, Zenon DEF Joins

LEMMA ConstructorCalls ==
  ASSUME NEW c \in Nat \ {0}
  PROVE  /\ Constructor(c) \in Seq(Task) /\ Len(Constructor(c)) = 2 * c + 1
         /\ \A i \in 1..(2 * c + 1) : Constructor(c)[i] = Item(DoAt(c, i), OfAt(c, i))
<1>1. PICK v : v = Call("vtable", c)
  OBVIOUS
<1>2. PICK a : a = Calls("assign", c - 1)
  OBVIOUS
<1>3. PICK n : n = Calls("init", c - 1)
  OBVIOUS
<1>4. PICK b : b = Call("assign", c)
  OBVIOUS
<1>5. PICK e : e = Call("init", c)
  OBVIOUS
<1>6. v \in Seq(Task) /\ Len(v) = 1 /\ v[1] = Item("vtable", c)
  BY <1>1 DEF Call, Task, Item
<1>7. a \in Seq(Task) /\ Len(a) = c - 1 /\ \A i \in 1..(c - 1) : a[i] = Item("assign", i)
  BY <1>2 DEF Calls, Task, Item
<1>8. n \in Seq(Task) /\ Len(n) = c - 1 /\ \A i \in 1..(c - 1) : n[i] = Item("init", i)
  BY <1>3 DEF Calls, Task, Item
<1>9. b \in Seq(Task) /\ Len(b) = 1 /\ b[1] = Item("assign", c)
  BY <1>4 DEF Call, Task, Item
<1>10. e \in Seq(Task) /\ Len(e) = 1 /\ e[1] = Item("init", c)
  BY <1>5 DEF Call, Task, Item
<1>11. PICK w : w = v \o a
  OBVIOUS
<1>12. PICK x : x = w \o n
  OBVIOUS
<1>13. PICK y : y = x \o b
  OBVIOUS
<1>14. PICK z : z = y \o e
  OBVIOUS
<1>15. z = Constructor(c)
  BY <1>1, <1>2, <1>3, <1>4, <1>5, <1>11, <1>12, <1>13, <1>14 DEF Constructor
<1>16. /\ w \in Seq(Task) /\ Len(w) = c /\ w[1] = Item("vtable", c)
       /\ \A i \in 2..c : w[i] = Item("assign", i - 1)
  <2>1. Joins(w, v, a, 1, c - 1)
    <3>1. 1 \in Nat /\ c - 1 \in Nat
      OBVIOUS
    <3> QED
      BY <1>6, <1>7, <1>11, <3>1, JoinedAt
  <2>2. /\ w \in Seq(Task) /\ Len(w) = c /\ w[1] = v[1]
        /\ \A i \in 2..c : w[i] = a[i - 1] /\ i - 1 \in 1..(c - 1)
    BY <2>1 DEF Joins
  <2> QED
    BY <1>6, <1>7, <2>2
<1>17. /\ x \in Seq(Task) /\ Len(x) = 2 * c - 1 /\ \A i \in 1..c : x[i] = w[i]
       /\ \A i \in (c + 1)..(2 * c - 1) : x[i] = Item("init", i - c)
  <2>1. Joins(x, w, n, c, c - 1)
    <3>1. c \in Nat /\ c - 1 \in Nat
      OBVIOUS
    <3> QED
      BY <1>8, <1>12, <1>16, <3>1, JoinedAt
  <2>2. /\ x \in Seq(Task) /\ Len(x) = 2 * c - 1 /\ \A i \in 1..c : x[i] = w[i]
        /\ \A i \in (c + 1)..(2 * c - 1) : x[i] = n[i - c] /\ i - c \in 1..(c - 1)
    BY <2>1 DEF Joins
  <2> QED
    BY <1>8, <2>2
<1>18. /\ y \in Seq(Task) /\ Len(y) = 2 * c /\ \A i \in 1..(2 * c - 1) : y[i] = x[i]
       /\ y[2 * c] = Item("assign", c)
  <2>1. PICK k \in Nat : k = 2 * c - 1
    OBVIOUS
  <2>2. Joins(y, x, b, k, 1)
    BY <1>9, <1>13, <1>17, <2>1, JoinedAt
  <2>3. /\ y \in Seq(Task) /\ Len(y) = k + 1 /\ \A i \in 1..k : y[i] = x[i]
        /\ y[k + 1] = b[1]
    BY <2>2 DEF Joins
  <2> QED
    BY <1>9, <2>1, <2>3
<1>19. /\ z \in Seq(Task) /\ Len(z) = 2 * c + 1 /\ \A i \in 1..(2 * c) : z[i] = y[i]
       /\ z[2 * c + 1] = Item("init", c)
  <2>1. PICK k \in Nat : k = 2 * c
    OBVIOUS
  <2>2. Joins(z, y, e, k, 1)
    BY <1>10, <1>14, <1>18, <2>1, JoinedAt
  <2>3. /\ z \in Seq(Task) /\ Len(z) = k + 1 /\ \A i \in 1..k : z[i] = y[i]
        /\ z[k + 1] = e[1]
    BY <2>2 DEF Joins
  <2> QED
    BY <1>10, <2>1, <2>3
<1>20. ASSUME NEW i \in 1..(2 * c + 1)
       PROVE  z[i] = Item(DoAt(c, i), OfAt(c, i))
  <2>1. CASE i = 1
    <3>1. 1 \in 1..c /\ 1 \in 1..(2 * c - 1) /\ 1 \in 1..(2 * c)
      OBVIOUS
    <3>2. z[1] = Item("vtable", c)
      BY <1>16, <1>17, <1>18, <1>19, <3>1
    <3> QED
      BY <2>1, <3>2 DEF DoAt, OfAt
  <2>2. CASE i \in 2..c
    <3>1. i \in 1..c /\ i \in 1..(2 * c - 1) /\ i \in 1..(2 * c)
      BY <2>2
    <3>2. z[i] = Item("assign", i - 1)
      BY <1>16, <1>17, <1>18, <1>19, <2>2, <3>1
    <3> QED
      BY <2>2, <3>2 DEF DoAt, OfAt
  <2>3. CASE i \in (c + 1)..(2 * c - 1) /\ i # 1
    <3>1. i \in 1..(2 * c - 1) /\ i \in 1..(2 * c)
      BY <2>3
    <3>2. z[i] = Item("init", i - c)
      BY <1>17, <1>18, <1>19, <2>3, <3>1
    <3>3. DoAt(c, i) = "init" /\ OfAt(c, i) = i - c
      BY <2>3 DEF DoAt, OfAt
    <3> QED
      BY <3>2, <3>3
  <2>4. CASE i = 2 * c
    <3>1. i \in 1..(2 * c) /\ i # 1 /\ ~(i <= c) /\ ~(i < 2 * c)
      BY <2>4
    <3>2. z[i] = Item("assign", c)
      BY <1>18, <1>19, <2>4, <3>1
    <3>3. DoAt(c, i) = "assign" /\ OfAt(c, i) = c
      BY <2>4, <3>1 DEF DoAt, OfAt
    <3> QED
      BY <3>2, <3>3
  <2>5. CASE i = 2 * c + 1
    <3>1. DoAt(c, i) = "init" /\ OfAt(c, i) = c
      BY <2>5 DEF DoAt, OfAt
    <3> QED
      BY <1>19, <2>5, <3>1
  <2> QED
    BY <2>1, <2>2, <2>3, <2>4, <2>5
<1> QED
  BY <1>15, <1>19, <1>20

-----------------------------------------------------------------------------
(* The calls that are done.  A class is complete when its assignment method*)
(* has returned, and begun when it has set the defaults.                   *)
done == 2 * class + 1 - Len(todo)

CompleteAt(c, d, k) == IF k < c THEN d > k ELSE d >= 2 * c

BegunAt(c, d, s, k) ==
  \/ CompleteAt(c, d, k)
  \/ DoAt(c, d + 1) = "assign" /\ OfAt(c, d + 1) = k /\ s > 0

Value == {Junk, Null} \cup (Fields \X {"initial", "written"})

(* The fields whose initialisers have run when the assignment method of    *)
(* class l is at s.                                                        *)
Ran(l, s) == {Declared(l)[i] : i \in {j \in DOMAIN Declared(l) : j < s}} \cap Initialised

(* What is stored has replaced what malloc left.                           *)
StoredAt(c, d, s, stored) ==
  /\ \A k \in 1..c : BegunAt(c, d, s, k) => \A f \in Defaulted(k) : stored[f] # Junk
  /\ \A k \in 1..c : CompleteAt(c, d, k) =>
       \A f \in Own(k) \cap Initialised : stored[f] # Junk
  /\ DoAt(c, d + 1) = "assign" => \A f \in Ran(OfAt(c, d + 1), s) : stored[f] # Junk

(* Every field holds what was last stored in it, at its one place.         *)
MemOK(c, memory, stored) ==
  /\ memory \in [Places(c) -> Value] /\ stored \in [Fields -> Value]
  /\ \A k \in 1..c : \A f \in Own(k) : memory[Spot(f)] = stored[f]

ProgressAt(c, d, s, vt, as, stored) ==
  /\ IF d >= 1 THEN vt = c ELSE s = 0
  /\ \A k \in as : k \in 1..c /\ CompleteAt(c, d, k)
  /\ StoredAt(c, d, s, stored)

LeftAt(c, d, calls) ==
  /\ calls \in Seq(Task) /\ d \in 0..(2 * c) /\ Len(calls) = 2 * c + 1 - d
  /\ \A i \in 1..Len(calls) : calls[i] = Item(DoAt(c, d + i), OfAt(c, d + i))

(* The inductive invariant of the construction.                            *)
ObjectInv ==
  /\ class \in 0..Depth /\ step \in Nat
  /\ class = 0 => todo = << >>
  /\ class # 0 => /\ LeftAt(class, done, todo)
                  /\ MemOK(class, mem, last)
                  /\ ProgressAt(class, done, step, vtable, assigned, last)

LEMMA CallFacts ==
  ASSUME NEW c \in Nat \ {0}, NEW d \in 0..(2 * c)
  PROVE  /\ OfAt(c, d + 1) \in 1..c /\ DoAt(c, d + 1) \in {"vtable", "assign", "init"}
         /\ DoAt(c, d + 1) = "vtable" <=> d = 0
         /\ DoAt(c, d + 1) = "assign" =>
              /\ d >= 1 /\ d < 2 * c
              /\ ~CompleteAt(c, d, OfAt(c, d + 1))
              /\ \A k \in 1..c : CompleteAt(c, d + 1, k) => CompleteAt(c, d, k) \/ k = OfAt(c, d + 1)
              /\ CompleteAt(c, d + 1, OfAt(c, d + 1))
              /\ \A k \in 1..c : ~CompleteAt(c, d, k) => k >= OfAt(c, d + 1)
         /\ DoAt(c, d + 1) # "assign" =>
              \A k \in 1..c : CompleteAt(c, d + 1, k) => CompleteAt(c, d, k)
         /\ DoAt(c, d + 1) = "init" =>
              /\ d >= 1
              /\ \A k \in 1..c : ~CompleteAt(c, d, k) => k = c /\ k > OfAt(c, d + 1)
         /\ \A k \in 1..c : CompleteAt(c, d, k) => CompleteAt(c, d + 1, k)
         /\ (d = 2 * c => DoAt(c, d + 1) = "init")
<1>1. CASE d = 0
  <2>1. DoAt(c, d + 1) = "vtable" /\ OfAt(c, d + 1) = c
    BY <1>1 DEF DoAt, OfAt
  <2>2. \A k \in 1..c : ~CompleteAt(c, d, k) /\ ~CompleteAt(c, d + 1, k)
    BY <1>1 DEF CompleteAt
  <2> QED
    BY <1>1, <2>1, <2>2
<1>2. CASE d \in 1..(c - 1)
  <2>1. DoAt(c, d + 1) = "assign" /\ OfAt(c, d + 1) = d
    BY <1>2 DEF DoAt, OfAt
  <2>2. \A k \in 1..c : (CompleteAt(c, d, k) <=> k < d) /\ (CompleteAt(c, d + 1, k) <=> k <= d)
    BY <1>2 DEF CompleteAt
  <2> QED
    BY <1>2, <2>1, <2>2
<1>3. CASE d \in c..(2 * c - 2) /\ d # 0
  <2>1. DoAt(c, d + 1) = "init" /\ OfAt(c, d + 1) = d + 1 - c
    BY <1>3 DEF DoAt, OfAt
  <2>2. \A k \in 1..c : (CompleteAt(c, d, k) <=> k < c) /\ (CompleteAt(c, d + 1, k) <=> k < c)
    BY <1>3 DEF CompleteAt
  <2> QED
    BY <1>3, <2>1, <2>2
<1>4. CASE d = 2 * c - 1
  <2>1. DoAt(c, d + 1) = "assign" /\ OfAt(c, d + 1) = c
    BY <1>4 DEF DoAt, OfAt
  <2>2. \A k \in 1..c : (CompleteAt(c, d, k) <=> k < c) /\ CompleteAt(c, d + 1, k)
    BY <1>4 DEF CompleteAt
  <2> QED
    BY <1>4, <2>1, <2>2
<1>5. CASE d = 2 * c
  <2>1. DoAt(c, d + 1) = "init" /\ OfAt(c, d + 1) = c
    BY <1>5 DEF DoAt, OfAt
  <2>2. \A k \in 1..c : CompleteAt(c, d, k) /\ CompleteAt(c, d + 1, k)
    BY <1>5 DEF CompleteAt
  <2> QED
    BY <1>5, <2>1, <2>2
<1> QED
  BY <1>1, <1>2, <1>3, <1>4, <1>5

(* The declared fields of a class are its own, and no others.              *)
LEMMA DeclaredFacts ==
  ASSUME NEW l \in Classes
  PROVE  /\ Len(Declared(l)) \in Nat /\ DOMAIN Declared(l) = 1..Len(Declared(l))
         /\ \A i \in DOMAIN Declared(l) : Declared(l)[i] \in Own(l)
         /\ \A f \in Own(l) : \E i \in DOMAIN Declared(l) : Declared(l)[i] = f
<1>1. PICK p, q : p = Public[l] /\ q = Private[l]
  OBVIOUS
<1>2. p \in Seq(Fields) /\ q \in Seq(Fields)
  BY <1>1, FieldsAssumption DEF FieldsAssumption
<1>3. PICK u : u = p \o q
  OBVIOUS
<1>4. Declared(l) = u /\ Own(l) = Elements(p) \cup Elements(q)
  BY <1>1, <1>3 DEF Declared, Own
<1>5. PICK n, r : n = Len(p) /\ r = Len(q)
  OBVIOUS
<1>6. n \in Nat /\ r \in Nat /\ DOMAIN p = 1..n /\ DOMAIN q = 1..r
  BY <1>2, <1>5
<1>7. /\ u \in Seq(Fields) /\ Len(u) = n + r
      /\ \A i \in 1..(n + r) : u[i] = IF i <= n THEN p[i] ELSE q[i - n]
  BY <1>2, <1>3, <1>5, ConcatProperties
<1>8. Len(u) \in Nat /\ DOMAIN u = 1..(n + r) /\ Len(u) = n + r
  BY <1>6, <1>7
<1>9. ASSUME NEW i \in 1..(n + r) PROVE u[i] \in Elements(p) \cup Elements(q)
  <2>1. CASE i <= n
    BY <1>6, <1>7, <2>1 DEF Elements
  <2>2. CASE ~(i <= n)
    <3>1. i - n \in 1..r
      BY <1>6, <2>2
    <3> QED
      BY <1>6, <1>7, <2>2, <3>1 DEF Elements
  <2> QED
    BY <2>1, <2>2
<1>10. ASSUME NEW f \in Elements(p) \cup Elements(q) PROVE \E i \in 1..(n + r) : u[i] = f
  <2>1. CASE f \in Elements(p)
    <3>1. PICK i \in 1..n : p[i] = f
      BY <1>6, <2>1 DEF Elements
    <3>2. i \in 1..(n + r) /\ i <= n
      BY <1>6
    <3> QED
      BY <1>7, <3>1, <3>2
  <2>2. CASE f \in Elements(q)
    <3>1. PICK i \in 1..r : q[i] = f
      BY <1>6, <2>2 DEF Elements
    <3>2. PICK j : j = n + i
      OBVIOUS
    <3>3. j \in 1..(n + r) /\ ~(j <= n) /\ j - n = i
      BY <1>6, <3>2
    <3> QED
      BY <1>7, <3>1, <3>3
  <2> QED
    BY <2>1, <2>2
<1> QED
  BY <1>4, <1>8, <1>9, <1>10

LEMMA RanFacts ==
  ASSUME NEW l \in Classes
  PROVE  /\ \A s : Ran(l, s) \subseteq Own(l) \cap Initialised
         /\ Ran(l, 0) = {} /\ Ran(l, 1) = {}
         /\ \A s \in DOMAIN Declared(l) :
              Ran(l, s + 1) \subseteq Ran(l, s) \cup ({Declared(l)[s]} \cap Initialised)
         /\ \A s : s = Len(Declared(l)) + 1 => Own(l) \cap Initialised \subseteq Ran(l, s)
<1>1. PICK u : u = Declared(l)
  OBVIOUS
<1>2. PICK n \in Nat : n = Len(u) /\ DOMAIN u = 1..n
  BY <1>1, DeclaredFacts
<1>3. \A s : Ran(l, s) = {u[i] : i \in {j \in 1..n : j < s}} \cap Initialised
  BY <1>1, <1>2 DEF Ran
<1>4. /\ \A i \in 1..n : u[i] \in Own(l)
      /\ \A f \in Own(l) : \E i \in 1..n : u[i] = f
  BY <1>1, <1>2, DeclaredFacts
<1>5. \A s : Ran(l, s) \subseteq Own(l) \cap Initialised
  BY <1>3, <1>4
<1>6. Ran(l, 0) = {} /\ Ran(l, 1) = {}
  <2>1. \A j \in 1..n : ~(j < 0) /\ ~(j < 1)
    OBVIOUS
  <2> QED
    BY <1>3, <2>1
<1>7. ASSUME NEW s \in 1..n, NEW f \in Ran(l, s + 1)
      PROVE  f \in Ran(l, s) \cup ({u[s]} \cap Initialised)
  <2>1. PICK i \in 1..n : i < s + 1 /\ f = u[i] /\ f \in Initialised
    BY <1>3
  <2>2. i < s \/ i = s
    BY <2>1
  <2> QED
    BY <1>3, <2>1, <2>2
<1>8. ASSUME NEW f \in Own(l) \cap Initialised PROVE f \in Ran(l, n + 1)
  <2>1. PICK i \in 1..n : u[i] = f
    BY <1>4
  <2>2. i < n + 1
    OBVIOUS
  <2> QED
    BY <1>3, <2>1, <2>2
<1> QED
  BY <1>1, <1>2, <1>5, <1>6, <1>7, <1>8

LEMMA JunkDistinct ==
  /\ Null # Junk
  /\ \A f \in Fields : <<f, "initial">> # Junk /\ <<f, "written">> # Junk
  /\ Null \in Value /\ Junk \in Value
  /\ \A f \in Fields : <<f, "initial">> \in Value /\ <<f, "written">> \in Value
<1>1. /\ \A f \in Fields : <<f, "initial">> \in Fields \X {"initial", "written"}
      /\ \A f \in Fields : <<f, "written">> \in Fields \X {"initial", "written"}
  OBVIOUS
<1>2. Junk \notin {Null} \cup (Fields \X {"initial", "written"})
  BY FieldsAssumption DEF FieldsAssumption
<1>3. PICK V : V = Fields \X {"initial", "written"}
  OBVIOUS
<1> QED
  BY <1>1, <1>2, <1>3 DEF Value

(* A store by a method of any class of the object keeps memory and history *)
(* together.                                                               *)
LEMMA StoreKeeps ==
  ASSUME NEW c \in Classes, NEW memory, NEW stored, MemOK(c, memory, stored),
         NEW m \in 1..c, NEW f \in Accessible(m), NEW v \in Value, v # Junk,
         NEW memory2, memory2 = [memory EXCEPT ![Place(m, f)] = v],
         NEW stored2, stored2 = [stored EXCEPT ![f] = v]
  PROVE  /\ MemOK(c, memory2, stored2)
         /\ \A g \in Fields : stored2[g] = Junk => stored[g] = Junk
<1>1. Depth \in Nat /\ Classes = 1..Depth
  BY ObjectsAssumption DEF ObjectsAssumption, Classes
<1>2. m \in Classes /\ m \in Nat
  BY <1>1
<1>3. PICK l \in 1..m : l \in Classes /\ f \in Own(l)
  BY <1>2, AccessibleOwn
<1>4. m \in l..Depth /\ c \in l..Depth
  BY <1>1, <1>2, <1>3
<1>5. f \in Fields /\ Place(m, f) = Spot(f) /\ Spot(f) \in Places(c)
  BY <1>3, <1>4, SamePlace, OwnFields
<1>6. PICK P : P = Places(c)
  OBVIOUS
<1>7. memory \in [P -> Value] /\ stored \in [Fields -> Value] /\ Spot(f) \in P
  BY <1>5, <1>6 DEF MemOK
<1>8. /\ memory2 \in [P -> Value]
      /\ memory2[Spot(f)] = v
      /\ \A q \in P : q # Spot(f) => memory2[q] = memory[q]
  BY <1>5, <1>7
<1>9. /\ stored2 \in [Fields -> Value]
      /\ stored2[f] = v
      /\ \A g \in Fields : g # f => stored2[g] = stored[g]
  BY <1>5, <1>7
<1>10. ASSUME NEW k \in 1..c, NEW g \in Own(k) PROVE memory2[Spot(g)] = stored2[g]
  <2>1. k \in Classes /\ c \in k..Depth
    BY <1>1
  <2>2. g \in Fields /\ Spot(g) \in P
    BY <1>6, <2>1, SamePlace, OwnFields
  <2>3. CASE g = f
    BY <1>8, <1>9, <2>3
  <2>4. CASE g # f
    <3>1. Spot(g) # Spot(f)
      BY <1>5, <2>2, <2>4, OwnPlace
    <3>2. memory[Spot(g)] = stored[g]
      BY DEF MemOK
    <3> QED
      BY <1>8, <1>9, <2>2, <2>4, <3>1, <3>2
  <2> QED
    BY <2>3, <2>4
<1> QED
  BY <1>6, <1>8, <1>9, <1>10 DEF MemOK

(* So do the defaults of a class.                                          *)
LEMMA DefaultsKeep ==
  ASSUME NEW c \in Classes, NEW memory, NEW stored, MemOK(c, memory, stored),
         NEW l \in 1..c, NEW S \in SUBSET Own(l),
         NEW memory2, memory2 = [place \in DOMAIN memory |->
           IF \E f \in S : place = Place(l, f) THEN Null ELSE memory[place]],
         NEW stored2, stored2 = [f \in Fields |-> IF f \in S THEN Null ELSE stored[f]]
  PROVE  /\ MemOK(c, memory2, stored2)
         /\ \A g \in Fields : stored2[g] = Junk => stored[g] = Junk /\ g \notin S
<1>1. Depth \in Nat /\ Classes = 1..Depth
  BY ObjectsAssumption DEF ObjectsAssumption, Classes
<1>2. PICK P : P = Places(c)
  OBVIOUS
<1>3. memory \in [P -> Value] /\ stored \in [Fields -> Value] /\ Null \in Value
  BY <1>2, JunkDistinct DEF MemOK
<1>4. /\ stored2 \in [Fields -> Value]
      /\ \A g \in Fields : stored2[g] = IF g \in S THEN Null ELSE stored[g]
  BY <1>3
<1>5. l \in Classes /\ l \in l..Depth
  BY <1>1
<1>6. \A f \in Own(l) : Place(l, f) = Spot(f)
  BY <1>5, SamePlace
<1>7. /\ memory2 \in [P -> Value]
      /\ \A q \in P : memory2[q] = IF \E f \in S : q = Place(l, f) THEN Null ELSE memory[q]
  BY <1>3
<1>8. ASSUME NEW k \in 1..c, NEW g \in Own(k) PROVE memory2[Spot(g)] = stored2[g]
  <2>1. k \in Classes /\ c \in k..Depth
    BY <1>1
  <2>2. g \in Fields /\ Spot(g) \in P
    BY <1>2, <2>1, SamePlace, OwnFields
  <2>3. (\E f \in S : Spot(g) = Place(l, f)) <=> g \in S
    <3>1. ASSUME NEW f \in S, Spot(g) = Place(l, f) PROVE g \in S
      <4>1. Spot(g) = Spot(f) /\ f \in Fields
        BY <1>5, <1>6, <3>1, OwnFields
      <4> QED
        BY <2>2, <4>1, OwnPlace
    <3>2. ASSUME g \in S PROVE \E f \in S : Spot(g) = Place(l, f)
      BY <1>6, <3>2
    <3> QED
      BY <3>1, <3>2
  <2>4. memory[Spot(g)] = stored[g]
    BY DEF MemOK
  <2>5. memory2[Spot(g)] = IF g \in S THEN Null ELSE memory[Spot(g)]
    BY <1>7, <2>2, <2>3
  <2> QED
    BY <1>4, <2>2, <2>4, <2>5
<1>9. Null # Junk
  BY JunkDistinct
<1> QED
  BY <1>2, <1>4, <1>7, <1>8, <1>9 DEF MemOK

-----------------------------------------------------------------------------
(* The invariant after a step that goes on with the same call.             *)
LEMMA SameCall ==
  ASSUME ObjectInv, class # 0, UNCHANGED <<class, todo, vtable, assigned>>,
         step' \in Nat, done >= 1 \/ step' = step, MemOK(class, mem', last'),
         StoredAt(class, done, step', last')
  PROVE  ObjectInv'
<1>1. PICK c, d : c = class /\ d = done
  OBVIOUS
<1>2. class' = c /\ done' = d
  BY <1>1 DEF done
<1>3. LeftAt(c, d, todo')
  BY <1>1 DEF ObjectInv
<1>4. MemOK(c, mem', last')
  BY <1>1
<1>5. ProgressAt(c, d, step', vtable', assigned', last')
  <2>1. ProgressAt(c, d, step, vtable, assigned, last)
    BY <1>1 DEF ObjectInv
  <2>2. IF d >= 1 THEN vtable' = c ELSE step' = 0
    BY <1>1, <2>1 DEF ProgressAt
  <2> QED
    BY <1>1, <2>1, <2>2 DEF ProgressAt
<1>6. c \in 0..Depth /\ c # 0
  BY <1>1 DEF ObjectInv
<1> QED
  BY <1>2, <1>3, <1>4, <1>5, <1>6 DEF ObjectInv

(* And after one that ends the call and goes on with the next.             *)
LEMMA NextCall ==
  ASSUME ObjectInv, class # 0, done < 2 * class,
         todo' = Tail(todo), UNCHANGED <<class, mem, last>>,
         step' = 0, vtable' = class,
         \A k \in assigned' : k \in assigned \/ (k \in 1..class /\ CompleteAt(class, done + 1, k)),
         \A k \in 1..class : CompleteAt(class, done + 1, k) =>
           \/ CompleteAt(class, done, k)
           \/ /\ BegunAt(class, done, step, k)
              /\ \A f \in Own(k) \cap Initialised : last[f] # Junk
  PROVE  ObjectInv'
<1>1. PICK c, d : c = class /\ d = done
  OBVIOUS
<1>2. c \in Nat \ {0} /\ c \in 0..Depth /\ LeftAt(c, d, todo) /\ d < 2 * c
  BY <1>1 DEF ObjectInv
<1>3. /\ todo \in Seq(Task) /\ d \in 0..(2 * c) /\ Len(todo) = 2 * c + 1 - d
      /\ \A i \in 1..Len(todo) : todo[i] = Item(DoAt(c, d + i), OfAt(c, d + i))
  BY <1>2 DEF LeftAt
<1>4. PICK t : t = Tail(todo)
  OBVIOUS
<1>5. PICK n \in Nat : n = Len(todo) /\ n > 1
  BY <1>2, <1>3
<1>6. /\ t \in Seq(Task) /\ Len(t) = n - 1
      /\ \A i \in 1..(n - 1) : t[i] = todo[i + 1]
  BY <1>3, <1>4, <1>5
<1>7. class' = c /\ done' = d + 1
  <2>1. class' = c /\ Len(todo') = n - 1
    BY <1>1, <1>4, <1>6
  <2>2. n = 2 * c + 1 - d
    BY <1>3, <1>5
  <2>3. done' = 2 * c + 1 - (n - 1)
    BY <2>1 DEF done
  <2>4. 2 * c + 1 - (n - 1) = d + 1
    BY <1>2, <1>3, <2>2
  <2> QED
    BY <2>1, <2>3, <2>4
<1>8. LeftAt(c, d + 1, todo')
  <2>1. ASSUME NEW i \in 1..(n - 1)
        PROVE  t[i] = Item(DoAt(c, d + 1 + i), OfAt(c, d + 1 + i))
    <3>1. PICK j : j = i + 1 /\ j \in 1..n /\ d + j = d + 1 + i
      BY <1>3, <1>5
    <3>2. todo[j] = Item(DoAt(c, d + j), OfAt(c, d + j))
      BY <1>3, <1>5, <3>1
    <3> QED
      BY <1>6, <3>1, <3>2
  <2>2. d + 1 \in 0..(2 * c) /\ n - 1 = 2 * c + 1 - (d + 1)
    BY <1>2, <1>3, <1>5
  <2> QED
    BY <1>4, <1>6, <2>1, <2>2 DEF LeftAt
<1>9. MemOK(c, mem', last')
  BY <1>1 DEF ObjectInv
<1>10. ProgressAt(c, d + 1, step', vtable', assigned', last')
  <2>1. ProgressAt(c, d, step, vtable, assigned, last)
    BY <1>1 DEF ObjectInv
  <2>2. \A k \in 1..c : CompleteAt(c, d, k) => CompleteAt(c, d + 1, k)
    BY <1>2, <1>3, CallFacts
  <2>3. \A k \in assigned' : k \in 1..c /\ CompleteAt(c, d + 1, k)
    BY <1>1, <2>1, <2>2 DEF ProgressAt
  <2>4. \A k \in 1..c : BegunAt(c, d + 1, step', k) => CompleteAt(c, d + 1, k)
    BY DEF BegunAt
  <2>5. StoredAt(c, d + 1, step', last')
    <3>1. /\ StoredAt(c, d, step, last) /\ last' = last
          /\ \A k \in 1..c : CompleteAt(c, d, k) => BegunAt(c, d, step, k)
      BY <2>1 DEF ProgressAt, BegunAt
    <3>2. ASSUME NEW k \in 1..c, CompleteAt(c, d + 1, k)
          PROVE  /\ \A f \in Defaulted(k) : last'[f] # Junk
                 /\ \A f \in Own(k) \cap Initialised : last'[f] # Junk
      BY <1>1, <3>1, <3>2 DEF StoredAt
    <3>3. Ran(OfAt(c, d + 2), step') = {}
      <4>1. d + 1 \in 0..(2 * c) /\ (d + 1) + 1 = d + 2
        BY <1>2, <1>3
      <4>2. OfAt(c, d + 2) \in 1..c
        BY <1>2, <4>1, CallFacts
      <4>3. OfAt(c, d + 2) \in Classes
        BY <1>2, <4>2, ObjectsAssumption DEF ObjectsAssumption, Classes
      <4> QED
        BY <4>3, RanFacts
    <3>4. (d + 1) + 1 = d + 2
      BY <1>3
    <3> QED
      BY <2>4, <3>2, <3>3, <3>4 DEF StoredAt
  <2>6. IF d + 1 >= 1 THEN vtable' = c ELSE step' = 0
    BY <1>1
  <2> QED
    BY <2>3, <2>5, <2>6 DEF ProgressAt
<1> QED
  BY <1>2, <1>7, <1>8, <1>9, <1>10 DEF ObjectInv

-----------------------------------------------------------------------------
(* The call the constructor is at.                                         *)
LEMMA Current ==
  ASSUME ObjectInv, class # 0
  PROVE  /\ class \in Nat \ {0} /\ class \in Classes
         /\ done \in 0..(2 * class) /\ done \in Nat
         /\ todo # << >> /\ Len(todo) = 2 * class + 1 - done
         /\ k0 = OfAt(class, done + 1) /\ k0 \in 1..class /\ k0 \in Classes
         /\ \A do : At(do) <=> DoAt(class, done + 1) = do
<1>1. Depth \in Nat /\ Classes = 1..Depth
  BY ObjectsAssumption DEF ObjectsAssumption, Classes
<1>2. PICK c, d : c = class /\ d = done
  OBVIOUS
<1>3. c \in Nat \ {0} /\ c \in Classes /\ c \in 1..Depth /\ LeftAt(c, d, todo)
  BY <1>1, <1>2 DEF ObjectInv
<1>4. /\ todo \in Seq(Task) /\ d \in 0..(2 * c) /\ Len(todo) = 2 * c + 1 - d
      /\ \A i \in 1..Len(todo) : todo[i] = Item(DoAt(c, d + i), OfAt(c, d + i))
  BY <1>3 DEF LeftAt
<1>5. d \in Nat /\ 1 \in 1..Len(todo)
  BY <1>3, <1>4
<1>6. todo # << >> /\ Head(todo) = todo[1]
  BY <1>4, <1>5
<1>7. Head(todo) = Item(DoAt(c, d + 1), OfAt(c, d + 1))
  BY <1>4, <1>5, <1>6
<1>8. OfAt(c, d + 1) \in 1..c
  BY <1>3, <1>4, CallFacts
<1>9. OfAt(c, d + 1) \in Classes
  BY <1>1, <1>3, <1>8
<1>10. k0 = OfAt(c, d + 1)
  BY <1>7 DEF k0, Item
<1>11. \A do : At(do) <=> DoAt(c, d + 1) = do
  BY <1>6, <1>7 DEF At, Item
<1> QED
  BY <1>2, <1>3, <1>4, <1>5, <1>6, <1>8, <1>9, <1>10, <1>11

LEMMA NoCall ==
  ASSUME ObjectInv, class = 0
  PROVE  \A do : ~At(do)
BY DEF ObjectInv, At

LEMMA NewKeeps ==
  ASSUME ObjectInv, NEW c \in Classes, New(c)
  PROVE  ObjectInv'
<1>1. Depth \in Nat /\ Classes = 1..Depth /\ c \in Nat \ {0} /\ c \in 0..Depth
  BY ObjectsAssumption DEF ObjectsAssumption, Classes
<1>2. /\ class' = c /\ todo' = Constructor(c) /\ step' = 0
      /\ mem' = [place \in Places(c) |-> Junk] /\ vtable' = 0 /\ assigned' = {}
      /\ last' = [f \in Fields |-> Junk]
  BY DEF New
<1>3. /\ Constructor(c) \in Seq(Task) /\ Len(Constructor(c)) = 2 * c + 1
      /\ \A i \in 1..(2 * c + 1) : Constructor(c)[i] = Item(DoAt(c, i), OfAt(c, i))
  BY <1>1, ConstructorCalls
<1>4. done' = 0
  <2>1. PICK x : x = Len(todo')
    OBVIOUS
  <2>2. x = 2 * c + 1
    BY <1>2, <1>3, <2>1
  <2>3. done' = 2 * c + 1 - x
    BY <1>2, <2>1 DEF done
  <2> QED
    BY <1>1, <2>2, <2>3
<1>5. LeftAt(c, 0, todo')
  <2>1. 0 \in 0..(2 * c) /\ 2 * c + 1 - 0 = 2 * c + 1
    BY <1>1
  <2>2. \A i \in 1..(2 * c + 1) : 0 + i = i
    BY <1>1
  <2>3. \A i \in 1..(2 * c + 1) : Constructor(c)[i] = Item(DoAt(c, 0 + i), OfAt(c, 0 + i))
    BY <1>3, <2>2
  <2> QED
    BY <1>2, <1>3, <2>1, <2>3 DEF LeftAt
<1>6. MemOK(c, mem', last')
  <2>1. Junk \in Value
    BY JunkDistinct
  <2>2. PICK P : P = Places(c)
    OBVIOUS
  <2>3. mem' \in [P -> Value] /\ \A q \in P : mem'[q] = Junk
    BY <1>2, <2>1, <2>2
  <2>4. last' \in [Fields -> Value] /\ \A f \in Fields : last'[f] = Junk
    BY <1>2, <2>1
  <2>5. ASSUME NEW k \in 1..c, NEW f \in Own(k) PROVE mem'[Spot(f)] = last'[f]
    <3>1. k \in Classes /\ c \in k..Depth
      BY <1>1
    <3>2. f \in Fields /\ Spot(f) \in P
      BY <2>2, <3>1, SamePlace, OwnFields
    <3> QED
      BY <2>3, <2>4, <3>2
  <2> QED
    BY <2>2, <2>3, <2>4, <2>5 DEF MemOK
<1>7. ProgressAt(c, 0, step', vtable', assigned', last')
  <2>0. step' = 0
    BY <1>2
  <2>1. \A k \in 1..c : ~BegunAt(c, 0, step', k)
    BY <1>1, <1>2 DEF BegunAt, CompleteAt
  <2>2. ~(0 >= 1)
    OBVIOUS
  <2>3. \A k \in assigned' : k \in 1..c /\ CompleteAt(c, 0, k)
    BY <1>2
  <2>4. DoAt(c, 0 + 1) # "assign" /\ \A k \in 1..c : ~CompleteAt(c, 0, k)
    BY <1>1 DEF DoAt, CompleteAt
  <2>5. StoredAt(c, 0, step', last')
    BY <2>1, <2>4 DEF StoredAt
  <2> QED
    BY <2>0, <2>2, <2>3, <2>5 DEF ProgressAt
<1> QED
  BY <1>1, <1>2, <1>4, <1>5, <1>6, <1>7 DEF ObjectInv

LEMMA SetVTableKeeps ==
  ASSUME ObjectInv, class # 0, SetVTable
  PROVE  ObjectInv'
<1>1. At("vtable")
  BY DEF SetVTable
<1>2. /\ class \in Nat \ {0} /\ done \in 0..(2 * class)
      /\ DoAt(class, done + 1) = "vtable"
  BY <1>1, Current
<1>3. done < 2 * class
  <2>1. done = 0
    BY <1>2, CallFacts
  <2> QED
    BY <1>2, <2>1
<1>4. \A k \in 1..class : CompleteAt(class, done + 1, k) => CompleteAt(class, done, k)
  BY <1>2, CallFacts
<1>6. /\ todo' = Tail(todo) /\ UNCHANGED <<class, mem, last>>
      /\ step' = step /\ vtable' = class /\ assigned' = assigned
  BY DEF SetVTable
<1>7. step = 0
  <2>1. done = 0
    BY <1>2, CallFacts
  <2> QED
    BY <2>1 DEF ObjectInv, ProgressAt
<1> QED
  BY <1>3, <1>4, <1>6, <1>7, NextCall

LEMMA AssignDefaultsKeeps ==
  ASSUME ObjectInv, class # 0, AssignDefaults
  PROVE  ObjectInv'
<1>1. At("assign") /\ step = 0
  BY DEF AssignDefaults
<1>2. PICK c, d, l : c = class /\ d = done /\ l = k0
  OBVIOUS
<1>3. /\ c \in Nat \ {0} /\ c \in Classes /\ d \in 0..(2 * c) /\ l \in 1..c
      /\ DoAt(c, d + 1) = "assign" /\ OfAt(c, d + 1) = l
  BY <1>1, <1>2, Current
<1>4. ~CompleteAt(c, d, l)
  BY <1>3, CallFacts
<1>5. MemOK(c, mem, last) /\ ProgressAt(c, d, step, vtable, assigned, last)
  BY <1>2 DEF ObjectInv
<1>6. l \notin assigned
  BY <1>4, <1>5 DEF ProgressAt
<1>7. PICK memory2 : memory2 = mem'
  OBVIOUS
<1>8. PICK stored2 : stored2 = last'
  OBVIOUS
<1>9. PICK S \in SUBSET Own(l) : S = Defaulted(l)
  BY DEF Defaulted
<1>10. /\ memory2 = [place \in DOMAIN mem |->
            IF \E f \in S : place = Place(l, f) THEN Null ELSE mem[place]]
       /\ stored2 = [f \in Fields |-> IF f \in S THEN Null ELSE last[f]]
  BY <1>2, <1>6, <1>7, <1>8, <1>9 DEF AssignDefaults
<1>11. /\ MemOK(c, memory2, stored2)
       /\ \A g \in Fields : stored2[g] = Junk => last[g] = Junk /\ g \notin S
  BY <1>3, <1>5, <1>10, DefaultsKeep
<1>12. Depth \in Nat /\ Classes = 1..Depth
  BY ObjectsAssumption DEF ObjectsAssumption, Classes
<1>13. \A k \in 1..c : k \in Classes /\ Own(k) \subseteq Fields /\ Defaulted(k) \subseteq Own(k)
  BY <1>3, <1>12, OwnFields DEF Defaulted
<1>14. ASSUME NEW k \in 1..c, BegunAt(c, d, step', k), NEW f \in Defaulted(k)
       PROVE  stored2[f] # Junk
  <2>1. f \in Fields
    BY <1>13
  <2>2. CASE k = l
    BY <1>9, <1>11, <2>1, <2>2
  <2>3. CASE k # l
    <3>1. BegunAt(c, d, step, k)
      BY <1>3, <1>14, <2>3 DEF BegunAt
    <3>2. last[f] # Junk
      BY <1>5, <3>1 DEF ProgressAt, StoredAt
    <3> QED
      BY <1>11, <2>1, <3>2
  <2> QED
    BY <2>2, <2>3
<1>15. ASSUME NEW k \in 1..c, CompleteAt(c, d, k), NEW f \in Own(k) \cap Initialised
       PROVE  stored2[f] # Junk
  BY <1>5, <1>11, <1>13, <1>15 DEF ProgressAt, StoredAt
<1>16. UNCHANGED <<class, todo, vtable, assigned>> /\ step' \in Nat /\ step' = 1
  BY DEF AssignDefaults
<1>17. Ran(l, step') = {}
  BY <1>3, <1>13, <1>16, RanFacts
<1>18. StoredAt(c, d, step', stored2)
  BY <1>3, <1>14, <1>15, <1>17 DEF StoredAt
<1>19. d >= 1
  BY <1>3, CallFacts
<1> QED
  BY <1>2, <1>7, <1>8, <1>11, <1>16, <1>18, <1>19, SameCall

(* A store in the middle of a call: by an initialiser, or by code of the   *)
(* program.                                                                *)
LEMMA StoreInCall ==
  ASSUME ObjectInv, class # 0, UNCHANGED <<class, todo, vtable, assigned>>,
         step' \in Nat, step > 0 \/ step' = step,
         NEW m \in 1..class, NEW f \in Accessible(m), NEW v \in Value, v # Junk,
         Store(m, f, v), Ran(k0, step') \subseteq Ran(k0, step) \cup {f}
  PROVE  ObjectInv'
<1>1. PICK c, d : c = class /\ d = done
  OBVIOUS
<1>2. c \in Classes /\ c \in Nat \ {0}
  BY <1>1, Current
<1>3. MemOK(c, mem, last) /\ ProgressAt(c, d, step, vtable, assigned, last)
  BY <1>1 DEF ObjectInv
<1>4. PICK memory2 : memory2 = mem'
  OBVIOUS
<1>5. PICK stored2 : stored2 = last'
  OBVIOUS
<1>6. /\ memory2 = [mem EXCEPT ![Place(m, f)] = v]
      /\ stored2 = [last EXCEPT ![f] = v]
  BY <1>4, <1>5 DEF Store
<1>7. m \in 1..c
  BY <1>1
<1>8. /\ MemOK(c, memory2, stored2)
      /\ \A g \in Fields : stored2[g] = Junk => last[g] = Junk
  <2>1. MemOK(c, memory2, stored2)
    BY <1>2, <1>3, <1>6, <1>7, StoreKeeps, Zenon
  <2>2. \A g \in Fields : stored2[g] = Junk => last[g] = Junk
    <3>1. ASSUME NEW g \in Fields, stored2[g] = Junk PROVE last[g] = Junk
      <4>1. PICK w : w = last
        OBVIOUS
      <4>2. stored2 = [w EXCEPT ![f] = v]
        BY <1>6, <4>1
      <4>3. f \in Fields
        <5>1. Depth \in Nat /\ Classes = 1..Depth
          BY ObjectsAssumption DEF ObjectsAssumption, Classes
        <5>2. m \in Classes
          BY <1>2, <1>7, <5>1
        <5> QED
          BY <5>2, AccessibleOwn, OwnFields
      <4> QED
        BY <1>3, <3>1, <4>1, <4>2, <4>3 DEF MemOK
    <3> QED
      BY <3>1
  <2> QED
    BY <2>1, <2>2
<1>9. Depth \in Nat /\ Classes = 1..Depth
  BY ObjectsAssumption DEF ObjectsAssumption, Classes
<1>10. \A k \in 1..c : k \in Classes /\ Own(k) \subseteq Fields /\ Defaulted(k) \subseteq Own(k)
  BY <1>2, <1>9, OwnFields DEF Defaulted
<1>11. ASSUME NEW k \in 1..c, BegunAt(c, d, step', k), NEW g \in Defaulted(k)
       PROVE  stored2[g] # Junk
  <2>1. g \in Fields
    BY <1>10
  <2>2. BegunAt(c, d, step, k)
    BY <1>11 DEF BegunAt
  <2>3. last[g] # Junk
    BY <1>3, <2>2 DEF ProgressAt, StoredAt
  <2> QED
    BY <1>8, <2>1, <2>3
<1>12. ASSUME NEW k \in 1..c, CompleteAt(c, d, k), NEW g \in Own(k) \cap Initialised
       PROVE  stored2[g] # Junk
  BY <1>3, <1>8, <1>10, <1>12 DEF ProgressAt, StoredAt
<1>13. PICK l : l = k0 /\ l = OfAt(c, d + 1) /\ l \in Classes
  BY <1>1, Current
<1>14. ASSUME DoAt(c, d + 1) = "assign", NEW g \in Ran(l, step') PROVE stored2[g] # Junk
  <2>1. g \in Fields
    BY <1>13, RanFacts, OwnFields
  <2>2. stored2[f] = v
    <3>1. m \in Classes
      BY <1>2, <1>7, <1>9
    <3>2. f \in Fields
      BY <3>1, AccessibleOwn, OwnFields
    <3> QED
      BY <1>3, <1>6, <3>2 DEF MemOK
  <2>3. g = f \/ g \in Ran(l, step)
    BY <1>13
  <2>4. g \in Ran(l, step) => last[g] # Junk
    BY <1>3, <1>13, <1>14 DEF ProgressAt, StoredAt
  <2> QED
    BY <1>8, <2>1, <2>2, <2>3, <2>4
<1>15. StoredAt(c, d, step', stored2)
  BY <1>11, <1>12, <1>13, <1>14 DEF StoredAt
<1>16. d >= 1 \/ step' = step
  BY <1>3 DEF ProgressAt
<1> QED
  BY <1>1, <1>4, <1>5, <1>8, <1>15, <1>16, SameCall

(* A step of a call that touches no field.                                 *)
LEMMA QuietStep ==
  ASSUME ObjectInv, class # 0, UNCHANGED <<class, todo, objectVars>>,
         step' \in Nat, step > 0 \/ step' = step \/ At("init"),
         At("init") \/ Ran(k0, step') \subseteq Ran(k0, step)
  PROVE  ObjectInv'
<1>1. PICK c, d : c = class /\ d = done
  OBVIOUS
<1>2. MemOK(c, mem, last) /\ ProgressAt(c, d, step, vtable, assigned, last)
  BY <1>1 DEF ObjectInv
<1>3. UNCHANGED <<class, todo, vtable, assigned>> /\ mem' = mem /\ last' = last
  BY DEF objectVars
<1>4. MemOK(c, mem', last')
  BY <1>2, <1>3
<1>5. step > 0 \/ step' = step \/ DoAt(c, d + 1) = "init"
  BY <1>1, Current
<1>6. StoredAt(c, d, step', last')
  <2>1. StoredAt(c, d, step, last) /\ last' = last
    BY <1>2, <1>3 DEF ProgressAt
  <2>2. \A k \in 1..c : BegunAt(c, d, step', k) => BegunAt(c, d, step, k)
    BY <1>5 DEF BegunAt
  <2>3. k0 = OfAt(c, d + 1) /\ (At("init") <=> DoAt(c, d + 1) = "init")
    BY <1>1, Current
  <2>4. DoAt(c, d + 1) = "assign" =>
          Ran(OfAt(c, d + 1), step') \subseteq Ran(OfAt(c, d + 1), step)
    BY <2>3
  <2> QED
    BY <2>1, <2>2, <2>4 DEF StoredAt
<1>7. d >= 1 \/ step' = step
  <2>1. c \in Nat \ {0} /\ d \in 0..(2 * c)
    BY <1>1, Current
  <2>2. DoAt(c, d + 1) = "init" => d >= 1
    BY <2>1, CallFacts
  <2> QED
    BY <1>2, <1>5, <2>2 DEF ProgressAt
<1> QED
  BY <1>1, <1>3, <1>4, <1>6, <1>7, SameCall

LEMMA AssignFieldKeeps ==
  ASSUME ObjectInv, class # 0, AssignField
  PROVE  ObjectInv'
<1>1. PICK c, l : c = class /\ l = k0
  OBVIOUS
<1>2. /\ c \in Nat \ {0} /\ l \in 1..c /\ l \in Classes
  BY <1>1, Current
<1>3. /\ step \in DOMAIN Declared(l) /\ step' = step + 1
      /\ UNCHANGED <<class, todo, vtable, assigned>>
  BY <1>1 DEF AssignField, callVars
<1>4. PICK f : f = Declared(l)[step]
  OBVIOUS
<1>5. f \in Own(l) /\ step \in Nat /\ step > 0 /\ step' \in Nat
  BY <1>2, <1>3, <1>4, DeclaredFacts
<1>6. Ran(l, step') \subseteq Ran(l, step) \cup ({f} \cap Initialised)
  <2>1. PICK i : i = step
    OBVIOUS
  <2>2. Ran(l, i + 1) \subseteq Ran(l, i) \cup ({Declared(l)[i]} \cap Initialised)
    BY <1>2, <1>3, <2>1, RanFacts
  <2> QED
    BY <1>3, <1>4, <2>1, <2>2
<1>7. CASE f \in Initialised
  <2>1. Store(l, f, <<f, "initial">>)
    BY <1>1, <1>4, <1>7 DEF AssignField
  <2>2. f \in Fields /\ <<f, "initial">> \in Value /\ <<f, "initial">> # Junk
    BY <1>2, <1>5, OwnFields, JunkDistinct
  <2>3. f \in Accessible(l)
    BY <1>2, <1>5, OwnAccessible
  <2>4. Ran(k0, step') \subseteq Ran(k0, step) \cup {f}
    BY <1>1, <1>6
  <2> QED
    BY <1>1, <1>2, <1>3, <1>5, <2>1, <2>2, <2>3, <2>4, StoreInCall
<1>8. CASE f \notin Initialised
  <2>1. mem' = mem /\ last' = last
    BY <1>1, <1>4, <1>8 DEF AssignField
  <2>2. Ran(k0, step') \subseteq Ran(k0, step)
    BY <1>1, <1>6, <1>8
  <2> QED
    BY <1>3, <1>5, <2>1, <2>2, QuietStep DEF objectVars
<1> QED
  BY <1>7, <1>8

LEMMA AssignedKeeps ==
  ASSUME ObjectInv, class # 0, Assigned
  PROVE  ObjectInv'
<1>1. At("assign") /\ step = Len(Declared(k0)) + 1
  BY DEF Assigned
<1>2. PICK c, d, l : c = class /\ d = done /\ l = k0
  OBVIOUS
<1>3. /\ c \in Nat \ {0} /\ d \in 0..(2 * c) /\ l \in 1..c /\ l \in Classes
      /\ DoAt(c, d + 1) = "assign" /\ OfAt(c, d + 1) = l
  BY <1>1, <1>2, Current
<1>4. step > 0
  <2>1. Len(Declared(l)) \in Nat
    BY <1>3, DeclaredFacts
  <2> QED
    BY <1>1, <1>2, <2>1
<1>5. /\ d >= 1 /\ d < 2 * c
      /\ \A k \in 1..c : CompleteAt(c, d + 1, k) => CompleteAt(c, d, k) \/ k = l
      /\ CompleteAt(c, d + 1, l)
  BY <1>3, CallFacts
<1>6. \A k \in 1..c : CompleteAt(c, d + 1, k) =>
        \/ CompleteAt(c, d, k)
        \/ /\ BegunAt(c, d, step, k)
           /\ \A f \in Own(k) \cap Initialised : last[f] # Junk
  <2>1. Own(l) \cap Initialised \subseteq Ran(l, step)
    BY <1>1, <1>2, <1>3, RanFacts
  <2>2. \A f \in Ran(l, step) : last[f] # Junk
    BY <1>2, <1>3 DEF ObjectInv, ProgressAt, StoredAt
  <2>3. BegunAt(c, d, step, l)
    BY <1>3, <1>4 DEF BegunAt
  <2> QED
    BY <1>5, <2>1, <2>2, <2>3
<1>7. vtable = c
  BY <1>2, <1>5 DEF ObjectInv, ProgressAt
<1>8. /\ todo' = Tail(todo) /\ UNCHANGED <<class, mem, last>>
      /\ step' = 0 /\ vtable' = class
      /\ assigned' = assigned \cup {l}
  BY <1>2, <1>7 DEF Assigned
<1>9. \A k \in assigned' : k \in assigned \/ (k \in 1..c /\ CompleteAt(c, d + 1, k))
  BY <1>3, <1>5, <1>8
<1> QED
  BY <1>2, <1>5, <1>6, <1>8, <1>9, NextCall

LEMMA ReturnKeeps ==
  ASSUME ObjectInv, class # 0, Return
  PROVE  ObjectInv'
<1>1. At("init")
  BY DEF Return, InBody
<1>2. PICK c, d : c = class /\ d = done
  OBVIOUS
<1>3. /\ c \in Nat \ {0} /\ d \in 0..(2 * c) /\ d \in Nat
      /\ Len(todo) = 2 * c + 1 - d /\ DoAt(c, d + 1) = "init"
  BY <1>1, <1>2, Current
<1>4. /\ todo' = Tail(todo) /\ step' = 0
      /\ class' = IF Len(todo) = 1 THEN 0 ELSE class
      /\ UNCHANGED objectVars
  BY DEF Return
<1>5. CASE Len(todo) = 1
  <2>1. PICK s \in Seq(Task) : s = todo
    BY <1>2 DEF ObjectInv, LeftAt
  <2>2. Tail(s) = << >>
    <3>1. PICK t : t = Tail(s)
      OBVIOUS
    <3>2. t \in Seq(Task) /\ Len(t) = Len(s) - 1
      <4>1. s # << >> /\ Len(s) = 1
        BY <1>5, <2>1
      <4> QED
        BY <2>1, <3>1, <4>1, HeadTailProperties
    <3>3. Len(t) = 0
      BY <1>5, <2>1, <3>2
    <3> QED
      BY <3>1, <3>2, <3>3, EmptySeq
  <2>3. class' = 0 /\ todo' = << >> /\ step' = 0
    BY <1>4, <1>5, <2>1, <2>2
  <2>4. 0 \in 0..Depth /\ 0 \in Nat
    BY ObjectsAssumption DEF ObjectsAssumption
  <2> QED
    BY <2>3, <2>4 DEF ObjectInv
<1>6. CASE Len(todo) # 1
  <2>1. d < 2 * c
    BY <1>3, <1>6
  <2>2. d >= 1 /\ \A k \in 1..c : CompleteAt(c, d + 1, k) => CompleteAt(c, d, k)
    BY <1>3, CallFacts
  <2>4. vtable = c
    BY <1>2, <2>2 DEF ObjectInv, ProgressAt
  <2>5. /\ UNCHANGED <<class, mem, last>>
        /\ vtable' = class /\ assigned' = assigned
    BY <1>2, <1>4, <1>6, <2>4 DEF objectVars
  <2> QED
    BY <1>2, <1>4, <2>1, <2>2, <2>5, NextCall
<1> QED
  BY <1>5, <1>6

LEMMA WriteKeeps ==
  ASSUME ObjectInv, class # 0, NEW m \in 1..class, NEW f \in Accessible(m), Write(m, f)
  PROVE  ObjectInv'
<1>1. Depth \in Nat /\ Classes = 1..Depth
  BY ObjectsAssumption DEF ObjectsAssumption, Classes
<1>2. class \in 1..Depth
  BY <1>1, Current
<1>3. m \in Classes
  BY <1>1, <1>2
<1>4. PICK k \in 1..m : k \in Classes /\ f \in Own(k)
  BY <1>3, AccessibleOwn
<1>5. f \in Fields
  BY <1>4, OwnFields
<1>6. <<f, "written">> \in Value /\ <<f, "written">> # Junk
  BY <1>5, JunkDistinct
<1>7. /\ UNCHANGED <<class, todo, vtable, assigned>> /\ step' = step
      /\ Store(m, f, <<f, "written">>)
  BY DEF Write
<1>8. step' \in Nat
  BY <1>7 DEF ObjectInv
<1> QED
  BY <1>6, <1>7, <1>8, StoreInCall, Zenon

LEMMA Unchanged ==
  ASSUME ObjectInv, UNCHANGED vars
  PROVE  ObjectInv'
BY DEF ObjectInv, vars, objectVars, done

(* Every step keeps the invariant.                                         *)
LEMMA ObjectStep == ObjectInv /\ [Next]_vars => ObjectInv'
<1> SUFFICES ASSUME ObjectInv, [Next]_vars PROVE ObjectInv'
  OBVIOUS
<1>1. ASSUME NEW c \in Classes, New(c) PROVE ObjectInv'
  BY <1>1, NewKeeps
<1>2. CASE class = 0 /\ \A c \in Classes : ~New(c)
  <2>1. \A do : ~At(do)
    BY <1>2, NoCall
  <2>2. ~(\E m \in 1..class : \E f \in Accessible(m) : Write(m, f))
    BY <1>2
  <2>3. UNCHANGED vars
    BY <1>2, <2>1, <2>2 DEF Next, SetVTable, AssignDefaults, AssignField, Assigned,
                            EnterInit, DefaultParameter, Return, InBody
  <2> QED
    BY <2>3, Unchanged
<1>3. CASE class # 0
  <2>1. CASE SetVTable
    BY <1>3, <2>1, SetVTableKeeps
  <2>2. CASE AssignDefaults
    BY <1>3, <2>2, AssignDefaultsKeeps
  <2>3. CASE AssignField
    BY <1>3, <2>3, AssignFieldKeeps
  <2>4. CASE Assigned
    BY <1>3, <2>4, AssignedKeeps
  <2>5. CASE EnterInit
    <3>1. UNCHANGED <<class, todo, objectVars>> /\ step' \in Nat /\ At("init")
      BY <2>5 DEF EnterInit
    <3> QED
      BY <1>3, <3>1, QuietStep
  <2>6. CASE DefaultParameter
    <3>1. UNCHANGED <<class, todo, objectVars>> /\ step' = step + 1 /\ At("init")
      BY <2>6 DEF DefaultParameter
    <3>2. step' \in Nat
      BY <3>1 DEF ObjectInv
    <3> QED
      BY <1>3, <3>1, <3>2, QuietStep
  <2>7. CASE Return
    BY <1>3, <2>7, ReturnKeeps
  <2>8. ASSUME NEW m \in 1..class, NEW f \in Accessible(m), Write(m, f)
        PROVE  ObjectInv'
    BY <1>3, <2>8, WriteKeeps
  <2>9. CASE UNCHANGED vars
    BY <2>9, Unchanged
  <2>10. ~(\E c \in Classes : New(c))
    BY <1>3 DEF New
  <2> QED
    BY <2>1, <2>2, <2>3, <2>4, <2>5, <2>6, <2>7, <2>8, <2>9, <2>10 DEF Next
<1> QED
  BY <1>1, <1>2, <1>3

LEMMA ObjectInitial == Init => ObjectInv
BY ObjectsAssumption DEF ObjectsAssumption, Init, ObjectInv

LEMMA ObjectInvariance == Spec => []ObjectInv
BY ObjectInitial, ObjectStep, PTL DEF Spec

-----------------------------------------------------------------------------
LEMMA FieldsHold == ObjectInv => FieldsKeepValues
<1> SUFFICES ASSUME ObjectInv, class # 0, NEW k \in assigned, NEW f \in Own(k),
                    NEW m \in k..class
             PROVE  mem[Place(m, f)] = last[f]
  BY DEF FieldsKeepValues
<1>1. Depth \in Nat /\ Classes = 1..Depth
  BY ObjectsAssumption DEF ObjectsAssumption, Classes
<1>2. class \in 1..Depth
  BY <1>1, Current
<1>3. k \in 1..class
  BY DEF ObjectInv, ProgressAt
<1>4. k \in Classes /\ m \in k..Depth
  BY <1>1, <1>2, <1>3
<1>5. Place(m, f) = Spot(f)
  BY <1>4, SamePlace
<1>6. mem[Spot(f)] = last[f]
  BY <1>3 DEF ObjectInv, MemOK
<1> QED
  BY <1>5, <1>6

(* Once a class is assigned, each of its fields holds what was last stored *)
(* in it, for every method that can name it, whatever the classes declare. *)
THEOREM FieldsKeep == Spec => []FieldsKeepValues
BY ObjectInvariance, FieldsHold, PTL

LEMMA CodeHolds == ObjectInv => CodeSeesFields
<1> SUFFICES ASSUME ObjectInv, CodeRuns
             PROVE  /\ vtable = class
                    /\ \A k \in 1..class : \A f \in Own(k) :
                         mem[Place(k, f)] = Junk =>
                           \/ k > k0 /\ (InBody => k = class)
                           \/ f \in External /\ (f \in Initialised => Pending(f))
  BY DEF CodeSeesFields
<1>1. Depth \in Nat /\ Classes = 1..Depth
  BY ObjectsAssumption DEF ObjectsAssumption, Classes
<1>2. class # 0
  BY NoCall DEF CodeRuns, InBody
<1>3. PICK c, d, l : c = class /\ d = done /\ l = k0
  OBVIOUS
<1>4. /\ c \in Nat \ {0} /\ c \in 1..Depth /\ d \in 0..(2 * c)
      /\ l = OfAt(c, d + 1) /\ l \in 1..c
      /\ \A do : At(do) <=> DoAt(c, d + 1) = do
  BY <1>1, <1>2, <1>3, Current
<1>5. ProgressAt(c, d, step, vtable, assigned, last) /\ MemOK(c, mem, last)
  BY <1>2, <1>3 DEF ObjectInv
<1>6. \/ DoAt(c, d + 1) = "assign" /\ step > 0 /\ ~InBody
      \/ DoAt(c, d + 1) = "init"
  BY <1>4 DEF CodeRuns, InBody
<1>7. d >= 1
  BY <1>4, <1>6, CallFacts
<1>8. vtable = c
  BY <1>5, <1>7 DEF ProgressAt
<1>9. ASSUME NEW k \in 1..c, NEW f \in Own(k), mem[Place(k, f)] = Junk
      PROVE  \/ k > l /\ (InBody => k = c)
             \/ f \in External /\ (f \in Initialised => Pending(f))
  <2>1. k \in Classes /\ k \in k..Depth
    BY <1>1, <1>4
  <2>2. mem[Spot(f)] = Junk
    BY <1>9, <2>1, SamePlace
  <2>3. last[f] = Junk
    BY <1>5, <2>2 DEF MemOK
  <2>4. StoredAt(c, d, step, last)
    BY <1>5 DEF ProgressAt
  <2>5. ASSUME f \notin External \/ f \in Initialised, CompleteAt(c, d, k) PROVE FALSE
    <3>1. BegunAt(c, d, step, k)
      BY <2>5 DEF BegunAt
    <3> QED
      BY <2>3, <2>4, <2>5, <3>1 DEF StoredAt, Defaulted
  <2>6. CASE f \notin External
    <3>1. ~BegunAt(c, d, step, k)
      BY <2>3, <2>4, <2>6 DEF StoredAt, Defaulted
    <3>2. CASE DoAt(c, d + 1) = "assign" /\ step > 0 /\ ~InBody
      <4>1. k >= l
        BY <1>4, <2>5, <2>6, <3>2, CallFacts
      <4>2. k # l
        BY <1>4, <3>1, <3>2 DEF BegunAt
      <4> QED
        BY <1>4, <3>2, <4>1, <4>2
    <3>3. CASE DoAt(c, d + 1) = "init"
      BY <1>4, <2>5, <2>6, <3>3, CallFacts
    <3> QED
      BY <1>6, <3>2, <3>3
  <2>7. CASE f \in External /\ f \in Initialised
    <3>1. CASE DoAt(c, d + 1) = "assign" /\ step > 0 /\ ~InBody
      <4>1. k >= l
        BY <1>4, <2>5, <2>7, <3>1, CallFacts
      <4>2. CASE k = l
        <5>1. f \notin Ran(l, step)
          BY <1>4, <2>3, <2>4, <3>1 DEF StoredAt
        <5>2. PICK i \in DOMAIN Declared(l) : Declared(l)[i] = f
          BY <2>1, <4>2, DeclaredFacts
        <5>3. ~(i < step)
          BY <2>7, <5>1, <5>2 DEF Ran
        <5>4. step \in Nat /\ Len(Declared(l)) \in Nat /\ i \in 1..Len(Declared(l))
          BY <2>1, <4>2, <5>2, DeclaredFacts DEF ObjectInv
        <5>5. i \in step..Len(Declared(l))
          BY <5>3, <5>4
        <5>6. At("assign") /\ Declared(k0)[i] = f /\ i \in step..Len(Declared(k0))
          BY <1>3, <1>4, <3>1, <5>2, <5>5
        <5> QED
          BY <2>7, <5>6 DEF Pending
      <4>3. CASE k # l
        BY <1>4, <3>1, <4>1, <4>3
      <4> QED
        BY <4>2, <4>3
    <3>2. CASE DoAt(c, d + 1) = "init"
      BY <1>4, <2>5, <2>7, <3>2, CallFacts
    <3> QED
      BY <1>6, <3>1, <3>2
  <2> QED
    BY <2>6, <2>7
<1> QED
  BY <1>3, <1>8, <1>9

(* Code of the program that runs during the construction finds the vtable  *)
(* set and no field of a class up to its own unassigned, but for those of  *)
(* external types whose initialiser has not run yet or does not exist.     *)
THEOREM UserCodeSeesFields == Spec => []CodeSeesFields
BY ObjectInvariance, CodeHolds, PTL

-----------------------------------------------------------------------------
(* The powers of two, and the integers of a width.                         *)
(* A power of two is a positive integer, and twice the one before it.      *)
LEMMA Powers ==
  /\ TwoTo[0] = 1 /\ \A k \in 0..PtrBits : TwoTo[k] \in Nat \ {0}
  /\ \A k \in 1..PtrBits : TwoTo[k] = 2 * TwoTo[k - 1]
<1>1. PtrBits \in Nat
  BY ObjectsAssumption DEF ObjectsAssumption
<1>2. PICK F : F = [k \in 1..PtrBits |-> [x \in Nat |-> 2 * x]]
  OBVIOUS
<1>3. F \in [1..PtrBits -> [Nat -> Nat]]
  BY <1>2
<1>4. PICK f \in [0..PtrBits -> Nat] :
        f[0] = 1 /\ \A k \in 1..PtrBits : f[k] = F[k][f[k - 1]]
  <2>1. PICK f : Follows(f, PtrBits, Nat, 1, F)
    BY <1>1, <1>3, Recursion
  <2> QED
    BY <2>1 DEF Follows
<1>5. \A k \in 1..PtrBits : f[k] = 2 * f[k - 1]
  <2> SUFFICES ASSUME NEW k \in 1..PtrBits PROVE f[k] = 2 * f[k - 1]
    OBVIOUS
  <2>1. k - 1 \in 0..PtrBits
    BY <1>1
  <2>2. f[k - 1] \in Nat
    BY <1>4, <2>1
  <2> QED
    BY <1>2, <1>4, <2>2
<1>6. \A k \in 0..PtrBits : f[k] = IF k = 0 THEN 1 ELSE 2 * f[k - 1]
  <2> SUFFICES ASSUME NEW k \in 0..PtrBits
               PROVE  f[k] = IF k = 0 THEN 1 ELSE 2 * f[k - 1]
    OBVIOUS
  <2>1. k = 0 \/ k \in 1..PtrBits
    BY <1>1
  <2>2. ~(0 \in 1..PtrBits)
    BY <1>1
  <2> QED
    BY <1>4, <1>5, <2>1, <2>2, Zenon
<1>7. PICK g : g = [k \in 0..PtrBits |-> IF k = 0 THEN 1 ELSE 2 * f[k - 1]]
  OBVIOUS
<1>8. f = g
  BY <1>4, <1>6, <1>7
<1>9. TwoTo = [k \in 0..PtrBits |-> IF k = 0 THEN 1 ELSE 2 * TwoTo[k - 1]]
  <2>1. \E h : h = [k \in 0..PtrBits |-> IF k = 0 THEN 1 ELSE 2 * h[k - 1]]
    BY <1>7, <1>8, Zenon
  <2> QED
    BY <2>1, Zenon DEF TwoTo
<1>10. TwoTo[0] = 1 /\ \A k \in 1..PtrBits : TwoTo[k] = 2 * TwoTo[k - 1]
  <2>1. \A k \in 0..PtrBits : TwoTo[k] = IF k = 0 THEN 1 ELSE 2 * TwoTo[k - 1]
    BY <1>9, Zenon
  <2>2. 0 \in 0..PtrBits /\ \A k \in 1..PtrBits : k \in 0..PtrBits /\ k # 0
    BY <1>1
  <2> QED
    BY <2>1, <2>2, Zenon
<1>11. PICK T : T = {k \in 0..PtrBits : TwoTo[k] \in Nat \ {0}}
  OBVIOUS
<1>12. T \in SUBSET (0..PtrBits) /\ 0 \in T
  BY <1>1, <1>10, <1>11
<1>13. \A k \in 0..(PtrBits - 1) : k \in T => k + 1 \in T
  <2> SUFFICES ASSUME NEW k \in 0..(PtrBits - 1), k \in T PROVE k + 1 \in T
    OBVIOUS
  <2>1. k + 1 \in 1..PtrBits /\ k + 1 \in 0..PtrBits /\ (k + 1) - 1 = k
    BY <1>1
  <2>2. TwoTo[k + 1] = 2 * TwoTo[k] /\ TwoTo[k] \in Nat \ {0}
    BY <1>10, <1>11, <2>1
  <2>3. TwoTo[k + 1] \in Nat \ {0}
    BY <2>2
  <2> QED
    BY <1>11, <2>1, <2>3
<1>14. T = 0..PtrBits
  BY <1>1, <1>12, <1>13, Induction
<1> QED
  BY <1>10, <1>11, <1>14

LEMMA PowersGrow ==
  ASSUME NEW a \in 0..PtrBits, NEW b \in 0..PtrBits, a <= b
  PROVE  TwoTo[a] <= TwoTo[b]
<1>1. PtrBits \in Nat
  BY ObjectsAssumption DEF ObjectsAssumption
<1>2. PICK T : T = {k \in 0..PtrBits : a <= k => TwoTo[a] <= TwoTo[k]}
  OBVIOUS
<1>3. T \in SUBSET (0..PtrBits) /\ 0 \in T
  <2>1. 0 \in 0..PtrBits /\ TwoTo[a] \in Nat
    BY <1>1, Powers
  <2>2. a <= 0 => a = 0
    OBVIOUS
  <2> QED
    BY <1>2, <2>1, <2>2
<1>4. \A k \in 0..(PtrBits - 1) : k \in T => k + 1 \in T
  <2> SUFFICES ASSUME NEW k \in 0..(PtrBits - 1), k \in T, a <= k + 1
               PROVE  TwoTo[a] <= TwoTo[k + 1]
    <3>1. \A k \in 0..(PtrBits - 1) : k + 1 \in 0..PtrBits
      BY <1>1
    <3> QED
      BY <1>2, <3>1
  <2>1. k + 1 \in 1..PtrBits /\ k \in 0..PtrBits /\ (k + 1) - 1 = k
    BY <1>1
  <2>2. TwoTo[k + 1] = 2 * TwoTo[k] /\ TwoTo[k] \in Nat /\ TwoTo[a] \in Nat
    BY <2>1, Powers
  <2>3. CASE a = k + 1
    BY <2>2, <2>3
  <2>4. CASE a <= k
    <3>1. TwoTo[a] <= TwoTo[k]
      BY <1>2, <2>4
    <3> QED
      BY <2>2, <3>1
  <2>5. a = k + 1 \/ a <= k
    BY <1>1
  <2> QED
    BY <2>3, <2>4, <2>5
<1>5. T = 0..PtrBits
  BY <1>1, <1>3, <1>4, Induction
<1> QED
  BY <1>2, <1>5

(* The integers that have a width.                                         *)
Fits(bits) == (-TwoTo[bits - 1])..(TwoTo[bits - 1] - 1)

(* A conversion gives an integer of the width, and keeps those that have it*)
LEMMA SignedFits ==
  ASSUME NEW bits \in 1..PtrBits, NEW v \in Int
  PROVE  Signed(v, bits) \in Fits(bits) /\ (v \in Fits(bits) => Signed(v, bits) = v)
<1>1. PICK h : h = TwoTo[bits - 1]
  OBVIOUS
<1>2. h \in Nat \ {0} /\ TwoTo[bits] = 2 * h
  <2>1. bits - 1 \in 0..PtrBits
    BY ObjectsAssumption DEF ObjectsAssumption
  <2> QED
    BY <1>1, <2>1, Powers
<1>3. PICK m \in Nat \ {0} : m = 2 * h
  BY <1>2
<1>4. Signed(v, bits) = ((v + h) % m) - h /\ Fits(bits) = (-h)..(h - 1)
  BY <1>1, <1>2, <1>3 DEF Signed, Fits
<1>5. PICK x \in Int : x = v + h
  BY <1>2
<1>6. x % m \in 0..(m - 1)
  BY <1>3, <1>5
<1>7. (x % m) - h \in (-h)..(h - 1)
  BY <1>2, <1>3, <1>6
<1>8. ASSUME v \in (-h)..(h - 1) PROVE (x % m) - h = v
  <2>1. x \in 0..(m - 1)
    BY <1>2, <1>3, <1>5, <1>8
  <2>2. x % m = x
    BY <1>3, <2>1
  <2> QED
    BY <1>2, <1>5, <2>2
<1> QED
  BY <1>4, <1>5, <1>7, <1>8

LEMMA FitsGrow ==
  ASSUME NEW a \in 1..PtrBits, NEW b \in 1..PtrBits, a <= b, NEW v \in Fits(a)
  PROVE  v \in Fits(b)
<1>1. PICK x, y : x = TwoTo[a - 1] /\ y = TwoTo[b - 1]
  OBVIOUS
<1>2. a - 1 \in 0..PtrBits /\ b - 1 \in 0..PtrBits /\ a - 1 <= b - 1
  BY ObjectsAssumption DEF ObjectsAssumption
<1>3. x \in Nat /\ y \in Nat
  BY <1>1, <1>2, Powers
<1>4. x <= y
  BY <1>1, <1>2, PowersGrow
<1>5. v \in (-x)..(x - 1)
  BY <1>1 DEF Fits
<1>6. v \in (-y)..(y - 1)
  BY <1>3, <1>4, <1>5
<1> QED
  BY <1>1, <1>6 DEF Fits

LEMMA FitsInt ==
  ASSUME NEW bits \in 1..PtrBits, NEW v \in Fits(bits)
  PROVE  v \in Int
<1>1. bits - 1 \in 0..PtrBits
  BY ObjectsAssumption DEF ObjectsAssumption
<1>2. TwoTo[bits - 1] \in Nat
  BY <1>1, Powers
<1> QED
  BY <1>2 DEF Fits

-----------------------------------------------------------------------------
(* What a parameter can be passed has its width; so has what is passed for *)
(* an omitted argument, unless the parameter is a byte.                    *)
LEMMA TypeFacts ==
  ASSUME NEW type \in Types
  PROVE  /\ Bits(type) \in 1..PtrBits
         /\ \A v \in Values(type) : v \in Int /\ v \in Fits(Bits(type))
         /\ DefaultArgument(type) \in Int
         /\ type # "byte" => DefaultArgument(type) \in Fits(Bits(type))
<1>1. /\ CharBits \in 1..PtrBits /\ IntBits \in 1..PtrBits /\ PtrBits \in 1..PtrBits
      /\ CharBits <= IntBits /\ PtrBits \in Nat
  BY ObjectsAssumption DEF ObjectsAssumption
<1>2. PtrBits - 1 \in 0..PtrBits
  BY <1>1
<1>3. PICK h \in Nat \ {0} : h = TwoTo[PtrBits - 1]
  BY <1>2, Powers
<1>4. nova_null \in 1..(h - 2)
  BY <1>3, ParamsAssumption DEF ParamsAssumption
<1>5. Fits(PtrBits) = (-h)..(h - 1)
  BY <1>3 DEF Fits
<1>6. nova_null \in Fits(PtrBits) /\ nova_null + 1 \in Fits(PtrBits) /\ 0 \in Fits(PtrBits)
  BY <1>3, <1>4, <1>5
<1>7. nova_null \in Int /\ Signed(nova_null, IntBits) \in Fits(IntBits)
  BY <1>1, <1>4, SignedFits
<1>8. Bits(type) \in 1..PtrBits
  BY <1>1 DEF Bits
<1>9. ASSUME NEW v \in Values(type) PROVE v \in Fits(Bits(type))
  <2>1. CASE type = "reference"
    <3>1. Bits(type) = PtrBits
      BY <2>1 DEF Bits
    <3>2. v = nova_null \/ v = nova_null + 1
      BY <2>1 DEF Values
    <3> QED
      BY <1>6, <3>1, <3>2
  <2>2. CASE type = "int"
    BY <2>2 DEF Values, Fits, Bits
  <2>3. CASE type = "byte"
    BY <2>3 DEF Values, Fits, Bits
  <2>4. CASE type \in {"char", "bool"}
    <3>1. v \in Fits(CharBits)
      BY <2>4 DEF Values, Fits
    <3>2. v \in Fits(IntBits)
      BY <1>1, <3>1, FitsGrow
    <3> QED
      BY <2>4, <3>2 DEF Bits
  <2> QED
    BY <2>1, <2>2, <2>3, <2>4 DEF Types
<1>10. \A v \in Values(type) : v \in Int
  BY <1>8, <1>9, FitsInt
<1>11. DefaultArgument(type) \in Int
  <2>1. Signed(nova_null, IntBits) \in Int
    BY <1>1, <1>7, FitsInt
  <2> QED
    BY <2>1 DEF DefaultArgument
<1>12. ASSUME type # "byte" PROVE DefaultArgument(type) \in Fits(Bits(type))
  <2>1. CASE type = "reference"
    BY <1>6, <2>1 DEF DefaultArgument, Primitive, Bits
  <2>2. CASE type # "reference"
    <3>1. Bits(type) = IntBits
      BY <1>12, <2>2 DEF Bits, Types
    <3> QED
      BY <1>7, <2>2, <3>1 DEF DefaultArgument, Primitive
  <2> QED
    BY <2>1, <2>2
<1> QED
  BY <1>8, <1>9, <1>10, <1>11, <1>12

-----------------------------------------------------------------------------
LEMMA ParamFacts ==
  ASSUME NEW k \in Classes, NEW i \in DOMAIN Params[k], NEW p, p = Params[k][i]
  PROVE  /\ i \in Nat /\ i >= 1
         /\ p.type \in Types /\ p.earlier \in Nat /\ p.default \in Int
         /\ p.earlier = 0 => p.default \in Values(p.type)
         /\ p.earlier # 0 =>
              /\ p.earlier \in DOMAIN Params[k] /\ p.earlier < i
              /\ Bits(Params[k][p.earlier].type) <= Bits(p.type)
<1>1. PICK R : R = [type : Types, earlier : Nat, default : Int]
  OBVIOUS
<1>2. PICK s : s = Params[k]
  OBVIOUS
<1>3. s \in Seq(R)
  BY <1>1, <1>2, ParamsAssumption DEF ParamsAssumption
<1>4. /\ DOMAIN s = 1..Len(s) /\ Len(s) \in Nat
      /\ i \in Nat /\ i >= 1 /\ i <= Len(s) /\ p \in R
  BY <1>2, <1>3
<1>5. p.type \in Types /\ p.earlier \in Nat /\ p.default \in Int
  BY <1>1, <1>4
<1>6. IF p.earlier = 0 THEN p.default \in Values(p.type)
      ELSE p.earlier < i /\ Bits(Params[k][p.earlier].type) <= Bits(p.type)
  BY ParamsAssumption DEF ParamsAssumption
<1>7. ASSUME p.earlier # 0 PROVE p.earlier \in DOMAIN Params[k]
  <2>1. p.earlier < i
    BY <1>6, <1>7
  <2>2. p.earlier \in 1..Len(s)
    BY <1>4, <1>5, <1>7, <2>1
  <2> QED
    BY <1>2, <1>4, <2>2
<1> QED
  BY <1>4, <1>5, <1>6, <1>7

(* What the caller passes, and the default of p when the parameters are q. *)
Passed(type, argument) ==
  IF argument = << >> THEN DefaultArgument(type) ELSE argument[1]

DefaultIn(q, p) == IF p.earlier > 0 THEN q[p.earlier] ELSE p.default

(* An argument is an omitted one or one that its type allows.              *)
ArgumentOf(type, argument) ==
  argument = << >> \/ \E v \in Values(type) : argument = <<v>>

Omitted(type, argument) == argument = << >> \/ argument = <<DefaultArgument(type)>>

Arrived(p, argument, q, i) ==
  /\ ~Omitted(p.type, argument) => q[i] = argument[1]
  /\ Omitted(p.type, argument) /\ p.type # "byte" => q[i] = DefaultIn(q, p)

(* The parameters q of the init of class k, when the first s - 1 of them   *)
(* have been compared with what is passed for an omitted argument.         *)
ParamsOK(k, s, g, q) ==
  /\ s \in Nat /\ s >= 1
  /\ q \in [DOMAIN Params[k] -> Int]
  /\ \A i \in DOMAIN Params[k] :
       /\ ArgumentOf(Params[k][i].type, g[i])
       /\ q[i] \in Fits(Bits(Params[k][i].type))
       /\ i >= s => q[i] = Signed(Passed(Params[k][i].type, g[i]), Bits(Params[k][i].type))
       /\ i < s => Arrived(Params[k][i], g[i], q, i)

(* The inductive invariant of the arguments.                               *)
ArgumentsInv == At("init") /\ step > 0 => ParamsOK(k0, step, given, params)

LEMMA ArgumentFacts ==
  ASSUME NEW k \in Classes, NEW g \in Arguments(k), NEW i \in DOMAIN Params[k]
  PROVE  ArgumentOf(Params[k][i].type, g[i])
<1>1. PICK A : A = {<< >>} \cup {<<v>> : v \in UNION {Values(p.type) : p \in Elements(Params[k])}}
  OBVIOUS
<1>2. /\ g \in [DOMAIN Params[k] -> A]
      /\ \A j \in DOMAIN g : g[j] # << >> => g[j][1] \in Values(Params[k][j].type)
  BY <1>1 DEF Arguments
<1>3. g[i] \in A /\ i \in DOMAIN g
  BY <1>2
<1>4. CASE g[i] = << >>
  BY <1>4 DEF ArgumentOf
<1>5. CASE g[i] # << >>
  <2>1. PICK v : g[i] = <<v>>
    BY <1>1, <1>3, <1>5
  <2>2. v \in Values(Params[k][i].type)
    BY <1>2, <1>3, <1>5, <2>1
  <2> QED
    BY <2>1, <2>2 DEF ArgumentOf
<1> QED
  BY <1>4, <1>5

LEMMA PassedFacts ==
  ASSUME NEW type \in Types, NEW a, ArgumentOf(type, a)
  PROVE  /\ Passed(type, a) \in Int
         /\ Signed(Passed(type, a), Bits(type)) \in Fits(Bits(type))
         /\ ~Omitted(type, a) =>
              /\ Signed(Passed(type, a), Bits(type)) = a[1]
              /\ a[1] # DefaultArgument(type)
         /\ Omitted(type, a) /\ type # "byte" =>
              Signed(Passed(type, a), Bits(type)) = DefaultArgument(type)
<1>1. PICK b \in 1..PtrBits : b = Bits(type)
  BY TypeFacts
<1>2. PICK x : x = DefaultArgument(type)
  OBVIOUS
<1>3. x \in Int /\ (type # "byte" => x \in Fits(b))
  BY <1>1, <1>2, TypeFacts
<1>4. CASE a = << >>
  <2>1. Passed(type, a) = x /\ Omitted(type, a)
    BY <1>2, <1>4 DEF Passed, Omitted
  <2>2. Signed(x, b) \in Fits(b) /\ (x \in Fits(b) => Signed(x, b) = x)
    BY <1>3, SignedFits
  <2> QED
    BY <1>1, <1>2, <1>3, <2>1, <2>2
<1>5. CASE a # << >>
  <2>1. PICK v \in Values(type) : a = <<v>>
    BY <1>5 DEF ArgumentOf
  <2>2. v \in Int /\ v \in Fits(b)
    BY <1>1, TypeFacts
  <2>3. Passed(type, a) = v /\ a[1] = v
    BY <1>5, <2>1 DEF Passed
  <2>4. Signed(v, b) \in Fits(b) /\ Signed(v, b) = v
    BY <2>2, SignedFits
  <2>5. Omitted(type, a) <=> v = x
    BY <1>2, <1>5, <2>1 DEF Omitted
  <2> QED
    BY <1>1, <1>2, <2>2, <2>3, <2>4, <2>5
<1> QED
  BY <1>4, <1>5

(* The call passes the arguments.                                          *)
LEMMA ArgumentsPassed ==
  ASSUME NEW k \in Classes, NEW g \in Arguments(k), NEW q,
         q = [i \in DOMAIN Params[k] |->
                Signed(Passed(Params[k][i].type, g[i]), Bits(Params[k][i].type))]
  PROVE  ParamsOK(k, 1, g, q)
<1>1. ASSUME NEW i \in DOMAIN Params[k]
      PROVE  /\ ArgumentOf(Params[k][i].type, g[i])
             /\ q[i] \in Fits(Bits(Params[k][i].type)) /\ q[i] \in Int
             /\ q[i] = Signed(Passed(Params[k][i].type, g[i]), Bits(Params[k][i].type))
             /\ ~(i < 1)
  <2>1. PICK type : type = Params[k][i].type
    OBVIOUS
  <2>2. type \in Types /\ i \in Nat /\ i >= 1
    BY <2>1, ParamFacts
  <2>3. ArgumentOf(type, g[i])
    BY <2>1, ArgumentFacts
  <2>4. q[i] = Signed(Passed(type, g[i]), Bits(type))
    BY <2>1
  <2>5. q[i] \in Fits(Bits(type)) /\ Bits(type) \in 1..PtrBits
    BY <2>2, <2>3, <2>4, PassedFacts, TypeFacts
  <2>6. q[i] \in Int
    BY <2>5, FitsInt
  <2> QED
    BY <2>1, <2>2, <2>3, <2>4, <2>5, <2>6
<1>2. PICK d : d = DOMAIN Params[k]
  OBVIOUS
<1>3. q \in [d -> Int]
  <2>1. q = [i \in d |-> q[i]]
    BY <1>2
  <2>2. \A i \in d : q[i] \in Int
    BY <1>1, <1>2
  <2> QED
    BY <2>1, <2>2
<1> QED
  BY <1>1, <1>2, <1>3 DEF ParamsOK

(* One parameter is compared, and takes its default.                       *)
LEMMA DefaultTaken ==
  ASSUME NEW k \in Classes, NEW s \in DOMAIN Params[k], NEW g, NEW q,
         ParamsOK(k, s, g, q), NEW p, p = Params[k][s], NEW q2,
         q2 = [q EXCEPT ![s] = IF @ = DefaultArgument(p.type)
                               THEN Signed(DefaultIn(q, p), Bits(p.type)) ELSE @]
  PROVE  ParamsOK(k, s + 1, g, q2)
<1>1. PICK d : d = DOMAIN Params[k]
  OBVIOUS
<1>2. PICK v : v = IF q[s] = DefaultArgument(p.type)
                   THEN Signed(DefaultIn(q, p), Bits(p.type)) ELSE q[s]
  OBVIOUS
<1>3. /\ s \in Nat /\ s >= 1 /\ s \in d /\ q \in [d -> Int]
      /\ p.type \in Types /\ p.earlier \in Nat /\ p.default \in Int
  BY <1>1, ParamFacts DEF ParamsOK
<1>4. DOMAIN q2 = d /\ q2[s] = v /\ \A i \in d : i # s => q2[i] = q[i]
  BY <1>2, <1>3
<1>5. PICK b \in 1..PtrBits : b = Bits(p.type)
  BY <1>3, TypeFacts
<1>6. DefaultIn(q, p) \in Fits(b)
  <2>1. CASE p.earlier = 0
    <3>1. p.default \in Fits(b)
      BY <1>3, <1>5, <2>1, ParamFacts, TypeFacts
    <3> QED
      BY <2>1, <3>1 DEF DefaultIn
  <2>2. CASE p.earlier # 0
    <3>1. PICK e : e = p.earlier
      OBVIOUS
    <3>2. e \in d /\ e > 0 /\ Bits(Params[k][e].type) <= b
      BY <1>1, <1>3, <1>5, <2>2, <3>1, ParamFacts
    <3>3. q[e] \in Fits(Bits(Params[k][e].type))
      BY <1>1, <3>2 DEF ParamsOK
    <3>4. Params[k][e].type \in Types
      BY <1>1, <3>2, ParamFacts
    <3>5. Bits(Params[k][e].type) \in 1..PtrBits
      BY <3>4, TypeFacts
    <3>6. q[e] \in Fits(b)
      BY <3>2, <3>3, <3>5, FitsGrow
    <3> QED
      BY <3>1, <3>2, <3>6 DEF DefaultIn
  <2> QED
    BY <2>1, <2>2
<1>7. DefaultIn(q, p) \in Int /\ Signed(DefaultIn(q, p), b) = DefaultIn(q, p)
  BY <1>6, FitsInt, SignedFits
<1>8. q[s] \in Fits(b) /\ ArgumentOf(p.type, g[s])
      /\ q[s] = Signed(Passed(p.type, g[s]), b)
  BY <1>1, <1>3, <1>5 DEF ParamsOK
<1>9. v \in Fits(b) /\ v \in Int
  <2>1. v \in Fits(b)
    BY <1>2, <1>5, <1>6, <1>7, <1>8
  <2> QED
    BY <2>1, FitsInt
<1>10. ASSUME NEW i \in d PROVE DefaultIn(q2, Params[k][i]) = DefaultIn(q, Params[k][i]) \/ i > s
  <2>1. PICK r : r = Params[k][i]
    OBVIOUS
  <2>2. /\ i \in Nat /\ r.earlier \in Nat
        /\ r.earlier # 0 => r.earlier \in d /\ r.earlier < i
    BY <1>1, <2>1, ParamFacts
  <2>3. CASE r.earlier = 0
    BY <2>1, <2>3 DEF DefaultIn
  <2>4. CASE r.earlier # 0 /\ ~(i > s)
    <3>1. r.earlier # s /\ r.earlier \in d
      BY <1>3, <2>2, <2>4
    <3>2. q2[r.earlier] = q[r.earlier]
      BY <1>4, <3>1
    <3> QED
      BY <2>1, <3>2 DEF DefaultIn
  <2> QED
    BY <2>3, <2>4
<1>11. Arrived(p, g[s], q2, s)
  <2>1. DefaultIn(q2, p) = DefaultIn(q, p)
    <3>1. ~(s > s)
      BY <1>3
    <3> QED
      BY <1>3, <1>10, <3>1
  <2>2. ASSUME ~Omitted(p.type, g[s]) PROVE v = g[s][1]
    <3>1. q[s] = g[s][1] /\ g[s][1] # DefaultArgument(p.type)
      BY <1>3, <1>5, <1>8, <2>2, PassedFacts
    <3> QED
      BY <1>2, <3>1
  <2>3. ASSUME Omitted(p.type, g[s]), p.type # "byte" PROVE v = DefaultIn(q, p)
    <3>1. q[s] = DefaultArgument(p.type)
      BY <1>3, <1>5, <1>8, <2>3, PassedFacts
    <3> QED
      BY <1>2, <1>5, <1>7, <3>1
  <2> QED
    BY <1>4, <2>1, <2>2, <2>3 DEF Arrived
<1>12. ASSUME NEW i \in d
       PROVE  /\ ArgumentOf(Params[k][i].type, g[i])
              /\ q2[i] \in Fits(Bits(Params[k][i].type))
              /\ i >= s + 1 =>
                   q2[i] = Signed(Passed(Params[k][i].type, g[i]), Bits(Params[k][i].type))
              /\ i < s + 1 => Arrived(Params[k][i], g[i], q2, i)
  <2>1. CASE i = s
    BY <1>3, <1>4, <1>5, <1>8, <1>9, <1>11, <2>1
  <2>2. CASE i # s
    <3>1. /\ ArgumentOf(Params[k][i].type, g[i])
          /\ q[i] \in Fits(Bits(Params[k][i].type))
          /\ i >= s => q[i] = Signed(Passed(Params[k][i].type, g[i]), Bits(Params[k][i].type))
          /\ i < s => Arrived(Params[k][i], g[i], q, i)
      BY <1>1 DEF ParamsOK
    <3>2. q2[i] = q[i] /\ i \in Nat
      BY <1>1, <1>4, <2>2, ParamFacts
    <3>3. ASSUME i < s PROVE Arrived(Params[k][i], g[i], q2, i)
      <4>1. DefaultIn(q2, Params[k][i]) = DefaultIn(q, Params[k][i])
        <5>1. ~(i > s)
          BY <1>3, <3>2, <3>3
        <5> QED
          BY <1>10, <5>1
      <4> QED
        BY <3>1, <3>2, <3>3, <4>1 DEF Arrived
    <3>4. (i >= s + 1 => i >= s) /\ (i < s + 1 => i < s)
      BY <1>3, <2>2, <3>2
    <3> QED
      BY <3>1, <3>2, <3>3, <3>4
  <2> QED
    BY <2>1, <2>2
<1>13. q2 \in [d -> Int]
  BY <1>3, <1>4, <1>9
<1>14. s + 1 \in Nat /\ s + 1 >= 1
  BY <1>3
<1> QED
  BY <1>1, <1>12, <1>13, <1>14 DEF ParamsOK

(* Every step keeps the invariant of the arguments.                        *)
LEMMA ArgumentsStep == ObjectInv /\ ArgumentsInv /\ [Next]_vars => ArgumentsInv'
<1> SUFFICES ASSUME ObjectInv, ArgumentsInv, [Next]_vars, At("init")', step' > 0
             PROVE  ParamsOK(k0', step', given', params')
  BY DEF ArgumentsInv
<1>1. ASSUME class # 0, At("init"), step > 0, UNCHANGED <<todo, callVars>>, step' = step
      PROVE  ParamsOK(k0', step', given', params')
  <2>1. k0' = k0 /\ given' = given /\ params' = params
    BY <1>1 DEF k0, callVars
  <2> QED
    BY <1>1, <2>1 DEF ArgumentsInv
<1>2. ASSUME UNCHANGED <<todo, callVars>>, step' = step
      PROVE  ParamsOK(k0', step', given', params')
  <2>1. At("init") /\ step > 0
    BY <1>2 DEF At
  <2>2. class # 0
    BY <2>1, NoCall
  <2> QED
    BY <1>1, <1>2, <2>1, <2>2
<1>3. ~(step' = 0)
  OBVIOUS
<1>4. ASSUME NEW c \in Classes, New(c) PROVE FALSE
  BY <1>3, <1>4 DEF New
<1>5. CASE SetVTable
  <2>1. At("vtable") /\ step' = step
    BY <1>5 DEF SetVTable
  <2>2. class # 0
    BY <2>1, NoCall
  <2>3. class \in Nat \ {0} /\ done \in 0..(2 * class) /\ DoAt(class, done + 1) = "vtable"
    BY <2>1, <2>2, Current
  <2>4. done = 0
    BY <2>3, CallFacts
  <2>5. step = 0
    BY <2>2, <2>4 DEF ObjectInv, ProgressAt
  <2> QED
    BY <1>3, <2>1, <2>5
<1>6. CASE AssignDefaults \/ AssignField
  <2>1. At("assign") /\ todo' = todo
    BY <1>6 DEF AssignDefaults, AssignField
  <2>2. At("assign")'
    BY <2>1 DEF At
  <2> QED
    BY <2>2 DEF At
<1>7. CASE Assigned
  BY <1>3, <1>7 DEF Assigned
<1>8. CASE EnterInit
  <2>1. PICK k : k = k0
    OBVIOUS
  <2>2. k \in Classes
    <3>1. At("init")
      BY <1>8 DEF EnterInit
    <3>2. class # 0
      BY <3>1, NoCall
    <3> QED
      BY <2>1, <3>2, Current
  <2>3. PICK g, q : g = given' /\ q = params'
    OBVIOUS
  <2>4. k0' = k /\ step' = 1
    BY <1>8, <2>1 DEF EnterInit, k0
  <2>5. g \in Arguments(k)
    BY <1>8, <2>1, <2>3 DEF EnterInit
  <2>6. q = [i \in DOMAIN Params[k] |->
               Signed(Passed(Params[k][i].type, g[i]), Bits(Params[k][i].type))]
    BY <1>8, <2>1, <2>3 DEF EnterInit, Passed
  <2>7. ParamsOK(k, 1, g, q)
    BY <2>2, <2>5, <2>6, ArgumentsPassed
  <2> QED
    BY <2>3, <2>4, <2>7
<1>9. CASE DefaultParameter
  <2>1. PICK k, s, g, q, q2 : k = k0 /\ s = step /\ g = given /\ q = params /\ q2 = params'
    OBVIOUS
  <2>2. At("init") /\ class # 0
    BY <1>9, NoCall DEF DefaultParameter
  <2>3. k \in Classes
    BY <2>1, <2>2, Current
  <2>4. s \in DOMAIN Params[k]
    BY <1>9, <2>1 DEF DefaultParameter
  <2>5. PICK p : p = Params[k][s]
    OBVIOUS
  <2>6. s > 0
    BY <2>3, <2>4, <2>5, ParamFacts
  <2>7. ParamsOK(k, s, g, q)
    BY <2>1, <2>2, <2>6 DEF ArgumentsInv
  <2>8. q2 = [q EXCEPT ![s] = IF @ = DefaultArgument(p.type)
                              THEN Signed(DefaultIn(q, p), Bits(p.type)) ELSE @]
    BY <1>9, <2>1, <2>5 DEF DefaultParameter, DefaultIn, DefaultValue
  <2>9. ParamsOK(k, s + 1, g, q2)
    BY <2>3, <2>4, <2>5, <2>7, <2>8, DefaultTaken
  <2>10. k0' = k /\ step' = s + 1 /\ given' = g
    BY <1>9, <2>1 DEF DefaultParameter, k0
  <2> QED
    BY <2>1, <2>9, <2>10
<1>10. CASE Return
  BY <1>3, <1>10 DEF Return
<1>11. ASSUME NEW m \in 1..class, NEW f \in Accessible(m), Write(m, f)
       PROVE  ParamsOK(k0', step', given', params')
  <2>1. UNCHANGED <<todo, callVars>> /\ step' = step
    BY <1>11 DEF Write
  <2> QED
    BY <1>2, <2>1
<1>12. CASE UNCHANGED vars
  <2>1. UNCHANGED <<todo, callVars>> /\ step' = step
    BY <1>12 DEF vars
  <2> QED
    BY <1>2, <2>1
<1> QED
  BY <1>4, <1>5, <1>6, <1>7, <1>8, <1>9, <1>10, <1>11, <1>12 DEF Next

LEMMA ArgumentsInitial == Init => ArgumentsInv
BY DEF Init, ArgumentsInv, At

LEMMA ArgumentsInvariance == Spec => []ArgumentsInv
BY ObjectInvariance, ArgumentsInitial, ArgumentsStep, PTL DEF Spec

LEMMA ArgumentsHold == ObjectInv /\ ArgumentsInv => ArgumentsArrive
<1> SUFFICES ASSUME ObjectInv, ArgumentsInv, InBody, NEW i \in DOMAIN Params[k0], NEW p,
                    p = Params[k0][i]
             PROVE  LET omitted == given[i] = << >> \/ given[i] = <<DefaultArgument(p.type)>>
                    IN  /\ ~omitted => params[i] = given[i][1]
                        /\ omitted /\ p.type # "byte" => params[i] = DefaultValue(p)
  BY DEF ArgumentsArrive
<1>1. At("init") /\ step = Len(Params[k0]) + 1
  BY DEF InBody
<1>2. k0 \in Classes
  <2>1. class # 0
    BY <1>1, NoCall
  <2> QED
    BY <2>1, Current
<1>3. PICK s : s = Params[k0]
  OBVIOUS
<1>4. PICK R : s \in Seq(R)
  BY <1>2, <1>3, ParamsAssumption DEF ParamsAssumption
<1>5. i \in 1..Len(s) /\ Len(s) \in Nat
  BY <1>3, <1>4
<1>6. step > 0 /\ i < step
  BY <1>1, <1>3, <1>5
<1>7. ParamsOK(k0, step, given, params)
  BY <1>1, <1>6 DEF ArgumentsInv
<1>8. Arrived(p, given[i], params, i)
  BY <1>6, <1>7 DEF ParamsOK
<1> QED
  BY <1>8 DEF Arrived, Omitted, DefaultIn, DefaultValue

(* The body of an init has each argument as it was passed, and the default *)
(* where it was omitted, for integers of any width and any parameters,     *)
(* unless the parameter is a byte.                                         *)
THEOREM ArgumentsReachTheBody == Spec => []ArgumentsArrive
BY ObjectInvariance, ArgumentsInvariance, ArgumentsHold, PTL

=============================================================================
