--------------------------- MODULE MatmulGridProofs ---------------------------
(***************************************************************************)
(* Theorems about MatmulGrid, for all launches: every grid of cores, every *)
(* blocking the host may choose and every size of the matrices.            *)
(*                                                                         *)
(* The argument: a length divided into parts of one size but for the last  *)
(* (Parted) is covered by them without overlap, so a place is determined   *)
(* by its part and the offset in it.  That is used four times over: for    *)
(* the shares of the cores, the outer blocks of a share, the subblocks of  *)
(* a block and the elements of a tile.  It makes the writes of a subblock  *)
(* the tiles of the share whose indices it holds (WritesArePlaces), and no *)
(* two tiles of the shares have one place in the output (PlaceUnique).     *)
(* The invariant GridIInv follows every tile of a share through the launch *)
(* - still to be written, in flight, in its place - which is what makes it *)
(* inductive whatever the order in which the cores write.  The read-back   *)
(* takes each element from the place its tile was written to; with L1      *)
(* tensors, where shares overlap in the result, because what is copied     *)
(* over it comes before it (CopiedBefore).                                 *)
(***************************************************************************)
EXTENDS MatmulGrid, BlockingProofs

-------------------------------------------------------------------------------
(* Products, quotients and remainders *)

LEMMA RowProduct ==
  ASSUME NEW a \in Nat, NEW b \in Nat
  PROVE  (a + 1) * b = a * b + b /\ 0 * b = 0 /\ a * b \in Nat
OBVIOUS

LEMMA MonotoneProduct ==
  ASSUME NEW a \in Nat, NEW b \in Nat, NEW c \in Nat, a <= b
  PROVE  a * c <= b * c
OBVIOUS

LEMMA DivModParts ==
  ASSUME NEW s \in Nat, NEW w \in Nat \ {0}
  PROVE  /\ s \div w \in Nat /\ s % w \in 0 .. w - 1
         /\ s = (s \div w) * w + (s % w)
OBVIOUS

\* Part and offset are determined by the position.
LEMMA UniquePosition ==
  ASSUME NEW a \in Nat, NEW x \in Nat, NEW b \in Nat \ {0},
         NEW c \in 0 .. b - 1, NEW y \in 0 .. b - 1,
         a * b + c = x * b + y
  PROVE  a = x /\ c = y
<1>1. ASSUME NEW m \in Nat, NEW n \in Nat, NEW e \in 0 .. b - 1,
             NEW f \in 0 .. b - 1, m < n
      PROVE  m * b + e # n * b + f
  <2>1. (m + 1) * b <= n * b
    BY <1>1, MonotoneProduct
  <2>2. (m + 1) * b = m * b + b /\ m * b \in Nat /\ n * b \in Nat
    BY <1>1, RowProduct
  <2> QED BY <1>1, <2>1, <2>2
<1>2. a = x
  BY <1>1
<1>3. a * b \in Nat
  BY RowProduct
<1> QED BY <1>2, <1>3

LEMMA DivMod ==
  ASSUME NEW a \in Nat, NEW b \in Nat \ {0}, NEW c \in 0 .. b - 1
  PROVE  (a * b + c) \div b = a /\ (a * b + c) % b = c
<1> DEFINE s == a * b + c
           q == s \div b
           r == s % b
<1>1. s \in Nat
  <2>1. a * b \in Nat
    BY RowProduct
  <2> QED BY <2>1
<1> HIDE DEF s
<1>2. q \in Nat /\ r \in 0 .. b - 1 /\ s = q * b + r
  BY <1>1
<1> HIDE DEF q, r
<1>3. q * b + r = a * b + c
  BY <1>2 DEF s
<1>4. q = a /\ r = c
  BY <1>2, <1>3, UniquePosition
<1> QED BY <1>4 DEF q, r, s
-------------------------------------------------------------------------------
(* A length v divided into n parts of d, the last of which may be shorter *)

Parted(v, d, n) ==
  /\ v \in Nat \ {0} /\ d \in Nat \ {0} /\ n \in Nat \ {0}
  /\ (n - 1) * d < v /\ v <= n * d

PartSize(v, d, n, i) == IF i = n - 1 THEN LastPart(v, d) ELSE d

LEMMA PartProducts ==
  ASSUME NEW v, NEW d, NEW n, Parted(v, d, n)
  PROVE  /\ v \in Nat \ {0} /\ d \in Nat \ {0} /\ n \in Nat \ {0}
         /\ n - 1 \in Nat /\ (n - 1) * d \in Nat
         /\ n * d = (n - 1) * d + d
<1>1. v \in Nat \ {0} /\ d \in Nat \ {0} /\ n \in Nat \ {0}
  BY DEF Parted
<1>2. PICK k \in Nat : n = k + 1
  BY <1>1
<1>3. (k + 1) * d = k * d + d /\ k * d \in Nat
  BY <1>1, RowProduct
<1> QED BY <1>1, <1>2, <1>3

LEMMA LastPartFacts ==
  ASSUME NEW v, NEW d, NEW n, Parted(v, d, n)
  PROVE  /\ LastPart(v, d) = v - (n - 1) * d
         /\ LastPart(v, d) \in 1 .. d
<1> DEFINE r == v - (n - 1) * d
<1>1. /\ v \in Nat \ {0} /\ d \in Nat \ {0} /\ n \in Nat \ {0}
      /\ n - 1 \in Nat /\ (n - 1) * d \in Nat
      /\ n * d = (n - 1) * d + d
  BY PartProducts
<1>2. r \in 1 .. d /\ v = (n - 1) * d + r
  BY <1>1 DEF Parted
<1>3. CASE r = d
  <2>1. v = n * d + 0 /\ 0 \in 0 .. d - 1
    BY <1>1, <1>2, <1>3
  <2>2. (n * d + 0) % d = 0
    BY <1>1, <2>1, DivMod
  <2>3. v % d = 0
    BY <2>1, <2>2
  <2> QED BY <1>2, <1>3, <2>3 DEF LastPart
<1>4. CASE r # d
  <2>1. r \in 0 .. d - 1 /\ r # 0
    BY <1>1, <1>2, <1>4
  <2> HIDE DEF r
  <2>2. ((n - 1) * d + r) % d = r
    BY <1>1, <2>1, DivMod
  <2>3. v % d = r
    BY <1>2, <2>2
  <2>4. LastPart(v, d) = r
    BY <2>1, <2>3 DEF LastPart
  <2> QED BY <1>2, <2>4 DEF r
<1> QED BY <1>3, <1>4

\* Every place of the parts is one of the length ...
LEMMA PartInside ==
  ASSUME NEW v, NEW d, NEW n, Parted(v, d, n),
         NEW i \in 0 .. n - 1, NEW t \in 0 .. PartSize(v, d, n, i) - 1
  PROVE  /\ i \in Nat /\ t \in 0 .. d - 1
         /\ i * d + t \in 0 .. v - 1
<1>1. /\ v \in Nat \ {0} /\ d \in Nat \ {0} /\ n \in Nat \ {0}
      /\ n - 1 \in Nat /\ (n - 1) * d \in Nat
  BY PartProducts
<1>2. LastPart(v, d) = v - (n - 1) * d /\ LastPart(v, d) \in 1 .. d
  BY LastPartFacts
<1>3. i \in Nat
  BY <1>1
<1>4. CASE i = n - 1
  <2>1. PartSize(v, d, n, i) = v - (n - 1) * d /\ v - (n - 1) * d \in 1 .. d
    BY <1>2, <1>4 DEF PartSize
  <2>2. i * d = (n - 1) * d
    BY <1>4
  <2> QED BY <1>1, <1>3, <2>1, <2>2
<1>5. CASE i # n - 1
  <2>1. PartSize(v, d, n, i) = d
    BY <1>5 DEF PartSize
  <2>2. i + 1 \in Nat /\ i + 1 <= n - 1
    BY <1>1, <1>5
  <2>3. (i + 1) * d <= (n - 1) * d /\ (i + 1) * d = i * d + d /\ i * d \in Nat
    BY <1>1, <1>3, <2>2, MonotoneProduct, RowProduct
  <2>4. (n - 1) * d < v
    BY DEF Parted
  <2> QED BY <1>1, <1>3, <2>1, <2>3, <2>4
<1> QED BY <1>4, <1>5

\* ... and every place of the length is one of a part.
LEMMA PartOf ==
  ASSUME NEW v, NEW d, NEW n, Parted(v, d, n), NEW x \in 0 .. v - 1
  PROVE  /\ x \div d \in 0 .. n - 1
         /\ x % d \in 0 .. PartSize(v, d, n, x \div d) - 1
         /\ x = (x \div d) * d + (x % d)
<1> DEFINE q == x \div d
           r == x % d
<1>1. /\ v \in Nat \ {0} /\ d \in Nat \ {0} /\ n \in Nat \ {0}
      /\ n - 1 \in Nat /\ (n - 1) * d \in Nat
      /\ n * d = (n - 1) * d + d
  BY PartProducts
<1>2. q \in Nat /\ r \in 0 .. d - 1 /\ x = q * d + r
  <2>1. x \in Nat /\ d \in Nat \ {0}
    BY <1>1
  <2> QED BY <2>1, DivModParts
<1>3. LastPart(v, d) = v - (n - 1) * d /\ LastPart(v, d) \in 1 .. d
  BY LastPartFacts
<1> HIDE DEF q, r
<1>4. q < n
  <2> SUFFICES ASSUME n <= q PROVE FALSE
    BY <1>1, <1>2
  <2>1. n * d <= q * d /\ q * d \in Nat
    BY <1>1, <1>2, MonotoneProduct, RowProduct
  <2>2. v <= n * d
    BY DEF Parted
  <2> QED BY <1>1, <1>2, <2>1, <2>2
<1>5. r \in 0 .. PartSize(v, d, n, q) - 1
  <2>1. CASE q = n - 1
    <3>1. q * d = (n - 1) * d
      BY <2>1
    <3>2. PartSize(v, d, n, q) = v - (n - 1) * d
      BY <1>3, <2>1 DEF PartSize
    <3> QED BY <1>1, <1>2, <3>1, <3>2
  <2>2. CASE q # n - 1
    BY <1>2, <2>2 DEF PartSize
  <2> QED BY <2>1, <2>2
<1>6. q \in 0 .. n - 1
  BY <1>1, <1>2, <1>4
<1> QED BY <1>2, <1>5, <1>6 DEF q, r

\* Nonzero is the number of parts.
LEMMA NonzeroParts ==
  ASSUME NEW v \in Nat \ {0}, NEW d \in Nat \ {0}
  PROVE  Parted(v, d, Nonzero(v, d))
<1> DEFINE q == (v - 1) \div d
           r == (v - 1) % d
<1>1. v - 1 \in Nat
  OBVIOUS
<1>2. q \in Nat /\ r \in 0 .. d - 1 /\ v - 1 = q * d + r
  BY <1>1, DivModParts
<1>3. Nonzero(v, d) = q + 1
  BY DEF Nonzero
<1> HIDE DEF q, r
<1>4. (q + 1) * d = q * d + d /\ q * d \in Nat
  BY <1>2, RowProduct
<1>5. (q + 1) - 1 = q
  BY <1>2
<1>6. v <= (q + 1) * d /\ q * d < v
  BY <1>2, <1>4
<1> QED BY <1>2, <1>3, <1>5, <1>6 DEF Parted

\* Of parts that divide the length none is shorter.
LEMMA EvenParts ==
  ASSUME NEW v \in Nat \ {0}, NEW d \in Nat \ {0}, v % d = 0
  PROVE  /\ v \div d \in Nat \ {0} /\ v = (v \div d) * d
         /\ Parted(v, d, v \div d)
         /\ Nonzero(v, d) = v \div d /\ LastPart(v, d) = d
<1> DEFINE q == v \div d
<1>1. q \in Nat /\ v = q * d + 0
  BY DivModParts
<1> HIDE DEF q
<1>2. q # 0
  BY <1>1, RowProduct
<1>3. PICK k \in Nat : q = k + 1
  BY <1>1, <1>2
<1>4. (k + 1) * d = k * d + d /\ k * d \in Nat
  BY RowProduct
<1>5. v - 1 = k * d + (d - 1) /\ d - 1 \in 0 .. d - 1
  BY <1>1, <1>3, <1>4
<1>6. (v - 1) \div d = k
  BY <1>5, DivMod
<1>7. Nonzero(v, d) = q
  BY <1>3, <1>6 DEF Nonzero
<1>8. Parted(v, d, q)
  BY <1>7, NonzeroParts
<1>9. LastPart(v, d) = d
  BY DEF LastPart
<1>10. v = q * d
  BY <1>1, <1>2, RowProduct
<1> QED BY <1>1, <1>2, <1>7, <1>8, <1>9, <1>10 DEF q
-------------------------------------------------------------------------------
(* One dimension of a core's share: v valid tiles in n outer blocks of b,  *)
(* and those in subblocks of s                                             *)

SubCount(v, b, n, s, i) ==
  IF i = n - 1 THEN Nonzero(LastPart(v, b), s) ELSE b \div s

SubSize(v, b, n, s, i, j) ==
  IF i = n - 1 /\ j = SubCount(v, b, n, s, i) - 1
  THEN LastPart(LastPart(v, b), s) ELSE s

LEMMA SubParts ==
  ASSUME NEW v, NEW b, NEW n, Parted(v, b, n),
         NEW s \in Nat \ {0}, b % s = 0, NEW i \in 0 .. n - 1
  PROVE  /\ PartSize(v, b, n, i) \in 1 .. b
         /\ Parted(PartSize(v, b, n, i), s, SubCount(v, b, n, s, i))
         /\ \A j : SubSize(v, b, n, s, i, j) =
                   PartSize(PartSize(v, b, n, i), s, SubCount(v, b, n, s, i), j)
<1> DEFINE m == PartSize(v, b, n, i)
<1>1. b \in Nat \ {0} /\ LastPart(v, b) \in 1 .. b
  BY PartProducts, LastPartFacts
<1>2. CASE i = n - 1
  <2>1. m = LastPart(v, b) /\ m \in Nat \ {0} /\ m \in 1 .. b
    BY <1>1, <1>2 DEF PartSize
  <2>2. SubCount(v, b, n, s, i) = Nonzero(m, s)
    BY <1>2, <2>1 DEF SubCount
  <2>3. Parted(m, s, Nonzero(m, s))
    BY <2>1, NonzeroParts
  <2>4. ASSUME NEW j
        PROVE  SubSize(v, b, n, s, i, j) =
                 PartSize(m, s, SubCount(v, b, n, s, i), j)
    BY <1>2, <2>1 DEF SubSize, PartSize
  <2> QED BY <2>1, <2>2, <2>3, <2>4
<1>3. CASE i # n - 1
  <2>1. m = b
    BY <1>3 DEF PartSize
  <2>2. SubCount(v, b, n, s, i) = b \div s
    BY <1>3 DEF SubCount
  <2>3. Parted(b, s, b \div s) /\ LastPart(b, s) = s
    BY <1>1, EvenParts
  <2>4. ASSUME NEW j
        PROVE  SubSize(v, b, n, s, i, j) =
                 PartSize(m, s, SubCount(v, b, n, s, i), j)
    BY <1>3, <2>1, <2>3 DEF SubSize, PartSize
  <2> QED BY <1>1, <2>1, <2>2, <2>3, <2>4
<1> QED BY <1>2, <1>3

\* Tile h of subblock j of outer block i is a valid one, and tells i and j.
LEMMA TileInside ==
  ASSUME NEW v, NEW b, NEW n, Parted(v, b, n),
         NEW s \in Nat \ {0}, b % s = 0, NEW i \in 0 .. n - 1,
         NEW j \in 0 .. SubCount(v, b, n, s, i) - 1,
         NEW h \in 0 .. SubSize(v, b, n, s, i, j) - 1
  PROVE  /\ i \in Nat /\ j \in Nat /\ h \in 0 .. s - 1
         /\ i * b \in Nat /\ j * s \in Nat
         /\ j * s + h \in 0 .. PartSize(v, b, n, i) - 1
         /\ i * b + j * s + h \in 0 .. v - 1
         /\ (i * b + j * s + h) \div b = i
         /\ (i * b + j * s + h) % b = j * s + h
         /\ (j * s + h) \div s = j /\ (j * s + h) % s = h
<1> DEFINE m == PartSize(v, b, n, i)
           t == j * s + h
<1>1. /\ m \in 1 .. b
      /\ Parted(m, s, SubCount(v, b, n, s, i))
      /\ h \in 0 .. PartSize(m, s, SubCount(v, b, n, s, i), j) - 1
  BY SubParts
<1>2. j \in Nat /\ h \in 0 .. s - 1 /\ t \in 0 .. m - 1
  BY <1>1, PartInside
<1>3. b \in Nat \ {0}
  BY PartProducts
<1>4. t \div s = j /\ t % s = h
  BY <1>2, DivMod
<1> HIDE DEF t, m
<1>5. i \in Nat /\ t \in 0 .. b - 1 /\ i * b + t \in 0 .. v - 1
  BY <1>2, PartInside DEF m
<1>6. (i * b + t) \div b = i /\ (i * b + t) % b = t
  BY <1>3, <1>5, DivMod
<1>7. i * b \in Nat /\ j * s \in Nat
  BY <1>2, <1>3, <1>5, RowProduct
<1>8. i * b + t = i * b + j * s + h
  BY <1>2, <1>7 DEF t
<1> QED BY <1>2, <1>4, <1>5, <1>6, <1>7, <1>8 DEF t, m

\* Every valid tile is one of a subblock.
LEMMA TileOf ==
  ASSUME NEW v, NEW b, NEW n, Parted(v, b, n),
         NEW s \in Nat \ {0}, b % s = 0, NEW x \in 0 .. v - 1
  PROVE  LET i == x \div b
             j == (x % b) \div s
             h == (x % b) % s
         IN  /\ i \in 0 .. n - 1 /\ j \in 0 .. SubCount(v, b, n, s, i) - 1
             /\ j \in 0 .. b - 1
             /\ h \in 0 .. SubSize(v, b, n, s, i, j) - 1
             /\ x = i * b + j * s + h
<1> DEFINE i == x \div b
           t == x % b
           j == t \div s
           h == t % s
           m == PartSize(v, b, n, i)
<1>1. i \in 0 .. n - 1 /\ t \in 0 .. m - 1 /\ x = i * b + t
  BY PartOf
<1> HIDE DEF i, t
<1>2. /\ m \in 1 .. b
      /\ Parted(m, s, SubCount(v, b, n, s, i))
      /\ SubSize(v, b, n, s, i, j) =
            PartSize(m, s, SubCount(v, b, n, s, i), j)
  BY <1>1, SubParts
<1> HIDE DEF m
<1>3. /\ j \in 0 .. SubCount(v, b, n, s, i) - 1
      /\ h \in 0 .. PartSize(m, s, SubCount(v, b, n, s, i), j) - 1
      /\ t = j * s + h
  BY <1>1, <1>2, PartOf
<1>4. b \in Nat \ {0} /\ n \in Nat \ {0}
  BY PartProducts
<1>5. t \in Nat /\ t < b
  BY <1>1, <1>2, <1>4
<1>6. j \in Nat /\ h \in Nat
  <2>1. t \div s \in Nat /\ t % s \in 0 .. s - 1
    BY <1>5, DivModParts
  <2> HIDE DEF j, h
  <2>2. t \div s = j /\ t % s = h
    BY DEF j, h
  <2> QED BY <2>1, <2>2
<1> HIDE DEF j, h
<1>7. j <= j * s /\ j * s \in Nat
  BY <1>6
<1>8. j \in 0 .. b - 1
  BY <1>3, <1>4, <1>5, <1>6, <1>7
<1>9. i * b \in Nat
  BY <1>1, <1>4, RowProduct
<1>10. x = i * b + j * s + h
  BY <1>1, <1>3, <1>6, <1>7, <1>9
<1> QED BY <1>1, <1>2, <1>3, <1>8, <1>10 DEF i, t, j, h
-------------------------------------------------------------------------------
(* The shares of the cores *)

\* What is known of a launch that has been sized.
GridPlan ==
  /\ launch \in Launch
  /\ BlockFits /\ BlocksCounted
  /\ plan.subH \in Nat \ {0} /\ plan.subW \in Nat \ {0}
  /\ plan.blockH % plan.subH = 0 /\ plan.blockW % plan.subW = 0

BlocksFilled ==
  /\ (plan.numBlocksH - 1) * plan.blockH < LastPart(Mt, PerCoreMt)
  /\ (plan.numBlocksW - 1) * plan.blockW < LastPart(Nt, PerCoreNt)

LEMMA PlanSizes ==
  ASSUME GridPlan
  PROVE  /\ plan.blockH \in Nat \ {0} /\ plan.blockW \in Nat \ {0}
         /\ plan.subH \in Nat \ {0} /\ plan.subW \in Nat \ {0}
         /\ PerCoreMt \in Nat \ {0} /\ PerCoreNt \in Nat \ {0}
         /\ Mt \in Nat \ {0} /\ Nt \in Nat \ {0}
         /\ launch.coresX \in Nat \ {0} /\ launch.coresY \in Nat \ {0}
<1>1. launch \in Launch
  BY DEF GridPlan
<1>2. /\ PerCoreMt \in Nat \ {0} /\ PerCoreNt \in Nat \ {0}
      /\ Mt \in Nat \ {0} /\ Nt \in Nat \ {0}
  BY <1>1, Shares
<1>3. launch.coresX \in Nat \ {0} /\ launch.coresY \in Nat \ {0}
  BY <1>1 DEF Launch
<1> QED BY <1>2, <1>3 DEF GridPlan, BlockFits

LEMMA LastPartRange ==
  ASSUME NEW v \in Nat \ {0}, NEW d \in Nat \ {0}
  PROVE  LastPart(v, d) \in 1 .. d
BY NonzeroParts, LastPartFacts

LEMMA CoreFacts ==
  ASSUME GridPlan, NEW c \in Cores
  PROVE  /\ c = <<c[1], c[2]>>
         /\ c[1] \in 0 .. launch.coresX - 1 /\ c[2] \in 0 .. launch.coresY - 1
         /\ c[1] \in Nat /\ c[2] \in Nat
         /\ ValidM(c) \in 1 .. PerCoreMt /\ ValidN(c) \in 1 .. PerCoreNt
<1>1. /\ c = <<c[1], c[2]>>
      /\ c[1] \in 0 .. launch.coresX - 1 /\ c[2] \in 0 .. launch.coresY - 1
  BY DEF Cores
<1>2. c[1] \in Nat /\ c[2] \in Nat
  BY <1>1, PlanSizes
<1>3. ValidM(c) \in 1 .. PerCoreMt
  BY PlanSizes, LastPartRange DEF ValidM, ValidRows
<1>4. ValidN(c) \in 1 .. PerCoreNt
  BY PlanSizes, LastPartRange DEF ValidN
<1> QED BY <1>1, <1>2, <1>3, <1>4

\* The outer blocks of a core's share, along either dimension.
LEMMA BlocksOfShare ==
  ASSUME NEW v, NEW p \in Nat \ {0}, v \in 1 .. p,
         NEW b \in Nat \ {0}, p % b = 0,
         v = p \/ ((p \div b) - 1) * b < v
  PROVE  Parted(v, b, p \div b)
<1> DEFINE n == p \div b
<1>1. n \in Nat \ {0} /\ p = n * b /\ Parted(p, b, n)
  BY EvenParts
<1> HIDE DEF n
<1>2. (n - 1) * b < p
  BY <1>1 DEF Parted
<1>3. v \in Nat \ {0} /\ v <= p
  OBVIOUS
<1>4. (n - 1) * b < v
  BY <1>2 DEF n
<1>5. Parted(v, b, n)
  BY <1>1, <1>3, <1>4 DEF Parted
<1> QED BY <1>5 DEF n

LEMMA CoreParts ==
  ASSUME GridPlan, BlocksFilled, NEW c \in Cores
  PROVE  /\ Parted(ValidM(c), plan.blockH, plan.numBlocksH)
         /\ Parted(ValidN(c), plan.blockW, plan.numBlocksW)
<1>1. /\ plan.numBlocksH = PerCoreMt \div plan.blockH
      /\ plan.numBlocksW = PerCoreNt \div plan.blockW
      /\ PerCoreMt % plan.blockH = 0 /\ PerCoreNt % plan.blockW = 0
  BY DEF GridPlan, BlockFits, BlocksCounted
<1>2. ValidM(c) = PerCoreMt \/ ValidM(c) = LastPart(Mt, PerCoreMt)
  BY DEF ValidM, ValidRows
<1>3. ValidN(c) = PerCoreNt \/ ValidN(c) = LastPart(Nt, PerCoreNt)
  BY DEF ValidN
<1>4. Parted(ValidM(c), plan.blockH, plan.numBlocksH)
  <2>1. \/ ValidM(c) = PerCoreMt
        \/ ((PerCoreMt \div plan.blockH) - 1) * plan.blockH < ValidM(c)
    BY <1>1, <1>2 DEF BlocksFilled
  <2>2. Parted(ValidM(c), plan.blockH, PerCoreMt \div plan.blockH)
    BY <1>1, <2>1, PlanSizes, CoreFacts, BlocksOfShare
  <2> QED BY <1>1, <2>2
<1>5. Parted(ValidN(c), plan.blockW, plan.numBlocksW)
  <2>1. \/ ValidN(c) = PerCoreNt
        \/ ((PerCoreNt \div plan.blockW) - 1) * plan.blockW < ValidN(c)
    BY <1>1, <1>3 DEF BlocksFilled
  <2>2. Parted(ValidN(c), plan.blockW, PerCoreNt \div plan.blockW)
    BY <1>1, <2>1, PlanSizes, CoreFacts, BlocksOfShare
  <2> QED BY <1>1, <2>2
<1> QED BY <1>4, <1>5

\* The matrix in the shares of the cores.
LEMMA PerCoreCovers ==
  ASSUME NEW n \in Nat \ {0}, NEW k \in Nat \ {0}
  PROVE  n <= k * PerCore(n, k)
<1>1. Parted(n, k, Nonzero(n, k)) /\ PerCore(n, k) = Nonzero(n, k)
  BY NonzeroParts DEF Nonzero, PerCore
<1>2. Nonzero(n, k) \in Nat
  BY <1>1 DEF Parted
<1>3. Nonzero(n, k) * k = k * Nonzero(n, k)
  BY <1>2
<1> QED BY <1>1, <1>3 DEF Parted

LEMMA MatrixParts ==
  ASSUME GridPlan
  PROVE  /\ (launch.coresY - 1) * PerCoreMt < Mt =>
              Parted(Mt, PerCoreMt, launch.coresY)
         /\ (launch.coresX - 1) * PerCoreNt < Nt =>
              Parted(Nt, PerCoreNt, launch.coresX)
<1>1. Mt <= launch.coresY * PerCoreMt
  BY PlanSizes, PerCoreCovers DEF PerCoreMt
<1>2. Nt <= launch.coresX * PerCoreNt
  BY PlanSizes, PerCoreCovers DEF PerCoreNt
<1> QED BY <1>1, <1>2, PlanSizes DEF Parted
-------------------------------------------------------------------------------
(* The writes of a core: one for each valid tile of its share *)

LocalRow(p, h) == p[1] * plan.blockH + p[3] * plan.subH + h

LocalCol(p, w) == p[2] * plan.blockW + p[4] * plan.subW + w

\* The write of the tile in row i and column j of the share of core c.
Place(c, i, j) ==
  [ tile |-> OutStart(c) + i * OutStride(c) + j,
    row |-> c[2] * PerCoreMt + i, col |-> c[1] * PerCoreNt + j ]

SubblockOf(i, j) ==
  << i \div plan.blockH, j \div plan.blockW,
     (i % plan.blockH) \div plan.subH, (j % plan.blockW) \div plan.subW >>

LEMMA SubblockFacts ==
  ASSUME NEW c, NEW p \in Subblocks(c)
  PROVE  /\ p = <<p[1], p[2], p[3], p[4]>>
         /\ p[1] \in 0 .. plan.numBlocksH - 1
         /\ p[2] \in 0 .. plan.numBlocksW - 1
         /\ p[3] \in 0 .. plan.blockH - 1 /\ p[3] < NonzeroH(c, p[1])
         /\ p[4] \in 0 .. plan.blockW - 1 /\ p[4] < NonzeroW(c, p[2])
BY DEF Subblocks

LEMMA RowsOfSubblock ==
  ASSUME GridPlan, BlocksFilled, NEW c \in Cores, NEW p \in Subblocks(c),
         NEW h \in 0 .. Height(c, p) - 1
  PROVE  /\ p[1] \in Nat /\ p[3] \in Nat /\ h \in 0 .. plan.subH - 1
         /\ LocalRow(p, h) \in 0 .. ValidM(c) - 1
         /\ LocalRow(p, h) \div plan.blockH = p[1]
         /\ (LocalRow(p, h) % plan.blockH) \div plan.subH = p[3]
         /\ ReadRow(c, p[1], p[3] * plan.subH + h)
              = c[2] * PerCoreMt + LocalRow(p, h)
<1> DEFINE v == ValidM(c)
           b == plan.blockH
           n == plan.numBlocksH
           s == plan.subH
<1>1. Parted(v, b, n) /\ s \in Nat \ {0} /\ b % s = 0
  BY CoreParts DEF GridPlan
<1>2. NonzeroH(c, p[1]) = SubCount(v, b, n, s, p[1])
  BY DEF NonzeroH, LastBh, LastOuterH, SubCount
<1>3. Height(c, p) = SubSize(v, b, n, s, p[1], p[3])
  BY <1>2 DEF Height, LastBh, LastOuterH, SubSize
<1>4. p[1] \in 0 .. n - 1 /\ p[3] \in 0 .. SubCount(v, b, n, s, p[1]) - 1
  <2>1. Parted(PartSize(v, b, n, p[1]), s, SubCount(v, b, n, s, p[1]))
    BY <1>1, SubblockFacts, SubParts
  <2>2. SubCount(v, b, n, s, p[1]) \in Nat
    BY <2>1 DEF Parted
  <2> QED BY <1>2, <2>2, PlanSizes, SubblockFacts
<1>5. h \in 0 .. SubSize(v, b, n, s, p[1], p[3]) - 1
  BY <1>3
<1>6. LocalRow(p, h) = p[1] * b + p[3] * s + h
  BY DEF LocalRow
<1> HIDE DEF v, b, n, s
<1>7. /\ p[1] \in Nat /\ p[3] \in Nat /\ h \in 0 .. s - 1
      /\ p[1] * b \in Nat /\ p[3] * s \in Nat
      /\ p[3] * s + h \in 0 .. PartSize(v, b, n, p[1]) - 1
      /\ LocalRow(p, h) \in 0 .. v - 1
      /\ LocalRow(p, h) \div b = p[1]
      /\ LocalRow(p, h) % b = p[3] * s + h
      /\ (p[3] * s + h) \div s = p[3]
  BY <1>1, <1>4, <1>5, <1>6, TileInside
<1>8. ReadRow(c, p[1], p[3] * s + h)
        = c[2] * PerCoreMt + p[1] * b + (p[3] * s + h)
  <2>1. CASE p[1] = n - 1
    <3>1. PartSize(v, b, n, p[1]) = LastOuterH(c) /\ LastOuterH(c) \in Nat
      BY <1>1, <2>1, LastPartFacts, PlanSizes DEF PartSize, LastOuterH, v, b
    <3>2. p[3] * s + h < LastOuterH(c)
      BY <1>7, <3>1
    <3> QED BY <3>2 DEF ReadRow, b
  <2>2. CASE p[1] # n - 1
    BY <2>2 DEF ReadRow, LastBh, b, n
  <2> QED BY <2>1, <2>2
<1>9. c[2] * PerCoreMt \in Nat
  BY CoreFacts, PlanSizes, RowProduct
<1>10. h \in Nat
  BY <1>1, <1>7
<1>11. ReadRow(c, p[1], p[3] * s + h) = c[2] * PerCoreMt + LocalRow(p, h)
  BY <1>6, <1>7, <1>8, <1>9, <1>10
<1> QED BY <1>7, <1>11 DEF v, b, s

LEMMA ColsOfSubblock ==
  ASSUME GridPlan, BlocksFilled, NEW c \in Cores, NEW p \in Subblocks(c),
         NEW w \in 0 .. Width(c, p) - 1
  PROVE  /\ p[2] \in Nat /\ p[4] \in Nat /\ w \in 0 .. plan.subW - 1
         /\ LocalCol(p, w) \in 0 .. ValidN(c) - 1
         /\ LocalCol(p, w) \div plan.blockW = p[2]
         /\ (LocalCol(p, w) % plan.blockW) \div plan.subW = p[4]
         /\ ReadCol(c, p[2], p[4] * plan.subW + w)
              = c[1] * PerCoreNt + LocalCol(p, w)
<1> DEFINE v == ValidN(c)
           b == plan.blockW
           n == plan.numBlocksW
           s == plan.subW
<1>1. Parted(v, b, n) /\ s \in Nat \ {0} /\ b % s = 0
  BY CoreParts DEF GridPlan
<1>2. NonzeroW(c, p[2]) = SubCount(v, b, n, s, p[2])
  BY DEF NonzeroW, LastBw, LastOuterW, SubCount
<1>3. Width(c, p) = SubSize(v, b, n, s, p[2], p[4])
  BY <1>2 DEF Width, LastBw, LastOuterW, SubSize
<1>4. p[2] \in 0 .. n - 1 /\ p[4] \in 0 .. SubCount(v, b, n, s, p[2]) - 1
  <2>1. Parted(PartSize(v, b, n, p[2]), s, SubCount(v, b, n, s, p[2]))
    BY <1>1, SubblockFacts, SubParts
  <2>2. SubCount(v, b, n, s, p[2]) \in Nat
    BY <2>1 DEF Parted
  <2> QED BY <1>2, <2>2, PlanSizes, SubblockFacts
<1>5. w \in 0 .. SubSize(v, b, n, s, p[2], p[4]) - 1
  BY <1>3
<1>6. LocalCol(p, w) = p[2] * b + p[4] * s + w
  BY DEF LocalCol
<1> HIDE DEF v, b, n, s
<1>7. /\ p[2] \in Nat /\ p[4] \in Nat /\ w \in 0 .. s - 1
      /\ p[2] * b \in Nat /\ p[4] * s \in Nat
      /\ p[4] * s + w \in 0 .. PartSize(v, b, n, p[2]) - 1
      /\ LocalCol(p, w) \in 0 .. v - 1
      /\ LocalCol(p, w) \div b = p[2]
      /\ LocalCol(p, w) % b = p[4] * s + w
      /\ (p[4] * s + w) \div s = p[4]
  BY <1>1, <1>4, <1>5, <1>6, TileInside
<1>8. ReadCol(c, p[2], p[4] * s + w)
        = c[1] * PerCoreNt + p[2] * b + (p[4] * s + w)
  <2>1. CASE p[2] = n - 1
    <3>1. PartSize(v, b, n, p[2]) = LastOuterW(c) /\ LastOuterW(c) \in Nat
      BY <1>1, <2>1, LastPartFacts, PlanSizes DEF PartSize, LastOuterW, v, b
    <3>2. p[4] * s + w < LastOuterW(c)
      BY <1>7, <3>1
    <3> QED BY <3>2 DEF ReadCol, b
  <2>2. CASE p[2] # n - 1
    BY <2>2 DEF ReadCol, LastBw, b, n
  <2> QED BY <2>1, <2>2
<1>9. c[1] * PerCoreNt \in Nat
  BY CoreFacts, PlanSizes, RowProduct
<1>10. w \in Nat
  BY <1>1, <1>7
<1>11. ReadCol(c, p[2], p[4] * s + w) = c[1] * PerCoreNt + LocalCol(p, w)
  BY <1>6, <1>7, <1>8, <1>9, <1>10
<1> QED BY <1>7, <1>11 DEF v, b, s

\* Row i of the share, in terms of the loops.
LEMMA RowInSubblock ==
  ASSUME GridPlan, BlocksFilled, NEW c \in Cores,
         NEW i \in 0 .. ValidM(c) - 1, NEW p, p[1] = i \div plan.blockH,
         p[3] = (i % plan.blockH) \div plan.subH
  PROVE  LET h == (i % plan.blockH) % plan.subH
         IN  /\ p[1] \in 0 .. plan.numBlocksH - 1
             /\ p[3] \in 0 .. plan.blockH - 1 /\ p[3] < NonzeroH(c, p[1])
             /\ h \in 0 .. Height(c, p) - 1
             /\ i = LocalRow(p, h)
<1> DEFINE v == ValidM(c)
           b == plan.blockH
           n == plan.numBlocksH
           s == plan.subH
           x == i \div b
           y == (i % b) \div s
           h == (i % b) % s
<1>1. Parted(v, b, n) /\ s \in Nat \ {0} /\ b % s = 0
  BY CoreParts DEF GridPlan
<1>2. NonzeroH(c, x) = SubCount(v, b, n, s, x)
  BY DEF NonzeroH, LastBh, LastOuterH, SubCount
<1>3. Height(c, p) = SubSize(v, b, n, s, x, y)
  BY <1>2 DEF Height, LastBh, LastOuterH, SubSize
<1>4. LocalRow(p, h) = x * b + y * s + h
  BY DEF LocalRow
<1> HIDE DEF v, b, n, s
<1>5. /\ x \in 0 .. n - 1 /\ y \in 0 .. SubCount(v, b, n, s, x) - 1
      /\ y \in 0 .. b - 1 /\ h \in 0 .. SubSize(v, b, n, s, x, y) - 1
      /\ i = x * b + y * s + h
  <2>1. i \in 0 .. v - 1
    BY DEF v
  <2> QED BY <1>1, <2>1, TileOf
<1>6. y < SubCount(v, b, n, s, x)
  <2>1. SubCount(v, b, n, s, x) \in Nat
    BY <1>1, <1>5, SubParts DEF Parted
  <2> HIDE DEF y
  <2> QED BY <1>5, <2>1
<1>7. p[1] = x /\ p[3] = y
  BY DEF b, s
<1> HIDE DEF x, y, h
<1> QED BY <1>2, <1>3, <1>4, <1>5, <1>6, <1>7 DEF b, n, s, h

\* Column j of the share, in terms of the loops.
LEMMA ColInSubblock ==
  ASSUME GridPlan, BlocksFilled, NEW c \in Cores,
         NEW j \in 0 .. ValidN(c) - 1, NEW p, p[2] = j \div plan.blockW,
         p[4] = (j % plan.blockW) \div plan.subW
  PROVE  LET w == (j % plan.blockW) % plan.subW
         IN  /\ p[2] \in 0 .. plan.numBlocksW - 1
             /\ p[4] \in 0 .. plan.blockW - 1 /\ p[4] < NonzeroW(c, p[2])
             /\ w \in 0 .. Width(c, p) - 1
             /\ j = LocalCol(p, w)
<1> DEFINE v == ValidN(c)
           b == plan.blockW
           n == plan.numBlocksW
           s == plan.subW
           x == j \div b
           y == (j % b) \div s
           w == (j % b) % s
<1>1. Parted(v, b, n) /\ s \in Nat \ {0} /\ b % s = 0
  BY CoreParts DEF GridPlan
<1>2. NonzeroW(c, x) = SubCount(v, b, n, s, x)
  BY DEF NonzeroW, LastBw, LastOuterW, SubCount
<1>3. Width(c, p) = SubSize(v, b, n, s, x, y)
  BY <1>2 DEF Width, LastBw, LastOuterW, SubSize
<1>4. LocalCol(p, w) = x * b + y * s + w
  BY DEF LocalCol
<1> HIDE DEF v, b, n, s
<1>5. /\ x \in 0 .. n - 1 /\ y \in 0 .. SubCount(v, b, n, s, x) - 1
      /\ y \in 0 .. b - 1 /\ w \in 0 .. SubSize(v, b, n, s, x, y) - 1
      /\ j = x * b + y * s + w
  <2>1. j \in 0 .. v - 1
    BY DEF v
  <2> QED BY <1>1, <2>1, TileOf
<1>6. y < SubCount(v, b, n, s, x)
  <2>1. SubCount(v, b, n, s, x) \in Nat
    BY <1>1, <1>5, SubParts DEF Parted
  <2> HIDE DEF y
  <2> QED BY <1>5, <2>1
<1>7. p[2] = x /\ p[4] = y
  BY DEF b, s
<1> HIDE DEF x, y, w
<1> QED BY <1>2, <1>3, <1>4, <1>5, <1>6, <1>7 DEF b, n, s, w

LEMMA WidthFacts ==
  ASSUME GridPlan, BlocksFilled, NEW c \in Cores, NEW p
  PROVE  Width(c, p) \in 1 .. plan.subW
<1>1. LastOuterW(c) \in Nat \ {0} /\ plan.subW \in Nat \ {0}
  BY CoreFacts, PlanSizes, LastPartRange DEF LastOuterW
<1>2. LastPart(LastOuterW(c), plan.subW) \in 1 .. plan.subW
  BY <1>1, LastPartRange
<1> QED BY <1>1, <1>2 DEF Width

LEMMA StartFacts ==
  ASSUME GridPlan, NEW c \in Cores
  PROVE  /\ OutStart(c) \in Nat /\ OutStride(c) \in Nat \ {0}
         /\ \A i \in Nat : i * OutStride(c) \in Nat
                           /\ OutStart(c) + i * OutStride(c) \in Nat
<1>1. OutStride(c) \in Nat \ {0}
  BY CoreFacts, PlanSizes DEF OutStride
<1>2. c[2] * PerCoreMt \in Nat /\ c[1] * PerCoreNt \in Nat
  BY CoreFacts, PlanSizes, RowProduct
<1>3. c[2] * PerCoreMt * Nt \in Nat
  BY <1>2, PlanSizes, RowProduct
<1>4. OutStart(c) \in Nat
  BY <1>2, <1>3 DEF OutStart
<1>5. ASSUME NEW i \in Nat PROVE i * OutStride(c) \in Nat
  BY <1>1, RowProduct
<1> QED BY <1>1, <1>4, <1>5

\* What a subblock's writes are: the valid tiles in it, each with the row and
\* the column of the product that belong to its place.
LEMMA WritesArePlaces ==
  ASSUME GridPlan, BlocksFilled, NEW c \in Cores, NEW p \in Subblocks(c)
  PROVE  /\ \A e \in Writes(c, p) :
              \E i \in 0 .. ValidM(c) - 1 : \E j \in 0 .. ValidN(c) - 1 :
                e = Place(c, i, j) /\ SubblockOf(i, j) = p
         /\ \A i \in 0 .. ValidM(c) - 1 : \A j \in 0 .. ValidN(c) - 1 :
              SubblockOf(i, j) = p => Place(c, i, j) \in Writes(c, p)
<1> DEFINE slot(h, w) == h * (Width(c, p) + RowGap(c, p)) + w
           write(h, w) ==
             [ tile |-> OutStart(c)
                     + (p[1] * plan.blockH + p[3] * plan.subH + h)
                         * OutStride(c)
                     + p[2] * plan.blockW + p[4] * plan.subW + w,
               row |-> ReadRow(c, p[1],
                          p[3] * plan.subH + slot(h, w) \div plan.subW),
               col |-> ReadCol(c, p[2],
                          p[4] * plan.subW + (slot(h, w) % plan.subW)) ]
<1>1. Writes(c, p) =
        { write(h, w) :
          h \in 0 .. Height(c, p) - 1, w \in 0 .. Width(c, p) - 1 }
  BY DEF Writes
<1>2. ASSUME NEW h \in 0 .. Height(c, p) - 1, NEW w \in 0 .. Width(c, p) - 1
      PROVE  write(h, w) = Place(c, LocalRow(p, h), LocalCol(p, w))
  <2>1. /\ p[1] \in Nat /\ p[3] \in Nat /\ h \in 0 .. plan.subH - 1
        /\ LocalRow(p, h) \in 0 .. ValidM(c) - 1
        /\ ReadRow(c, p[1], p[3] * plan.subH + h)
              = c[2] * PerCoreMt + LocalRow(p, h)
    BY RowsOfSubblock
  <2>2. /\ p[2] \in Nat /\ p[4] \in Nat /\ w \in 0 .. plan.subW - 1
        /\ LocalCol(p, w) \in 0 .. ValidN(c) - 1
        /\ ReadCol(c, p[2], p[4] * plan.subW + w)
              = c[1] * PerCoreNt + LocalCol(p, w)
    BY ColsOfSubblock
  <2>3. slot(h, w) = h * plan.subW + w
    <3>1. Width(c, p) \in Nat /\ plan.subW \in Nat
      BY PlanSizes, LastPartRange, CoreFacts, WidthFacts
    <3>2. Width(c, p) + RowGap(c, p) = plan.subW
      BY <3>1 DEF RowGap
    <3> QED BY <3>2
  <2>4. h \in Nat /\ plan.subW \in Nat \ {0} /\ plan.subH \in Nat \ {0}
    BY <2>1, PlanSizes
  <2>5. slot(h, w) \div plan.subW = h /\ slot(h, w) % plan.subW = w
    <3> HIDE DEF slot, write
    <3>2. PICK a, b, x : a = h /\ b = plan.subW /\ x = w
      OBVIOUS
    <3>3. (a * b + x) \div b = a /\ (a * b + x) % b = x
      <4>1. a \in Nat /\ b \in Nat \ {0} /\ x \in 0 .. b - 1
        BY <2>2, <2>4, <3>2
      <4> QED BY <4>1, DivMod
    <3>1. (h * plan.subW + w) \div plan.subW = h
          /\ (h * plan.subW + w) % plan.subW = w
      BY <3>2, <3>3
    <3> QED BY <2>3, <3>1
  <2>6. write(h, w).row = c[2] * PerCoreMt + LocalRow(p, h)
    BY <2>1, <2>5
  <2>7. write(h, w).col = c[1] * PerCoreNt + LocalCol(p, w)
    BY <2>2, <2>5
  <2>8. write(h, w).tile =
          OutStart(c) + LocalRow(p, h) * OutStride(c) + LocalCol(p, w)
    <3>1. p[2] * plan.blockW \in Nat /\ p[4] * plan.subW \in Nat /\ w \in Nat
      BY <2>2, <2>4, PlanSizes, RowProduct
    <3>2. OutStart(c) + LocalRow(p, h) * OutStride(c) \in Nat
      BY <2>1, StartFacts
    <3>3. \A x, a, b, d \in Nat : x + a + b + d = x + (a + b + d)
      OBVIOUS
    <3> HIDE DEF slot
    <3> QED BY <3>1, <3>2, <3>3 DEF LocalRow, LocalCol
  <2> HIDE DEF slot
  <2> QED BY <2>6, <2>7, <2>8 DEF Place
<1> HIDE DEF write
<1>3. ASSUME NEW e \in Writes(c, p)
      PROVE  \E i \in 0 .. ValidM(c) - 1 : \E j \in 0 .. ValidN(c) - 1 :
                e = Place(c, i, j) /\ SubblockOf(i, j) = p
  <2>1. PICK h \in 0 .. Height(c, p) - 1, w \in 0 .. Width(c, p) - 1 :
          e = write(h, w)
    BY <1>1
  <2>2. e = Place(c, LocalRow(p, h), LocalCol(p, w))
    BY <1>2, <2>1
  <2>3. /\ LocalRow(p, h) \in 0 .. ValidM(c) - 1
        /\ LocalRow(p, h) \div plan.blockH = p[1]
        /\ (LocalRow(p, h) % plan.blockH) \div plan.subH = p[3]
    BY RowsOfSubblock
  <2>4. /\ LocalCol(p, w) \in 0 .. ValidN(c) - 1
        /\ LocalCol(p, w) \div plan.blockW = p[2]
        /\ (LocalCol(p, w) % plan.blockW) \div plan.subW = p[4]
    BY ColsOfSubblock
  <2>5. SubblockOf(LocalRow(p, h), LocalCol(p, w)) = p
    BY <2>3, <2>4, SubblockFacts DEF SubblockOf
  <2> QED BY <2>2, <2>3, <2>4, <2>5
<1>4. ASSUME NEW i \in 0 .. ValidM(c) - 1, NEW j \in 0 .. ValidN(c) - 1,
             SubblockOf(i, j) = p
      PROVE  Place(c, i, j) \in Writes(c, p)
  <2> DEFINE h == (i % plan.blockH) % plan.subH
             w == (j % plan.blockW) % plan.subW
  <2>1. /\ p[1] = i \div plan.blockH /\ p[2] = j \div plan.blockW
        /\ p[3] = (i % plan.blockH) \div plan.subH
        /\ p[4] = (j % plan.blockW) \div plan.subW
    BY <1>4 DEF SubblockOf
  <2>2. h \in 0 .. Height(c, p) - 1 /\ i = LocalRow(p, h)
    BY <2>1, RowInSubblock DEF LocalRow
  <2>3. w \in 0 .. Width(c, p) - 1 /\ j = LocalCol(p, w)
    BY <2>1, ColInSubblock DEF LocalCol
  <2> HIDE DEF h, w
  <2>4. write(h, w) = Place(c, i, j)
    BY <1>2, <2>2, <2>3
  <2> QED BY <1>1, <2>2, <2>3, <2>4
<1> QED BY <1>3, <1>4
-------------------------------------------------------------------------------
(* No two places of the output are one *)

CoresShared ==
  launch.useDram => /\ (launch.coresY - 1) * PerCoreMt < Mt
                    /\ (launch.coresX - 1) * PerCoreNt < Nt

\* The id of a tile in rows of a given width.
LEMMA TileInRows ==
  ASSUME NEW rows \in Nat, NEW width \in Nat,
         NEW r \in 0 .. rows - 1, NEW k \in 0 .. width - 1
  PROVE  r * width + k \in 0 .. rows * width - 1
<1>1. r \in Nat /\ r + 1 \in Nat /\ r + 1 <= rows
  OBVIOUS
<1>2. (r + 1) * width <= rows * width
  BY <1>1, MonotoneProduct
<1>3. (r + 1) * width = r * width + width /\ r * width \in Nat
      /\ rows * width \in Nat
  BY <1>1, RowProduct
<1> QED BY <1>2, <1>3

\* With DRAM: the row and column in the matrix, which give the tile id.
LEMMA DramPlace ==
  ASSUME GridPlan, CoresShared, launch.useDram, NEW c \in Cores,
         NEW i \in 0 .. ValidM(c) - 1, NEW j \in 0 .. ValidN(c) - 1
  PROVE  /\ c[2] * PerCoreMt + i \in 0 .. Mt - 1 /\ i \in 0 .. PerCoreMt - 1
         /\ c[1] * PerCoreNt + j \in 0 .. Nt - 1 /\ j \in 0 .. PerCoreNt - 1
         /\ Place(c, i, j).tile = (c[2] * PerCoreMt + i) * Nt
                                    + (c[1] * PerCoreNt + j)
<1>1. /\ Parted(Mt, PerCoreMt, launch.coresY)
      /\ Parted(Nt, PerCoreNt, launch.coresX)
  BY MatrixParts DEF CoresShared
<1>2. /\ ValidM(c) = PartSize(Mt, PerCoreMt, launch.coresY, c[2])
      /\ ValidN(c) = PartSize(Nt, PerCoreNt, launch.coresX, c[1])
  BY DEF ValidM, ValidRows, ValidN, PartSize
<1>3. /\ c[2] \in 0 .. launch.coresY - 1 /\ c[1] \in 0 .. launch.coresX - 1
      /\ c[2] \in Nat /\ c[1] \in Nat
  BY CoreFacts
<1>4. c[2] * PerCoreMt + i \in 0 .. Mt - 1 /\ i \in 0 .. PerCoreMt - 1
  BY <1>1, <1>2, <1>3, PartInside
<1>5. c[1] * PerCoreNt + j \in 0 .. Nt - 1 /\ j \in 0 .. PerCoreNt - 1
  BY <1>1, <1>2, <1>3, PartInside
<1> DEFINE a == c[2] * PerCoreMt
           e == c[1] * PerCoreNt
<1>6. a \in Nat /\ e \in Nat /\ Nt \in Nat
  BY <1>3, PlanSizes, RowProduct
<1>7. Place(c, i, j).tile = a * Nt + e + i * Nt + j
  BY DEF Place, OutStart, OutStride
<1> HIDE DEF a, e
<1>8. i \in Nat /\ j \in Nat
  BY <1>4, <1>5, PlanSizes
<1>9. a * Nt + e + i * Nt + j = (a + i) * Nt + (e + j)
  <2>1. a * Nt \in Nat /\ i * Nt \in Nat
    BY <1>6, <1>8, RowProduct
  <2>2. (a + i) * Nt = a * Nt + i * Nt
    BY <1>6, <1>8
  <2> QED BY <1>6, <1>8, <2>1, <2>2
<1> QED BY <1>4, <1>5, <1>7, <1>9 DEF a, e

LEMMA L1Place ==
  ASSUME GridPlan, ~launch.useDram, NEW c \in Cores,
         NEW i \in 0 .. ValidM(c) - 1, NEW j \in 0 .. ValidN(c) - 1
  PROVE  Place(c, i, j).tile = i * ValidN(c) + j
<1>1. i \in Nat /\ j \in Nat /\ ValidN(c) \in Nat
  BY CoreFacts, PlanSizes
<1>2. i * ValidN(c) \in Nat
  BY <1>1, RowProduct
<1>3. Place(c, i, j).tile = 0 + i * ValidN(c) + j
  BY DEF Place, OutStart, OutStride
<1> QED BY <1>1, <1>2, <1>3

LEMMA PlaceInside ==
  ASSUME GridPlan, CoresShared, NEW c \in Cores,
         NEW i \in 0 .. ValidM(c) - 1, NEW j \in 0 .. ValidN(c) - 1
  PROVE  Place(c, i, j).tile \in OutTiles
<1>1. CASE launch.useDram
  <2>1. OutTiles = 0 .. Mt * Nt - 1 /\ Mt \in Nat /\ Nt \in Nat
    BY <1>1, PlanSizes DEF OutTiles
  <2>2. (c[2] * PerCoreMt + i) * Nt + (c[1] * PerCoreNt + j)
          \in 0 .. Mt * Nt - 1
    BY <1>1, <2>1, DramPlace, TileInRows
  <2> QED BY <1>1, <2>1, <2>2, DramPlace
<1>2. CASE ~launch.useDram
  <2>1. /\ ValidM(c) \in Nat /\ ValidN(c) \in Nat
        /\ ValidM(c) <= PerCoreMt /\ ValidN(c) <= PerCoreNt
        /\ PerCoreMt \in Nat /\ PerCoreNt \in Nat
    BY CoreFacts, PlanSizes
  <2>2. i * ValidN(c) + j \in 0 .. ValidM(c) * ValidN(c) - 1
    BY <2>1, TileInRows
  <2>3. /\ ValidM(c) * ValidN(c) <= PerCoreMt * ValidN(c)
        /\ ValidN(c) * PerCoreMt <= PerCoreNt * PerCoreMt
    BY <2>1, MonotoneProduct
  <2>4. /\ ValidM(c) * ValidN(c) \in Nat /\ PerCoreMt * ValidN(c) \in Nat
        /\ PerCoreMt * PerCoreNt \in Nat
        /\ PerCoreMt * ValidN(c) = ValidN(c) * PerCoreMt
        /\ PerCoreMt * PerCoreNt = PerCoreNt * PerCoreMt
    BY <2>1
  <2>5. ValidM(c) * ValidN(c) <= PerCoreMt * PerCoreNt
    BY <2>3, <2>4
  <2>6. i * ValidN(c) + j \in 0 .. PerCoreMt * PerCoreNt - 1
    BY <2>2, <2>4, <2>5
  <2> QED BY <1>2, <2>6, L1Place DEF OutTiles
<1> QED BY <1>1, <1>2

LEMMA PlaceUnique ==
  ASSUME GridPlan, CoresShared, NEW c \in Cores,
         NEW i \in 0 .. ValidM(c) - 1, NEW j \in 0 .. ValidN(c) - 1,
         NEW d \in Cores, Home(d) = Home(c),
         NEW x \in 0 .. ValidM(d) - 1, NEW y \in 0 .. ValidN(d) - 1,
         Place(c, i, j).tile = Place(d, x, y).tile
  PROVE  c = d /\ i = x /\ j = y
<1>1. CASE launch.useDram
  <2> DEFINE r == c[2] * PerCoreMt + i
             k == c[1] * PerCoreNt + j
             q == d[2] * PerCoreMt + x
             l == d[1] * PerCoreNt + y
  <2>1. /\ r \in 0 .. Mt - 1 /\ i \in 0 .. PerCoreMt - 1
        /\ k \in 0 .. Nt - 1 /\ j \in 0 .. PerCoreNt - 1
        /\ q \in 0 .. Mt - 1 /\ x \in 0 .. PerCoreMt - 1
        /\ l \in 0 .. Nt - 1 /\ y \in 0 .. PerCoreNt - 1
        /\ r * Nt + k = q * Nt + l
    BY <1>1, DramPlace
  <2>2. Nt \in Nat \ {0} /\ PerCoreMt \in Nat \ {0} /\ PerCoreNt \in Nat \ {0}
        /\ Mt \in Nat
    BY PlanSizes
  <2>3. r = q /\ k = l
    <3> HIDE DEF r, k, q, l
    <3>1. r \in Nat /\ q \in Nat
      BY <2>1, <2>2
    <3> QED BY <2>1, <2>2, <3>1, UniquePosition
  <2>4. /\ c = <<c[1], c[2]>> /\ d = <<d[1], d[2]>>
        /\ c[1] \in Nat /\ c[2] \in Nat /\ d[1] \in Nat /\ d[2] \in Nat
    BY CoreFacts
  <2>5. c[2] = d[2] /\ i = x
    BY <2>1, <2>2, <2>3, <2>4, UniquePosition
  <2>6. c[1] = d[1] /\ j = y
    BY <2>1, <2>2, <2>3, <2>4, UniquePosition
  <2> QED BY <2>4, <2>5, <2>6
<1>2. CASE ~launch.useDram
  <2>1. c = d
    BY <1>2 DEF Home
  <2>2. i * ValidN(c) + j = x * ValidN(c) + y
    BY <1>2, <2>1, L1Place
  <2>3. /\ i \in Nat /\ x \in Nat /\ ValidN(c) \in Nat \ {0}
        /\ y \in 0 .. ValidN(c) - 1
    BY <2>1, CoreFacts, PlanSizes
  <2>4. i = x /\ j = y
    BY <2>2, <2>3, UniquePosition
  <2> QED BY <2>1, <2>4
<1> QED BY <1>1, <1>2

\* With DRAM every tile of the output is the place of some core.
LEMMA DramCovered ==
  ASSUME GridPlan, CoresShared, launch.useDram,
         NEW r \in 0 .. Mt - 1, NEW k \in 0 .. Nt - 1
  PROVE  \E c \in Cores :
           \E i \in 0 .. ValidM(c) - 1 : \E j \in 0 .. ValidN(c) - 1 :
             /\ Place(c, i, j) = [tile |-> r * Nt + k, row |-> r, col |-> k]
<1>1. /\ Parted(Mt, PerCoreMt, launch.coresY)
      /\ Parted(Nt, PerCoreNt, launch.coresX)
  BY MatrixParts DEF CoresShared
<1> DEFINE y == r \div PerCoreMt
           x == k \div PerCoreNt
           i == r % PerCoreMt
           j == k % PerCoreNt
           c == <<x, y>>
<1>2. /\ y \in 0 .. launch.coresY - 1 /\ r = y * PerCoreMt + i
      /\ i \in 0 .. PartSize(Mt, PerCoreMt, launch.coresY, y) - 1
  BY <1>1, PartOf
<1>3. /\ x \in 0 .. launch.coresX - 1 /\ k = x * PerCoreNt + j
      /\ j \in 0 .. PartSize(Nt, PerCoreNt, launch.coresX, x) - 1
  BY <1>1, PartOf
<1> HIDE DEF x, y, i, j
<1>4. c \in Cores /\ c[1] = x /\ c[2] = y
  BY <1>2, <1>3 DEF Cores
<1> HIDE DEF c
<1>5. i \in 0 .. ValidM(c) - 1 /\ j \in 0 .. ValidN(c) - 1
  BY <1>2, <1>3, <1>4 DEF ValidM, ValidRows, ValidN, PartSize
<1>6. Place(c, i, j).tile = r * Nt + k
  BY <1>2, <1>3, <1>4, <1>5, DramPlace
<1>7. Place(c, i, j) = [tile |-> r * Nt + k, row |-> r, col |-> k]
  BY <1>2, <1>3, <1>4, <1>6 DEF Place
<1> QED BY <1>4, <1>5, <1>7
-------------------------------------------------------------------------------
(* Choices: the first subblock of a set, and the size of the subblocks *)

LEMMA LeastElement ==
  ASSUME NEW S \in SUBSET Nat, S # {}
  PROVE  \E x \in S : \A y \in S : x <= y
<1>1. PICK x \in S : \A y \in S : <<y, x>> \notin OpToRel(<, Nat)
  BY NatLessThanWellFounded, WFMin
<1>2. \A y \in S : ~(y < x)
  BY <1>1 DEF OpToRel
<1> QED BY <1>2

LEMMA LexBefore ==
  ASSUME NEW p, NEW q,
         \/ p[1] < q[1]
         \/ p[1] = q[1] /\ p[2] < q[2]
         \/ p[1] = q[1] /\ p[2] = q[2] /\ p[3] < q[3]
         \/ p[1] = q[1] /\ p[2] = q[2] /\ p[3] = q[3] /\ p[4] < q[4]
  PROVE  Before(p, q)
<1>1. CASE p[1] < q[1]
  <2>1. 1 \in 1 .. 4 /\ \A j \in 1 .. 1 - 1 : p[j] = q[j]
    OBVIOUS
  <2> QED BY <1>1, <2>1 DEF Before
<1>2. CASE p[1] = q[1] /\ p[2] < q[2]
  <2>1. 2 \in 1 .. 4 /\ \A j \in 1 .. 2 - 1 : j = 1
    OBVIOUS
  <2> QED BY <1>2, <2>1 DEF Before
<1>3. CASE p[1] = q[1] /\ p[2] = q[2] /\ p[3] < q[3]
  <2>1. 3 \in 1 .. 4 /\ \A j \in 1 .. 3 - 1 : j = 1 \/ j = 2
    OBVIOUS
  <2> QED BY <1>3, <2>1 DEF Before
<1>4. CASE p[1] = q[1] /\ p[2] = q[2] /\ p[3] = q[3] /\ p[4] < q[4]
  <2>1. 4 \in 1 .. 4 /\ \A j \in 1 .. 4 - 1 : j = 1 \/ j = 2 \/ j = 3
    OBVIOUS
  <2> QED BY <1>4, <2>1 DEF Before
<1> QED BY <1>1, <1>2, <1>3, <1>4

LEMMA FirstChosen ==
  ASSUME NEW S \in SUBSET (Nat \X Nat \X Nat \X Nat), S # {}
  PROVE  First(S) \in S
<1> DEFINE A1 == { p[1] : p \in S }
<1>1. PICK a \in A1 : \A y \in A1 : a <= y
  <2>1. A1 \in SUBSET Nat /\ A1 # {}
    OBVIOUS
  <2> QED BY <2>1, LeastElement
<1> DEFINE S1 == { p \in S : p[1] = a }
           A2 == { p[2] : p \in S1 }
<1>2. PICK b \in A2 : \A y \in A2 : b <= y
  <2>1. A2 \in SUBSET Nat /\ A2 # {}
    BY <1>1
  <2> QED BY <2>1, LeastElement
<1> DEFINE S2 == { p \in S1 : p[2] = b }
           A3 == { p[3] : p \in S2 }
<1>3. PICK d \in A3 : \A y \in A3 : d <= y
  <2>1. A3 \in SUBSET Nat /\ A3 # {}
    BY <1>2
  <2> QED BY <2>1, LeastElement
<1> DEFINE S3 == { p \in S2 : p[3] = d }
           A4 == { p[4] : p \in S3 }
<1>4. PICK e \in A4 : \A y \in A4 : e <= y
  <2>1. A4 \in SUBSET Nat /\ A4 # {}
    BY <1>3
  <2> QED BY <2>1, LeastElement
<1>5. PICK p \in S3 : p[4] = e
  BY <1>4
<1>6. p \in S /\ p[1] = a /\ p[2] = b /\ p[3] = d /\ p[4] = e
  BY <1>5
<1>7. ASSUME NEW q \in S \ {p} PROVE Before(p, q)
  <2>1. /\ q[1] \in Nat /\ q[2] \in Nat /\ q[3] \in Nat /\ q[4] \in Nat
        /\ p[1] \in Nat /\ p[2] \in Nat /\ p[3] \in Nat /\ p[4] \in Nat
        /\ p = <<p[1], p[2], p[3], p[4]>> /\ q = <<q[1], q[2], q[3], q[4]>>
    BY <1>6
  <2>2. a <= q[1]
    BY <1>1
  <2>3. q[1] = a => b <= q[2]
    BY <1>2
  <2>4. q[1] = a /\ q[2] = b => d <= q[3]
    BY <1>3
  <2>5. q[1] = a /\ q[2] = b /\ q[3] = d => e <= q[4]
    BY <1>4
  <2>6. \/ p[1] < q[1]
        \/ p[1] = q[1] /\ p[2] < q[2]
        \/ p[1] = q[1] /\ p[2] = q[2] /\ p[3] < q[3]
        \/ p[1] = q[1] /\ p[2] = q[2] /\ p[3] = q[3] /\ p[4] < q[4]
    <3>1. ~(q[1] = a /\ q[2] = b /\ q[3] = d /\ q[4] = e)
      BY <1>6, <2>1
    <3> HIDE DEF A1, A2, A3, A4, S1, S2, S3
    <3>2. a \in Nat /\ b \in Nat /\ d \in Nat /\ e \in Nat
      BY <1>6, <2>1
    <3> QED BY <1>6, <2>1, <2>2, <2>3, <2>4, <2>5, <3>1, <3>2
  <2> QED BY <2>6, LexBefore
<1>8. \E x \in S : \A q \in S \ {x} : Before(x, q)
  BY <1>6, <1>7
<1> QED BY <1>8 DEF First

LEMMA OutSubblockDivides ==
  ASSUME NEW h \in Nat \ {0}, NEW w \in Nat \ {0}
  PROVE  /\ OutSubblock(h, w)[1] \in Nat \ {0}
         /\ OutSubblock(h, w)[2] \in Nat \ {0}
         /\ h % OutSubblock(h, w)[1] = 0 /\ w % OutSubblock(h, w)[2] = 0
<1> DEFINE divides == { i \in DOMAIN SubblockChoices :
                          h % SubblockChoices[i][1] = 0 /\
                          w % SubblockChoices[i][2] = 0 }
<1>1. DOMAIN SubblockChoices = 1 .. 20
  BY DEF SubblockChoices
<1>2. \A i \in 1 .. 20 : SubblockChoices[i] \in (Nat \ {0}) \X (Nat \ {0})
  BY DEF SubblockChoices
<1>3. 20 \in divides
  <2>1. SubblockChoices[20] = <<1, 1>>
    BY DEF SubblockChoices
  <2>2. h % 1 = 0 /\ w % 1 = 0
    OBVIOUS
  <2> QED BY <1>1, <2>1, <2>2
<1>4. divides \in SUBSET Nat /\ divides # {}
  BY <1>1, <1>3
<1>5. \E i \in divides : \A j \in divides : i <= j
  BY <1>4, LeastElement
<1> DEFINE k == CHOOSE i \in divides : \A j \in divides : i <= j
<1>6. k \in divides
  BY <1>5
<1>7. OutSubblock(h, w) = SubblockChoices[k]
  BY DEF OutSubblock
<1> HIDE DEF k
<1> QED BY <1>1, <1>2, <1>6, <1>7
-------------------------------------------------------------------------------
(* The invariant *)

\* The sizes the output is right for (SharesFilled, once there is a plan).
Filled == CoresShared /\ BlocksFilled

\* What is known of a core whose subblocks T are still to be written and
\* whose writes F are under way, when its home holds O: every tile of its
\* share waits in T, is in flight or lies where it belongs.
CoreOK(c, O, T, F) ==
  /\ T \subseteq Subblocks(c)
  /\ \A e \in F :
       \E i \in 0 .. ValidM(c) - 1 : \E j \in 0 .. ValidN(c) - 1 :
         e = Place(c, i, j) /\ SubblockOf(i, j) \notin T
  /\ \A i \in 0 .. ValidM(c) - 1 : \A j \in 0 .. ValidN(c) - 1 :
       O[Place(c, i, j).tile] =
         IF SubblockOf(i, j) \in T \/ Place(c, i, j) \in F THEN NotWritten
         ELSE [row |-> c[2] * PerCoreMt + i, col |-> c[1] * PerCoreNt + j]

OutputInv ==
  /\ stray = {}
  /\ out \in [Homes -> [OutTiles -> {NotWritten} \cup [row : Int, col : Int]]]
  /\ DOMAIN todo = Cores /\ todo = [c \in Cores |-> todo[c]]
  /\ DOMAIN flight = Cores /\ flight = [c \in Cores |-> flight[c]]
  /\ \A c \in Cores : CoreOK(c, out[Home(c)], todo[c], flight[c])

Untouched ==
  /\ out = [h \in Homes |-> [t \in OutTiles |-> NotWritten]]
  /\ stray = {}
  /\ todo = [c \in Cores |-> {}] /\ flight = [c \in Cores |-> {}]

Idle == \A c \in Cores : todo[c] = {} /\ flight[c] = {}

GridIInv ==
  /\ PlanInv
  /\ phase \in {"grid", "place", "ready", "rejected", "failed", "running",
                "finished", "read"}
  /\ phase \notin {"grid", "rejected"} => GridPlan
  /\ phase \notin {"running", "finished", "read"} => Untouched
  /\ phase \in {"running", "finished", "read"} =>
       ~RowsRunOut /\ (Filled => OutputInv)
  /\ phase \in {"finished", "read"} => Idle
  /\ phase = "read" => vec = IF launch.useDram THEN DramResult ELSE L1Result

\* None of the operators depends on anything but the launch and the plan.
LEMMA SameShares ==
  ASSUME launch' = launch
  PROVE  /\ Cores' = Cores /\ Homes' = Homes /\ OutTiles' = OutTiles
         /\ Mt' = Mt /\ Nt' = Nt /\ PerCoreMt' = PerCoreMt
         /\ PerCoreNt' = PerCoreNt /\ Kt' = Kt
         /\ CoresShared' = CoresShared /\ RowsRunOut' = RowsRunOut
         /\ \A c : /\ ValidM(c)' = ValidM(c) /\ ValidN(c)' = ValidN(c)
                   /\ Home(c)' = Home(c) /\ OutStart(c)' = OutStart(c)
                   /\ OutStride(c)' = OutStride(c)
<1>1. /\ Mt' = Mt /\ Nt' = Nt /\ Kt' = Kt /\ PerCoreMt' = PerCoreMt
      /\ PerCoreNt' = PerCoreNt /\ Cores' = Cores
      /\ \A c : Home(c)' = Home(c)
  BY DEF Mt, Nt, Kt, PerCoreMt, PerCoreNt, Cores, Home
<1>2. /\ Homes' = Homes /\ OutTiles' = OutTiles /\ CoresShared' = CoresShared
      /\ \A y : ValidRows(y)' = ValidRows(y)
  BY <1>1 DEF Homes, OutTiles, CoresShared, ValidRows
<1>3. /\ \A c : ValidM(c)' = ValidM(c) /\ ValidN(c)' = ValidN(c)
      /\ RowsRunOut' = RowsRunOut
  BY <1>1, <1>2 DEF ValidM, ValidN, RowsRunOut
<1>4. \A c : OutStart(c)' = OutStart(c) /\ OutStride(c)' = OutStride(c)
  BY <1>1, <1>3 DEF OutStart, OutStride
<1> QED BY <1>1, <1>2, <1>3, <1>4

LEMMA SameResults ==
  ASSUME launch' = launch, out' = out
  PROVE  DramResult' = DramResult /\ L1Result' = L1Result
<1>1. Indices' = Indices /\ Nt' = Nt
  BY SameShares DEF Indices
<1>2. /\ PerCoreMt' = PerCoreMt /\ PerCoreNt' = PerCoreNt
      /\ \A i : CopiedTo(i)' = CopiedTo(i)
  BY SameShares DEF CopiedTo
<1>3. DramResult' = DramResult
  BY <1>1 DEF DramResult, Untilized
<1>4. L1Result' = L1Result
  BY <1>1, <1>2 DEF L1Result, Untilized
<1> QED BY <1>3, <1>4

LEMMA SamePlan ==
  ASSUME launch' = launch, plan' = plan
  PROVE  /\ GridPlan' = GridPlan /\ Filled' = Filled
         /\ \A c, O, T, F : CoreOK(c, O, T, F)' = CoreOK(c, O, T, F)
         /\ \A c : Subblocks(c)' = Subblocks(c)
         /\ \A c, i, j : Place(c, i, j)' = Place(c, i, j)
                         /\ SubblockOf(i, j)' = SubblockOf(i, j)
<1>1. /\ BlockFits' = BlockFits /\ BlocksCounted' = BlocksCounted
      /\ BlocksFilled' = BlocksFilled
  BY SameShares DEF BlockFits, BlocksCounted, BlocksFilled, BlockWidths,
                    StaticNeed
<1>2. GridPlan' = GridPlan /\ Filled' = Filled
  BY <1>1, SameShares DEF GridPlan, Filled
<1>3. \A c : /\ LastOuterH(c)' = LastOuterH(c) /\ LastOuterW(c)' = LastOuterW(c)
  BY SameShares DEF LastOuterH, LastOuterW
<1>4. \A c, b : NonzeroH(c, b)' = NonzeroH(c, b)
                /\ NonzeroW(c, b)' = NonzeroW(c, b)
  BY <1>3 DEF NonzeroH, NonzeroW, LastBh, LastBw
<1>5. \A c : Subblocks(c)' = Subblocks(c)
  BY <1>4 DEF Subblocks
<1>6. \A c, i, j : Place(c, i, j)' = Place(c, i, j)
                   /\ SubblockOf(i, j)' = SubblockOf(i, j)
  BY SameShares DEF Place, SubblockOf
<1>7. ASSUME NEW c, NEW O, NEW T, NEW F
      PROVE  CoreOK(c, O, T, F)' = CoreOK(c, O, T, F)
  BY <1>5, <1>6, SameShares DEF CoreOK
<1> QED BY <1>2, <1>5, <1>6, <1>7
-------------------------------------------------------------------------------
(* The steps *)

\* The subblock of a tile is one of its core's.
LEMMA SubblockKnown ==
  ASSUME GridPlan, BlocksFilled, NEW c \in Cores,
         NEW i \in 0 .. ValidM(c) - 1, NEW j \in 0 .. ValidN(c) - 1
  PROVE  SubblockOf(i, j) \in Subblocks(c)
<1> DEFINE p == SubblockOf(i, j)
<1>1. /\ p[1] = i \div plan.blockH /\ p[2] = j \div plan.blockW
      /\ p[3] = (i % plan.blockH) \div plan.subH
      /\ p[4] = (j % plan.blockW) \div plan.subW
      /\ p = <<p[1], p[2], p[3], p[4]>>
  BY DEF SubblockOf
<1> HIDE DEF p
<1>2. /\ p[1] \in 0 .. plan.numBlocksH - 1
      /\ p[3] \in 0 .. plan.blockH - 1 /\ p[3] < NonzeroH(c, p[1])
  BY <1>1, RowInSubblock
<1>3. /\ p[2] \in 0 .. plan.numBlocksW - 1
      /\ p[4] \in 0 .. plan.blockW - 1 /\ p[4] < NonzeroW(c, p[2])
  BY <1>1, ColInSubblock
<1>4. p \in Subblocks(c)
  BY <1>1, <1>2, <1>3 DEF Subblocks
<1> QED BY <1>4 DEF p

\* The subblocks are places in nested loops, so a set of them has a first.
LEMMA FirstKnown ==
  ASSUME GridPlan, NEW c, NEW T, T \subseteq Subblocks(c), T # {}
  PROVE  First(T) \in T
<1>1. /\ plan.numBlocksH - 1 \in Int /\ plan.numBlocksW - 1 \in Int
      /\ plan.blockH - 1 \in Nat /\ plan.blockW - 1 \in Nat
  <2>1. /\ plan.numBlocksH = PerCoreMt \div plan.blockH
        /\ plan.numBlocksW = PerCoreNt \div plan.blockW
    BY DEF GridPlan, BlocksCounted
  <2>2. /\ PerCoreMt \div plan.blockH \in Nat
        /\ PerCoreNt \div plan.blockW \in Nat
    BY PlanSizes, DivModParts
  <2> QED BY <2>1, <2>2, PlanSizes
<1>2. ASSUME NEW p \in T PROVE p \in Nat \X Nat \X Nat \X Nat
  BY <1>1, SubblockFacts
<1> QED BY <1>2, FirstChosen

\* A step that leaves the plan and the output alone.
LEMMA SameOutput ==
  ASSUME launch' = launch, plan' = plan,
         UNCHANGED <<out, stray, todo, flight>>
  PROVE  /\ Untouched' = Untouched /\ OutputInv' = OutputInv /\ Idle' = Idle
         /\ GridPlan' = GridPlan /\ Filled' = Filled
         /\ RowsRunOut' = RowsRunOut
<1>1. Untouched' = Untouched /\ Idle' = Idle
  BY SameShares DEF Untouched, Idle
<1>2. OutputInv' = OutputInv
  <2>1. ASSUME NEW c \in Cores
        PROVE  CoreOK(c, out[Home(c)], todo[c], flight[c])'
                 = CoreOK(c, out[Home(c)], todo[c], flight[c])
    <3>1. /\ out'[Home(c)'] = out[Home(c)]
          /\ todo'[c] = todo[c] /\ flight'[c] = flight[c]
          /\ ValidM(c)' = ValidM(c) /\ ValidN(c)' = ValidN(c)
          /\ Subblocks(c)' = Subblocks(c) /\ PerCoreMt' = PerCoreMt
          /\ PerCoreNt' = PerCoreNt
      BY SamePlan, SameShares
    <3>2. \A i, j : Place(c, i, j)' = Place(c, i, j)
                    /\ SubblockOf(i, j)' = SubblockOf(i, j)
      BY SamePlan
    <3> QED BY <3>1, <3>2 DEF CoreOK
  <2> QED BY <2>1, SameShares DEF OutputInv
<1> QED BY <1>1, <1>2, SamePlan, SameShares

LEMMA SetupGrid ==
  ASSUME GridIInv, Setup
  PROVE  GridIInv'
<1>1. launch' = launch /\ UNCHANGED <<out, stray, todo, flight>>
  BY DEF Setup, ChooseBlocks, PlaceBuffers
<1>2. phase \in {"grid", "place"}
  BY DEF Setup, ChooseBlocks, PlaceBuffers
<1>3. Untouched'
  BY <1>1, <1>2, SameShares DEF GridIInv, Untouched
<1>4. CASE PlaceBuffers
  <2>1. plan' = plan /\ phase = "place" /\ phase' = "ready"
    BY <1>4 DEF PlaceBuffers
  <2>2. PlanInv' /\ GridPlan'
    BY <1>1, <1>4, <2>1, PlaceBuffersPlan, SamePlan DEF GridIInv
  <2> QED BY <1>3, <2>1, <2>2 DEF GridIInv
<1>5. CASE ChooseBlocks
  <2>1. PlanInv'
    BY <1>5, ChooseBlocksPlan DEF GridIInv
  <2>2. phase' \in {"rejected", "place"}
    BY <1>5 DEF ChooseBlocks
  <2>3. ASSUME phase' = "place" PROVE GridPlan'
    <3> DEFINE block == BlockParams(PerCoreMt, PerCoreNt)
               sub == OutSubblock(block[1], block[2])
    <3>1. /\ plan'.blockH = block[1] /\ plan'.blockW = block[2]
          /\ plan'.subH = sub[1] /\ plan'.subW = sub[2]
      BY <1>5, <2>3 DEF ChooseBlocks
    <3> HIDE DEF block
    <3>2. BlockFits' /\ BlocksCounted' /\ launch' \in Launch
      BY <2>1, <2>3 DEF PlanInv
    <3>3. block[1] \in Nat \ {0} /\ block[2] \in Nat \ {0}
      <4>1. block[1] \in 1 .. PerCoreMt /\ block[2] \in 1 .. PerCoreNt
        BY <1>1, <3>1, <3>2, SameShares DEF BlockFits
      <4>2. PerCoreMt \in Nat /\ PerCoreNt \in Nat
        BY <1>1, <3>2, Shares
      <4> QED BY <4>1, <4>2
    <3>4. /\ sub[1] \in Nat \ {0} /\ sub[2] \in Nat \ {0}
          /\ block[1] % sub[1] = 0 /\ block[2] % sub[2] = 0
      BY <3>3, OutSubblockDivides
    <3> HIDE DEF sub
    <3> QED BY <3>1, <3>2, <3>4 DEF GridPlan
  <2> QED BY <1>3, <2>1, <2>2, <2>3 DEF GridIInv
<1> QED BY <1>4, <1>5 DEF Setup

\* The steps that only move the host on.
LEMMA HostGrid ==
  ASSUME GridIInv, LoadFails \/ FinishWait \/ ReadBack
  PROVE  GridIInv'
<1>1. /\ launch' = launch /\ plan' = plan
      /\ UNCHANGED <<out, stray, todo, flight>>
      /\ phase \in {"ready", "running", "finished"}
      /\ phase' \in {"failed", "finished", "read"}
  BY DEF LoadFails, FinishWait, ReadBack
<1>2. PlanInv' /\ GridPlan'
  BY <1>1, SameOutput DEF GridIInv, PlanInv, GridPlan
<1>3. CASE LoadFails
  <2>1. phase = "ready" /\ phase' = "failed"
    BY <1>3 DEF LoadFails
  <2> QED BY <1>1, <1>2, <2>1, SameOutput DEF GridIInv
<1>4. CASE FinishWait
  <2>1. phase = "running" /\ phase' = "finished" /\ Idle
    BY <1>4 DEF FinishWait, Idle
  <2> QED BY <1>1, <1>2, <2>1, SameOutput DEF GridIInv
<1>5. CASE ReadBack
  <2>1. /\ phase = "finished" /\ phase' = "read"
        /\ vec' = IF launch.useDram THEN DramResult ELSE L1Result
    BY <1>5 DEF ReadBack
  <2>2. DramResult' = DramResult /\ L1Result' = L1Result
    BY <1>1, SameResults
  <2>3. (phase' = "read") /\ GridPlan /\ Idle /\ ~RowsRunOut
    BY <2>1 DEF GridIInv
  <2>4. Filled' => OutputInv'
    BY <1>1, <2>1, SameOutput DEF GridIInv
  <2>5. Idle' /\ ~RowsRunOut'
    BY <1>1, <2>3, SameOutput
  <2>6. vec' = IF launch'.useDram THEN DramResult' ELSE L1Result'
    BY <1>1, <2>1, <2>2
  <2> QED BY <1>2, <2>3, <2>4, <2>5, <2>6 DEF GridIInv
<1> QED BY <1>3, <1>4, <1>5

LEMMA StutterGrid ==
  ASSUME GridIInv, UNCHANGED gridVars
  PROVE  GridIInv'
<1>1. /\ launch' = launch /\ plan' = plan /\ phase' = phase /\ vec' = vec
      /\ layout' = layout /\ UNCHANGED <<out, stray, todo, flight>>
  BY DEF gridVars
<1>2. PlanInv'
  BY <1>1, StutterPlan DEF GridIInv, setupVars
<1>3. DramResult' = DramResult /\ L1Result' = L1Result
  BY <1>1, SameResults
<1>4. /\ Untouched' = Untouched /\ OutputInv' = OutputInv /\ Idle' = Idle
      /\ GridPlan' = GridPlan /\ Filled' = Filled
      /\ RowsRunOut' = RowsRunOut
  BY <1>1, SameOutput
<1> QED BY <1>1, <1>2, <1>3, <1>4 DEF GridIInv

\* What is known of a core holds after a step that makes its state these.
LEMMA CoreLater ==
  ASSUME launch' = launch, plan' = plan, NEW c, NEW O, NEW T, NEW F,
         CoreOK(c, O, T, F),
         out'[Home(c)] = O, todo'[c] = T, flight'[c] = F
  PROVE  CoreOK(c, out[Home(c)], todo[c], flight[c])'
<1>1. /\ out'[Home(c)'] = O
      /\ ValidM(c)' = ValidM(c) /\ ValidN(c)' = ValidN(c)
      /\ Subblocks(c)' = Subblocks(c) /\ PerCoreMt' = PerCoreMt
      /\ PerCoreNt' = PerCoreNt
  BY SamePlan, SameShares
<1>2. \A i, j : Place(c, i, j)' = Place(c, i, j)
                /\ SubblockOf(i, j)' = SubblockOf(i, j)
  BY SamePlan
<1> QED BY <1>1, <1>2 DEF CoreOK

\* A step of the cores while they run.
LEMMA RunningGrid ==
  ASSUME GridIInv, launch' = launch, plan' = plan,
         phase \in {"ready", "running"}, phase' = "running", ~RowsRunOut,
         Filled => OutputInv'
  PROVE  GridIInv'
<1>1. GridPlan' /\ Filled' = Filled /\ RowsRunOut' = RowsRunOut
  BY SamePlan, SameShares DEF GridIInv
<1>2. PlanInv'
  BY DEF GridIInv, PlanInv
<1> QED BY <1>1, <1>2 DEF GridIInv

LEMMA EnqueueGrid ==
  ASSUME GridIInv, Enqueue
  PROVE  GridIInv'
<1>1. /\ launch' = launch /\ plan' = plan /\ ~RowsRunOut
      /\ UNCHANGED <<out, stray, flight>>
      /\ phase = "ready" /\ phase' = "running"
      /\ todo' = [c \in Cores |-> Subblocks(c)]
  BY DEF Enqueue
<1>2. GridPlan /\ Untouched
  BY <1>1 DEF GridIInv
<1>3. ASSUME Filled PROVE OutputInv'
  <2>1. ASSUME NEW c \in Cores
        PROVE  CoreOK(c, out[Home(c)], Subblocks(c), {})
    <3>1. ASSUME NEW i \in 0 .. ValidM(c) - 1, NEW j \in 0 .. ValidN(c) - 1
          PROVE  /\ SubblockOf(i, j) \in Subblocks(c)
                 /\ out[Home(c)][Place(c, i, j).tile] = NotWritten
      <4>1. Place(c, i, j).tile \in OutTiles
        BY <1>2, <1>3, PlaceInside DEF Filled
      <4>2. Home(c) \in Homes
        BY DEF Homes
      <4> QED BY <1>2, <1>3, <4>1, <4>2, SubblockKnown DEF Filled, Untouched
    <3> QED BY <3>1 DEF CoreOK
  <2>2. ASSUME NEW c \in Cores
        PROVE  CoreOK(c, out[Home(c)], todo[c], flight[c])'
    <3>1. /\ out'[Home(c)] = out[Home(c)] /\ todo'[c] = Subblocks(c)
          /\ flight'[c] = {}
      BY <1>1, <1>2 DEF Untouched
    <3> QED BY <1>1, <2>1, <3>1, CoreLater
  <2>3. /\ stray' = {} /\ Cores' = Cores /\ Homes' = Homes
        /\ OutTiles' = OutTiles
        /\ out' \in [Homes -> [OutTiles -> {NotWritten}
                                             \cup [row : Int, col : Int]]]
    BY <1>1, <1>2, SameShares DEF Untouched
  <2>4. /\ DOMAIN todo' = Cores /\ todo' = [c \in Cores |-> todo'[c]]
        /\ DOMAIN flight' = Cores /\ flight' = [c \in Cores |-> flight'[c]]
    BY <1>1, <1>2 DEF Untouched
  <2> QED BY <2>2, <2>3, <2>4 DEF OutputInv
<1> QED BY <1>1, <1>3, RunningGrid

\* The next subblock goes from waiting to being written.
LEMMA IssuedCore ==
  ASSUME GridPlan, Filled, NEW c \in Cores, NEW O, NEW T, CoreOK(c, O, T, {}),
         NEW p \in T
  PROVE  CoreOK(c, O, T \ {p}, Writes(c, p))
<1>1. T \subseteq Subblocks(c) /\ p \in Subblocks(c)
  BY DEF CoreOK
<1>2. ASSUME NEW e \in Writes(c, p)
      PROVE  \E i \in 0 .. ValidM(c) - 1 : \E j \in 0 .. ValidN(c) - 1 :
               e = Place(c, i, j) /\ SubblockOf(i, j) = p
  BY <1>1, WritesArePlaces DEF Filled
<1>3. ASSUME NEW i \in 0 .. ValidM(c) - 1, NEW j \in 0 .. ValidN(c) - 1
      PROVE  Place(c, i, j) \in Writes(c, p) <=> SubblockOf(i, j) = p
  <2>1. ASSUME SubblockOf(i, j) = p PROVE Place(c, i, j) \in Writes(c, p)
    BY <1>1, <2>1, WritesArePlaces DEF Filled
  <2>2. ASSUME Place(c, i, j) \in Writes(c, p) PROVE SubblockOf(i, j) = p
    <3>1. PICK x \in 0 .. ValidM(c) - 1, y \in 0 .. ValidN(c) - 1 :
            Place(c, i, j) = Place(c, x, y) /\ SubblockOf(x, y) = p
      BY <1>2, <2>2
    <3>2. i = x /\ j = y
      BY <3>1, PlaceUnique DEF Filled
    <3> QED BY <3>1, <3>2
  <2> QED BY <2>1, <2>2
<1>4. ASSUME NEW e \in Writes(c, p)
      PROVE  \E i \in 0 .. ValidM(c) - 1 : \E j \in 0 .. ValidN(c) - 1 :
               e = Place(c, i, j) /\ SubblockOf(i, j) \notin T \ {p}
  BY <1>2
<1>5. ASSUME NEW i \in 0 .. ValidM(c) - 1, NEW j \in 0 .. ValidN(c) - 1
      PROVE  (SubblockOf(i, j) \in T \ {p} \/ Place(c, i, j) \in Writes(c, p))
               <=> SubblockOf(i, j) \in T
  BY <1>3
<1>6. \A i \in 0 .. ValidM(c) - 1 : \A j \in 0 .. ValidN(c) - 1 :
        O[Place(c, i, j).tile] =
          IF SubblockOf(i, j) \in T THEN NotWritten
          ELSE [row |-> c[2] * PerCoreMt + i, col |-> c[1] * PerCoreNt + j]
  BY DEF CoreOK
<1>7. \A i \in 0 .. ValidM(c) - 1 : \A j \in 0 .. ValidN(c) - 1 :
        O[Place(c, i, j).tile] =
          IF SubblockOf(i, j) \in T \ {p} \/ Place(c, i, j) \in Writes(c, p)
          THEN NotWritten
          ELSE [row |-> c[2] * PerCoreMt + i, col |-> c[1] * PerCoreNt + j]
  BY <1>5, <1>6
<1> QED BY <1>1, <1>4, <1>7 DEF CoreOK

LEMMA IssueGrid ==
  ASSUME GridIInv, NEW c \in Cores, IssueWrites(c)
  PROVE  GridIInv'
<1> DEFINE p == First(todo[c])
<1>1. /\ launch' = launch /\ plan' = plan /\ UNCHANGED <<out, stray>>
      /\ phase = "running" /\ phase' = "running"
      /\ flight[c] = {} /\ todo[c] # {}
      /\ flight' = [flight EXCEPT ![c] = Writes(c, p)]
      /\ todo' = [todo EXCEPT ![c] = @ \ {p}]
  BY DEF IssueWrites
<1>2. GridPlan /\ ~RowsRunOut
  BY <1>1 DEF GridIInv
<1>3. ASSUME Filled PROVE OutputInv'
  <2>1. OutputInv
    BY <1>1, <1>3 DEF GridIInv
  <2>2. CoreOK(c, out[Home(c)], todo[c], {})
    BY <1>1, <2>1 DEF OutputInv
  <2>3. p \in todo[c]
    BY <1>1, <1>2, <2>2, FirstKnown DEF CoreOK
  <2> HIDE DEF p
  <2>4. CoreOK(c, out[Home(c)], todo[c] \ {p}, Writes(c, p))
    BY <1>2, <1>3, <2>2, <2>3, IssuedCore
  <2>5. /\ DOMAIN todo = Cores /\ DOMAIN flight = Cores
        /\ DOMAIN todo' = Cores /\ DOMAIN flight' = Cores
        /\ todo' = [d \in Cores |-> todo'[d]]
        /\ flight' = [d \in Cores |-> flight'[d]]
    BY <1>1, <2>1 DEF OutputInv
  <2>6. ASSUME NEW d \in Cores
        PROVE  CoreOK(d, out[Home(d)], todo[d], flight[d])'
    <3>1. CASE d = c
      <4>1. /\ out'[Home(d)] = out[Home(c)] /\ todo'[d] = todo[c] \ {p}
            /\ flight'[d] = Writes(c, p)
        BY <1>1, <2>5, <3>1
      <4> QED BY <1>1, <2>4, <3>1, <4>1, CoreLater
    <3>2. CASE d # c
      <4>1. /\ out'[Home(d)] = out[Home(d)] /\ todo'[d] = todo[d]
            /\ flight'[d] = flight[d]
        BY <1>1, <2>5, <3>2
      <4>2. CoreOK(d, out[Home(d)], todo[d], flight[d])
        BY <2>1 DEF OutputInv
      <4> QED BY <1>1, <4>1, <4>2, CoreLater
    <3> QED BY <3>1, <3>2
  <2>7. /\ stray' = {} /\ Cores' = Cores /\ Homes' = Homes
        /\ OutTiles' = OutTiles
        /\ out' \in [Homes -> [OutTiles -> {NotWritten}
                                             \cup [row : Int, col : Int]]]
    BY <1>1, <2>1, SameShares DEF OutputInv
  <2> QED BY <2>5, <2>6, <2>7 DEF OutputInv
<1> QED BY <1>1, <1>2, <1>3, RunningGrid

\* A write that lands is of a tile nobody else writes ...
LEMMA LandedCore ==
  ASSUME GridPlan, Filled, NEW c \in Cores, NEW O, NEW T, NEW F,
         CoreOK(c, O, T, F), NEW w \in F, DOMAIN O = OutTiles
  PROVE  CoreOK(c, [O EXCEPT ![w.tile] = [row |-> w.row, col |-> w.col]],
                T, F \ {w})
<1> DEFINE v == [row |-> w.row, col |-> w.col]
           P == [O EXCEPT ![w.tile] = v]
<1>1. PICK x \in 0 .. ValidM(c) - 1, y \in 0 .. ValidN(c) - 1 :
        w = Place(c, x, y) /\ SubblockOf(x, y) \notin T
  BY DEF CoreOK
<1>2. v = [row |-> c[2] * PerCoreMt + x, col |-> c[1] * PerCoreNt + y]
  BY <1>1 DEF Place
<1> HIDE DEF v
<1>3. ASSUME NEW i \in 0 .. ValidM(c) - 1, NEW j \in 0 .. ValidN(c) - 1
      PROVE  P[Place(c, i, j).tile] =
               IF SubblockOf(i, j) \in T \/ Place(c, i, j) \in F \ {w}
               THEN NotWritten
               ELSE [row |-> c[2] * PerCoreMt + i, col |-> c[1] * PerCoreNt + j]
  <2>1. Place(c, i, j).tile \in DOMAIN O
    BY PlaceInside DEF Filled
  <2>2. CASE Place(c, i, j).tile = w.tile
    <3>1. i = x /\ j = y
      BY <1>1, <2>2, PlaceUnique DEF Filled
    <3>2. P[Place(c, i, j).tile] = v
      BY <2>1, <2>2
    <3> QED BY <1>1, <1>2, <3>1, <3>2
  <2>3. CASE Place(c, i, j).tile # w.tile
    <3>1. P[Place(c, i, j).tile] = O[Place(c, i, j).tile]
      BY <2>1, <2>3
    <3>2. Place(c, i, j) \in F \ {w} <=> Place(c, i, j) \in F
      BY <2>3
    <3> HIDE DEF P
    <3> QED BY <3>1, <3>2 DEF CoreOK
  <2> QED BY <2>2, <2>3
<1> HIDE DEF P
<1>4. CoreOK(c, P, T, F \ {w})
  BY <1>3 DEF CoreOK
<1> QED BY <1>4 DEF P, v

\* ... so what is known of the others with the same home stays.
LEMMA OtherCore ==
  ASSUME GridPlan, Filled, NEW c \in Cores, NEW d \in Cores, c # d,
         Home(d) = Home(c), NEW O, NEW T, NEW F, CoreOK(d, O, T, F),
         NEW x \in 0 .. ValidM(c) - 1, NEW y \in 0 .. ValidN(c) - 1, NEW v
  PROVE  CoreOK(d, [O EXCEPT ![Place(c, x, y).tile] = v], T, F)
<1> DEFINE P == [O EXCEPT ![Place(c, x, y).tile] = v]
<1>1. ASSUME NEW i \in 0 .. ValidM(d) - 1, NEW j \in 0 .. ValidN(d) - 1
      PROVE  P[Place(d, i, j).tile] = O[Place(d, i, j).tile]
  <2>1. Place(d, i, j).tile # Place(c, x, y).tile
    BY PlaceUnique DEF Filled
  <2> QED BY <2>1
<1> HIDE DEF P
<1>2. CoreOK(d, P, T, F)
  BY <1>1 DEF CoreOK
<1> QED BY <1>2 DEF P

LEMMA LandGrid ==
  ASSUME GridIInv, NEW c \in Cores, Land(c)
  PROVE  GridIInv'
<1>1. PICK w \in flight[c] :
        /\ flight' = [flight EXCEPT ![c] = @ \ {w}]
        /\ IF w.tile \in OutTiles
           THEN /\ out' = [out EXCEPT ![Home(c)][w.tile] =
                                        [row |-> w.row, col |-> w.col]]
                /\ UNCHANGED stray
           ELSE stray' = stray \cup {<<Home(c), w.tile>>} /\ UNCHANGED out
        /\ UNCHANGED <<launch, phase, plan, layout, todo, vec>>
  BY DEF Land
<1>2. phase = "running"
  <2>1. flight[c] # {}
    BY <1>1
  <2> QED BY <2>1 DEF GridIInv, Untouched, Idle
<1>3. GridPlan /\ ~RowsRunOut
  BY <1>2 DEF GridIInv
<1>4. ASSUME Filled PROVE OutputInv'
  <2> DEFINE v == [row |-> w.row, col |-> w.col]
  <2>1. OutputInv
    BY <1>2, <1>4 DEF GridIInv
  <2>2. CoreOK(c, out[Home(c)], todo[c], flight[c])
    BY <2>1 DEF OutputInv
  <2>3. PICK x \in 0 .. ValidM(c) - 1, y \in 0 .. ValidN(c) - 1 :
          w = Place(c, x, y)
    BY <1>1, <2>2 DEF CoreOK
  <2>4. w.tile \in OutTiles /\ Home(c) \in Homes
    BY <1>3, <1>4, <2>3, PlaceInside DEF Filled, Homes
  <2>5. v \in [row : Int, col : Int]
    <3>1. /\ c[2] * PerCoreMt \in Nat /\ c[1] * PerCoreNt \in Nat
      BY <1>3, CoreFacts, PlanSizes, RowProduct
    <3> QED BY <2>3, <3>1 DEF Place
  <2> HIDE DEF v
  <2>6. /\ out' = [out EXCEPT ![Home(c)] = [out[Home(c)] EXCEPT ![w.tile] = v]]
        /\ stray' = {}
    BY <1>1, <2>1, <2>4 DEF OutputInv, v
  <2>7. /\ out \in [Homes -> [OutTiles -> {NotWritten}
                                            \cup [row : Int, col : Int]]]
        /\ DOMAIN out[Home(c)] = OutTiles
        /\ DOMAIN flight = Cores
    BY <2>1, <2>4 DEF OutputInv
  <2>8. CoreOK(c, [out[Home(c)] EXCEPT ![w.tile] = v], todo[c],
               flight[c] \ {w})
    BY <1>1, <1>3, <1>4, <2>2, <2>7, LandedCore DEF v
  <2>9. ASSUME NEW d \in Cores
        PROVE  CoreOK(d, out[Home(d)], todo[d], flight[d])'
    <3>1. CASE d = c
      <4>1. /\ out'[Home(d)] = [out[Home(c)] EXCEPT ![w.tile] = v]
            /\ todo'[d] = todo[c] /\ flight'[d] = flight[c] \ {w}
        BY <1>1, <2>4, <2>6, <2>7, <3>1
      <4> QED BY <1>1, <2>8, <3>1, <4>1, CoreLater
    <3>2. CASE d # c
      <4>1. CoreOK(d, out[Home(d)], todo[d], flight[d])
        BY <2>1 DEF OutputInv
      <4>2. todo'[d] = todo[d] /\ flight'[d] = flight[d]
        BY <1>1, <2>7, <3>2
      <4>3. CASE Home(d) = Home(c)
        <5>1. out'[Home(d)] = [out[Home(d)] EXCEPT ![w.tile] = v]
          BY <2>4, <2>6, <2>7, <4>3
        <5>2. CoreOK(d, [out[Home(d)] EXCEPT ![w.tile] = v], todo[d],
                     flight[d])
          BY <1>3, <1>4, <2>3, <3>2, <4>1, <4>3, OtherCore
        <5> QED BY <1>1, <4>2, <5>1, <5>2, CoreLater
      <4>4. CASE Home(d) # Home(c)
        <5>1. out'[Home(d)] = out[Home(d)]
          <6>1. Home(d) \in Homes
            BY DEF Homes
          <6> QED BY <2>6, <2>7, <4>4, <6>1
        <5> QED BY <1>1, <4>1, <4>2, <5>1, CoreLater
      <4> QED BY <4>3, <4>4
    <3> QED BY <3>1, <3>2
  <2>10. out' \in [Homes -> [OutTiles -> {NotWritten}
                                            \cup [row : Int, col : Int]]]
    <3> DEFINE Content == {NotWritten} \cup [row : Int, col : Int]
    <3>1. v \in Content
      BY <2>5
    <3> HIDE DEF Content
    <3>2. out \in [Homes -> [OutTiles -> Content]]
      BY <2>7 DEF Content
    <3>3. [out[Home(c)] EXCEPT ![w.tile] = v] \in [OutTiles -> Content]
      BY <2>4, <3>1, <3>2
    <3>4. out' \in [Homes -> [OutTiles -> Content]]
      BY <2>6, <3>2, <3>3
    <3> QED BY <3>4 DEF Content
  <2>11. /\ DOMAIN todo' = Cores /\ DOMAIN flight' = Cores
         /\ todo' = [d \in Cores |-> todo'[d]]
         /\ flight' = [d \in Cores |-> flight'[d]]
    BY <1>1, <2>1 DEF OutputInv
  <2> QED BY <1>1, <2>6, <2>9, <2>10, <2>11, SameShares DEF OutputInv
<1> QED BY <1>1, <1>2, <1>3, <1>4, RunningGrid

\* In every state the invariant: once the cores run, each tile of a core's
\* share waits, is being written or is in its place.
THEOREM GridInvariant == GridSpec => []GridIInv
<1>1. GridInit => GridIInv
  BY LaunchesAssumption DEF GridInit, SetupInit, GridIInv, PlanInv, Untouched
<1>2. GridIInv /\ [GridNext]_gridVars => GridIInv'
  <2> SUFFICES ASSUME GridIInv, [GridNext]_gridVars PROVE GridIInv'
    OBVIOUS
  <2>1. CASE Setup
    BY <2>1, SetupGrid
  <2>2. CASE LoadFails \/ FinishWait \/ ReadBack
    BY <2>2, HostGrid
  <2>3. CASE Enqueue
    BY <2>3, EnqueueGrid
  <2>4. CASE GridDone \/ UNCHANGED gridVars
    BY <2>4, StutterGrid DEF GridDone
  <2>5. CASE \E c \in Cores : IssueWrites(c) \/ Land(c)
    BY <2>5, IssueGrid, LandGrid
  <2> QED BY <2>1, <2>2, <2>3, <2>4, <2>5 DEF GridNext
<1> QED BY <1>1, <1>2, PTL DEF GridSpec
-------------------------------------------------------------------------------
(* What is written *)

LEMMA FilledWhenShared ==
  ASSUME GridIInv, SharesFilled, phase \in {"running", "finished", "read"}
  PROVE  GridPlan /\ Filled /\ OutputInv
<1>1. Filled
  BY DEF SharesFilled, Filled, CoresShared, BlocksFilled
<1> QED BY <1>1 DEF GridIInv

\* No tile is written twice or beyond the output, by any cores in any order,
\* whatever the grid, the blocking and the matrices, if they are sizes that
\* create_program_compute_mm is written for.
THEOREM TilesWrittenOnce == GridSpec => [](SharesFilled => EachTileWrittenOnce)
<1>1. GridIInv => (SharesFilled => EachTileWrittenOnce)
  <2> SUFFICES ASSUME GridIInv, SharesFilled PROVE EachTileWrittenOnce
    OBVIOUS
  <2>1. CASE phase \notin {"running", "finished", "read"}
    BY <2>1 DEF GridIInv, Untouched, EachTileWrittenOnce
  <2>2. CASE phase \in {"running", "finished", "read"}
    <3>1. GridPlan /\ Filled /\ OutputInv
      BY <2>2, FilledWhenShared
    <3>2. ASSUME NEW c \in Cores, NEW w \in flight[c]
          PROVE  \E i \in 0 .. ValidM(c) - 1 : \E j \in 0 .. ValidN(c) - 1 :
                   w = Place(c, i, j)
      BY <3>1 DEF OutputInv, CoreOK
    <3>3. ASSUME NEW c \in Cores, NEW w \in flight[c]
          PROVE  out[Home(c)][w.tile] = NotWritten
      <4>1. PICK i \in 0 .. ValidM(c) - 1, j \in 0 .. ValidN(c) - 1 :
              w = Place(c, i, j)
        BY <3>2
      <4> QED BY <3>1, <4>1 DEF OutputInv, CoreOK
    <3>4. ASSUME NEW c \in Cores, NEW w \in flight[c], NEW d \in Cores \ {c},
                 NEW v \in flight[d], Home(d) = Home(c)
          PROVE  v.tile # w.tile
      <4>1. PICK i \in 0 .. ValidM(c) - 1, j \in 0 .. ValidN(c) - 1 :
              w = Place(c, i, j)
        BY <3>2
      <4>2. PICK x \in 0 .. ValidM(d) - 1, y \in 0 .. ValidN(d) - 1 :
              v = Place(d, x, y)
        BY <3>2
      <4> QED BY <3>1, <3>4, <4>1, <4>2, PlaceUnique DEF Filled
    <3>5. stray = {}
      BY <3>1 DEF OutputInv
    <3> QED BY <3>3, <3>4, <3>5 DEF EachTileWrittenOnce
  <2> QED BY <2>1, <2>2
<1> QED BY <1>1, GridInvariant, PTL

\* The product of every tile of the output, in its place.
LEMMA DramComplete ==
  ASSUME GridPlan, Filled, OutputInv, Idle, launch.useDram,
         NEW r \in 0 .. Mt - 1, NEW k \in 0 .. Nt - 1
  PROVE  out["dram"][r * Nt + k] = [row |-> r, col |-> k]
<1> DEFINE w == [tile |-> r * Nt + k, row |-> r, col |-> k]
<1>0. PICK c \in Cores :
        \E i \in 0 .. ValidM(c) - 1 : \E j \in 0 .. ValidN(c) - 1 :
          Place(c, i, j) = w
  BY DramCovered DEF Filled
<1>1. PICK i \in 0 .. ValidM(c) - 1, j \in 0 .. ValidN(c) - 1 :
        Place(c, i, j) = w
  BY <1>0
<1>2. out[Home(c)][Place(c, i, j).tile] =
        [row |-> c[2] * PerCoreMt + i, col |-> c[1] * PerCoreNt + j]
  <2>1. CoreOK(c, out[Home(c)], {}, {})
    BY DEF OutputInv, Idle
  <2> QED BY <2>1 DEF CoreOK
<1>3. c[2] * PerCoreMt + i = r /\ c[1] * PerCoreNt + j = k
  BY <1>1 DEF Place
<1>4. Home(c) = "dram"
  BY DEF Home
<1> QED BY <1>1, <1>2, <1>3, <1>4

\* When Finish returns, the DRAM buffer is the whole product: no tile is left
\* out, none is at another's place and none is computed from padding.
THEOREM ProductWritten == GridSpec => [](SharesFilled => ProductComplete)
<1>1. GridIInv => (SharesFilled => ProductComplete)
  <2> SUFFICES ASSUME GridIInv, SharesFilled, phase = "finished",
                      launch.useDram
               PROVE  \A r \in 0 .. Mt - 1 : \A k \in 0 .. Nt - 1 :
                        out["dram"][r * Nt + k] = [row |-> r, col |-> k]
    BY DEF ProductComplete
  <2>1. GridPlan /\ Filled /\ OutputInv
    BY FilledWhenShared
  <2>2. Idle
    BY DEF GridIInv
  <2> QED BY <2>1, <2>2, DramComplete
<1> QED BY <1>1, GridInvariant, PTL

LEMMA EvenShares ==
  ASSUME NEW n \in Nat \ {0}, NEW k \in Nat \ {0}, n % k = 0
  PROVE  n = k * PerCore(n, k) /\ (k - 1) * PerCore(n, k) < n
         /\ PerCore(n, k) \in Nat \ {0}
         /\ LastPart(n, PerCore(n, k)) = PerCore(n, k)
<1>1. PerCore(n, k) = n \div k /\ n \div k \in Nat \ {0} /\ n = (n \div k) * k
  BY EvenParts DEF PerCore, Nonzero
<1>2. PICK p \in Nat \ {0} : p = PerCore(n, k)
  BY <1>1
<1>3. n = p * k
  BY <1>1, <1>2
<1>4. PICK m \in Nat : k = m + 1
  OBVIOUS
<1>5. p * k = k * p /\ (m + 1) * p = m * p + p /\ m * p \in Nat
  BY <1>4, RowProduct
<1>6. n = k * p /\ (k - 1) * p < n
  BY <1>3, <1>4, <1>5
<1>7. LastPart(n, p) = p
  <2>1. k * p + 0 = n /\ 0 \in 0 .. p - 1
    BY <1>6
  <2>2. \A a \in Nat : (a * p + 0) % p = 0
    BY <2>1, DivMod
  <2>3. (k * p + 0) % p = 0
    BY <1>4, <2>2
  <2> QED BY <2>1, <2>3 DEF LastPart
<1> QED BY <1>2, <1>6, <1>7

\* The hypothesis is met by all launches with L1 tensors, and with DRAM by all
\* whose tiles divide evenly over the rows and the columns of cores.
THEOREM EvenSharesFilled ==
  GridSpec =>
    [](\/ ~launch.useDram
       \/ Mt % launch.coresY = 0 /\ Nt % launch.coresX = 0
       => SharesFilled)
<1> DEFINE Even == \/ ~launch.useDram
                   \/ Mt % launch.coresY = 0 /\ Nt % launch.coresX = 0
<1>1. GridIInv => (Even => SharesFilled)
  <2> SUFFICES ASSUME GridIInv, Even PROVE SharesFilled
    OBVIOUS
  <2>1. /\ Mt \in Nat \ {0} /\ Nt \in Nat \ {0}
        /\ PerCoreMt \in Nat \ {0} /\ PerCoreNt \in Nat \ {0}
        /\ launch.coresX \in Nat \ {0} /\ launch.coresY \in Nat \ {0}
    <3>1. launch \in Launch
      BY DEF GridIInv, PlanInv
    <3> QED BY <3>1, Shares DEF Launch
  <2>2. launch.useDram => /\ (launch.coresY - 1) * PerCoreMt < Mt
                          /\ (launch.coresX - 1) * PerCoreNt < Nt
    <3> SUFFICES ASSUME launch.useDram
                 PROVE  /\ (launch.coresY - 1) * PerCoreMt < Mt
                        /\ (launch.coresX - 1) * PerCoreNt < Nt
      OBVIOUS
    <3>1. Mt % launch.coresY = 0 /\ Nt % launch.coresX = 0
      OBVIOUS
    <3>2. (launch.coresY - 1) * PerCoreMt < Mt
      BY <2>1, <3>1, EvenShares DEF PerCoreMt
    <3>3. (launch.coresX - 1) * PerCoreNt < Nt
      BY <2>1, <3>1, EvenShares DEF PerCoreNt
    <3> QED BY <3>2, <3>3
  <2>3. ASSUME phase \notin {"grid", "rejected"} PROVE BlocksFilled
    <3>1. GridPlan /\ BlockFits /\ BlocksCounted
      BY <2>3 DEF GridIInv, GridPlan
    <3>2. /\ plan.blockH \in Nat \ {0} /\ plan.blockW \in Nat \ {0}
          /\ LastPart(Mt, PerCoreMt) \in 1 .. PerCoreMt
          /\ LastPart(Nt, PerCoreNt) \in 1 .. PerCoreNt
      BY <2>1, <3>1, PlanSizes, LastPartRange
    <3>3. CASE launch.useDram
      <4>1. /\ LastPart(Mt, PerCoreMt) = PerCoreMt
            /\ LastPart(Nt, PerCoreNt) = PerCoreNt
        <5>1. Mt % launch.coresY = 0 /\ Nt % launch.coresX = 0
          BY <3>3
        <5>2. LastPart(Mt, PerCoreMt) = PerCoreMt
          BY <2>1, <5>1, EvenShares DEF PerCoreMt
        <5>3. LastPart(Nt, PerCoreNt) = PerCoreNt
          BY <2>1, <5>1, EvenShares DEF PerCoreNt
        <5> QED BY <5>2, <5>3
      <4>2. /\ Parted(PerCoreMt, plan.blockH, plan.numBlocksH)
            /\ Parted(PerCoreNt, plan.blockW, plan.numBlocksW)
        BY <2>1, <3>1, <3>2, EvenParts DEF BlockFits, BlocksCounted
      <4> QED BY <4>1, <4>2 DEF Parted, BlocksFilled
    <3>4. CASE ~launch.useDram
      <4>1. plan.blockH = PerCoreMt /\ plan.blockW = PerCoreNt
        BY <3>1, <3>4 DEF BlockFits
      <4>2. PerCoreMt \div PerCoreMt = 1 /\ PerCoreNt \div PerCoreNt = 1
        <5>1. \A n \in Nat \ {0} : n \div n = 1
          <6> TAKE n \in Nat \ {0}
          <6>1. (1 * n + 0) \div n = 1 /\ 1 * n + 0 = n
            BY DivMod
          <6> QED BY <6>1
        <5> QED BY <2>1, <5>1
      <4>3. plan.numBlocksH = 1 /\ plan.numBlocksW = 1
        BY <3>1, <4>1, <4>2 DEF BlocksCounted
      <4>4. (1 - 1) * plan.blockH = 0 /\ (1 - 1) * plan.blockW = 0
        BY <3>2
      <4>5. 0 < LastPart(Mt, PerCoreMt) /\ 0 < LastPart(Nt, PerCoreNt)
        BY <2>1, <3>2
      <4> QED BY <4>3, <4>4, <4>5 DEF BlocksFilled
    <3> QED BY <3>3, <3>4
  <2> QED BY <2>2, <2>3 DEF SharesFilled, BlocksFilled
<1> QED BY <1>1, GridInvariant, PTL
-------------------------------------------------------------------------------
(* What is read back *)

\* The tiles of a dimension hold its elements.
LEMMA TilesCover ==
  ASSUME NEW e \in Nat \ {0}, NEW x \in 0 .. e - 1
  PROVE  /\ x \div TileSide \in 0 .. AlignedTiles(e) - 1
         /\ x % TileSide \in 0 .. TileSide - 1
         /\ x = (x \div TileSide) * TileSide + (x % TileSide)
         /\ x \in Nat
<1> DEFINE s == e + (TileSide - 1)
           q == s \div TileSide
           r == s % TileSide
           a == x \div TileSide
           b == x % TileSide
<1>1. TileSide \in Nat \ {0}
  BY LaunchesAssumption
<1>2. s \in Nat /\ x \in Nat
  BY <1>1
<1>3. /\ q \in Nat /\ r \in 0 .. TileSide - 1 /\ s = q * TileSide + r
      /\ a \in Nat /\ b \in 0 .. TileSide - 1 /\ x = a * TileSide + b
  <2> HIDE DEF s
  <2> QED BY <1>1, <1>2, DivModParts
<1>4. AlignedTiles(e) = q
  BY DEF AlignedTiles
<1> HIDE DEF q, r, a, b
<1>5. a * TileSide \in Nat /\ q * TileSide \in Nat
  BY <1>1, <1>3, RowProduct
<1>6. x < q * TileSide
  BY <1>1, <1>2, <1>3, <1>5
<1>7. a < q
  <2> SUFFICES ASSUME q <= a PROVE FALSE
    BY <1>3
  <2>1. q * TileSide <= a * TileSide
    BY <1>1, <1>3, MonotoneProduct
  <2> QED BY <1>1, <1>2, <1>3, <1>5, <1>6, <2>1
<1> QED BY <1>2, <1>3, <1>4, <1>7 DEF a, b

\* The element of a tile that is the product of row a and column b.
LEMMA ElementOf ==
  ASSUME NEW a \in Int, NEW b \in Int, NEW i, NEW j
  PROVE  Element([row |-> a, col |-> b], i, j) =
           [row |-> a * TileSide + i, col |-> b * TileSide + j]
<1>1. [row |-> a, col |-> b] # NotWritten
  BY NotWrittenAssumption
<1> QED BY <1>1 DEF Element

\* Row and column of an element of the result.
LEMMA IndexParts ==
  ASSUME launch \in Launch, NEW i \in Indices
  PROVE  /\ i \div launch.N \in 0 .. launch.M - 1
         /\ i % launch.N \in 0 .. launch.N - 1
         /\ i = (i \div launch.N) * launch.N + (i % launch.N)
         /\ launch.M \in Nat \ {0} /\ launch.N \in Nat \ {0}
<1>1. launch.M \in Nat \ {0} /\ launch.N \in Nat \ {0}
  BY DEF Launch
<1>2. PICK m \in Nat \ {0}, n \in Nat \ {0} : m = launch.M /\ n = launch.N
  BY <1>1
<1>3. i \in 0 .. m * n - 1 /\ m * n \in Nat
  BY <1>2 DEF Indices
<1>4. (m - 1) * n < m * n
  <2>1. PICK k \in Nat : m = k + 1
    OBVIOUS
  <2>2. (k + 1) * n = k * n + n /\ k * n \in Nat
    BY RowProduct
  <2> QED BY <2>1, <2>2
<1>5. Parted(m * n, n, m)
  BY <1>3, <1>4 DEF Parted
<1>6. i \div n \in 0 .. m - 1 /\ i = (i \div n) * n + (i % n)
  BY <1>3, <1>5, PartOf
<1>7. i % n \in 0 .. n - 1
  BY <1>3, DivModParts
<1> QED BY <1>1, <1>2, <1>6, <1>7

\* With DRAM the element is in the tile the trimming takes it from.
LEMMA DramReadExact ==
  ASSUME GridPlan, Filled, OutputInv, Idle, launch.useDram, NEW i \in Indices
  PROVE  DramResult[i] = [row |-> i \div launch.N, col |-> i % launch.N]
<1> DEFINE r == i \div launch.N
           k == i % launch.N
           tr == r \div TileSide
           tk == k \div TileSide
<1>1. /\ r \in 0 .. launch.M - 1 /\ k \in 0 .. launch.N - 1
      /\ launch.M \in Nat \ {0} /\ launch.N \in Nat \ {0}
  BY IndexParts DEF GridPlan
<1>2. DramResult[i] = Untilized(out["dram"], Nt, r, k)
  BY DEF DramResult
<1> HIDE DEF r, k
<1>3. /\ tr \in 0 .. Mt - 1 /\ tk \in 0 .. Nt - 1
      /\ r = tr * TileSide + (r % TileSide)
      /\ k = tk * TileSide + (k % TileSide)
  BY <1>1, TilesCover DEF Mt, Nt
<1>4. Untilized(out["dram"], Nt, r, k)
        = Element(out["dram"][tr * Nt + tk], r % TileSide, k % TileSide)
  BY DEF Untilized
<1> HIDE DEF tr, tk
<1>5. out["dram"][tr * Nt + tk] = [row |-> tr, col |-> tk]
  BY <1>3, DramComplete
<1>6. Element([row |-> tr, col |-> tk], r % TileSide, k % TileSide)
        = [row |-> r, col |-> k]
  <2>1. tr \in Int /\ tk \in Int
    BY <1>3
  <2>2. Element([row |-> tr, col |-> tk], r % TileSide, k % TileSide)
          = [row |-> tr * TileSide + (r % TileSide),
             col |-> tk * TileSide + (k % TileSide)]
    BY <2>1, ElementOf
  <2> QED BY <1>3, <2>2
<1> QED BY <1>2, <1>4, <1>5, <1>6 DEF r, k

\* Before is a strict order on places in nested loops, so the last is one.
LEMMA LastIs ==
  ASSUME NEW S \in SUBSET (Nat \X Nat \X Nat \X Nat), NEW p \in S,
         \A q \in S \ {p} : Before(q, p)
  PROVE  Last(S) = p
<1>1. ASSUME NEW q \in S, NEW s \in S, Before(q, s), Before(s, q)
      PROVE  FALSE
  <2>1. PICK i \in 1 .. 4 : q[i] < s[i] /\ \A j \in 1 .. i - 1 : q[j] = s[j]
    BY <1>1 DEF Before
  <2>2. PICK k \in 1 .. 4 : s[k] < q[k] /\ \A j \in 1 .. k - 1 : s[j] = q[j]
    BY <1>1 DEF Before
  <2>3. q[i] \in Nat /\ s[i] \in Nat /\ q[k] \in Nat /\ s[k] \in Nat
    <3>1. /\ q[1] \in Nat /\ q[2] \in Nat /\ q[3] \in Nat /\ q[4] \in Nat
          /\ s[1] \in Nat /\ s[2] \in Nat /\ s[3] \in Nat /\ s[4] \in Nat
      OBVIOUS
    <3>2. i \in {1, 2, 3, 4} /\ k \in {1, 2, 3, 4}
      OBVIOUS
    <3> QED BY <3>1, <3>2
  <2>4. CASE i = k
    BY <2>1, <2>2, <2>3, <2>4
  <2>5. CASE i < k
    <3>1. i \in 1 .. k - 1
      BY <2>5
    <3> QED BY <2>1, <2>2, <2>3, <3>1
  <2>6. CASE k < i
    <3>1. k \in 1 .. i - 1
      BY <2>6
    <3> QED BY <2>1, <2>2, <2>3, <3>1
  <2> QED BY <2>4, <2>5, <2>6
<1>2. Last(S) \in S /\ \A q \in S \ {Last(S)} : Before(q, Last(S))
  BY DEF Last
<1> QED BY <1>1, <1>2

\* With L1 tensors the columns of cores have shares of one width, ...
LEMMA L1Columns ==
  ASSUME launch \in Launch, ~launch.useDram, ColumnsFilled
  PROVE  /\ Parted(Nt, PerCoreNt, launch.coresX)
         /\ \A c : ValidN(c) = PerCoreNt
<1>1. /\ Nt \in Nat \ {0} /\ PerCoreNt \in Nat \ {0}
      /\ launch.coresX \in Nat \ {0} /\ TileSide \in Nat \ {0}
  BY Shares, LaunchesAssumption DEF Launch
<1>2. Nt % launch.coresX = 0
  <2>1. CASE launch.coresX = 1
    BY <1>1, <2>1
  <2>2. CASE launch.N = launch.coresX * PerCoreNt * TileSide
    <3>1. PICK x \in Nat \ {0}, p \in Nat \ {0} :
            x = launch.coresX /\ p = PerCoreNt
      BY <1>1
    <3>2. x * p \in Nat /\ x * p = p * x
      BY <3>1
    <3>3. launch.N = (x * p) * TileSide
      BY <2>2, <3>1
    <3>4. Nt = ((x * p) * TileSide + (TileSide - 1)) \div TileSide
      BY <3>3 DEF Nt, AlignedTiles
    <3>5. TileSide - 1 \in 0 .. TileSide - 1
      BY <1>1
    <3>6. Nt = x * p
      BY <1>1, <3>2, <3>4, <3>5, DivMod
    <3>7. (p * x + 0) % x = 0
      <4>1. p \in Nat /\ 0 \in 0 .. x - 1
        OBVIOUS
      <4> QED BY <4>1, DivMod
    <3>8. p * x + 0 = Nt
      BY <3>2, <3>6
    <3> QED BY <3>1, <3>7, <3>8
  <2> QED BY <2>1, <2>2 DEF ColumnsFilled
<1>3. /\ (launch.coresX - 1) * PerCoreNt < Nt
      /\ Nt = launch.coresX * PerCoreNt
      /\ LastPart(Nt, PerCoreNt) = PerCoreNt
  BY <1>1, <1>2, EvenShares DEF PerCoreNt
<1>4. Parted(Nt, PerCoreNt, launch.coresX)
  BY <1>1, <1>3 DEF Parted
<1> QED BY <1>3, <1>4 DEF ValidN

\* ... and the rows of cores have some of A each, or the launch had failed.
LEMMA L1Rows ==
  ASSUME GridPlan, ~launch.useDram, ~RowsRunOut
  PROVE  Parted(Mt, PerCoreMt, launch.coresY)
<1>1. PICK y \in Nat : launch.coresY = y + 1
  BY PlanSizes
<1>2. y \in 0 .. launch.coresY - 1 /\ y = launch.coresY - 1
  BY <1>1
<1>3. ~(y * PerCoreMt + LastPart(Mt, PerCoreMt) > Mt)
  BY <1>2 DEF RowsRunOut, ValidRows
<1>4. /\ LastPart(Mt, PerCoreMt) \in 1 .. PerCoreMt
      /\ PerCoreMt \in Nat /\ Mt \in Nat
  BY PlanSizes, LastPartRange
<1>5. y * PerCoreMt \in Nat
  BY <1>4, RowProduct
<1>6. y * PerCoreMt < Mt
  BY <1>3, <1>4, <1>5
<1>7. (launch.coresY - 1) * PerCoreMt < Mt
  BY <1>2, <1>6
<1> QED BY <1>7, MatrixParts

\* An element of tile b of share x of a row of tiles of d each.
LEMMA ShareOffset ==
  ASSUME NEW x \in Nat, NEW d \in Nat, NEW b \in Nat, NEW e \in Nat
  PROVE  (x * d + b) * TileSide + e = x * d * TileSide + (b * TileSide + e)
<1>1. TileSide \in Nat
  BY LaunchesAssumption
<1>2. PICK p \in Nat : p = x * d
  BY RowProduct
<1>3. (p + b) * TileSide = p * TileSide + b * TileSide
  BY <1>1
<1>4. p * TileSide \in Nat /\ b * TileSide \in Nat
  BY <1>1, RowProduct
<1>5. (p + b) * TileSide + e = p * TileSide + (b * TileSide + e)
  BY <1>3, <1>4
<1> QED BY <1>2, <1>5

\* Position s is offset c of part a, of b each.
At(a, b, c, s) == s = a * b + c

LEMMA AtUnique ==
  ASSUME NEW s, NEW b \in Nat \ {0}, NEW a \in Nat, NEW c \in 0 .. b - 1,
         NEW x \in Nat, NEW y \in 0 .. b - 1, At(a, b, c, s), At(x, b, y, s)
  PROVE  a = x /\ c = y
<1>1. a * b + c = x * b + y
  BY DEF At
<1> QED BY <1>1, UniquePosition

\* With n columns of shares of H x W elements, <<y, x, h, w>> is taken for row
\* r and column k and copied to element s of a result of N columns.
Reaches(n, H, W, N, s, y, x, h, w, r, k) ==
  /\ y \in Nat /\ x \in 0 .. n - 1 /\ h \in 0 .. H - 1 /\ w \in 0 .. W - 1
  /\ r \in Nat /\ k \in Nat
  /\ At(y, H, h, r) /\ At(x, W, w, k) /\ At(r, N, k, s)

SharesOfResult(n, H, W, N) ==
  /\ n \in Nat \ {0} /\ H \in Nat \ {0} /\ W \in Nat \ {0} /\ N \in Nat \ {0}
  /\ n = 1 \/ At(n, W, 0, N)

\* What is copied to an element from beyond the end of a row is copied before
\* what belongs there.
LEMMA CopiedBefore ==
  ASSUME NEW n, NEW H, NEW W, NEW N, SharesOfResult(n, H, W, N), NEW s,
         NEW y, NEW x, NEW h, NEW w, NEW r, NEW k,
         Reaches(n, H, W, N, s, y, x, h, w, r, k), k < N,
         NEW b, NEW a, NEW g, NEW v, NEW u, NEW z,
         Reaches(n, H, W, N, s, b, a, g, v, u, z)
  PROVE  \/ b = y /\ a = x /\ g = h /\ v = w
         \/ b < y
         \/ b = y /\ a = x /\ g < h
<1>1. /\ n \in Nat \ {0} /\ H \in Nat \ {0} /\ W \in Nat \ {0}
      /\ N \in Nat \ {0} /\ r \in Nat /\ u \in Nat /\ z \in Nat
      /\ y \in Nat /\ x \in 0 .. n - 1 /\ h \in 0 .. H - 1 /\ w \in 0 .. W - 1
      /\ b \in Nat /\ a \in 0 .. n - 1 /\ g \in 0 .. H - 1 /\ v \in 0 .. W - 1
      /\ x \in Nat /\ h \in Nat /\ w \in Nat /\ k \in 0 .. N - 1 /\ k \in Nat
      /\ a \in Nat /\ g \in Nat /\ v \in Nat
      /\ n = 1 \/ At(n, W, 0, N)
  BY DEF SharesOfResult, Reaches
<1>2. /\ At(y, H, h, r) /\ At(x, W, w, k) /\ At(r, N, k, s)
      /\ At(b, H, g, u) /\ At(a, W, v, z) /\ At(u, N, z, s)
  BY DEF Reaches
<1>3. CASE z < N
  <2>1. u = r /\ z = k
    <3>1. z \in 0 .. N - 1
      BY <1>1, <1>3
    <3> QED BY <1>1, <1>2, <3>1, AtUnique
  <2>2. b = y /\ g = h
    BY <1>1, <1>2, <2>1, AtUnique
  <2>3. a = x /\ v = w
    BY <1>1, <1>2, <2>1, AtUnique
  <2> QED BY <2>2, <2>3
<1>4. CASE z >= N
  <2>1. n = 1
    <3> SUFFICES ASSUME At(n, W, 0, N) PROVE FALSE
      BY <1>1
    <3>1. N = n * W
      <4>1. n * W \in Nat
        BY <1>1, RowProduct
      <4> QED BY <4>1 DEF At
    <3>2. a * W + v \in 0 .. n * W - 1
      BY <1>1, TileInRows
    <3>3. z \in 0 .. N - 1
      BY <1>1, <1>2, <3>1, <3>2 DEF At
    <3> QED BY <1>1, <1>4, <3>3
  <2>2. x = 0 /\ a = 0
    BY <1>1, <2>1
  <2>3. u < r
    <3>1. PICK c \in Nat, d \in Nat : c = u * N /\ d = r * N
      BY <1>1, RowProduct
    <3>2. s = c + z /\ s = d + k
      BY <1>2, <3>1 DEF At
    <3>3. c < d
      BY <1>1, <1>4, <3>2
    <3>4. r <= u => d <= c
      BY <1>1, <3>1, MonotoneProduct
    <3> QED BY <1>1, <3>1, <3>3, <3>4
  <2>4. b < y \/ (b = y /\ g < h)
    <3>1. PICK c \in Nat, d \in Nat : c = y * H /\ d = b * H
      BY <1>1, RowProduct
    <3>2. r = c + h /\ u = d + g
      BY <1>2, <3>1 DEF At
    <3>3. d + g < c + h
      BY <1>1, <2>3, <3>1, <3>2
    <3>4. CASE b = y
      BY <1>1, <3>1, <3>3, <3>4
    <3>5. CASE y < b
      <4>1. (y + 1) * H <= b * H /\ (y + 1) * H = y * H + H
        BY <1>1, <3>5, MonotoneProduct, RowProduct
      <4>2. c + H <= d /\ h < H
        BY <1>1, <3>1, <4>1
      <4> QED BY <1>1, <3>3, <4>2
    <3> QED BY <1>1, <3>4, <3>5
  <2> QED BY <2>2, <2>4
<1> QED BY <1>1, <1>3, <1>4

\* The share a tile of one dimension is in, and the place in it of element e
\* of the tile.
LEMMA ShareElement ==
  ASSUME NEW v, NEW d, NEW n, Parted(v, d, n),
         NEW t \in 0 .. v - 1, NEW e \in 0 .. TileSide - 1
  PROVE  LET y == t \div d
             a == t % d
             h == a * TileSide + e
         IN  /\ y \in 0 .. n - 1 /\ a \in 0 .. PartSize(v, d, n, y) - 1
             /\ t = y * d + a
             /\ h \in 0 .. d * TileSide - 1
             /\ h \div TileSide = a /\ h % TileSide = e
             /\ y * d * TileSide + h = t * TileSide + e
             /\ y \in Nat /\ a \in Nat /\ h \in Nat
<1> DEFINE y == t \div d
           a == t % d
           h == a * TileSide + e
<1>1. TileSide \in Nat \ {0} /\ d \in Nat \ {0} /\ n \in Nat \ {0}
  BY LaunchesAssumption, PartProducts
<1>2. /\ y \in 0 .. n - 1 /\ a \in 0 .. PartSize(v, d, n, y) - 1
      /\ t = y * d + a
  BY PartOf
<1> HIDE DEF y, a
<1>3. a \in 0 .. d - 1 /\ y \in Nat
  BY <1>2, PartInside
<1>4. a \in Nat /\ e \in Nat
  BY <1>1, <1>3
<1>5. h \in 0 .. d * TileSide - 1
  BY <1>1, <1>3, TileInRows
<1>6. h \div TileSide = a /\ h % TileSide = e
  BY <1>1, <1>4, DivMod
<1>7. (y * d + a) * TileSide + e = y * d * TileSide + h
  BY <1>1, <1>3, <1>4, ShareOffset
<1>8. h \in Nat
  <2>1. a * TileSide \in Nat
    BY <1>1, <1>4, RowProduct
  <2> QED BY <1>4, <2>1
<1> HIDE DEF h
<1> QED BY <1>2, <1>3, <1>4, <1>5, <1>6, <1>7, <1>8 DEF y, a, h

\* Where the read-back of L1 tensors takes element i from: the place of row r
\* and column k in the share of one core.
LEMMA LastCopied ==
  ASSUME GridPlan, ~launch.useDram, ColumnsFilled, NEW i \in Indices,
         NEW r \in Nat, NEW k \in 0 .. launch.N - 1, i = r * launch.N + k,
         NEW y \in 0 .. launch.coresY - 1, NEW x \in 0 .. launch.coresX - 1,
         NEW h \in 0 .. PerCoreMt * TileSide - 1,
         NEW w \in 0 .. PerCoreNt * TileSide - 1,
         y * PerCoreMt * TileSide + h = r, x * PerCoreNt * TileSide + w = k
  PROVE  CopiedTo(i) # {} /\ Last(CopiedTo(i)) = <<y, x, h, w>>
<1> DEFINE p == <<y, x, h, w>>
<1>1. PICK H \in Nat \ {0}, W \in Nat \ {0}, N \in Nat \ {0},
           n \in Nat \ {0}, m \in Nat \ {0} :
        /\ H = PerCoreMt * TileSide /\ W = PerCoreNt * TileSide
        /\ N = launch.N /\ n = launch.coresX /\ m = launch.coresY
  <2>1. \A a, b \in Nat \ {0} : a * b \in Nat \ {0}
    OBVIOUS
  <2>2. PerCoreMt * TileSide \in Nat \ {0} /\ PerCoreNt * TileSide \in Nat \ {0}
    BY <2>1, PlanSizes, LaunchesAssumption
  <2> QED BY <2>2, PlanSizes DEF GridPlan, Launch
<1>2. \A a \in Nat : /\ a * PerCoreMt * TileSide = a * H
                     /\ a * PerCoreNt * TileSide = a * W
  <2>1. \A a, b, d \in Nat : a * b * d = a * (b * d)
    OBVIOUS
  <2> QED BY <1>1, <2>1, PlanSizes, LaunchesAssumption
<1>3. CopiedTo(i) =
        { q \in (0 .. m - 1) \X (0 .. n - 1) \X (0 .. H - 1) \X (0 .. W - 1) :
            (q[1] * PerCoreMt * TileSide + q[3]) * N
              + q[2] * PerCoreNt * TileSide + q[4] = i }
  BY <1>1 DEF CopiedTo
<1>4. /\ y \in Nat /\ x \in Nat /\ h \in Nat /\ w \in Nat /\ k \in Nat
      /\ y \in 0 .. m - 1 /\ x \in 0 .. n - 1
      /\ h \in 0 .. H - 1 /\ w \in 0 .. W - 1 /\ k \in 0 .. N - 1
  BY <1>1
<1>5. Reaches(n, H, W, N, i, y, x, h, w, r, k)
  BY <1>1, <1>2, <1>4 DEF At, Reaches
<1>6. SharesOfResult(n, H, W, N)
  <2>1. CASE launch.coresX = 1
    BY <1>1, <2>1 DEF SharesOfResult
  <2>2. CASE launch.N = launch.coresX * PerCoreNt * TileSide
    <3>1. N = n * W
      BY <1>1, <1>2, <2>2
    <3> QED BY <1>1, <3>1 DEF At, SharesOfResult
  <2> QED BY <2>1, <2>2 DEF ColumnsFilled
<1>7. p \in CopiedTo(i)
  <2>1. PICK c \in Nat, d \in Nat :
          c = r * N /\ d = x * PerCoreNt * TileSide
    <3>1. x * W \in Nat /\ r * N \in Nat
      BY <1>4, RowProduct
    <3> QED BY <1>2, <1>4, <3>1
  <2>2. c + d + w = i
    BY <1>1, <1>4, <2>1
  <2>3. (p[1] * PerCoreMt * TileSide + p[3]) * N
          + p[2] * PerCoreNt * TileSide + p[4] = c + d + w
    BY <2>1
  <2> QED BY <1>3, <1>4, <2>2, <2>3
<1>8. ASSUME NEW q \in CopiedTo(i), q # p PROVE Before(q, p)
  <2>1. PICK b \in 0 .. m - 1, a \in 0 .. n - 1, g \in 0 .. H - 1,
             v \in 0 .. W - 1 :
          /\ q = <<b, a, g, v>>
          /\ (b * PerCoreMt * TileSide + g) * N
               + a * PerCoreNt * TileSide + v = i
    BY <1>3
  <2>2. b \in Nat /\ a \in Nat /\ g \in Nat /\ v \in Nat
    OBVIOUS
  <2>3. b * H \in Nat /\ a * W \in Nat
    BY <2>2, RowProduct
  <2>4. PICK u \in Nat, z \in Nat : u = b * H + g /\ z = a * W + v
    BY <2>2, <2>3
  <2>5. u * N + a * W + v = i
    BY <1>2, <2>1, <2>2, <2>4
  <2>6. PICK c \in Nat, d \in Nat : c = u * N /\ d = a * W
    BY <2>3, <2>4, RowProduct
  <2>7. c + z = i
    BY <2>2, <2>4, <2>5, <2>6
  <2>8. Reaches(n, H, W, N, i, b, a, g, v, u, z)
    BY <2>2, <2>4, <2>6, <2>7 DEF At, Reaches
  <2>9. \/ b = y /\ a = x /\ g = h /\ v = w
        \/ b < y
        \/ b = y /\ a = x /\ g < h
    <3>1. k < N
      BY <1>4
    <3> QED BY <1>5, <1>6, <2>8, <3>1, CopiedBefore
  <2>10. \/ q[1] < p[1]
         \/ q[1] = p[1] /\ q[2] = p[2] /\ q[3] < p[3]
    BY <1>8, <2>1, <2>9
  <2> QED BY <2>10, LexBefore
<1> HIDE DEF p
<1>9. CopiedTo(i) \in SUBSET (Nat \X Nat \X Nat \X Nat)
  BY <1>3
<1>10. Last(CopiedTo(i)) = p
  BY <1>7, <1>8, <1>9, LastIs
<1> QED BY <1>7, <1>10 DEF p

\* With L1 tensors the element copied last is the one of its row and column.
LEMMA L1ReadExact ==
  ASSUME GridPlan, Filled, OutputInv, Idle, ~launch.useDram, ColumnsFilled,
         ~RowsRunOut, NEW i \in Indices
  PROVE  L1Result[i] = [row |-> i \div launch.N, col |-> i % launch.N]
<1> DEFINE r == i \div launch.N
           k == i % launch.N
           tr == r \div TileSide
           tk == k \div TileSide
           er == r % TileSide
           ek == k % TileSide
           y == tr \div PerCoreMt
           a == tr % PerCoreMt
           h == a * TileSide + er
           x == tk \div PerCoreNt
           b == tk % PerCoreNt
           w == b * TileSide + ek
           c == <<x, y>>
<1>1. /\ r \in 0 .. launch.M - 1 /\ k \in 0 .. launch.N - 1
      /\ i = r * launch.N + k
      /\ launch.M \in Nat \ {0} /\ launch.N \in Nat \ {0}
      /\ launch \in Launch
  BY IndexParts DEF GridPlan
<1> HIDE DEF r, k
<1>2. /\ tr \in 0 .. Mt - 1 /\ er \in 0 .. TileSide - 1
      /\ r = tr * TileSide + er /\ r \in Nat
      /\ tk \in 0 .. Nt - 1 /\ ek \in 0 .. TileSide - 1
      /\ k = tk * TileSide + ek
  BY <1>1, TilesCover DEF Mt, Nt
<1> HIDE DEF tr, tk, er, ek
<1>3. /\ y \in 0 .. launch.coresY - 1
      /\ a \in 0 .. PartSize(Mt, PerCoreMt, launch.coresY, y) - 1
      /\ tr = y * PerCoreMt + a
      /\ h \in 0 .. PerCoreMt * TileSide - 1
      /\ h \div TileSide = a /\ h % TileSide = er
      /\ y * PerCoreMt * TileSide + h = r
  <2>1. Parted(Mt, PerCoreMt, launch.coresY)
    BY L1Rows
  <2> HIDE DEF y, a, h
  <2> QED BY <1>2, <2>1, ShareElement DEF y, a, h
<1>4. /\ x \in 0 .. launch.coresX - 1
      /\ b \in 0 .. PartSize(Nt, PerCoreNt, launch.coresX, x) - 1
      /\ tk = x * PerCoreNt + b
      /\ w \in 0 .. PerCoreNt * TileSide - 1
      /\ w \div TileSide = b /\ w % TileSide = ek
      /\ x * PerCoreNt * TileSide + w = k
  <2>1. Parted(Nt, PerCoreNt, launch.coresX)
    BY <1>1, L1Columns
  <2> HIDE DEF x, b, w
  <2> QED BY <1>2, <2>1, ShareElement DEF x, b, w
<1> HIDE DEF y, a, h, x, b, w
<1>5. CopiedTo(i) # {} /\ Last(CopiedTo(i)) = <<y, x, h, w>>
  BY <1>1, <1>2, <1>3, <1>4, LastCopied
<1>6. L1Result[i] = Untilized(out[c], PerCoreNt, h, w)
  BY <1>5 DEF L1Result
<1>7. Untilized(out[c], PerCoreNt, h, w)
        = Element(out[c][a * PerCoreNt + b], er, ek)
  BY <1>3, <1>4 DEF Untilized
<1>8. c \in Cores /\ c[1] = x /\ c[2] = y /\ Home(c) = c
  BY <1>3, <1>4 DEF Cores, Home
<1> HIDE DEF c
<1>9. a \in 0 .. ValidM(c) - 1 /\ b \in 0 .. ValidN(c) - 1
      /\ ValidN(c) = PerCoreNt
  <2>1. ValidN(c) = PerCoreNt
    BY <1>1, L1Columns
  <2> QED BY <1>3, <1>4, <1>8, <2>1
          DEF ValidM, ValidRows, ValidN, PartSize
<1>10. Place(c, a, b).tile = a * PerCoreNt + b
  BY <1>8, <1>9, L1Place
<1>11. out[c][a * PerCoreNt + b] = [row |-> tr, col |-> tk]
  <2>1. CoreOK(c, out[Home(c)], {}, {})
    BY <1>8 DEF OutputInv, Idle
  <2>2. out[Home(c)][Place(c, a, b).tile] =
          [row |-> c[2] * PerCoreMt + a, col |-> c[1] * PerCoreNt + b]
    BY <1>9, <2>1 DEF CoreOK
  <2> QED BY <1>3, <1>4, <1>8, <1>10, <2>2
<1>12. Element([row |-> tr, col |-> tk], er, ek) = [row |-> r, col |-> k]
  <2>1. tr \in Int /\ tk \in Int
    BY <1>2
  <2> QED BY <1>2, <2>1, ElementOf
<1> QED BY <1>6, <1>7, <1>11, <1>12 DEF r, k

\* What the host validates is the product, element by element, with the
\* matrices in DRAM and in L1: the stride the writers use, the one the
\* read-back uses and the order in which it copies the cores' shares agree.
THEOREM ReadbackIsProduct ==
  GridSpec => [](SharesFilled /\ ColumnsFilled => ReadbackExact)
<1>1. GridIInv => (SharesFilled /\ ColumnsFilled => ReadbackExact)
  <2> SUFFICES ASSUME GridIInv, SharesFilled, ColumnsFilled, phase = "read",
                      NEW i \in Indices
               PROVE  vec[i] = [row |-> i \div launch.N, col |-> i % launch.N]
    BY DEF ReadbackExact
  <2>1. GridPlan /\ Filled /\ OutputInv
    BY FilledWhenShared
  <2>2. /\ Idle /\ ~RowsRunOut
        /\ vec = IF launch.useDram THEN DramResult ELSE L1Result
    BY DEF GridIInv
  <2>3. CASE launch.useDram
    BY <2>1, <2>2, <2>3, DramReadExact
  <2>4. CASE ~launch.useDram
    BY <2>1, <2>2, <2>4, L1ReadExact
  <2> QED BY <2>3, <2>4
<1> QED BY <1>1, GridInvariant, PTL

\* The reference the result is compared with adds up the same terms if N and K
\* are whole tiles; that is all the host's padding of the matrices asks for.
THEOREM ReferenceIsExact ==
  GridSpec =>
    [](/\ SharesFilled
       /\ launch.N = Nt * TileSide /\ launch.K = Kt * TileSide
       => ReferenceIsProduct)
<1> DEFINE Whole == launch.N = Nt * TileSide /\ launch.K = Kt * TileSide
<1>1. GridIInv => (SharesFilled /\ Whole => ReferenceIsProduct)
  <2> SUFFICES ASSUME GridIInv, SharesFilled, Whole, phase = "read",
                      launch.useDram, NEW i \in Indices
               PROVE  ReferenceTerms(i) = ProductTerms(vec[i])
    BY DEF ReferenceIsProduct
  <2>1. GridPlan /\ Filled /\ OutputInv
    BY FilledWhenShared
  <2>2. vec[i] = [row |-> i \div launch.N, col |-> i % launch.N]
    BY <2>1, DramReadExact DEF GridIInv
  <2>3. PICK r \in Nat, l \in Nat : r = i \div launch.N /\ l = i % launch.N
    BY <2>1, IndexParts DEF GridPlan
  <2>4. /\ TileSide \in Nat /\ Nt \in Nat /\ Kt \in Nat
        /\ launch.K = Kt * TileSide /\ launch.N = Nt * TileSide
    BY <2>1, Shares, LaunchesAssumption DEF GridPlan
  <2>5. \A a, b, d \in Nat : a * b * d = a * (b * d)
    OBVIOUS
  <2>6. /\ r * Kt * TileSide = r * launch.K
        /\ \A k \in Nat : k * Nt * TileSide = k * launch.N
    BY <2>4, <2>5
  <2>7. 0 .. launch.K - 1 = 0 .. Kt * TileSide - 1
    BY <2>4
  <2>8. 0 .. Kt * TileSide - 1 \subseteq Nat
    OBVIOUS
  <2>9. ReferenceTerms(i) =
          { << r * launch.K + k, k * launch.N + l >> : k \in 0 .. launch.K - 1 }
    BY <2>3 DEF ReferenceTerms
  <2>10. ProductTerms(vec[i]) =
           { << r * Kt * TileSide + k, k * Nt * TileSide + l >> :
             k \in 0 .. Kt * TileSide - 1 }
    BY <2>2, <2>3 DEF ProductTerms
  <2>11. \A k \in 0 .. Kt * TileSide - 1 :
           << r * Kt * TileSide + k, k * Nt * TileSide + l >>
             = << r * launch.K + k, k * launch.N + l >>
    BY <2>6, <2>8
  <2> QED BY <2>7, <2>9, <2>10, <2>11
<1> QED BY <1>1, GridInvariant, PTL
===============================================================================
