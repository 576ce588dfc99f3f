---------------------------- MODULE QueriesProof ----------------------------
(* Proofs about the queries of a frame: FrameQueries, CameraQueries,         *)
(* DeviceQueries and the AxisMapping by which they tell what they find.      *)
(*                                                                           *)
(* They hold for every set of frames that the three modules assume: any      *)
(* number of subjects, trees of segments of any shape, any devices, cameras  *)
(* and samples.  The argument is QueryInv: what is held is a frame that was  *)
(* sent, or one that was completed from it, and the axes are a rotation of   *)
(* the server's.  The rest is about one state: a search of a list ends at    *)
(* the one place that a name or id leads to, and what is found there is      *)
(* told through one change of axes.                                          *)
EXTENDS DeviceQueries, CameraQueries, Counting, SequenceTheorems

\* Matrices of three rows of three integers.
Matrices == [Index -> Triples]

\* Two triples, or two matrices, are equal when their elements are.
LEMMA SameTriple ==
    ASSUME NEW v \in Triples, NEW w \in Triples, v[1] = w[1], v[2] = w[2], v[3] = w[3]
    PROVE  v = w
    BY DEF Triples, Index

LEMMA SameMatrix ==
    ASSUME NEW m \in Matrices, NEW n \in Matrices, \A i, j \in Index : m[i][j] = n[i][j]
    PROVE  m = n
<1>1. ASSUME NEW i \in Index PROVE m[i] = n[i]
    BY DEF Matrices, Triples
<1> QED
    BY <1>1 DEF Matrices

\* The elements of a triple and of a matrix are integers.
LEMMA Components ==
    ASSUME NEW v \in Triples
    PROVE  v[1] \in Int /\ v[2] \in Int /\ v[3] \in Int
    BY DEF Triples, Index

LEMMA Rows ==
    ASSUME NEW m \in Matrices
    PROVE  /\ \A i \in Index : m[i] \in Triples /\ m[i][1] \in Int /\ m[i][2] \in Int /\ m[i][3] \in Int
           /\ \A i, j \in Index : m[i][j] \in Int
           /\ m[1] \in Triples /\ m[2] \in Triples /\ m[3] \in Triples
    BY DEF Matrices, Triples, Index

\* A matrix takes triples to triples, and a product or transpose is a matrix.
LEMMA TriplesOfMatrix ==
    ASSUME NEW m \in Matrices, NEW v \in Triples, NEW w \in Triples
    PROVE  TimesVector(m, v) \in Triples /\ Plus(v, w) \in Triples
<1>1. TimesVector(m, v) \in Triples
    BY Rows, Components DEF TimesVector, Sum3, Triples
<1>2. Plus(v, w) \in Triples
    BY DEF Plus, Triples
<1> QED
    BY <1>1, <1>2

LEMMA MatricesOfMatrices ==
    ASSUME NEW m \in Matrices, NEW n \in Matrices
    PROVE  Times(m, n) \in Matrices /\ Transpose(m) \in Matrices
<1>1. Times(m, n) \in Matrices
    <2>1. \A i, j \in Index : Sum3(m[i][1] * n[1][j], m[i][2] * n[2][j], m[i][3] * n[3][j]) \in Int
        BY Rows DEF Sum3, Index
    <2> QED
        BY <2>1 DEF Times, Matrices, Triples
<1>2. Transpose(m) \in Matrices
    BY DEF Transpose, Matrices, Triples
<1> QED
    BY <1>1, <1>2

\* The elements of a product of two matrices and a vector, multiplied out.
LEMMA Distributes ==
    ASSUME NEW a1 \in Int, NEW a2 \in Int, NEW a3 \in Int,
           NEW b1 \in Int, NEW b2 \in Int, NEW b3 \in Int,
           NEW c1 \in Int, NEW c2 \in Int, NEW c3 \in Int,
           NEW d1 \in Int, NEW d2 \in Int, NEW d3 \in Int,
           NEW v1 \in Int, NEW v2 \in Int, NEW v3 \in Int
    PROVE  (a1*b1 + a2*c1 + a3*d1) * v1 + (a1*b2 + a2*c2 + a3*d2) * v2 + (a1*b3 + a2*c3 + a3*d3) * v3
         = a1 * (b1*v1 + b2*v2 + b3*v3) + a2 * (c1*v1 + c2*v2 + c3*v3) + a3 * (d1*v1 + d2*v2 + d3*v3)
    OBVIOUS

\* A product turns a vector by one matrix after the other.
LEMMA ProductTurns ==
    ASSUME NEW m \in Matrices, NEW n \in Matrices, NEW v \in Triples
    PROVE  TimesVector(Times(m, n), v) = TimesVector(m, TimesVector(n, v))
<1>1. ASSUME NEW i \in Index
      PROVE  TimesVector(Times(m, n), v)[i] = TimesVector(m, TimesVector(n, v))[i]
    <2>1. /\ m[i][1] \in Int /\ m[i][2] \in Int /\ m[i][3] \in Int
          /\ n[1][1] \in Int /\ n[1][2] \in Int /\ n[1][3] \in Int
          /\ n[2][1] \in Int /\ n[2][2] \in Int /\ n[2][3] \in Int
          /\ n[3][1] \in Int /\ n[3][2] \in Int /\ n[3][3] \in Int
          /\ v[1] \in Int /\ v[2] \in Int /\ v[3] \in Int
        BY Rows, Components DEF Index
    <2>2. \A j \in {1, 2, 3} : Times(m, n)[i][j] = m[i][1] * n[1][j] + m[i][2] * n[2][j] + m[i][3] * n[3][j]
        BY DEF Times, Sum3, Index
    <2>3. \A j \in {1, 2, 3} : TimesVector(n, v)[j] = n[j][1] * v[1] + n[j][2] * v[2] + n[j][3] * v[3]
        BY DEF TimesVector, Sum3, Index
    <2>4. \A k, w : TimesVector(k, w)[i] = k[i][1] * w[1] + k[i][2] * w[2] + k[i][3] * w[3]
        BY DEF TimesVector, Sum3
    <2> QED
        BY <2>1, <2>2, <2>3, <2>4, Distributes
<1>2. /\ TimesVector(Times(m, n), v) \in [Index -> Int]
      /\ TimesVector(m, TimesVector(n, v)) \in [Index -> Int]
    BY TriplesOfMatrix, MatricesOfMatrices DEF Triples
<1> QED
    BY <1>1, <1>2

\* A matrix turns a sum into the sum of what is turned.
LEMMA TurnedSum ==
    ASSUME NEW m \in Matrices, NEW v \in Triples, NEW w \in Triples
    PROVE  TimesVector(m, Plus(v, w)) = Plus(TimesVector(m, v), TimesVector(m, w))
<1>1. ASSUME NEW i \in Index
      PROVE  TimesVector(m, Plus(v, w))[i] = Plus(TimesVector(m, v), TimesVector(m, w))[i]
    <2>1. /\ m[i][1] \in Int /\ m[i][2] \in Int /\ m[i][3] \in Int
          /\ v[1] \in Int /\ v[2] \in Int /\ v[3] \in Int
          /\ w[1] \in Int /\ w[2] \in Int /\ w[3] \in Int
        BY Rows, Components DEF Index
    <2>2. \A j \in {1, 2, 3} : Plus(v, w)[j] = v[j] + w[j]
        BY DEF Plus, Index
    <2>3. \A u : TimesVector(m, u)[i] = m[i][1] * u[1] + m[i][2] * u[2] + m[i][3] * u[3]
        BY DEF TimesVector, Sum3
    <2>4. Plus(TimesVector(m, v), TimesVector(m, w))[i] = TimesVector(m, v)[i] + TimesVector(m, w)[i]
        BY DEF Plus
    <2> QED
        BY <2>1, <2>2, <2>3, <2>4
<1> QED
    BY <1>1, TriplesOfMatrix DEF Triples

\* The columns of a product are the turned columns.
Column(m, j) == [i \in Index |-> m[i][j]]

\* The columns of a product are the columns of its right factor, turned.
LEMMA Columns ==
    ASSUME NEW m \in Matrices, NEW n \in Matrices, NEW j \in Index
    PROVE  /\ Column(n, j) \in Triples
           /\ Column(Times(m, n), j) = TimesVector(m, Column(n, j))
<1>1. Column(n, j) \in Triples
    BY Rows DEF Column, Triples
<1>2. \A i \in Index : Column(Times(m, n), j)[i] = TimesVector(m, Column(n, j))[i]
    <2>1. \A i \in {1, 2, 3} : Column(n, j)[i] = n[i][j]
        BY DEF Column, Index
    <2> QED
        BY <2>1 DEF Column, TimesVector, Times
<1> QED
    BY <1>1, <1>2 DEF Column, TimesVector

LEMMA SameColumns ==
    ASSUME NEW m \in Matrices, NEW n \in Matrices, \A j \in Index : Column(m, j) = Column(n, j)
    PROVE  m = n
<1>1. ASSUME NEW i \in Index, NEW j \in Index PROVE m[i][j] = n[i][j]
    <2>1. Column(m, j)[i] = Column(n, j)[i]
        OBVIOUS
    <2> QED
        BY <2>1 DEF Column
<1> QED
    BY <1>1, SameMatrix

\* The product of matrices is associative.
LEMMA ProductAssociates ==
    ASSUME NEW k \in Matrices, NEW m \in Matrices, NEW n \in Matrices
    PROVE  Times(Times(k, m), n) = Times(k, Times(m, n))
<1>1. Times(k, m) \in Matrices /\ Times(m, n) \in Matrices
    BY MatricesOfMatrices
<1>2. ASSUME NEW j \in Index
      PROVE  Column(Times(Times(k, m), n), j) = Column(Times(k, Times(m, n)), j)
    BY <1>1, Columns, ProductTurns
<1> QED
    BY <1>1, <1>2, SameColumns, MatricesOfMatrices

-----------------------------------------------------------------------------
(* The rotations of the cube.                                                *)

\* There are six directions.
LEMMA SixUnitVectors ==
    UnitVectors = { <<1, 0, 0>>, <<-1, 0, 0>>, <<0, 1, 0>>, <<0, -1, 0>>, <<0, 0, 1>>, <<0, 0, -1>> }
<1>1. /\ AxisOf("Forward") = <<1, 0, 0>> /\ AxisOf("Backward") = <<-1, 0, 0>>
      /\ AxisOf("Left") = <<0, 1, 0>> /\ AxisOf("Right") = <<0, -1, 0>>
      /\ AxisOf("Up") = <<0, 0, 1>> /\ AxisOf("Down") = <<0, 0, -1>>
    BY DEF AxisOf, ComponentIndex, ComponentSign, Index
<1> QED
    BY <1>1 DEF UnitVectors, Direction

LEMMA UnitTriples ==
    UnitVectors \subseteq Triples
    BY SixUnitVectors DEF Triples, Index

\* A right-handed system of unit vectors is one from each of its vectors on.
LEMMA RightHanded ==
    ASSUME NEW x \in UnitVectors, NEW y \in UnitVectors, DotProduct(x, y) = 0
    PROVE  LET z == CrossProduct(x, y)
           IN /\ z \in UnitVectors /\ CrossProduct(y, z) = x /\ CrossProduct(z, x) = y
              /\ DotProduct(y, z) = 0 /\ DotProduct(z, x) = 0
    BY SixUnitVectors DEF DotProduct, CrossProduct, Sum3

\* A rotation is a matrix of two orthogonal directions and their cross product.
LEMMA RotationRows ==
    ASSUME NEW m \in Rotations
    PROVE  /\ m \in Matrices
           /\ m[1] \in UnitVectors /\ m[2] \in UnitVectors /\ m[3] \in UnitVectors
           /\ DotProduct(m[1], m[2]) = 0 /\ m[3] = CrossProduct(m[1], m[2])
<1>1. PICK x \in UnitVectors, y \in UnitVectors :
          m = <<x, y, CrossProduct(x, y)>> /\ DotProduct(x, y) = 0
    BY DEF Rotations
<1>2. CrossProduct(x, y) \in UnitVectors
    BY <1>1, RightHanded
<1>3. m \in Matrices
    BY <1>1, <1>2, UnitTriples DEF Matrices, Index
<1> QED
    BY <1>1, <1>2, <1>3

LEMMA RotationOfRows ==
    ASSUME NEW m \in Matrices, m[1] \in UnitVectors, m[2] \in UnitVectors,
           DotProduct(m[1], m[2]) = 0, m[3] = CrossProduct(m[1], m[2])
    PROVE  m \in Rotations
<1> DEFINE n == <<m[1], m[2], CrossProduct(m[1], m[2])>>
<1>1. m = n
    BY DEF Matrices, Index
<1>2. n \in {<<x, y, CrossProduct(x, y)>> : x, y \in UnitVectors} /\ DotProduct(n[1], n[2]) = 0
    OBVIOUS
<1> QED
    BY <1>1, <1>2 DEF Rotations

\* A unit vector picks a row of a matrix, or its opposite.
Opposite(v) == [i \in Index |-> -v[i]]
\* The row that a direction picks of a matrix, with its sign.
RowOf(u, n) == [j \in Index |-> Sum3(u[1] * n[1][j], u[2] * n[2][j], u[3] * n[3][j])]

LEMMA PickedRow ==
    ASSUME NEW n \in Matrices
    PROVE  /\ RowOf(<<1, 0, 0>>, n) = n[1] /\ RowOf(<<-1, 0, 0>>, n) = Opposite(n[1])
           /\ RowOf(<<0, 1, 0>>, n) = n[2] /\ RowOf(<<0, -1, 0>>, n) = Opposite(n[2])
           /\ RowOf(<<0, 0, 1>>, n) = n[3] /\ RowOf(<<0, 0, -1>>, n) = Opposite(n[3])
<1>1. \A j \in Index : n[1][j] \in Int /\ n[2][j] \in Int /\ n[3][j] \in Int
    BY Rows DEF Index
<1>2. n[1] \in [Index -> Int] /\ n[2] \in [Index -> Int] /\ n[3] \in [Index -> Int]
    BY Rows DEF Triples
<1> QED
    BY <1>1, <1>2 DEF RowOf, Sum3, Opposite

\* Products of directions change their sign with their factors.
LEMMA OppositeUnits ==
    /\ \A u \in UnitVectors : Opposite(u) \in UnitVectors
    /\ \A u, v \in UnitVectors :
          /\ DotProduct(u, v) = 0 => /\ DotProduct(Opposite(u), v) = 0 /\ DotProduct(u, Opposite(v)) = 0
                                     /\ DotProduct(v, u) = 0 
          /\ CrossProduct(Opposite(u), v) = Opposite(CrossProduct(u, v))
          /\ CrossProduct(u, Opposite(v)) = Opposite(CrossProduct(u, v))
          /\ CrossProduct(v, u) = Opposite(CrossProduct(u, v))
          /\ Opposite(Opposite(u)) = u
<1>1. /\ Opposite(<<1, 0, 0>>) = <<-1, 0, 0>> /\ Opposite(<<-1, 0, 0>>) = <<1, 0, 0>>
      /\ Opposite(<<0, 1, 0>>) = <<0, -1, 0>> /\ Opposite(<<0, -1, 0>>) = <<0, 1, 0>>
      /\ Opposite(<<0, 0, 1>>) = <<0, 0, -1>> /\ Opposite(<<0, 0, -1>>) = <<0, 0, 1>>
      /\ Opposite(<<0, 0, 0>>) = <<0, 0, 0>>
    BY DEF Opposite, Index
<1> QED
    BY <1>1, SixUnitVectors DEF DotProduct, CrossProduct, Sum3

\* Rows of a rotation that are picked by orthogonal directions are orthogonal.
LEMMA PickedRows ==
    ASSUME NEW n \in Rotations, NEW x \in UnitVectors, NEW y \in UnitVectors, DotProduct(x, y) = 0
    PROVE  /\ RowOf(x, n) \in UnitVectors /\ RowOf(y, n) \in UnitVectors
           /\ DotProduct(RowOf(x, n), RowOf(y, n)) = 0
           /\ RowOf(CrossProduct(x, y), n) = CrossProduct(RowOf(x, n), RowOf(y, n))
<1>1. /\ n \in Matrices /\ n[1] \in UnitVectors /\ n[2] \in UnitVectors /\ n[3] \in UnitVectors
      /\ DotProduct(n[1], n[2]) = 0 /\ DotProduct(n[2], n[3]) = 0 /\ DotProduct(n[3], n[1]) = 0
      /\ CrossProduct(n[1], n[2]) = n[3] /\ CrossProduct(n[2], n[3]) = n[1]
      /\ CrossProduct(n[3], n[1]) = n[2]
    BY RotationRows, RightHanded
<1>2. CASE x = <<1, 0, 0>>
    <2>1. y \in {<<0, 1, 0>>, <<0, -1, 0>>, <<0, 0, 1>>, <<0, 0, -1>>}
        BY <1>2, SixUnitVectors DEF DotProduct, Sum3
    <2>2. /\ CrossProduct(<<1, 0, 0>>, <<0, 1, 0>>) = <<0, 0, 1>>
          /\ CrossProduct(<<1, 0, 0>>, <<0, -1, 0>>) = <<0, 0, -1>>
          /\ CrossProduct(<<1, 0, 0>>, <<0, 0, 1>>) = <<0, -1, 0>>
          /\ CrossProduct(<<1, 0, 0>>, <<0, 0, -1>>) = <<0, 1, 0>>
        BY DEF CrossProduct
    <2> QED
        BY ONLY <1>1, <1>2, <2>1, <2>2, PickedRow, OppositeUnits
<1>3. CASE x = <<-1, 0, 0>>
    <2>1. y \in {<<0, 1, 0>>, <<0, -1, 0>>, <<0, 0, 1>>, <<0, 0, -1>>}
        BY <1>3, SixUnitVectors DEF DotProduct, Sum3
    <2>2. /\ CrossProduct(<<-1, 0, 0>>, <<0, 1, 0>>) = <<0, 0, -1>>
          /\ CrossProduct(<<-1, 0, 0>>, <<0, -1, 0>>) = <<0, 0, 1>>
          /\ CrossProduct(<<-1, 0, 0>>, <<0, 0, 1>>) = <<0, 1, 0>>
          /\ CrossProduct(<<-1, 0, 0>>, <<0, 0, -1>>) = <<0, -1, 0>>
        BY DEF CrossProduct
    <2> QED
        BY ONLY <1>1, <1>3, <2>1, <2>2, PickedRow, OppositeUnits
<1>4. CASE x = <<0, 1, 0>>
    <2>1. y \in {<<1, 0, 0>>, <<-1, 0, 0>>, <<0, 0, 1>>, <<0, 0, -1>>}
        BY <1>4, SixUnitVectors DEF DotProduct, Sum3
    <2>2. /\ CrossProduct(<<0, 1, 0>>, <<1, 0, 0>>) = <<0, 0, -1>>
          /\ CrossProduct(<<0, 1, 0>>, <<-1, 0, 0>>) = <<0, 0, 1>>
          /\ CrossProduct(<<0, 1, 0>>, <<0, 0, 1>>) = <<1, 0, 0>>
          /\ CrossProduct(<<0, 1, 0>>, <<0, 0, -1>>) = <<-1, 0, 0>>
        BY DEF CrossProduct
    <2> QED
        BY ONLY <1>1, <1>4, <2>1, <2>2, PickedRow, OppositeUnits
<1>5. CASE x = <<0, -1, 0>>
    <2>1. y \in {<<1, 0, 0>>, <<-1, 0, 0>>, <<0, 0, 1>>, <<0, 0, -1>>}
        BY <1>5, SixUnitVectors DEF DotProduct, Sum3
    <2>2. /\ CrossProduct(<<0, -1, 0>>, <<1, 0, 0>>) = <<0, 0, 1>>
          /\ CrossProduct(<<0, -1, 0>>, <<-1, 0, 0>>) = <<0, 0, -1>>
          /\ CrossProduct(<<0, -1, 0>>, <<0, 0, 1>>) = <<-1, 0, 0>>
          /\ CrossProduct(<<0, -1, 0>>, <<0, 0, -1>>) = <<1, 0, 0>>
        BY DEF CrossProduct
    <2> QED
        BY ONLY <1>1, <1>5, <2>1, <2>2, PickedRow, OppositeUnits
<1>6. CASE x = <<0, 0, 1>>
    <2>1. y \in {<<1, 0, 0>>, <<-1, 0, 0>>, <<0, 1, 0>>, <<0, -1, 0>>}
        BY <1>6, SixUnitVectors DEF DotProduct, Sum3
    <2>2. /\ CrossProduct(<<0, 0, 1>>, <<1, 0, 0>>) = <<0, 1, 0>>
          /\ CrossProduct(<<0, 0, 1>>, <<-1, 0, 0>>) = <<0, -1, 0>>
          /\ CrossProduct(<<0, 0, 1>>, <<0, 1, 0>>) = <<-1, 0, 0>>
          /\ CrossProduct(<<0, 0, 1>>, <<0, -1, 0>>) = <<1, 0, 0>>
        BY DEF CrossProduct
    <2> QED
        BY ONLY <1>1, <1>6, <2>1, <2>2, PickedRow, OppositeUnits
<1>7. CASE x = <<0, 0, -1>>
    <2>1. y \in {<<1, 0, 0>>, <<-1, 0, 0>>, <<0, 1, 0>>, <<0, -1, 0>>}
        BY <1>7, SixUnitVectors DEF DotProduct, Sum3
    <2>2. /\ CrossProduct(<<0, 0, -1>>, <<1, 0, 0>>) = <<0, -1, 0>>
          /\ CrossProduct(<<0, 0, -1>>, <<-1, 0, 0>>) = <<0, 1, 0>>
          /\ CrossProduct(<<0, 0, -1>>, <<0, 1, 0>>) = <<1, 0, 0>>
          /\ CrossProduct(<<0, 0, -1>>, <<0, -1, 0>>) = <<-1, 0, 0>>
        BY DEF CrossProduct
    <2> QED
        BY ONLY <1>1, <1>7, <2>1, <2>2, PickedRow, OppositeUnits
<1> QED
    BY <1>2, <1>3, <1>4, <1>5, <1>6, <1>7, SixUnitVectors

\* The rotations are a group: products and inverses are rotations.
LEMMA ProductOfRotations ==
    ASSUME NEW m \in Rotations, NEW n \in Rotations
    PROVE  Times(m, n) \in Rotations
<1>1. Times(m, n) \in Matrices
    BY RotationRows, MatricesOfMatrices
<1>2. \A i \in Index : Times(m, n)[i] = RowOf(m[i], n)
    BY DEF Times, RowOf
<1>3. /\ Times(m, n)[1] = RowOf(m[1], n) /\ Times(m, n)[2] = RowOf(m[2], n)
      /\ Times(m, n)[3] = RowOf(m[3], n)
    BY <1>2 DEF Index
<1> QED
    BY <1>1, <1>3, RotationRows, PickedRows, RotationOfRows

LEMMA TransposeUndoes ==
    ASSUME NEW m \in Rotations
    PROVE  Times(m, Transpose(m)) = NoRotation
<1>1. m \in Matrices /\ Times(m, Transpose(m)) \in Matrices /\ NoRotation \in Matrices
    BY RotationRows, MatricesOfMatrices DEF NoRotation, Matrices, Triples, Index
<1>2. \A u \in UnitVectors : DotProduct(u, u) = 1
    BY SixUnitVectors DEF DotProduct, Sum3
<1>3. \A i, j \in Index : Times(m, Transpose(m))[i][j] = DotProduct(m[i], m[j])
    BY DEF Times, Transpose, DotProduct, Index
<1>4. /\ DotProduct(m[1], m[1]) = 1 /\ DotProduct(m[2], m[2]) = 1 /\ DotProduct(m[3], m[3]) = 1
      /\ DotProduct(m[1], m[2]) = 0 /\ DotProduct(m[2], m[3]) = 0 /\ DotProduct(m[3], m[1]) = 0
      /\ DotProduct(m[2], m[1]) = 0 /\ DotProduct(m[3], m[2]) = 0 /\ DotProduct(m[1], m[3]) = 0
    BY <1>2, RotationRows, RightHanded, OppositeUnits
<1>5. \A i, j \in Index : Times(m, Transpose(m))[i][j] = NoRotation[i][j]
    BY <1>3, <1>4 DEF NoRotation, Index
<1> QED
    BY <1>1, <1>5, SameMatrix

LEMMA InverseRotation ==
    ASSUME NEW m \in Rotations
    PROVE  Transpose(m) \in Rotations /\ Times(Transpose(m), m) = NoRotation
<1>1. PICK x \in UnitVectors, y \in UnitVectors :
          m = <<x, y, CrossProduct(x, y)>> /\ DotProduct(x, y) = 0
    BY DEF Rotations
<1>2. Transpose(m) \in Rotations
    BY <1>1, SixUnitVectors, RotationOfRows, MatricesOfMatrices, RotationRows
       DEF Transpose, Index, CrossProduct, DotProduct, Sum3
<1>3. Transpose(Transpose(m)) = m
    BY RotationRows DEF Transpose, Matrices, Triples
<1> QED
    BY <1>2, <1>3, TransposeUndoes

LEMMA NoRotationKeeps ==
    /\ NoRotation \in Rotations
    /\ \A v \in Triples : TimesVector(NoRotation, v) = v
    /\ \A m \in Matrices : Times(NoRotation, m) = m /\ Times(m, NoRotation) = m
    /\ Transpose(NoRotation) = NoRotation
<1>1. NoRotation \in Matrices
    BY DEF NoRotation, Matrices, Triples, Index
<1>2. NoRotation \in Rotations
    BY <1>1, SixUnitVectors, RotationOfRows DEF NoRotation, CrossProduct, DotProduct, Sum3
<1>3. ASSUME NEW v \in Triples PROVE TimesVector(NoRotation, v) = v
    <2>1. TimesVector(NoRotation, v) \in Triples
        BY <1>1, TriplesOfMatrix
    <2> QED
        BY <2>1, Components, SameTriple DEF TimesVector, NoRotation, Index, Sum3
<1>4. ASSUME NEW m \in Matrices PROVE Times(NoRotation, m) = m /\ Times(m, NoRotation) = m
    <2>1. Times(NoRotation, m) \in Matrices /\ Times(m, NoRotation) \in Matrices
        BY <1>1, MatricesOfMatrices
    <2>2. \A i, j \in Index : Times(NoRotation, m)[i][j] = m[i][j] /\ Times(m, NoRotation)[i][j] = m[i][j]
        BY Rows DEF Times, NoRotation, Index, Sum3
    <2> QED
        BY <2>1, <2>2, SameMatrix
<1>5. Transpose(NoRotation) = NoRotation
    BY <1>1, SameMatrix, MatricesOfMatrices DEF Transpose, NoRotation, Index
<1> QED
    BY <1>2, <1>3, <1>4, <1>5

\* The transpose of a product is the product of the transposes in reverse
\* order.
LEMMA TransposedProduct ==
    ASSUME NEW m \in Matrices, NEW n \in Matrices
    PROVE  Transpose(Times(m, n)) = Times(Transpose(n), Transpose(m)) /\ Transpose(Transpose(m)) = m
<1>1. Times(m, n) \in Matrices /\ Transpose(m) \in Matrices /\ Transpose(n) \in Matrices
    BY MatricesOfMatrices
<1>2. ASSUME NEW i \in Index, NEW j \in Index
      PROVE  Transpose(Times(m, n))[i][j] = Times(Transpose(n), Transpose(m))[i][j]
    <2>1. Transpose(Times(m, n))[i][j] = Sum3(m[j][1] * n[1][i], m[j][2] * n[2][i], m[j][3] * n[3][i])
        BY DEF Transpose, Times
    <2>2. /\ Transpose(n)[i][1] = n[1][i] /\ Transpose(n)[i][2] = n[2][i] /\ Transpose(n)[i][3] = n[3][i]
          /\ Transpose(m)[1][j] = m[j][1] /\ Transpose(m)[2][j] = m[j][2] /\ Transpose(m)[3][j] = m[j][3]
        BY DEF Transpose, Index
    <2>3. Times(Transpose(n), Transpose(m))[i][j]
              = Sum3(n[1][i] * m[j][1], n[2][i] * m[j][2], n[3][i] * m[j][3])
        BY <2>2 DEF Times
    <2>4. /\ m[j][1] \in Int /\ m[j][2] \in Int /\ m[j][3] \in Int
          /\ n[1][i] \in Int /\ n[2][i] \in Int /\ n[3][i] \in Int
        BY Rows DEF Index
    <2>5. \A a, b \in Int : a * b = b * a
        OBVIOUS
    <2> QED
        BY ONLY <2>1, <2>3, <2>4, <2>5
<1>3. Transpose(Times(m, n)) = Times(Transpose(n), Transpose(m))
    <2>1. Transpose(Times(m, n)) \in Matrices /\ Times(Transpose(n), Transpose(m)) \in Matrices
        BY <1>1, MatricesOfMatrices
    <2> QED
        BY <1>2, <2>1, SameMatrix
<1>4. Transpose(Transpose(m)) = m
    BY DEF Transpose, Matrices, Triples
<1> QED
    BY <1>3, <1>4

-----------------------------------------------------------------------------
(* The change of axes.                                                       *)

\* Three directions that SetAxisMapping accepts.
IsMapping(map) ==
    map \in [Index -> Direction] /\ AxisMappingResult(map[1], map[2], map[3]) = "Success"

\* What SetAxisMapping accepts is right-handed: a rotation of the server's
\* axes.
LEMMA MappingIsRotation ==
    ASSUME NEW map, IsMapping(map)
    PROVE  GetTransformationMatrix(map) \in Rotations
<1>1. map[1] \in Direction /\ map[2] \in Direction /\ map[3] \in Direction
    BY DEF IsMapping, Index
<1>2. /\ {ComponentIndex(d) : d \in {map[1], map[2], map[3]}} = Index
      /\ AxisOf(map[3]) = CrossProduct(AxisOf(map[1]), AxisOf(map[2]))
    BY DEF IsMapping, AxisMappingResult
<1>3. ComponentIndex(map[1]) # ComponentIndex(map[2])
    <2>1. \A i \in {1, 2, 3} : i \in {ComponentIndex(d) : d \in {map[1], map[2], map[3]}}
        BY <1>2 DEF Index
    <2> QED
        BY <2>1
<1>4. /\ \A d \in Direction : AxisOf(d) \in UnitVectors
      /\ DotProduct(AxisOf(map[1]), AxisOf(map[2])) = 0
    <2>1. \A d, e \in Direction : ComponentIndex(d) # ComponentIndex(e) => DotProduct(AxisOf(d), AxisOf(e)) = 0
        BY DEF Direction, ComponentIndex, AxisOf, DotProduct, Sum3, ComponentSign, Index
    <2> QED
        BY <1>1, <1>3, <2>1 DEF UnitVectors
<1> DEFINE m == GetTransformationMatrix(map)
<1>5. m \in Matrices /\ m[1] = AxisOf(map[1]) /\ m[2] = AxisOf(map[2]) /\ m[3] = AxisOf(map[3])
    BY <1>4, UnitTriples DEF GetTransformationMatrix, Matrices, Index, IsMapping
<1> QED
    BY <1>1, <1>2, <1>4, <1>5, RotationOfRows

LEMMA ServerMappings ==
    IsMapping(YUpAxes) /\ IsMapping(ZUpAxes)
    BY DEF IsMapping, YUpAxes, ZUpAxes, Index, Direction, AxisMappingResult, ComponentIndex, AxisOf, ComponentSign, CrossProduct

\* The matrix by which all that is handed out is turned.
Change(map, up) ==
    LET to == GetTransformationMatrix(map)
    IN IF map = ServerAxes(up) THEN NoRotation
       ELSE IF up THEN Times(to, Transpose(GetTransformationMatrix(YUpAxes))) ELSE to

\* Translations and rotations are told by one change of axes, itself a
\* rotation.
LEMMA ChangeOfAxes ==
    ASSUME NEW map, IsMapping(map), NEW up \in BOOLEAN
    PROVE  /\ Change(map, up) \in Rotations
           /\ \A t \in Triples : CopyAndTransformT(map, up, t) = TimesVector(Change(map, up), t)
           /\ \A r \in Matrices : CopyAndTransformR(map, up, r)
                                      = Times(Times(Change(map, up), r), Transpose(Change(map, up)))
<1> DEFINE k == Change(map, up)
           to == GetTransformationMatrix(map)
           q == GetTransformationMatrix(YUpAxes)
<1>0. to \in Rotations /\ q \in Rotations /\ Transpose(q) \in Rotations
    BY MappingIsRotation, ServerMappings, InverseRotation
<1>1. to \in Matrices /\ q \in Matrices /\ Transpose(q) \in Matrices /\ Transpose(to) \in Matrices
    BY <1>0, RotationRows, InverseRotation
<1> HIDE DEF to, q
<1>2. CASE map = ServerAxes(up)
    <2>1. k = NoRotation
        BY <1>2 DEF Change
    <2>2. \A t \in Triples : CopyAndTransformT(map, up, t) = TimesVector(k, t)
        BY <1>2, <2>1, NoRotationKeeps DEF CopyAndTransformT
    <2>3. ASSUME NEW r \in Matrices PROVE CopyAndTransformR(map, up, r) = Times(Times(k, r), Transpose(k))
        BY <1>2, <2>1, NoRotationKeeps DEF CopyAndTransformR
    <2> QED
        BY <2>1, <2>2, <2>3, NoRotationKeeps
<1>3. CASE map # ServerAxes(up) /\ up
    <2>1. k = Times(to, Transpose(q))
        BY <1>3 DEF Change, to, q
    <2>2. k \in Rotations /\ k \in Matrices
        BY <1>0, <2>1, ProductOfRotations, RotationRows
    <2>3. Transpose(k) = Times(q, Transpose(to))
        BY <1>1, <2>1, TransposedProduct
    <2>4. ASSUME NEW t \in Triples PROVE CopyAndTransformT(map, up, t) = TimesVector(k, t)
        BY <1>3, <2>1 DEF CopyAndTransformT, MapTFrom, to, q
    <2>5. ASSUME NEW r \in Matrices PROVE CopyAndTransformR(map, up, r) = Times(Times(k, r), Transpose(k))
        <3>1. CopyAndTransformR(map, up, r) = Times(Times(Times(k, r), q), Transpose(to))
            BY <1>3, <2>1 DEF CopyAndTransformR, MapRFrom, to, q
        <3>2. Times(k, r) \in Matrices
            BY <2>2, MatricesOfMatrices
        <3> QED
            BY <1>1, <2>3, <3>1, <3>2, ProductAssociates
    <2> QED
        BY <2>2, <2>4, <2>5
<1>4. CASE map # ServerAxes(up) /\ ~up
    <2>1. k = to
        BY <1>4 DEF Change, to
    <2> QED
        BY <1>0, <1>4, <2>1 DEF CopyAndTransformT, CopyAndTransformR, MapT, MapR, to
<1> QED
    BY <1>2, <1>3, <1>4

\* What is composed in the axes of the server is composed in those of the client.
LEMMA ChangeKeepsPoses ==
    ASSUME NEW k \in Rotations, NEW r \in Matrices, NEW n \in Matrices, NEW t \in Triples
    PROVE  LET Turned(m) == Times(Times(k, m), Transpose(k))
           IN /\ Turned(r) \in Matrices /\ TimesVector(k, t) \in Triples
              /\ TimesVector(Turned(r), TimesVector(k, t)) = TimesVector(k, TimesVector(r, t))
              /\ Times(Turned(r), Turned(n)) = Turned(Times(r, n))
<1> DEFINE b == Transpose(k)
           Turned(m) == Times(Times(k, m), b)
<1>1. k \in Matrices /\ b \in Matrices /\ Times(b, k) = NoRotation
    BY RotationRows, InverseRotation
<1> HIDE DEF b
<1>2. Times(k, r) \in Matrices /\ Times(k, n) \in Matrices /\ Turned(r) \in Matrices /\ Turned(n) \in Matrices
    BY <1>1, MatricesOfMatrices
<1>3. TimesVector(k, t) \in Triples
    BY <1>1, TriplesOfMatrix
<1>4. TimesVector(Turned(r), TimesVector(k, t)) = TimesVector(k, TimesVector(r, t))
    <2>1. TimesVector(Turned(r), TimesVector(k, t)) = TimesVector(Times(k, r), TimesVector(b, TimesVector(k, t)))
        BY <1>1, <1>2, <1>3, ProductTurns
    <2>2. TimesVector(b, TimesVector(k, t)) = t
        BY <1>1, ProductTurns, NoRotationKeeps
    <2> QED
        BY <1>1, <2>1, <2>2, ProductTurns
<1>5. Times(Turned(r), Turned(n)) = Turned(Times(r, n))
    <2>1. Times(Turned(r), Times(k, n)) = Times(k, Times(r, n))
        <3>1. Times(Turned(r), k) = Times(k, r)
            <4>1. Times(Turned(r), k) = Times(Times(k, r), Times(b, k))
                BY <1>1, <1>2, ProductAssociates
            <4> QED
                BY <1>1, <1>2, <4>1, NoRotationKeeps
        <3>2. Times(Turned(r), Times(k, n)) = Times(Times(k, r), n)
            BY <1>1, <1>2, <3>1, ProductAssociates
        <3> QED
            BY <1>1, <3>2, ProductAssociates
    <2>2. Times(Turned(r), Turned(n)) = Times(Times(Turned(r), Times(k, n)), b)
        BY <1>1, <1>2, ProductAssociates
    <2> QED
        BY <2>1, <2>2
<1> QED
    BY <1>2, <1>3, <1>4, <1>5 DEF b

\* The axes of the server are told as those that the program asked for.
LEMMA ChangeFromServer ==
    ASSUME NEW map, IsMapping(map), NEW up \in BOOLEAN
    PROVE  Times(Change(map, up), GetTransformationMatrix(ServerAxes(up))) = GetTransformationMatrix(map)
<1> DEFINE to == GetTransformationMatrix(map)
           q == GetTransformationMatrix(YUpAxes)
           z == GetTransformationMatrix(ZUpAxes)
<1>1. to \in Rotations /\ q \in Rotations /\ z \in Rotations
    BY MappingIsRotation, ServerMappings
<1>2. to \in Matrices /\ q \in Matrices /\ Transpose(q) \in Matrices /\ Times(Transpose(q), q) = NoRotation
    BY <1>1, RotationRows, InverseRotation
<1>3. z = NoRotation
    BY DEF GetTransformationMatrix, ZUpAxes, AxisOf, ComponentIndex, ComponentSign, Index, NoRotation
<1>4. CASE map = ServerAxes(up)
    BY <1>2, <1>4, NoRotationKeeps DEF Change
<1>5. CASE map # ServerAxes(up) /\ up
    <2>1. Change(map, up) = Times(to, Transpose(q)) /\ ServerAxes(up) = YUpAxes
        BY <1>5 DEF Change, ServerAxes
    <2> HIDE DEF to, q
    <2>2. Times(Times(to, Transpose(q)), q) = to
        BY <1>2, ProductAssociates, NoRotationKeeps
    <2> QED
        BY <2>1, <2>2 DEF to, q
<1>6. CASE map # ServerAxes(up) /\ ~up
    BY <1>2, <1>3, <1>6, NoRotationKeeps DEF Change, ServerAxes
<1> QED
    BY <1>4, <1>5, <1>6

\* A rotation keeps the cross product of directions, opposite and equal ones
\* too.
LEMMA RotatedCross ==
    ASSUME NEW k \in Rotations, NEW v \in UnitVectors, NEW w \in UnitVectors
    PROVE  TimesVector(k, CrossProduct(v, w)) = CrossProduct(TimesVector(k, v), TimesVector(k, w))
<1> DEFINE n == Transpose(k)
<1>1. k \in Matrices /\ n \in Rotations /\ n \in Matrices
    BY RotationRows, InverseRotation
<1>2. \A u \in Triples : TimesVector(k, u) = RowOf(u, n)
    <2> TAKE u \in Triples
    <2>1. ASSUME NEW i \in Index PROVE TimesVector(k, u)[i] = RowOf(u, n)[i]
        <3>1. n[1][i] = k[i][1] /\ n[2][i] = k[i][2] /\ n[3][i] = k[i][3]
            BY DEF Transpose, Index
        <3>2. /\ k[i][1] \in Int /\ k[i][2] \in Int /\ k[i][3] \in Int
              /\ u[1] \in Int /\ u[2] \in Int /\ u[3] \in Int
            BY <1>1, Rows, Components
        <3> HIDE DEF n
        <3> QED
            BY <3>1, <3>2 DEF TimesVector, RowOf, Sum3
    <2> QED
        BY <2>1 DEF TimesVector, RowOf
<1>3. v \in Triples /\ w \in Triples /\ CrossProduct(v, w) \in Triples
    BY SixUnitVectors, UnitTriples DEF CrossProduct, Triples, Index
<1> SUFFICES RowOf(CrossProduct(v, w), n) = CrossProduct(RowOf(v, n), RowOf(w, n))
    BY <1>2, <1>3
<1> HIDE DEF n
<1>4. CASE DotProduct(v, w) = 0
    BY <1>1, <1>4, PickedRows
<1>5. CASE DotProduct(v, w) # 0
    <2>1. CrossProduct(v, w) = <<0, 0, 0>> /\ (w = v \/ w = Opposite(v))
        BY <1>5, SixUnitVectors DEF DotProduct, CrossProduct, Sum3, Opposite, Index
    <2>2. RowOf(<<0, 0, 0>>, n) = <<0, 0, 0>>
        BY <1>1, Rows DEF RowOf, Sum3, Index
    <2>3. RowOf(w, n) \in UnitVectors /\ RowOf(v, n) \in UnitVectors
          /\ (RowOf(w, n) = RowOf(v, n) \/ RowOf(w, n) = Opposite(RowOf(v, n)))
        <3>1. /\ Opposite(<<1, 0, 0>>) = <<-1, 0, 0>> /\ Opposite(<<-1, 0, 0>>) = <<1, 0, 0>>
              /\ Opposite(<<0, 1, 0>>) = <<0, -1, 0>> /\ Opposite(<<0, -1, 0>>) = <<0, 1, 0>>
              /\ Opposite(<<0, 0, 1>>) = <<0, 0, -1>> /\ Opposite(<<0, 0, -1>>) = <<0, 0, 1>>
            BY DEF Opposite, Index
        <3> DEFINE Kept(u) == RowOf(u, n) \in UnitVectors /\ RowOf(Opposite(u), n) = Opposite(RowOf(u, n))
        <3>2. n \in Matrices /\ n[1] \in UnitVectors /\ n[2] \in UnitVectors /\ n[3] \in UnitVectors
            BY ONLY <1>1, RotationRows
        <3>3. /\ RowOf(<<1, 0, 0>>, n) = n[1] /\ RowOf(<<-1, 0, 0>>, n) = Opposite(n[1])
              /\ RowOf(<<0, 1, 0>>, n) = n[2] /\ RowOf(<<0, -1, 0>>, n) = Opposite(n[2])
              /\ RowOf(<<0, 0, 1>>, n) = n[3] /\ RowOf(<<0, 0, -1>>, n) = Opposite(n[3])
            BY ONLY <3>2, PickedRow
        <3>4. /\ Opposite(n[1]) \in UnitVectors /\ Opposite(n[2]) \in UnitVectors /\ Opposite(n[3]) \in UnitVectors
              /\ Opposite(Opposite(n[1])) = n[1] /\ Opposite(Opposite(n[2])) = n[2]
              /\ Opposite(Opposite(n[3])) = n[3]
            BY ONLY <3>2, OppositeUnits
        <3>5. Kept(<<1, 0, 0>>) /\ Kept(<<-1, 0, 0>>)
            BY ONLY <3>1, <3>2, <3>3, <3>4
        <3>6. Kept(<<0, 1, 0>>) /\ Kept(<<0, -1, 0>>)
            BY ONLY <3>1, <3>2, <3>3, <3>4
        <3>7. Kept(<<0, 0, 1>>) /\ Kept(<<0, 0, -1>>)
            BY ONLY <3>1, <3>2, <3>3, <3>4
        <3> HIDE DEF Kept
        <3>8. \A u \in UnitVectors : Kept(u)
            BY ONLY <3>5, <3>6, <3>7, SixUnitVectors
        <3> QED
            BY <2>1, <3>8 DEF Kept
    <2>4. \A a \in UnitVectors : CrossProduct(a, a) = <<0, 0, 0>> /\ CrossProduct(a, Opposite(a)) = <<0, 0, 0>>
        BY SixUnitVectors DEF CrossProduct, Opposite, Index
    <2> QED
        BY <2>1, <2>2, <2>3, <2>4
<1> QED
    BY <1>4, <1>5

\* The mapping is one that the client accepted, and the segment is turned.
AxesInv ==
    IsMapping(axes) /\ yUp \in BOOLEAN /\ rotation \in Rotations

LEMMA AxesInvInit == AxisInit => AxesInv
    BY ServerMappings, NoRotationKeeps DEF AxisInit, AxesInv, ZUpAxes

\* Only what is accepted by SetAxisMapping becomes the choice of axes.
LEMMA AxesInvNext == AxesInv /\ [AxisNext]_axisVars => AxesInv'
<1> SUFFICES ASSUME AxesInv, [AxisNext]_axisVars PROVE AxesInv'
    OBVIOUS
<1>1. ASSUME NEW x \in Direction, NEW y \in Direction, NEW z \in Direction, SetAxisMapping(x, y, z)
      PROVE  AxesInv'
    <2>1. CASE AxisMappingResult(x, y, z) = "Success"
        <3>1. axes' = <<x, y, z>> /\ UNCHANGED <<yUp, rotation>>
            BY <1>1, <2>1 DEF SetAxisMapping
        <3>2. IsMapping(<<x, y, z>>)
            BY <2>1 DEF IsMapping, Index
        <3> QED
            BY <3>1, <3>2 DEF AxesInv, IsMapping
    <2>2. CASE AxisMappingResult(x, y, z) # "Success"
        BY <1>1, <2>2 DEF SetAxisMapping, AxesInv, IsMapping
    <2> QED
        BY <2>1, <2>2
<1>2. ASSUME NEW up \in BOOLEAN, NEW r \in Rotations, FrameOf(up, r) PROVE AxesInv'
    BY <1>2 DEF FrameOf, AxesInv, IsMapping
<1>3. CASE UNCHANGED axisVars
    BY <1>3 DEF axisVars, AxesInv, IsMapping
<1> QED
    BY <1>1, <1>2, <1>3 DEF AxisNext

LEMMA WorldIsKept == AxesInv => AxesKeepTheWorld
<1> SUFFICES ASSUME AxesInv PROVE AxesKeepTheWorld
    OBVIOUS
<1> DEFINE k == Change(axes, yUp)
           s == GetTransformationMatrix(ServerAxes(yUp))
           to == GetTransformationMatrix(axes)
<1>1. /\ k \in Rotations /\ k \in Matrices
      /\ \A t \in Triples : CopyAndTransformT(axes, yUp, t) = TimesVector(k, t)
      /\ CopyAndTransformR(axes, yUp, rotation) = Times(Times(k, rotation), Transpose(k))
    BY ChangeOfAxes, RotationRows DEF AxesInv
<1>2. s \in Matrices /\ to \in Matrices /\ Times(k, s) = to
    BY ChangeFromServer, MappingIsRotation, ServerMappings, RotationRows DEF AxesInv, ServerAxes
<1>3. ASSUME NEW d \in Direction
      PROVE  CopyAndTransformT(axes, yUp, Coordinates(ServerAxes(yUp), d)) = Coordinates(axes, d)
    <2>1. AxisOf(d) \in Triples
        BY UnitTriples DEF UnitVectors
    <2>2. Coordinates(ServerAxes(yUp), d) = TimesVector(s, AxisOf(d))
        BY DEF Coordinates, TimesVector, GetTransformationMatrix, DotProduct
    <2>3. Coordinates(axes, d) = TimesVector(to, AxisOf(d))
        BY DEF Coordinates, TimesVector, GetTransformationMatrix, DotProduct
    <2> HIDE DEF k, s, to
    <2> QED
        BY <1>1, <1>2, <2>1, <2>2, <2>3, ProductTurns, TriplesOfMatrix
<1> HIDE DEF k, s, to
<1>4. ASSUME NEW v \in UnitVectors
      PROVE  CopyAndTransformT(axes, yUp, TimesVector(rotation, v)) =
             TimesVector(CopyAndTransformR(axes, yUp, rotation), CopyAndTransformT(axes, yUp, v))
    <2>1. v \in Triples /\ rotation \in Matrices /\ TimesVector(rotation, v) \in Triples
        BY UnitTriples, RotationRows, TriplesOfMatrix DEF AxesInv
    <2> QED
        BY <1>1, <2>1, ChangeKeepsPoses
<1>5. ASSUME NEW v \in UnitVectors, NEW w \in UnitVectors
      PROVE  CopyAndTransformT(axes, yUp, CrossProduct(v, w)) =
             CrossProduct(CopyAndTransformT(axes, yUp, v), CopyAndTransformT(axes, yUp, w))
    <2>1. v \in Triples /\ w \in Triples /\ CrossProduct(v, w) \in Triples
        BY SixUnitVectors, UnitTriples DEF CrossProduct, Triples, Index
    <2> QED
        BY <1>1, <2>1, RotatedCross
<1> QED
    BY <1>3, <1>4, <1>5 DEF AxesKeepTheWorld

\* Every choice of axes stays right-handed.
LEMMA AxesStay == AxisSpec => []AxesInv
    BY AxesInvInit, AxesInvNext, PTL DEF AxisSpec

\* No sequence of calls of SetAxisMapping turns the world into its mirror image:
\* the axes keep their angles and their handedness, whatever orientation of the
\* world the server reports.
THEOREM WorldIsNoMirrorImage == AxisSpec => []AxesKeepTheWorld
    BY AxesStay, WorldIsKept, PTL

-----------------------------------------------------------------------------
(* The quaternion of each of the 24 rotations.                               *)

\* There are twenty-four rotations of the axes: cases for what is computed of
\* them.
LEMMA TwentyFour ==
    ASSUME NEW m \in Rotations
    PROVE  \/ m = <<<<1, 0, 0>>, <<0, 1, 0>>, <<0, 0, 1>>>>
           \/ m = <<<<1, 0, 0>>, <<0, -1, 0>>, <<0, 0, -1>>>>
           \/ m = <<<<1, 0, 0>>, <<0, 0, 1>>, <<0, -1, 0>>>>
           \/ m = <<<<1, 0, 0>>, <<0, 0, -1>>, <<0, 1, 0>>>>
           \/ m = <<<<-1, 0, 0>>, <<0, 1, 0>>, <<0, 0, -1>>>>
           \/ m = <<<<-1, 0, 0>>, <<0, -1, 0>>, <<0, 0, 1>>>>
           \/ m = <<<<-1, 0, 0>>, <<0, 0, 1>>, <<0, 1, 0>>>>
           \/ m = <<<<-1, 0, 0>>, <<0, 0, -1>>, <<0, -1, 0>>>>
           \/ m = <<<<0, 1, 0>>, <<1, 0, 0>>, <<0, 0, -1>>>>
           \/ m = <<<<0, 1, 0>>, <<-1, 0, 0>>, <<0, 0, 1>>>>
           \/ m = <<<<0, 1, 0>>, <<0, 0, 1>>, <<1, 0, 0>>>>
           \/ m = <<<<0, 1, 0>>, <<0, 0, -1>>, <<-1, 0, 0>>>>
           \/ m = <<<<0, -1, 0>>, <<1, 0, 0>>, <<0, 0, 1>>>>
           \/ m = <<<<0, -1, 0>>, <<-1, 0, 0>>, <<0, 0, -1>>>>
           \/ m = <<<<0, -1, 0>>, <<0, 0, 1>>, <<-1, 0, 0>>>>
           \/ m = <<<<0, -1, 0>>, <<0, 0, -1>>, <<1, 0, 0>>>>
           \/ m = <<<<0, 0, 1>>, <<1, 0, 0>>, <<0, 1, 0>>>>
           \/ m = <<<<0, 0, 1>>, <<-1, 0, 0>>, <<0, -1, 0>>>>
           \/ m = <<<<0, 0, 1>>, <<0, 1, 0>>, <<-1, 0, 0>>>>
           \/ m = <<<<0, 0, 1>>, <<0, -1, 0>>, <<1, 0, 0>>>>
           \/ m = <<<<0, 0, -1>>, <<1, 0, 0>>, <<0, -1, 0>>>>
           \/ m = <<<<0, 0, -1>>, <<-1, 0, 0>>, <<0, 1, 0>>>>
           \/ m = <<<<0, 0, -1>>, <<0, 1, 0>>, <<1, 0, 0>>>>
           \/ m = <<<<0, 0, -1>>, <<0, -1, 0>>, <<-1, 0, 0>>>>
<1>1. PICK x \in UnitVectors, y \in UnitVectors :
          m = <<x, y, CrossProduct(x, y)>> /\ DotProduct(x, y) = 0
    BY DEF Rotations
<1>2. CASE x = <<1, 0, 0>>
    <2>1. y \in {<<0, 1, 0>>, <<0, -1, 0>>, <<0, 0, 1>>, <<0, 0, -1>>}
        BY <1>1, <1>2, SixUnitVectors DEF DotProduct, Sum3
    <2>2. /\ CrossProduct(<<1, 0, 0>>, <<0, 1, 0>>) = <<0, 0, 1>>
          /\ CrossProduct(<<1, 0, 0>>, <<0, -1, 0>>) = <<0, 0, -1>>
          /\ CrossProduct(<<1, 0, 0>>, <<0, 0, 1>>) = <<0, -1, 0>>
          /\ CrossProduct(<<1, 0, 0>>, <<0, 0, -1>>) = <<0, 1, 0>>
        BY DEF CrossProduct
    <2> QED
        BY ONLY <1>1, <1>2, <2>1, <2>2
<1>3. CASE x = <<-1, 0, 0>>
    <2>1. y \in {<<0, 1, 0>>, <<0, -1, 0>>, <<0, 0, 1>>, <<0, 0, -1>>}
        BY <1>1, <1>3, SixUnitVectors DEF DotProduct, Sum3
    <2>2. /\ CrossProduct(<<-1, 0, 0>>, <<0, 1, 0>>) = <<0, 0, -1>>
          /\ CrossProduct(<<-1, 0, 0>>, <<0, -1, 0>>) = <<0, 0, 1>>
          /\ CrossProduct(<<-1, 0, 0>>, <<0, 0, 1>>) = <<0, 1, 0>>
          /\ CrossProduct(<<-1, 0, 0>>, <<0, 0, -1>>) = <<0, -1, 0>>
        BY DEF CrossProduct
    <2> QED
        BY ONLY <1>1, <1>3, <2>1, <2>2
<1>4. CASE x = <<0, 1, 0>>
    <2>1. y \in {<<1, 0, 0>>, <<-1, 0, 0>>, <<0, 0, 1>>, <<0, 0, -1>>}
        BY <1>1, <1>4, SixUnitVectors DEF DotProduct, Sum3
    <2>2. /\ CrossProduct(<<0, 1, 0>>, <<1, 0, 0>>) = <<0, 0, -1>>
          /\ CrossProduct(<<0, 1, 0>>, <<-1, 0, 0>>) = <<0, 0, 1>>
          /\ CrossProduct(<<0, 1, 0>>, <<0, 0, 1>>) = <<1, 0, 0>>
          /\ CrossProduct(<<0, 1, 0>>, <<0, 0, -1>>) = <<-1, 0, 0>>
        BY DEF CrossProduct
    <2> QED
        BY ONLY <1>1, <1>4, <2>1, <2>2
<1>5. CASE x = <<0, -1, 0>>
    <2>1. y \in {<<1, 0, 0>>, <<-1, 0, 0>>, <<0, 0, 1>>, <<0, 0, -1>>}
        BY <1>1, <1>5, SixUnitVectors DEF DotProduct, Sum3
    <2>2. /\ CrossProduct(<<0, -1, 0>>, <<1, 0, 0>>) = <<0, 0, 1>>
          /\ CrossProduct(<<0, -1, 0>>, <<-1, 0, 0>>) = <<0, 0, -1>>
          /\ CrossProduct(<<0, -1, 0>>, <<0, 0, 1>>) = <<-1, 0, 0>>
          /\ CrossProduct(<<0, -1, 0>>, <<0, 0, -1>>) = <<1, 0, 0>>
        BY DEF CrossProduct
    <2> QED
        BY ONLY <1>1, <1>5, <2>1, <2>2
<1>6. CASE x = <<0, 0, 1>>
    <2>1. y \in {<<1, 0, 0>>, <<-1, 0, 0>>, <<0, 1, 0>>, <<0, -1, 0>>}
        BY <1>1, <1>6, SixUnitVectors DEF DotProduct, Sum3
    <2>2. /\ CrossProduct(<<0, 0, 1>>, <<1, 0, 0>>) = <<0, 1, 0>>
          /\ CrossProduct(<<0, 0, 1>>, <<-1, 0, 0>>) = <<0, -1, 0>>
          /\ CrossProduct(<<0, 0, 1>>, <<0, 1, 0>>) = <<-1, 0, 0>>
          /\ CrossProduct(<<0, 0, 1>>, <<0, -1, 0>>) = <<1, 0, 0>>
        BY DEF CrossProduct
    <2> QED
        BY ONLY <1>1, <1>6, <2>1, <2>2
<1>7. CASE x = <<0, 0, -1>>
    <2>1. y \in {<<1, 0, 0>>, <<-1, 0, 0>>, <<0, 1, 0>>, <<0, -1, 0>>}
        BY <1>1, <1>7, SixUnitVectors DEF DotProduct, Sum3
    <2>2. /\ CrossProduct(<<0, 0, -1>>, <<1, 0, 0>>) = <<0, -1, 0>>
          /\ CrossProduct(<<0, 0, -1>>, <<-1, 0, 0>>) = <<0, 1, 0>>
          /\ CrossProduct(<<0, 0, -1>>, <<0, 1, 0>>) = <<1, 0, 0>>
          /\ CrossProduct(<<0, 0, -1>>, <<0, -1, 0>>) = <<-1, 0, 0>>
        BY DEF CrossProduct
    <2> QED
        BY ONLY <1>1, <1>7, <2>1, <2>2
<1> QED
    BY <1>2, <1>3, <1>4, <1>5, <1>6, <1>7, SixUnitVectors

\* The quaternion that is computed of a rotation names that rotation.
LEMMA QuaternionOfRotation ==
    ASSUME NEW m \in Rotations
    PROVE  QuaternionNames(MatrixToQuaternion(m), m)
<1>1. CASE m = <<<<1, 0, 0>>, <<0, 1, 0>>, <<0, 0, 1>>>>
    <2>1. MatrixToQuaternion(<<<<1, 0, 0>>, <<0, 1, 0>>, <<0, 0, 1>>>>) = <<0, 0, 0, 4>>
        BY ONLY DEF MatrixToQuaternion, Sum3
    <2>2. QuaternionNames(<<0, 0, 0, 4>>, <<<<1, 0, 0>>, <<0, 1, 0>>, <<0, 0, 1>>>>)
        BY ONLY DEF QuaternionNames, QuaternionTimes, DotProduct, Sum3, Index
    <2> QED
        BY ONLY <1>1, <2>1, <2>2
<1>2. CASE m = <<<<1, 0, 0>>, <<0, -1, 0>>, <<0, 0, -1>>>>
    <2>1. MatrixToQuaternion(<<<<1, 0, 0>>, <<0, -1, 0>>, <<0, 0, -1>>>>) = <<4, 0, 0, 0>>
        BY ONLY DEF MatrixToQuaternion, Sum3
    <2>2. QuaternionNames(<<4, 0, 0, 0>>, <<<<1, 0, 0>>, <<0, -1, 0>>, <<0, 0, -1>>>>)
        BY ONLY DEF QuaternionNames, QuaternionTimes, DotProduct, Sum3, Index
    <2> QED
        BY ONLY <1>2, <2>1, <2>2
<1>3. CASE m = <<<<1, 0, 0>>, <<0, 0, 1>>, <<0, -1, 0>>>>
    <2>1. MatrixToQuaternion(<<<<1, 0, 0>>, <<0, 0, 1>>, <<0, -1, 0>>>>) = <<-2, 0, 0, 2>>
        BY ONLY DEF MatrixToQuaternion, Sum3
    <2>2. QuaternionNames(<<-2, 0, 0, 2>>, <<<<1, 0, 0>>, <<0, 0, 1>>, <<0, -1, 0>>>>)
        BY ONLY DEF QuaternionNames, QuaternionTimes, DotProduct, Sum3, Index
    <2> QED
        BY ONLY <1>3, <2>1, <2>2
<1>4. CASE m = <<<<1, 0, 0>>, <<0, 0, -1>>, <<0, 1, 0>>>>
    <2>1. MatrixToQuaternion(<<<<1, 0, 0>>, <<0, 0, -1>>, <<0, 1, 0>>>>) = <<2, 0, 0, 2>>
        BY ONLY DEF MatrixToQuaternion, Sum3
    <2>2. QuaternionNames(<<2, 0, 0, 2>>, <<<<1, 0, 0>>, <<0, 0, -1>>, <<0, 1, 0>>>>)
        BY ONLY DEF QuaternionNames, QuaternionTimes, DotProduct, Sum3, Index
    <2> QED
        BY ONLY <1>4, <2>1, <2>2
<1>5. CASE m = <<<<-1, 0, 0>>, <<0, 1, 0>>, <<0, 0, -1>>>>
    <2>1. MatrixToQuaternion(<<<<-1, 0, 0>>, <<0, 1, 0>>, <<0, 0, -1>>>>) = <<0, 4, 0, 0>>
        BY ONLY DEF MatrixToQuaternion, Sum3
    <2>2. QuaternionNames(<<0, 4, 0, 0>>, <<<<-1, 0, 0>>, <<0, 1, 0>>, <<0, 0, -1>>>>)
        BY ONLY DEF QuaternionNames, QuaternionTimes, DotProduct, Sum3, Index
    <2> QED
        BY ONLY <1>5, <2>1, <2>2
<1>6. CASE m = <<<<-1, 0, 0>>, <<0, -1, 0>>, <<0, 0, 1>>>>
    <2>1. MatrixToQuaternion(<<<<-1, 0, 0>>, <<0, -1, 0>>, <<0, 0, 1>>>>) = <<0, 0, 4, 0>>
        BY ONLY DEF MatrixToQuaternion, Sum3
    <2>2. QuaternionNames(<<0, 0, 4, 0>>, <<<<-1, 0, 0>>, <<0, -1, 0>>, <<0, 0, 1>>>>)
        BY ONLY DEF QuaternionNames, QuaternionTimes, DotProduct, Sum3, Index
    <2> QED
        BY ONLY <1>6, <2>1, <2>2
<1>7. CASE m = <<<<-1, 0, 0>>, <<0, 0, 1>>, <<0, 1, 0>>>>
    <2>1. MatrixToQuaternion(<<<<-1, 0, 0>>, <<0, 0, 1>>, <<0, 1, 0>>>>) = <<0, 2, 2, 0>>
        BY ONLY DEF MatrixToQuaternion, Sum3
    <2>2. QuaternionNames(<<0, 2, 2, 0>>, <<<<-1, 0, 0>>, <<0, 0, 1>>, <<0, 1, 0>>>>)
        BY ONLY DEF QuaternionNames, QuaternionTimes, DotProduct, Sum3, Index
    <2> QED
        BY ONLY <1>7, <2>1, <2>2
<1>8. CASE m = <<<<-1, 0, 0>>, <<0, 0, -1>>, <<0, -1, 0>>>>
    <2>1. MatrixToQuaternion(<<<<-1, 0, 0>>, <<0, 0, -1>>, <<0, -1, 0>>>>) = <<0, 2, -2, 0>>
        BY ONLY DEF MatrixToQuaternion, Sum3
    <2>2. QuaternionNames(<<0, 2, -2, 0>>, <<<<-1, 0, 0>>, <<0, 0, -1>>, <<0, -1, 0>>>>)
        BY ONLY DEF QuaternionNames, QuaternionTimes, DotProduct, Sum3, Index
    <2> QED
        BY ONLY <1>8, <2>1, <2>2
<1>9. CASE m = <<<<0, 1, 0>>, <<1, 0, 0>>, <<0, 0, -1>>>>
    <2>1. MatrixToQuaternion(<<<<0, 1, 0>>, <<1, 0, 0>>, <<0, 0, -1>>>>) = <<2, 2, 0, 0>>
        BY ONLY DEF MatrixToQuaternion, Sum3
    <2>2. QuaternionNames(<<2, 2, 0, 0>>, <<<<0, 1, 0>>, <<1, 0, 0>>, <<0, 0, -1>>>>)
        BY ONLY DEF QuaternionNames, QuaternionTimes, DotProduct, Sum3, Index
    <2> QED
        BY ONLY <1>9, <2>1, <2>2
<1>10. CASE m = <<<<0, 1, 0>>, <<-1, 0, 0>>, <<0, 0, 1>>>>
    <2>1. MatrixToQuaternion(<<<<0, 1, 0>>, <<-1, 0, 0>>, <<0, 0, 1>>>>) = <<0, 0, -2, 2>>
        BY ONLY DEF MatrixToQuaternion, Sum3
    <2>2. QuaternionNames(<<0, 0, -2, 2>>, <<<<0, 1, 0>>, <<-1, 0, 0>>, <<0, 0, 1>>>>)
        BY ONLY DEF QuaternionNames, QuaternionTimes, DotProduct, Sum3, Index
    <2> QED
        BY ONLY <1>10, <2>1, <2>2
<1>11. CASE m = <<<<0, 1, 0>>, <<0, 0, 1>>, <<1, 0, 0>>>>
    <2>1. MatrixToQuaternion(<<<<0, 1, 0>>, <<0, 0, 1>>, <<1, 0, 0>>>>) = <<1, 1, 1, -1>>
        BY ONLY DEF MatrixToQuaternion, Sum3
    <2>2. QuaternionNames(<<1, 1, 1, -1>>, <<<<0, 1, 0>>, <<0, 0, 1>>, <<1, 0, 0>>>>)
        BY ONLY DEF QuaternionNames, QuaternionTimes, DotProduct, Sum3, Index
    <2> QED
        BY ONLY <1>11, <2>1, <2>2
<1>12. CASE m = <<<<0, 1, 0>>, <<0, 0, -1>>, <<-1, 0, 0>>>>
    <2>1. MatrixToQuaternion(<<<<0, 1, 0>>, <<0, 0, -1>>, <<-1, 0, 0>>>>) = <<1, 1, -1, 1>>
        BY ONLY DEF MatrixToQuaternion, Sum3
    <2>2. QuaternionNames(<<1, 1, -1, 1>>, <<<<0, 1, 0>>, <<0, 0, -1>>, <<-1, 0, 0>>>>)
        BY ONLY DEF QuaternionNames, QuaternionTimes, DotProduct, Sum3, Index
    <2> QED
        BY ONLY <1>12, <2>1, <2>2
<1>13. CASE m = <<<<0, -1, 0>>, <<1, 0, 0>>, <<0, 0, 1>>>>
    <2>1. MatrixToQuaternion(<<<<0, -1, 0>>, <<1, 0, 0>>, <<0, 0, 1>>>>) = <<0, 0, 2, 2>>
        BY ONLY DEF MatrixToQuaternion, Sum3
    <2>2. QuaternionNames(<<0, 0, 2, 2>>, <<<<0, -1, 0>>, <<1, 0, 0>>, <<0, 0, 1>>>>)
        BY ONLY DEF QuaternionNames, QuaternionTimes, DotProduct, Sum3, Index
    <2> QED
        BY ONLY <1>13, <2>1, <2>2
<1>14. CASE m = <<<<0, -1, 0>>, <<-1, 0, 0>>, <<0, 0, -1>>>>
    <2>1. MatrixToQuaternion(<<<<0, -1, 0>>, <<-1, 0, 0>>, <<0, 0, -1>>>>) = <<2, -2, 0, 0>>
        BY ONLY DEF MatrixToQuaternion, Sum3
    <2>2. QuaternionNames(<<2, -2, 0, 0>>, <<<<0, -1, 0>>, <<-1, 0, 0>>, <<0, 0, -1>>>>)
        BY ONLY DEF QuaternionNames, QuaternionTimes, DotProduct, Sum3, Index
    <2> QED
        BY ONLY <1>14, <2>1, <2>2
<1>15. CASE m = <<<<0, -1, 0>>, <<0, 0, 1>>, <<-1, 0, 0>>>>
    <2>1. MatrixToQuaternion(<<<<0, -1, 0>>, <<0, 0, 1>>, <<-1, 0, 0>>>>) = <<1, -1, -1, -1>>
        BY ONLY DEF MatrixToQuaternion, Sum3
    <2>2. QuaternionNames(<<1, -1, -1, -1>>, <<<<0, -1, 0>>, <<0, 0, 1>>, <<-1, 0, 0>>>>)
        BY ONLY DEF QuaternionNames, QuaternionTimes, DotProduct, Sum3, Index
    <2> QED
        BY ONLY <1>15, <2>1, <2>2
<1>16. CASE m = <<<<0, -1, 0>>, <<0, 0, -1>>, <<1, 0, 0>>>>
    <2>1. MatrixToQuaternion(<<<<0, -1, 0>>, <<0, 0, -1>>, <<1, 0, 0>>>>) = <<1, -1, 1, 1>>
        BY ONLY DEF MatrixToQuaternion, Sum3
    <2>2. QuaternionNames(<<1, -1, 1, 1>>, <<<<0, -1, 0>>, <<0, 0, -1>>, <<1, 0, 0>>>>)
        BY ONLY DEF QuaternionNames, QuaternionTimes, DotProduct, Sum3, Index
    <2> QED
        BY ONLY <1>16, <2>1, <2>2
<1>17. CASE m = <<<<0, 0, 1>>, <<1, 0, 0>>, <<0, 1, 0>>>>
    <2>1. MatrixToQuaternion(<<<<0, 0, 1>>, <<1, 0, 0>>, <<0, 1, 0>>>>) = <<1, 1, 1, 1>>
        BY ONLY DEF MatrixToQuaternion, Sum3
    <2>2. QuaternionNames(<<1, 1, 1, 1>>, <<<<0, 0, 1>>, <<1, 0, 0>>, <<0, 1, 0>>>>)
        BY ONLY DEF QuaternionNames, QuaternionTimes, DotProduct, Sum3, Index
    <2> QED
        BY ONLY <1>17, <2>1, <2>2
<1>18. CASE m = <<<<0, 0, 1>>, <<-1, 0, 0>>, <<0, -1, 0>>>>
    <2>1. MatrixToQuaternion(<<<<0, 0, 1>>, <<-1, 0, 0>>, <<0, -1, 0>>>>) = <<1, -1, 1, -1>>
        BY ONLY DEF MatrixToQuaternion, Sum3
    <2>2. QuaternionNames(<<1, -1, 1, -1>>, <<<<0, 0, 1>>, <<-1, 0, 0>>, <<0, -1, 0>>>>)
        BY ONLY DEF QuaternionNames, QuaternionTimes, DotProduct, Sum3, Index
    <2> QED
        BY ONLY <1>18, <2>1, <2>2
<1>19. CASE m = <<<<0, 0, 1>>, <<0, 1, 0>>, <<-1, 0, 0>>>>
    <2>1. MatrixToQuaternion(<<<<0, 0, 1>>, <<0, 1, 0>>, <<-1, 0, 0>>>>) = <<0, 2, 0, 2>>
        BY ONLY DEF MatrixToQuaternion, Sum3
    <2>2. QuaternionNames(<<0, 2, 0, 2>>, <<<<0, 0, 1>>, <<0, 1, 0>>, <<-1, 0, 0>>>>)
        BY ONLY DEF QuaternionNames, QuaternionTimes, DotProduct, Sum3, Index
    <2> QED
        BY ONLY <1>19, <2>1, <2>2
<1>20. CASE m = <<<<0, 0, 1>>, <<0, -1, 0>>, <<1, 0, 0>>>>
    <2>1. MatrixToQuaternion(<<<<0, 0, 1>>, <<0, -1, 0>>, <<1, 0, 0>>>>) = <<2, 0, 2, 0>>
        BY ONLY DEF MatrixToQuaternion, Sum3
    <2>2. QuaternionNames(<<2, 0, 2, 0>>, <<<<0, 0, 1>>, <<0, -1, 0>>, <<1, 0, 0>>>>)
        BY ONLY DEF QuaternionNames, QuaternionTimes, DotProduct, Sum3, Index
    <2> QED
        BY ONLY <1>20, <2>1, <2>2
<1>21. CASE m = <<<<0, 0, -1>>, <<1, 0, 0>>, <<0, -1, 0>>>>
    <2>1. MatrixToQuaternion(<<<<0, 0, -1>>, <<1, 0, 0>>, <<0, -1, 0>>>>) = <<1, 1, -1, -1>>
        BY ONLY DEF MatrixToQuaternion, Sum3
    <2>2. QuaternionNames(<<1, 1, -1, -1>>, <<<<0, 0, -1>>, <<1, 0, 0>>, <<0, -1, 0>>>>)
        BY ONLY DEF QuaternionNames, QuaternionTimes, DotProduct, Sum3, Index
    <2> QED
        BY ONLY <1>21, <2>1, <2>2
<1>22. CASE m = <<<<0, 0, -1>>, <<-1, 0, 0>>, <<0, 1, 0>>>>
    <2>1. MatrixToQuaternion(<<<<0, 0, -1>>, <<-1, 0, 0>>, <<0, 1, 0>>>>) = <<1, -1, -1, 1>>
        BY ONLY DEF MatrixToQuaternion, Sum3
    <2>2. QuaternionNames(<<1, -1, -1, 1>>, <<<<0, 0, -1>>, <<-1, 0, 0>>, <<0, 1, 0>>>>)
        BY ONLY DEF QuaternionNames, QuaternionTimes, DotProduct, Sum3, Index
    <2> QED
        BY ONLY <1>22, <2>1, <2>2
<1>23. CASE m = <<<<0, 0, -1>>, <<0, 1, 0>>, <<1, 0, 0>>>>
    <2>1. MatrixToQuaternion(<<<<0, 0, -1>>, <<0, 1, 0>>, <<1, 0, 0>>>>) = <<0, -2, 0, 2>>
        BY ONLY DEF MatrixToQuaternion, Sum3
    <2>2. QuaternionNames(<<0, -2, 0, 2>>, <<<<0, 0, -1>>, <<0, 1, 0>>, <<1, 0, 0>>>>)
        BY ONLY DEF QuaternionNames, QuaternionTimes, DotProduct, Sum3, Index
    <2> QED
        BY ONLY <1>23, <2>1, <2>2
<1>24. CASE m = <<<<0, 0, -1>>, <<0, -1, 0>>, <<-1, 0, 0>>>>
    <2>1. MatrixToQuaternion(<<<<0, 0, -1>>, <<0, -1, 0>>, <<-1, 0, 0>>>>) = <<2, 0, -2, 0>>
        BY ONLY DEF MatrixToQuaternion, Sum3
    <2>2. QuaternionNames(<<2, 0, -2, 0>>, <<<<0, 0, -1>>, <<0, -1, 0>>, <<-1, 0, 0>>>>)
        BY ONLY DEF QuaternionNames, QuaternionTimes, DotProduct, Sum3, Index
    <2> QED
        BY ONLY <1>24, <2>1, <2>2
<1> QED
    BY ONLY m \in Rotations, TwentyFour, <1>1, <1>2, <1>3, <1>4, <1>5, <1>6, <1>7, <1>8, <1>9, <1>10, <1>11, <1>12, <1>13, <1>14, <1>15, <1>16, <1>17, <1>18, <1>19, <1>20, <1>21, <1>22, <1>23, <1>24

\* The rotations about an axis of coordinates, each by one, two or three turns.
OneAxis(i, q) == HelicalToMatrix([j \in Index |-> IF i = j THEN 1 ELSE 0], q)

LEMMA SinBackwards == Sin(-1) = -1
<1>1. ASSUME NEW x \in Int, x = -1 PROVE Sin(x) = -1
    <2>1. (x + 4) % 4 = x % 4
        BY ONLY x \in Int
    <2>2. x + 4 = 3 /\ 3 % 4 = 3
        BY <1>1
    <2>3. x % 4 = 3
        BY ONLY <2>1, <2>2
    <2>4. <<0, 1, 0, -1>>[3 + 1] = -1
        OBVIOUS
    <2> QED
        BY ONLY <2>3, <2>4 DEF Sin
<1>2. -1 \in Int
    OBVIOUS
<1>3. \A x \in Int : x = -1 => Sin(x) = -1
    BY <1>1
<1> QED
    BY ONLY <1>2, <1>3, Zenon

\* The quarter turns about the three axes.
LEMMA OneAxisTurns ==
    /\ OneAxis(1, -1) = <<<<1, 0, 0>>, <<0, 0, 1>>, <<0, -1, 0>>>>
    /\ OneAxis(1, 0) = <<<<1, 0, 0>>, <<0, 1, 0>>, <<0, 0, 1>>>>
    /\ OneAxis(1, 1) = <<<<1, 0, 0>>, <<0, 0, -1>>, <<0, 1, 0>>>>
    /\ OneAxis(1, 2) = <<<<1, 0, 0>>, <<0, -1, 0>>, <<0, 0, -1>>>>
    /\ OneAxis(2, -1) = <<<<0, 0, -1>>, <<0, 1, 0>>, <<1, 0, 0>>>>
    /\ OneAxis(2, 0) = <<<<1, 0, 0>>, <<0, 1, 0>>, <<0, 0, 1>>>>
    /\ OneAxis(2, 1) = <<<<0, 0, 1>>, <<0, 1, 0>>, <<-1, 0, 0>>>>
    /\ OneAxis(2, 2) = <<<<-1, 0, 0>>, <<0, 1, 0>>, <<0, 0, -1>>>>
    /\ OneAxis(3, -1) = <<<<0, 1, 0>>, <<-1, 0, 0>>, <<0, 0, 1>>>>
    /\ OneAxis(3, 0) = <<<<1, 0, 0>>, <<0, 1, 0>>, <<0, 0, 1>>>>
    /\ OneAxis(3, 1) = <<<<0, -1, 0>>, <<1, 0, 0>>, <<0, 0, 1>>>>
    /\ OneAxis(3, 2) = <<<<-1, 0, 0>>, <<0, -1, 0>>, <<0, 0, 1>>>>
<1>1. /\ [j \in Index |-> IF 1 = j THEN 1 ELSE 0] = <<1, 0, 0>>
      /\ [j \in Index |-> IF 2 = j THEN 1 ELSE 0] = <<0, 1, 0>>
      /\ [j \in Index |-> IF 3 = j THEN 1 ELSE 0] = <<0, 0, 1>>
    BY ONLY DEF Index
<1>2. /\ Sin(-1) = -1 /\ Sin(1) = 1 /\ Sin(2) = 0
      /\ Cos(-1) = 0 /\ Cos(1) = 0 /\ Cos(2) = -1
    <2>1. 0 % 4 = 0 /\ 1 % 4 = 1 /\ 2 % 4 = 2 /\ 3 % 4 = 3 /\ -1 + 1 = 0
        OBVIOUS
    <2>2. Sin(0) = 0 /\ Sin(1) = 1 /\ Sin(2) = 0 /\ Sin(3) = -1 /\ Sin(-1) = -1
        BY ONLY <2>1, SinBackwards DEF Sin
    <2>3. Cos(-1) = Sin(-1 + 1) /\ Cos(1) = Sin(2) /\ Cos(2) = Sin(3)
        BY ONLY DEF Cos
    <2> QED
        BY ONLY <2>1, <2>2, <2>3
<1>3. HelicalToMatrix(<<1, 0, 0>>, -1) = <<<<1, 0, 0>>, <<0, 0, 1>>, <<0, -1, 0>>>>
    BY ONLY <1>2 DEF HelicalToMatrix, NoRotation
<1>4. HelicalToMatrix(<<1, 0, 0>>, 0) = <<<<1, 0, 0>>, <<0, 1, 0>>, <<0, 0, 1>>>>
    BY ONLY <1>2 DEF HelicalToMatrix, NoRotation
<1>5. HelicalToMatrix(<<1, 0, 0>>, 1) = <<<<1, 0, 0>>, <<0, 0, -1>>, <<0, 1, 0>>>>
    BY ONLY <1>2 DEF HelicalToMatrix, NoRotation
<1>6. HelicalToMatrix(<<1, 0, 0>>, 2) = <<<<1, 0, 0>>, <<0, -1, 0>>, <<0, 0, -1>>>>
    BY ONLY <1>2 DEF HelicalToMatrix, NoRotation
<1>7. HelicalToMatrix(<<0, 1, 0>>, -1) = <<<<0, 0, -1>>, <<0, 1, 0>>, <<1, 0, 0>>>>
    BY ONLY <1>2 DEF HelicalToMatrix, NoRotation
<1>8. HelicalToMatrix(<<0, 1, 0>>, 0) = <<<<1, 0, 0>>, <<0, 1, 0>>, <<0, 0, 1>>>>
    BY ONLY <1>2 DEF HelicalToMatrix, NoRotation
<1>9. HelicalToMatrix(<<0, 1, 0>>, 1) = <<<<0, 0, 1>>, <<0, 1, 0>>, <<-1, 0, 0>>>>
    BY ONLY <1>2 DEF HelicalToMatrix, NoRotation
<1>10. HelicalToMatrix(<<0, 1, 0>>, 2) = <<<<-1, 0, 0>>, <<0, 1, 0>>, <<0, 0, -1>>>>
    BY ONLY <1>2 DEF HelicalToMatrix, NoRotation
<1>11. HelicalToMatrix(<<0, 0, 1>>, -1) = <<<<0, 1, 0>>, <<-1, 0, 0>>, <<0, 0, 1>>>>
    BY ONLY <1>2 DEF HelicalToMatrix, NoRotation
<1>12. HelicalToMatrix(<<0, 0, 1>>, 0) = <<<<1, 0, 0>>, <<0, 1, 0>>, <<0, 0, 1>>>>
    BY ONLY <1>2 DEF HelicalToMatrix, NoRotation
<1>13. HelicalToMatrix(<<0, 0, 1>>, 1) = <<<<0, -1, 0>>, <<1, 0, 0>>, <<0, 0, 1>>>>
    BY ONLY <1>2 DEF HelicalToMatrix, NoRotation
<1>14. HelicalToMatrix(<<0, 0, 1>>, 2) = <<<<-1, 0, 0>>, <<0, -1, 0>>, <<0, 0, 1>>>>
    BY ONLY <1>2 DEF HelicalToMatrix, NoRotation
<1> QED
    BY ONLY <1>1, <1>3, <1>4, <1>5, <1>6, <1>7, <1>8, <1>9, <1>10, <1>11, <1>12, <1>13, <1>14 DEF OneAxis

\* The Euler angles name the matrix again, but where the middle one is -90
\* degrees.
EulerNames(m) ==
    LET e == MatrixToEulerXYZ(m)
    IN e[2] # -1 => Times(Times(OneAxis(1, e[1]), OneAxis(2, e[2])), OneAxis(3, e[3])) = m

LEMMA EulerOfRotation ==
    ASSUME NEW m \in Rotations
    PROVE  EulerNames(m)
<1>1. CASE m = <<<<1, 0, 0>>, <<0, 1, 0>>, <<0, 0, 1>>>>
    <2>1. MatrixToEulerXYZ(<<<<1, 0, 0>>, <<0, 1, 0>>, <<0, 0, 1>>>>) = <<0, 0, 0>>
        BY ONLY DEF MatrixToEulerXYZ, ArcTan
    <2>2. Times(<<<<1, 0, 0>>, <<0, 1, 0>>, <<0, 0, 1>>>>, <<<<1, 0, 0>>, <<0, 1, 0>>, <<0, 0, 1>>>>) = <<<<1, 0, 0>>, <<0, 1, 0>>, <<0, 0, 1>>>>
        BY ONLY DEF Times, Sum3, Index
    <2>3. Times(<<<<1, 0, 0>>, <<0, 1, 0>>, <<0, 0, 1>>>>, <<<<1, 0, 0>>, <<0, 1, 0>>, <<0, 0, 1>>>>) = <<<<1, 0, 0>>, <<0, 1, 0>>, <<0, 0, 1>>>>
        BY ONLY DEF Times, Sum3, Index
    <2>4. OneAxis(1, 0) = <<<<1, 0, 0>>, <<0, 1, 0>>, <<0, 0, 1>>>> /\ OneAxis(2, 0) = <<<<1, 0, 0>>, <<0, 1, 0>>, <<0, 0, 1>>>> /\ OneAxis(3, 0) = <<<<1, 0, 0>>, <<0, 1, 0>>, <<0, 0, 1>>>>
        BY ONLY OneAxisTurns
    <2> QED
        BY ONLY <1>1, <2>1, <2>2, <2>3, <2>4 DEF EulerNames
<1>2. CASE m = <<<<1, 0, 0>>, <<0, -1, 0>>, <<0, 0, -1>>>>
    <2>1. MatrixToEulerXYZ(<<<<1, 0, 0>>, <<0, -1, 0>>, <<0, 0, -1>>>>) = <<2, 0, 0>>
        BY ONLY DEF MatrixToEulerXYZ, ArcTan
    <2>2. Times(<<<<1, 0, 0>>, <<0, -1, 0>>, <<0, 0, -1>>>>, <<<<1, 0, 0>>, <<0, 1, 0>>, <<0, 0, 1>>>>) = <<<<1, 0, 0>>, <<0, -1, 0>>, <<0, 0, -1>>>>
        BY ONLY DEF Times, Sum3, Index
    <2>3. Times(<<<<1, 0, 0>>, <<0, -1, 0>>, <<0, 0, -1>>>>, <<<<1, 0, 0>>, <<0, 1, 0>>, <<0, 0, 1>>>>) = <<<<1, 0, 0>>, <<0, -1, 0>>, <<0, 0, -1>>>>
        BY ONLY DEF Times, Sum3, Index
    <2>4. OneAxis(1, 2) = <<<<1, 0, 0>>, <<0, -1, 0>>, <<0, 0, -1>>>> /\ OneAxis(2, 0) = <<<<1, 0, 0>>, <<0, 1, 0>>, <<0, 0, 1>>>> /\ OneAxis(3, 0) = <<<<1, 0, 0>>, <<0, 1, 0>>, <<0, 0, 1>>>>
        BY ONLY OneAxisTurns
    <2> QED
        BY ONLY <1>2, <2>1, <2>2, <2>3, <2>4 DEF EulerNames
<1>3. CASE m = <<<<1, 0, 0>>, <<0, 0, 1>>, <<0, -1, 0>>>>
    <2>1. MatrixToEulerXYZ(<<<<1, 0, 0>>, <<0, 0, 1>>, <<0, -1, 0>>>>) = <<-1, 0, 0>>
        BY ONLY DEF MatrixToEulerXYZ, ArcTan
    <2>2. Times(<<<<1, 0, 0>>, <<0, 0, 1>>, <<0, -1, 0>>>>, <<<<1, 0, 0>>, <<0, 1, 0>>, <<0, 0, 1>>>>) = <<<<1, 0, 0>>, <<0, 0, 1>>, <<0, -1, 0>>>>
        BY ONLY DEF Times, Sum3, Index
    <2>3. Times(<<<<1, 0, 0>>, <<0, 0, 1>>, <<0, -1, 0>>>>, <<<<1, 0, 0>>, <<0, 1, 0>>, <<0, 0, 1>>>>) = <<<<1, 0, 0>>, <<0, 0, 1>>, <<0, -1, 0>>>>
        BY ONLY DEF Times, Sum3, Index
    <2>4. OneAxis(1, -1) = <<<<1, 0, 0>>, <<0, 0, 1>>, <<0, -1, 0>>>> /\ OneAxis(2, 0) = <<<<1, 0, 0>>, <<0, 1, 0>>, <<0, 0, 1>>>> /\ OneAxis(3, 0) = <<<<1, 0, 0>>, <<0, 1, 0>>, <<0, 0, 1>>>>
        BY ONLY OneAxisTurns
    <2> QED
        BY ONLY <1>3, <2>1, <2>2, <2>3, <2>4 DEF EulerNames
<1>4. CASE m = <<<<1, 0, 0>>, <<0, 0, -1>>, <<0, 1, 0>>>>
    <2>1. MatrixToEulerXYZ(<<<<1, 0, 0>>, <<0, 0, -1>>, <<0, 1, 0>>>>) = <<1, 0, 0>>
        BY ONLY DEF MatrixToEulerXYZ, ArcTan
    <2>2. Times(<<<<1, 0, 0>>, <<0, 0, -1>>, <<0, 1, 0>>>>, <<<<1, 0, 0>>, <<0, 1, 0>>, <<0, 0, 1>>>>) = <<<<1, 0, 0>>, <<0, 0, -1>>, <<0, 1, 0>>>>
        BY ONLY DEF Times, Sum3, Index
    <2>3. Times(<<<<1, 0, 0>>, <<0, 0, -1>>, <<0, 1, 0>>>>, <<<<1, 0, 0>>, <<0, 1, 0>>, <<0, 0, 1>>>>) = <<<<1, 0, 0>>, <<0, 0, -1>>, <<0, 1, 0>>>>
        BY ONLY DEF Times, Sum3, Index
    <2>4. OneAxis(1, 1) = <<<<1, 0, 0>>, <<0, 0, -1>>, <<0, 1, 0>>>> /\ OneAxis(2, 0) = <<<<1, 0, 0>>, <<0, 1, 0>>, <<0, 0, 1>>>> /\ OneAxis(3, 0) = <<<<1, 0, 0>>, <<0, 1, 0>>, <<0, 0, 1>>>>
        BY ONLY OneAxisTurns
    <2> QED
        BY ONLY <1>4, <2>1, <2>2, <2>3, <2>4 DEF EulerNames
<1>5. CASE m = <<<<-1, 0, 0>>, <<0, 1, 0>>, <<0, 0, -1>>>>
    <2>1. MatrixToEulerXYZ(<<<<-1, 0, 0>>, <<0, 1, 0>>, <<0, 0, -1>>>>) = <<2, 0, 2>>
        BY ONLY DEF MatrixToEulerXYZ, ArcTan
    <2>2. Times(<<<<1, 0, 0>>, <<0, -1, 0>>, <<0, 0, -1>>>>, <<<<1, 0, 0>>, <<0, 1, 0>>, <<0, 0, 1>>>>) = <<<<1, 0, 0>>, <<0, -1, 0>>, <<0, 0, -1>>>>
        BY ONLY DEF Times, Sum3, Index
    <2>3. Times(<<<<1, 0, 0>>, <<0, -1, 0>>, <<0, 0, -1>>>>, <<<<-1, 0, 0>>, <<0, -1, 0>>, <<0, 0, 1>>>>) = <<<<-1, 0, 0>>, <<0, 1, 0>>, <<0, 0, -1>>>>
        BY ONLY DEF Times, Sum3, Index
    <2>4. OneAxis(1, 2) = <<<<1, 0, 0>>, <<0, -1, 0>>, <<0, 0, -1>>>> /\ OneAxis(2, 0) = <<<<1, 0, 0>>, <<0, 1, 0>>, <<0, 0, 1>>>> /\ OneAxis(3, 2) = <<<<-1, 0, 0>>, <<0, -1, 0>>, <<0, 0, 1>>>>
        BY ONLY OneAxisTurns
    <2> QED
        BY ONLY <1>5, <2>1, <2>2, <2>3, <2>4 DEF EulerNames
<1>6. CASE m = <<<<-1, 0, 0>>, <<0, -1, 0>>, <<0, 0, 1>>>>
    <2>1. MatrixToEulerXYZ(<<<<-1, 0, 0>>, <<0, -1, 0>>, <<0, 0, 1>>>>) = <<0, 0, 2>>
        BY ONLY DEF MatrixToEulerXYZ, ArcTan
    <2>2. Times(<<<<1, 0, 0>>, <<0, 1, 0>>, <<0, 0, 1>>>>, <<<<1, 0, 0>>, <<0, 1, 0>>, <<0, 0, 1>>>>) = <<<<1, 0, 0>>, <<0, 1, 0>>, <<0, 0, 1>>>>
        BY ONLY DEF Times, Sum3, Index
    <2>3. Times(<<<<1, 0, 0>>, <<0, 1, 0>>, <<0, 0, 1>>>>, <<<<-1, 0, 0>>, <<0, -1, 0>>, <<0, 0, 1>>>>) = <<<<-1, 0, 0>>, <<0, -1, 0>>, <<0, 0, 1>>>>
        BY ONLY DEF Times, Sum3, Index
    <2>4. OneAxis(1, 0) = <<<<1, 0, 0>>, <<0, 1, 0>>, <<0, 0, 1>>>> /\ OneAxis(2, 0) = <<<<1, 0, 0>>, <<0, 1, 0>>, <<0, 0, 1>>>> /\ OneAxis(3, 2) = <<<<-1, 0, 0>>, <<0, -1, 0>>, <<0, 0, 1>>>>
        BY ONLY OneAxisTurns
    <2> QED
        BY ONLY <1>6, <2>1, <2>2, <2>3, <2>4 DEF EulerNames
<1>7. CASE m = <<<<-1, 0, 0>>, <<0, 0, 1>>, <<0, 1, 0>>>>
    <2>1. MatrixToEulerXYZ(<<<<-1, 0, 0>>, <<0, 0, 1>>, <<0, 1, 0>>>>) = <<-1, 0, 2>>
        BY ONLY DEF MatrixToEulerXYZ, ArcTan
    <2>2. Times(<<<<1, 0, 0>>, <<0, 0, 1>>, <<0, -1, 0>>>>, <<<<1, 0, 0>>, <<0, 1, 0>>, <<0, 0, 1>>>>) = <<<<1, 0, 0>>, <<0, 0, 1>>, <<0, -1, 0>>>>
        BY ONLY DEF Times, Sum3, Index
    <2>3. Times(<<<<1, 0, 0>>, <<0, 0, 1>>, <<0, -1, 0>>>>, <<<<-1, 0, 0>>, <<0, -1, 0>>, <<0, 0, 1>>>>) = <<<<-1, 0, 0>>, <<0, 0, 1>>, <<0, 1, 0>>>>
        BY ONLY DEF Times, Sum3, Index
    <2>4. OneAxis(1, -1) = <<<<1, 0, 0>>, <<0, 0, 1>>, <<0, -1, 0>>>> /\ OneAxis(2, 0) = <<<<1, 0, 0>>, <<0, 1, 0>>, <<0, 0, 1>>>> /\ OneAxis(3, 2) = <<<<-1, 0, 0>>, <<0, -1, 0>>, <<0, 0, 1>>>>
        BY ONLY OneAxisTurns
    <2> QED
        BY ONLY <1>7, <2>1, <2>2, <2>3, <2>4 DEF EulerNames
<1>8. CASE m = <<<<-1, 0, 0>>, <<0, 0, -1>>, <<0, -1, 0>>>>
    <2>1. MatrixToEulerXYZ(<<<<-1, 0, 0>>, <<0, 0, -1>>, <<0, -1, 0>>>>) = <<1, 0, 2>>
        BY ONLY DEF MatrixToEulerXYZ, ArcTan
    <2>2. Times(<<<<1, 0, 0>>, <<0, 0, -1>>, <<0, 1, 0>>>>, <<<<1, 0, 0>>, <<0, 1, 0>>, <<0, 0, 1>>>>) = <<<<1, 0, 0>>, <<0, 0, -1>>, <<0, 1, 0>>>>
        BY ONLY DEF Times, Sum3, Index
    <2>3. Times(<<<<1, 0, 0>>, <<0, 0, -1>>, <<0, 1, 0>>>>, <<<<-1, 0, 0>>, <<0, -1, 0>>, <<0, 0, 1>>>>) = <<<<-1, 0, 0>>, <<0, 0, -1>>, <<0, -1, 0>>>>
        BY ONLY DEF Times, Sum3, Index
    <2>4. OneAxis(1, 1) = <<<<1, 0, 0>>, <<0, 0, -1>>, <<0, 1, 0>>>> /\ OneAxis(2, 0) = <<<<1, 0, 0>>, <<0, 1, 0>>, <<0, 0, 1>>>> /\ OneAxis(3, 2) = <<<<-1, 0, 0>>, <<0, -1, 0>>, <<0, 0, 1>>>>
        BY ONLY OneAxisTurns
    <2> QED
        BY ONLY <1>8, <2>1, <2>2, <2>3, <2>4 DEF EulerNames
<1>9. CASE m = <<<<0, 1, 0>>, <<1, 0, 0>>, <<0, 0, -1>>>>
    <2>1. MatrixToEulerXYZ(<<<<0, 1, 0>>, <<1, 0, 0>>, <<0, 0, -1>>>>) = <<2, 0, -1>>
        BY ONLY DEF MatrixToEulerXYZ, ArcTan
    <2>2. Times(<<<<1, 0, 0>>, <<0, -1, 0>>, <<0, 0, -1>>>>, <<<<1, 0, 0>>, <<0, 1, 0>>, <<0, 0, 1>>>>) = <<<<1, 0, 0>>, <<0, -1, 0>>, <<0, 0, -1>>>>
        BY ONLY DEF Times, Sum3, Index
    <2>3. Times(<<<<1, 0, 0>>, <<0, -1, 0>>, <<0, 0, -1>>>>, <<<<0, 1, 0>>, <<-1, 0, 0>>, <<0, 0, 1>>>>) = <<<<0, 1, 0>>, <<1, 0, 0>>, <<0, 0, -1>>>>
        BY ONLY DEF Times, Sum3, Index
    <2>4. OneAxis(1, 2) = <<<<1, 0, 0>>, <<0, -1, 0>>, <<0, 0, -1>>>> /\ OneAxis(2, 0) = <<<<1, 0, 0>>, <<0, 1, 0>>, <<0, 0, 1>>>> /\ OneAxis(3, -1) = <<<<0, 1, 0>>, <<-1, 0, 0>>, <<0, 0, 1>>>>
        BY ONLY OneAxisTurns
    <2> QED
        BY ONLY <1>9, <2>1, <2>2, <2>3, <2>4 DEF EulerNames
<1>10. CASE m = <<<<0, 1, 0>>, <<-1, 0, 0>>, <<0, 0, 1>>>>
    <2>1. MatrixToEulerXYZ(<<<<0, 1, 0>>, <<-1, 0, 0>>, <<0, 0, 1>>>>) = <<0, 0, -1>>
        BY ONLY DEF MatrixToEulerXYZ, ArcTan
    <2>2. Times(<<<<1, 0, 0>>, <<0, 1, 0>>, <<0, 0, 1>>>>, <<<<1, 0, 0>>, <<0, 1, 0>>, <<0, 0, 1>>>>) = <<<<1, 0, 0>>, <<0, 1, 0>>, <<0, 0, 1>>>>
        BY ONLY DEF Times, Sum3, Index
    <2>3. Times(<<<<1, 0, 0>>, <<0, 1, 0>>, <<0, 0, 1>>>>, <<<<0, 1, 0>>, <<-1, 0, 0>>, <<0, 0, 1>>>>) = <<<<0, 1, 0>>, <<-1, 0, 0>>, <<0, 0, 1>>>>
        BY ONLY DEF Times, Sum3, Index
    <2>4. OneAxis(1, 0) = <<<<1, 0, 0>>, <<0, 1, 0>>, <<0, 0, 1>>>> /\ OneAxis(2, 0) = <<<<1, 0, 0>>, <<0, 1, 0>>, <<0, 0, 1>>>> /\ OneAxis(3, -1) = <<<<0, 1, 0>>, <<-1, 0, 0>>, <<0, 0, 1>>>>
        BY ONLY OneAxisTurns
    <2> QED
        BY ONLY <1>10, <2>1, <2>2, <2>3, <2>4 DEF EulerNames
<1>11. CASE m = <<<<0, 1, 0>>, <<0, 0, 1>>, <<1, 0, 0>>>>
    <2>1. MatrixToEulerXYZ(<<<<0, 1, 0>>, <<0, 0, 1>>, <<1, 0, 0>>>>) = <<-1, 0, -1>>
        BY ONLY DEF MatrixToEulerXYZ, ArcTan
    <2>2. Times(<<<<1, 0, 0>>, <<0, 0, 1>>, <<0, -1, 0>>>>, <<<<1, 0, 0>>, <<0, 1, 0>>, <<0, 0, 1>>>>) = <<<<1, 0, 0>>, <<0, 0, 1>>, <<0, -1, 0>>>>
        BY ONLY DEF Times, Sum3, Index
    <2>3. Times(<<<<1, 0, 0>>, <<0, 0, 1>>, <<0, -1, 0>>>>, <<<<0, 1, 0>>, <<-1, 0, 0>>, <<0, 0, 1>>>>) = <<<<0, 1, 0>>, <<0, 0, 1>>, <<1, 0, 0>>>>
        BY ONLY DEF Times, Sum3, Index
    <2>4. OneAxis(1, -1) = <<<<1, 0, 0>>, <<0, 0, 1>>, <<0, -1, 0>>>> /\ OneAxis(2, 0) = <<<<1, 0, 0>>, <<0, 1, 0>>, <<0, 0, 1>>>> /\ OneAxis(3, -1) = <<<<0, 1, 0>>, <<-1, 0, 0>>, <<0, 0, 1>>>>
        BY ONLY OneAxisTurns
    <2> QED
        BY ONLY <1>11, <2>1, <2>2, <2>3, <2>4 DEF EulerNames
<1>12. CASE m = <<<<0, 1, 0>>, <<0, 0, -1>>, <<-1, 0, 0>>>>
    <2>1. MatrixToEulerXYZ(<<<<0, 1, 0>>, <<0, 0, -1>>, <<-1, 0, 0>>>>) = <<1, 0, -1>>
        BY ONLY DEF MatrixToEulerXYZ, ArcTan
    <2>2. Times(<<<<1, 0, 0>>, <<0, 0, -1>>, <<0, 1, 0>>>>, <<<<1, 0, 0>>, <<0, 1, 0>>, <<0, 0, 1>>>>) = <<<<1, 0, 0>>, <<0, 0, -1>>, <<0, 1, 0>>>>
        BY ONLY DEF Times, Sum3, Index
    <2>3. Times(<<<<1, 0, 0>>, <<0, 0, -1>>, <<0, 1, 0>>>>, <<<<0, 1, 0>>, <<-1, 0, 0>>, <<0, 0, 1>>>>) = <<<<0, 1, 0>>, <<0, 0, -1>>, <<-1, 0, 0>>>>
        BY ONLY DEF Times, Sum3, Index
    <2>4. OneAxis(1, 1) = <<<<1, 0, 0>>, <<0, 0, -1>>, <<0, 1, 0>>>> /\ OneAxis(2, 0) = <<<<1, 0, 0>>, <<0, 1, 0>>, <<0, 0, 1>>>> /\ OneAxis(3, -1) = <<<<0, 1, 0>>, <<-1, 0, 0>>, <<0, 0, 1>>>>
        BY ONLY OneAxisTurns
    <2> QED
        BY ONLY <1>12, <2>1, <2>2, <2>3, <2>4 DEF EulerNames
<1>13. CASE m = <<<<0, -1, 0>>, <<1, 0, 0>>, <<0, 0, 1>>>>
    <2>1. MatrixToEulerXYZ(<<<<0, -1, 0>>, <<1, 0, 0>>, <<0, 0, 1>>>>) = <<0, 0, 1>>
        BY ONLY DEF MatrixToEulerXYZ, ArcTan
    <2>2. Times(<<<<1, 0, 0>>, <<0, 1, 0>>, <<0, 0, 1>>>>, <<<<1, 0, 0>>, <<0, 1, 0>>, <<0, 0, 1>>>>) = <<<<1, 0, 0>>, <<0, 1, 0>>, <<0, 0, 1>>>>
        BY ONLY DEF Times, Sum3, Index
    <2>3. Times(<<<<1, 0, 0>>, <<0, 1, 0>>, <<0, 0, 1>>>>, <<<<0, -1, 0>>, <<1, 0, 0>>, <<0, 0, 1>>>>) = <<<<0, -1, 0>>, <<1, 0, 0>>, <<0, 0, 1>>>>
        BY ONLY DEF Times, Sum3, Index
    <2>4. OneAxis(1, 0) = <<<<1, 0, 0>>, <<0, 1, 0>>, <<0, 0, 1>>>> /\ OneAxis(2, 0) = <<<<1, 0, 0>>, <<0, 1, 0>>, <<0, 0, 1>>>> /\ OneAxis(3, 1) = <<<<0, -1, 0>>, <<1, 0, 0>>, <<0, 0, 1>>>>
        BY ONLY OneAxisTurns
    <2> QED
        BY ONLY <1>13, <2>1, <2>2, <2>3, <2>4 DEF EulerNames
<1>14. CASE m = <<<<0, -1, 0>>, <<-1, 0, 0>>, <<0, 0, -1>>>>
    <2>1. MatrixToEulerXYZ(<<<<0, -1, 0>>, <<-1, 0, 0>>, <<0, 0, -1>>>>) = <<2, 0, 1>>
        BY ONLY DEF MatrixToEulerXYZ, ArcTan
    <2>2. Times(<<<<1, 0, 0>>, <<0, -1, 0>>, <<0, 0, -1>>>>, <<<<1, 0, 0>>, <<0, 1, 0>>, <<0, 0, 1>>>>) = <<<<1, 0, 0>>, <<0, -1, 0>>, <<0, 0, -1>>>>
        BY ONLY DEF Times, Sum3, Index
    <2>3. Times(<<<<1, 0, 0>>, <<0, -1, 0>>, <<0, 0, -1>>>>, <<<<0, -1, 0>>, <<1, 0, 0>>, <<0, 0, 1>>>>) = <<<<0, -1, 0>>, <<-1, 0, 0>>, <<0, 0, -1>>>>
        BY ONLY DEF Times, Sum3, Index
    <2>4. OneAxis(1, 2) = <<<<1, 0, 0>>, <<0, -1, 0>>, <<0, 0, -1>>>> /\ OneAxis(2, 0) = <<<<1, 0, 0>>, <<0, 1, 0>>, <<0, 0, 1>>>> /\ OneAxis(3, 1) = <<<<0, -1, 0>>, <<1, 0, 0>>, <<0, 0, 1>>>>
        BY ONLY OneAxisTurns
    <2> QED
        BY ONLY <1>14, <2>1, <2>2, <2>3, <2>4 DEF EulerNames
<1>15. CASE m = <<<<0, -1, 0>>, <<0, 0, 1>>, <<-1, 0, 0>>>>
    <2>1. MatrixToEulerXYZ(<<<<0, -1, 0>>, <<0, 0, 1>>, <<-1, 0, 0>>>>) = <<-1, 0, 1>>
        BY ONLY DEF MatrixToEulerXYZ, ArcTan
    <2>2. Times(<<<<1, 0, 0>>, <<0, 0, 1>>, <<0, -1, 0>>>>, <<<<1, 0, 0>>, <<0, 1, 0>>, <<0, 0, 1>>>>) = <<<<1, 0, 0>>, <<0, 0, 1>>, <<0, -1, 0>>>>
        BY ONLY DEF Times, Sum3, Index
    <2>3. Times(<<<<1, 0, 0>>, <<0, 0, 1>>, <<0, -1, 0>>>>, <<<<0, -1, 0>>, <<1, 0, 0>>, <<0, 0, 1>>>>) = <<<<0, -1, 0>>, <<0, 0, 1>>, <<-1, 0, 0>>>>
        BY ONLY DEF Times, Sum3, Index
    <2>4. OneAxis(1, -1) = <<<<1, 0, 0>>, <<0, 0, 1>>, <<0, -1, 0>>>> /\ OneAxis(2, 0) = <<<<1, 0, 0>>, <<0, 1, 0>>, <<0, 0, 1>>>> /\ OneAxis(3, 1) = <<<<0, -1, 0>>, <<1, 0, 0>>, <<0, 0, 1>>>>
        BY ONLY OneAxisTurns
    <2> QED
        BY ONLY <1>15, <2>1, <2>2, <2>3, <2>4 DEF EulerNames
<1>16. CASE m = <<<<0, -1, 0>>, <<0, 0, -1>>, <<1, 0, 0>>>>
    <2>1. MatrixToEulerXYZ(<<<<0, -1, 0>>, <<0, 0, -1>>, <<1, 0, 0>>>>) = <<1, 0, 1>>
        BY ONLY DEF MatrixToEulerXYZ, ArcTan
    <2>2. Times(<<<<1, 0, 0>>, <<0, 0, -1>>, <<0, 1, 0>>>>, <<<<1, 0, 0>>, <<0, 1, 0>>, <<0, 0, 1>>>>) = <<<<1, 0, 0>>, <<0, 0, -1>>, <<0, 1, 0>>>>
        BY ONLY DEF Times, Sum3, Index
    <2>3. Times(<<<<1, 0, 0>>, <<0, 0, -1>>, <<0, 1, 0>>>>, <<<<0, -1, 0>>, <<1, 0, 0>>, <<0, 0, 1>>>>) = <<<<0, -1, 0>>, <<0, 0, -1>>, <<1, 0, 0>>>>
        BY ONLY DEF Times, Sum3, Index
    <2>4. OneAxis(1, 1) = <<<<1, 0, 0>>, <<0, 0, -1>>, <<0, 1, 0>>>> /\ OneAxis(2, 0) = <<<<1, 0, 0>>, <<0, 1, 0>>, <<0, 0, 1>>>> /\ OneAxis(3, 1) = <<<<0, -1, 0>>, <<1, 0, 0>>, <<0, 0, 1>>>>
        BY ONLY OneAxisTurns
    <2> QED
        BY ONLY <1>16, <2>1, <2>2, <2>3, <2>4 DEF EulerNames
<1>17. CASE m = <<<<0, 0, 1>>, <<1, 0, 0>>, <<0, 1, 0>>>>
    <2>1. MatrixToEulerXYZ(<<<<0, 0, 1>>, <<1, 0, 0>>, <<0, 1, 0>>>>) = <<1, 1, 0>>
        BY ONLY DEF MatrixToEulerXYZ, ArcTan
    <2>2. Times(<<<<1, 0, 0>>, <<0, 0, -1>>, <<0, 1, 0>>>>, <<<<0, 0, 1>>, <<0, 1, 0>>, <<-1, 0, 0>>>>) = <<<<0, 0, 1>>, <<1, 0, 0>>, <<0, 1, 0>>>>
        BY ONLY DEF Times, Sum3, Index
    <2>3. Times(<<<<0, 0, 1>>, <<1, 0, 0>>, <<0, 1, 0>>>>, <<<<1, 0, 0>>, <<0, 1, 0>>, <<0, 0, 1>>>>) = <<<<0, 0, 1>>, <<1, 0, 0>>, <<0, 1, 0>>>>
        BY ONLY DEF Times, Sum3, Index
    <2>4. OneAxis(1, 1) = <<<<1, 0, 0>>, <<0, 0, -1>>, <<0, 1, 0>>>> /\ OneAxis(2, 1) = <<<<0, 0, 1>>, <<0, 1, 0>>, <<-1, 0, 0>>>> /\ OneAxis(3, 0) = <<<<1, 0, 0>>, <<0, 1, 0>>, <<0, 0, 1>>>>
        BY ONLY OneAxisTurns
    <2> QED
        BY ONLY <1>17, <2>1, <2>2, <2>3, <2>4 DEF EulerNames
<1>18. CASE m = <<<<0, 0, 1>>, <<-1, 0, 0>>, <<0, -1, 0>>>>
    <2>1. MatrixToEulerXYZ(<<<<0, 0, 1>>, <<-1, 0, 0>>, <<0, -1, 0>>>>) = <<-1, 1, 0>>
        BY ONLY DEF MatrixToEulerXYZ, ArcTan
    <2>2. Times(<<<<1, 0, 0>>, <<0, 0, 1>>, <<0, -1, 0>>>>, <<<<0, 0, 1>>, <<0, 1, 0>>, <<-1, 0, 0>>>>) = <<<<0, 0, 1>>, <<-1, 0, 0>>, <<0, -1, 0>>>>
        BY ONLY DEF Times, Sum3, Index
    <2>3. Times(<<<<0, 0, 1>>, <<-1, 0, 0>>, <<0, -1, 0>>>>, <<<<1, 0, 0>>, <<0, 1, 0>>, <<0, 0, 1>>>>) = <<<<0, 0, 1>>, <<-1, 0, 0>>, <<0, -1, 0>>>>
        BY ONLY DEF Times, Sum3, Index
    <2>4. OneAxis(1, -1) = <<<<1, 0, 0>>, <<0, 0, 1>>, <<0, -1, 0>>>> /\ OneAxis(2, 1) = <<<<0, 0, 1>>, <<0, 1, 0>>, <<-1, 0, 0>>>> /\ OneAxis(3, 0) = <<<<1, 0, 0>>, <<0, 1, 0>>, <<0, 0, 1>>>>
        BY ONLY OneAxisTurns
    <2> QED
        BY ONLY <1>18, <2>1, <2>2, <2>3, <2>4 DEF EulerNames
<1>19. CASE m = <<<<0, 0, 1>>, <<0, 1, 0>>, <<-1, 0, 0>>>>
    <2>1. MatrixToEulerXYZ(<<<<0, 0, 1>>, <<0, 1, 0>>, <<-1, 0, 0>>>>) = <<0, 1, 0>>
        BY ONLY DEF MatrixToEulerXYZ, ArcTan
    <2>2. Times(<<<<1, 0, 0>>, <<0, 1, 0>>, <<0, 0, 1>>>>, <<<<0, 0, 1>>, <<0, 1, 0>>, <<-1, 0, 0>>>>) = <<<<0, 0, 1>>, <<0, 1, 0>>, <<-1, 0, 0>>>>
        BY ONLY DEF Times, Sum3, Index
    <2>3. Times(<<<<0, 0, 1>>, <<0, 1, 0>>, <<-1, 0, 0>>>>, <<<<1, 0, 0>>, <<0, 1, 0>>, <<0, 0, 1>>>>) = <<<<0, 0, 1>>, <<0, 1, 0>>, <<-1, 0, 0>>>>
        BY ONLY DEF Times, Sum3, Index
    <2>4. OneAxis(1, 0) = <<<<1, 0, 0>>, <<0, 1, 0>>, <<0, 0, 1>>>> /\ OneAxis(2, 1) = <<<<0, 0, 1>>, <<0, 1, 0>>, <<-1, 0, 0>>>> /\ OneAxis(3, 0) = <<<<1, 0, 0>>, <<0, 1, 0>>, <<0, 0, 1>>>>
        BY ONLY OneAxisTurns
    <2> QED
        BY ONLY <1>19, <2>1, <2>2, <2>3, <2>4 DEF EulerNames
<1>20. CASE m = <<<<0, 0, 1>>, <<0, -1, 0>>, <<1, 0, 0>>>>
    <2>1. MatrixToEulerXYZ(<<<<0, 0, 1>>, <<0, -1, 0>>, <<1, 0, 0>>>>) = <<2, 1, 0>>
        BY ONLY DEF MatrixToEulerXYZ, ArcTan
    <2>2. Times(<<<<1, 0, 0>>, <<0, -1, 0>>, <<0, 0, -1>>>>, <<<<0, 0, 1>>, <<0, 1, 0>>, <<-1, 0, 0>>>>) = <<<<0, 0, 1>>, <<0, -1, 0>>, <<1, 0, 0>>>>
        BY ONLY DEF Times, Sum3, Index
    <2>3. Times(<<<<0, 0, 1>>, <<0, -1, 0>>, <<1, 0, 0>>>>, <<<<1, 0, 0>>, <<0, 1, 0>>, <<0, 0, 1>>>>) = <<<<0, 0, 1>>, <<0, -1, 0>>, <<1, 0, 0>>>>
        BY ONLY DEF Times, Sum3, Index
    <2>4. OneAxis(1, 2) = <<<<1, 0, 0>>, <<0, -1, 0>>, <<0, 0, -1>>>> /\ OneAxis(2, 1) = <<<<0, 0, 1>>, <<0, 1, 0>>, <<-1, 0, 0>>>> /\ OneAxis(3, 0) = <<<<1, 0, 0>>, <<0, 1, 0>>, <<0, 0, 1>>>>
        BY ONLY OneAxisTurns
    <2> QED
        BY ONLY <1>20, <2>1, <2>2, <2>3, <2>4 DEF EulerNames
<1>21. CASE m = <<<<0, 0, -1>>, <<1, 0, 0>>, <<0, -1, 0>>>>
    <2>1. MatrixToEulerXYZ(<<<<0, 0, -1>>, <<1, 0, 0>>, <<0, -1, 0>>>>) = <<0, -1, 0>>
        BY ONLY DEF MatrixToEulerXYZ, ArcTan
    <2> QED
        BY ONLY <1>21, <2>1 DEF EulerNames
<1>22. CASE m = <<<<0, 0, -1>>, <<-1, 0, 0>>, <<0, 1, 0>>>>
    <2>1. MatrixToEulerXYZ(<<<<0, 0, -1>>, <<-1, 0, 0>>, <<0, 1, 0>>>>) = <<0, -1, 0>>
        BY ONLY DEF MatrixToEulerXYZ, ArcTan
    <2> QED
        BY ONLY <1>22, <2>1 DEF EulerNames
<1>23. CASE m = <<<<0, 0, -1>>, <<0, 1, 0>>, <<1, 0, 0>>>>
    <2>1. MatrixToEulerXYZ(<<<<0, 0, -1>>, <<0, 1, 0>>, <<1, 0, 0>>>>) = <<0, -1, 0>>
        BY ONLY DEF MatrixToEulerXYZ, ArcTan
    <2> QED
        BY ONLY <1>23, <2>1 DEF EulerNames
<1>24. CASE m = <<<<0, 0, -1>>, <<0, -1, 0>>, <<-1, 0, 0>>>>
    <2>1. MatrixToEulerXYZ(<<<<0, 0, -1>>, <<0, -1, 0>>, <<-1, 0, 0>>>>) = <<-2, -1, 0>>
        BY ONLY DEF MatrixToEulerXYZ, ArcTan
    <2> QED
        BY ONLY <1>24, <2>1 DEF EulerNames
<1> QED
    BY ONLY m \in Rotations, TwentyFour, <1>1, <1>2, <1>3, <1>4, <1>5, <1>6, <1>7, <1>8, <1>9, <1>10, <1>11, <1>12, <1>13, <1>14, <1>15, <1>16, <1>17, <1>18, <1>19, <1>20, <1>21, <1>22, <1>23, <1>24

\* The angle and axis name a rotation about one of the axes again.
HelicalNames(m) ==
    LET h == MatrixToHelical(m)
    IN (\A i, j \in Index : i # j => m[i][j] = -m[j][i]) => HelicalToMatrix(h.axis, h.turns) = m

\* A quaternion with one part besides the real one is a turn about an axis.
LEMMA HelicalLength ==
    ASSUME NEW m, NEW q, MatrixToQuaternion(m) = q, NEW l \in 0 .. 4, DotProduct(q, q) = l * l
    PROVE  MatrixToHelical(m) =
               IF l = 0 THEN [axis |-> <<0, 0, 0>>, turns |-> 0]
               ELSE [ axis  |-> <<q[1] \div l, q[2] \div l, q[3] \div l>>,
                      turns |-> IF q[4] = 0 THEN 2 ELSE IF q[4] > 0 THEN 1 ELSE 3 ]
<1> DEFINE length == CHOOSE k \in 0 .. 4 : k * k = DotProduct(q, q)
<1>1. length = l
    <2>1. \A k \in 0 .. 4 : k * k = l * l => k = l
        <3>1. l \in {0, 1, 2, 3, 4}
            OBVIOUS
        <3> QED
            BY <3>1
    <2> QED
        BY <2>1
<1>2. MatrixToHelical(m) =
          IF length = 0 THEN [axis |-> <<0, 0, 0>>, turns |-> 0]
          ELSE [ axis  |-> [i \in Index |-> q[i] \div length],
                 turns |-> IF q[4] = 0 THEN 2 ELSE IF q[4] > 0 THEN 1 ELSE 3 ]
    BY DEF MatrixToHelical
<1> HIDE DEF length
<1>3. [i \in Index |-> q[i] \div length] = <<q[1] \div l, q[2] \div l, q[3] \div l>>
    BY <1>1 DEF Index
<1> QED
    BY ONLY <1>1, <1>2, <1>3

LEMMA HelicalOfRotation ==
    ASSUME NEW m \in Rotations
    PROVE  HelicalNames(m)
<1>1. CASE m = <<<<1, 0, 0>>, <<0, 1, 0>>, <<0, 0, 1>>>>
    <2>1. MatrixToQuaternion(<<<<1, 0, 0>>, <<0, 1, 0>>, <<0, 0, 1>>>>) = <<0, 0, 0, 4>>
        BY ONLY DEF MatrixToQuaternion, Sum3
    <2>2. DotProduct(<<0, 0, 0, 4>>, <<0, 0, 0, 4>>) = 0 * 0
        BY ONLY DEF DotProduct, Sum3
    <2>3. MatrixToHelical(<<<<1, 0, 0>>, <<0, 1, 0>>, <<0, 0, 1>>>>) = [axis |-> <<0, 0, 0>>, turns |-> 0]
        BY ONLY <2>1, <2>2, HelicalLength
    <2>4. HelicalToMatrix(<<0, 0, 0>>, 0) = <<<<1, 0, 0>>, <<0, 1, 0>>, <<0, 0, 1>>>>
        BY ONLY DEF HelicalToMatrix, NoRotation, Sin, Cos
    <2> QED
        BY ONLY <1>1, <2>3, <2>4 DEF HelicalNames
<1>2. CASE m = <<<<1, 0, 0>>, <<0, -1, 0>>, <<0, 0, -1>>>>
    <2>1. MatrixToQuaternion(<<<<1, 0, 0>>, <<0, -1, 0>>, <<0, 0, -1>>>>) = <<4, 0, 0, 0>>
        BY ONLY DEF MatrixToQuaternion, Sum3
    <2>2. DotProduct(<<4, 0, 0, 0>>, <<4, 0, 0, 0>>) = 4 * 4
        BY ONLY DEF DotProduct, Sum3
    <2>3. MatrixToHelical(<<<<1, 0, 0>>, <<0, -1, 0>>, <<0, 0, -1>>>>) = [axis |-> <<1, 0, 0>>, turns |-> 2]
        <3>1. 0 \div 4 = 0 /\ 4 \div 4 = 1
            OBVIOUS
        <3> QED
            BY ONLY <2>1, <2>2, <3>1, HelicalLength
    <2>4. HelicalToMatrix(<<1, 0, 0>>, 2) = <<<<1, 0, 0>>, <<0, -1, 0>>, <<0, 0, -1>>>>
        BY ONLY DEF HelicalToMatrix, NoRotation, Sin, Cos
    <2> QED
        BY ONLY <1>2, <2>3, <2>4 DEF HelicalNames
<1>3. CASE m = <<<<1, 0, 0>>, <<0, 0, 1>>, <<0, -1, 0>>>>
    <2>1. MatrixToQuaternion(<<<<1, 0, 0>>, <<0, 0, 1>>, <<0, -1, 0>>>>) = <<-2, 0, 0, 2>>
        BY ONLY DEF MatrixToQuaternion, Sum3
    <2>2. DotProduct(<<-2, 0, 0, 2>>, <<-2, 0, 0, 2>>) = 2 * 2
        BY ONLY DEF DotProduct, Sum3
    <2>3. MatrixToHelical(<<<<1, 0, 0>>, <<0, 0, 1>>, <<0, -1, 0>>>>) = [axis |-> <<-1, 0, 0>>, turns |-> 1]
        <3>1. (-2) \div 2 = -1 /\ 0 \div 2 = 0
            OBVIOUS
        <3> QED
            BY ONLY <2>1, <2>2, <3>1, HelicalLength
    <2>4. HelicalToMatrix(<<-1, 0, 0>>, 1) = <<<<1, 0, 0>>, <<0, 0, 1>>, <<0, -1, 0>>>>
        BY ONLY DEF HelicalToMatrix, NoRotation, Sin, Cos
    <2> QED
        BY ONLY <1>3, <2>3, <2>4 DEF HelicalNames
<1>4. CASE m = <<<<1, 0, 0>>, <<0, 0, -1>>, <<0, 1, 0>>>>
    <2>1. MatrixToQuaternion(<<<<1, 0, 0>>, <<0, 0, -1>>, <<0, 1, 0>>>>) = <<2, 0, 0, 2>>
        BY ONLY DEF MatrixToQuaternion, Sum3
    <2>2. DotProduct(<<2, 0, 0, 2>>, <<2, 0, 0, 2>>) = 2 * 2
        BY ONLY DEF DotProduct, Sum3
    <2>3. MatrixToHelical(<<<<1, 0, 0>>, <<0, 0, -1>>, <<0, 1, 0>>>>) = [axis |-> <<1, 0, 0>>, turns |-> 1]
        <3>1. 0 \div 2 = 0 /\ 2 \div 2 = 1
            OBVIOUS
        <3> QED
            BY ONLY <2>1, <2>2, <3>1, HelicalLength
    <2>4. HelicalToMatrix(<<1, 0, 0>>, 1) = <<<<1, 0, 0>>, <<0, 0, -1>>, <<0, 1, 0>>>>
        BY ONLY DEF HelicalToMatrix, NoRotation, Sin, Cos
    <2> QED
        BY ONLY <1>4, <2>3, <2>4 DEF HelicalNames
<1>5. CASE m = <<<<-1, 0, 0>>, <<0, 1, 0>>, <<0, 0, -1>>>>
    <2>1. MatrixToQuaternion(<<<<-1, 0, 0>>, <<0, 1, 0>>, <<0, 0, -1>>>>) = <<0, 4, 0, 0>>
        BY ONLY DEF MatrixToQuaternion, Sum3
    <2>2. DotProduct(<<0, 4, 0, 0>>, <<0, 4, 0, 0>>) = 4 * 4
        BY ONLY DEF DotProduct, Sum3
    <2>3. MatrixToHelical(<<<<-1, 0, 0>>, <<0, 1, 0>>, <<0, 0, -1>>>>) = [axis |-> <<0, 1, 0>>, turns |-> 2]
        <3>1. 0 \div 4 = 0 /\ 4 \div 4 = 1
            OBVIOUS
        <3> QED
            BY ONLY <2>1, <2>2, <3>1, HelicalLength
    <2>4. HelicalToMatrix(<<0, 1, 0>>, 2) = <<<<-1, 0, 0>>, <<0, 1, 0>>, <<0, 0, -1>>>>
        BY ONLY DEF HelicalToMatrix, NoRotation, Sin, Cos
    <2> QED
        BY ONLY <1>5, <2>3, <2>4 DEF HelicalNames
<1>6. CASE m = <<<<-1, 0, 0>>, <<0, -1, 0>>, <<0, 0, 1>>>>
    <2>1. MatrixToQuaternion(<<<<-1, 0, 0>>, <<0, -1, 0>>, <<0, 0, 1>>>>) = <<0, 0, 4, 0>>
        BY ONLY DEF MatrixToQuaternion, Sum3
    <2>2. DotProduct(<<0, 0, 4, 0>>, <<0, 0, 4, 0>>) = 4 * 4
        BY ONLY DEF DotProduct, Sum3
    <2>3. MatrixToHelical(<<<<-1, 0, 0>>, <<0, -1, 0>>, <<0, 0, 1>>>>) = [axis |-> <<0, 0, 1>>, turns |-> 2]
        <3>1. 0 \div 4 = 0 /\ 4 \div 4 = 1
            OBVIOUS
        <3> QED
            BY ONLY <2>1, <2>2, <3>1, HelicalLength
    <2>4. HelicalToMatrix(<<0, 0, 1>>, 2) = <<<<-1, 0, 0>>, <<0, -1, 0>>, <<0, 0, 1>>>>
        BY ONLY DEF HelicalToMatrix, NoRotation, Sin, Cos
    <2> QED
        BY ONLY <1>6, <2>3, <2>4 DEF HelicalNames
<1>7. CASE m = <<<<-1, 0, 0>>, <<0, 0, 1>>, <<0, 1, 0>>>>
    BY ONLY <1>7 DEF HelicalNames, Index
<1>8. CASE m = <<<<-1, 0, 0>>, <<0, 0, -1>>, <<0, -1, 0>>>>
    BY ONLY <1>8 DEF HelicalNames, Index
<1>9. CASE m = <<<<0, 1, 0>>, <<1, 0, 0>>, <<0, 0, -1>>>>
    BY ONLY <1>9 DEF HelicalNames, Index
<1>10. CASE m = <<<<0, 1, 0>>, <<-1, 0, 0>>, <<0, 0, 1>>>>
    <2>1. MatrixToQuaternion(<<<<0, 1, 0>>, <<-1, 0, 0>>, <<0, 0, 1>>>>) = <<0, 0, -2, 2>>
        BY ONLY DEF MatrixToQuaternion, Sum3
    <2>2. DotProduct(<<0, 0, -2, 2>>, <<0, 0, -2, 2>>) = 2 * 2
        BY ONLY DEF DotProduct, Sum3
    <2>3. MatrixToHelical(<<<<0, 1, 0>>, <<-1, 0, 0>>, <<0, 0, 1>>>>) = [axis |-> <<0, 0, -1>>, turns |-> 1]
        <3>1. (-2) \div 2 = -1 /\ 0 \div 2 = 0
            OBVIOUS
        <3> QED
            BY ONLY <2>1, <2>2, <3>1, HelicalLength
    <2>4. HelicalToMatrix(<<0, 0, -1>>, 1) = <<<<0, 1, 0>>, <<-1, 0, 0>>, <<0, 0, 1>>>>
        BY ONLY DEF HelicalToMatrix, NoRotation, Sin, Cos
    <2> QED
        BY ONLY <1>10, <2>3, <2>4 DEF HelicalNames
<1>11. CASE m = <<<<0, 1, 0>>, <<0, 0, 1>>, <<1, 0, 0>>>>
    BY ONLY <1>11 DEF HelicalNames, Index
<1>12. CASE m = <<<<0, 1, 0>>, <<0, 0, -1>>, <<-1, 0, 0>>>>
    BY ONLY <1>12 DEF HelicalNames, Index
<1>13. CASE m = <<<<0, -1, 0>>, <<1, 0, 0>>, <<0, 0, 1>>>>
    <2>1. MatrixToQuaternion(<<<<0, -1, 0>>, <<1, 0, 0>>, <<0, 0, 1>>>>) = <<0, 0, 2, 2>>
        BY ONLY DEF MatrixToQuaternion, Sum3
    <2>2. DotProduct(<<0, 0, 2, 2>>, <<0, 0, 2, 2>>) = 2 * 2
        BY ONLY DEF DotProduct, Sum3
    <2>3. MatrixToHelical(<<<<0, -1, 0>>, <<1, 0, 0>>, <<0, 0, 1>>>>) = [axis |-> <<0, 0, 1>>, turns |-> 1]
        <3>1. 0 \div 2 = 0 /\ 2 \div 2 = 1
            OBVIOUS
        <3> QED
            BY ONLY <2>1, <2>2, <3>1, HelicalLength
    <2>4. HelicalToMatrix(<<0, 0, 1>>, 1) = <<<<0, -1, 0>>, <<1, 0, 0>>, <<0, 0, 1>>>>
        BY ONLY DEF HelicalToMatrix, NoRotation, Sin, Cos
    <2> QED
        BY ONLY <1>13, <2>3, <2>4 DEF HelicalNames
<1>14. CASE m = <<<<0, -1, 0>>, <<-1, 0, 0>>, <<0, 0, -1>>>>
    BY ONLY <1>14 DEF HelicalNames, Index
<1>15. CASE m = <<<<0, -1, 0>>, <<0, 0, 1>>, <<-1, 0, 0>>>>
    BY ONLY <1>15 DEF HelicalNames, Index
<1>16. CASE m = <<<<0, -1, 0>>, <<0, 0, -1>>, <<1, 0, 0>>>>
    BY ONLY <1>16 DEF HelicalNames, Index
<1>17. CASE m = <<<<0, 0, 1>>, <<1, 0, 0>>, <<0, 1, 0>>>>
    BY ONLY <1>17 DEF HelicalNames, Index
<1>18. CASE m = <<<<0, 0, 1>>, <<-1, 0, 0>>, <<0, -1, 0>>>>
    BY ONLY <1>18 DEF HelicalNames, Index
<1>19. CASE m = <<<<0, 0, 1>>, <<0, 1, 0>>, <<-1, 0, 0>>>>
    <2>1. MatrixToQuaternion(<<<<0, 0, 1>>, <<0, 1, 0>>, <<-1, 0, 0>>>>) = <<0, 2, 0, 2>>
        BY ONLY DEF MatrixToQuaternion, Sum3
    <2>2. DotProduct(<<0, 2, 0, 2>>, <<0, 2, 0, 2>>) = 2 * 2
        BY ONLY DEF DotProduct, Sum3
    <2>3. MatrixToHelical(<<<<0, 0, 1>>, <<0, 1, 0>>, <<-1, 0, 0>>>>) = [axis |-> <<0, 1, 0>>, turns |-> 1]
        <3>1. 0 \div 2 = 0 /\ 2 \div 2 = 1
            OBVIOUS
        <3> QED
            BY ONLY <2>1, <2>2, <3>1, HelicalLength
    <2>4. HelicalToMatrix(<<0, 1, 0>>, 1) = <<<<0, 0, 1>>, <<0, 1, 0>>, <<-1, 0, 0>>>>
        BY ONLY DEF HelicalToMatrix, NoRotation, Sin, Cos
    <2> QED
        BY ONLY <1>19, <2>3, <2>4 DEF HelicalNames
<1>20. CASE m = <<<<0, 0, 1>>, <<0, -1, 0>>, <<1, 0, 0>>>>
    BY ONLY <1>20 DEF HelicalNames, Index
<1>21. CASE m = <<<<0, 0, -1>>, <<1, 0, 0>>, <<0, -1, 0>>>>
    BY ONLY <1>21 DEF HelicalNames, Index
<1>22. CASE m = <<<<0, 0, -1>>, <<-1, 0, 0>>, <<0, 1, 0>>>>
    BY ONLY <1>22 DEF HelicalNames, Index
<1>23. CASE m = <<<<0, 0, -1>>, <<0, 1, 0>>, <<1, 0, 0>>>>
    <2>1. MatrixToQuaternion(<<<<0, 0, -1>>, <<0, 1, 0>>, <<1, 0, 0>>>>) = <<0, -2, 0, 2>>
        BY ONLY DEF MatrixToQuaternion, Sum3
    <2>2. DotProduct(<<0, -2, 0, 2>>, <<0, -2, 0, 2>>) = 2 * 2
        BY ONLY DEF DotProduct, Sum3
    <2>3. MatrixToHelical(<<<<0, 0, -1>>, <<0, 1, 0>>, <<1, 0, 0>>>>) = [axis |-> <<0, -1, 0>>, turns |-> 1]
        <3>1. (-2) \div 2 = -1 /\ 0 \div 2 = 0
            OBVIOUS
        <3> QED
            BY ONLY <2>1, <2>2, <3>1, HelicalLength
    <2>4. HelicalToMatrix(<<0, -1, 0>>, 1) = <<<<0, 0, -1>>, <<0, 1, 0>>, <<1, 0, 0>>>>
        BY ONLY DEF HelicalToMatrix, NoRotation, Sin, Cos
    <2> QED
        BY ONLY <1>23, <2>3, <2>4 DEF HelicalNames
<1>24. CASE m = <<<<0, 0, -1>>, <<0, -1, 0>>, <<-1, 0, 0>>>>
    BY ONLY <1>24 DEF HelicalNames, Index
<1> QED
    BY ONLY m \in Rotations, TwentyFour, <1>1, <1>2, <1>3, <1>4, <1>5, <1>6, <1>7, <1>8, <1>9, <1>10, <1>11, <1>12, <1>13, <1>14, <1>15, <1>16, <1>17, <1>18, <1>19, <1>20, <1>21, <1>22, <1>23, <1>24

LEMMA TurnsAreNamed == AxesInv => RotationsAreNamed
<1> SUFFICES ASSUME AxesInv PROVE RotationsAreNamed
    OBVIOUS
<1>1. /\ QuaternionNames(MatrixToQuaternion(rotation), rotation)
      /\ EulerNames(rotation) /\ HelicalNames(rotation)
    BY QuaternionOfRotation, EulerOfRotation, HelicalOfRotation DEF AxesInv
<1> QED
    BY <1>1 DEF RotationsAreNamed, EulerNames, HelicalNames, OneAxis

\* What is told of a rotation names it again, for all rotations by quarter turns:
\* the quaternion always, the helical vector where the rotation is about an axis,
\* the Euler angles but for Y at -90 degrees.
THEOREM RotationsKeepTheirNames == AxisSpec => []RotationsAreNamed
    BY AxesStay, TurnsAreNamed, PTL

-----------------------------------------------------------------------------
(* Searching lists.                                                          *)


\* The first of some places is the least, and the only one of one.
LEMMA FirstPlace ==
    ASSUME NEW n \in Nat, NEW places \in SUBSET (1 .. n), places # {}
    PROVE  First(places) \in places /\ \A j \in places : First(places) <= j
<1>1. places \subseteq Nat
    OBVIOUS
<1>2. \E i \in places : \A j \in places : i <= j
    BY <1>1, LeastNumber
<1> QED
    BY <1>2 DEF First

LEMMA OnlyPlace ==
    ASSUME NEW i \in Nat, NEW places, places = {i}
    PROVE  First(places) = i
    BY DEF First

\* A list of the frame is indexed from 1, and asked for from 0.
LEMMA DomainOfList ==
    ASSUME NEW list, IsList(list)
    PROVE  /\ Len(list) \in Nat /\ DOMAIN list = 1 .. Len(list)
           /\ \A i \in DOMAIN list : i \in Nat /\ i - 1 \in Nat /\ i - 1 < Len(list) /\ i - 1 + 1 = i
    BY DEF IsList

LEMMA InRange ==
    ASSUME NEW list, NEW x
    PROVE  x \in Range(list) <=> \E i \in DOMAIN list : x = list[i]
    BY DEF Range


\* The elements selected up to each place of a list.
Chooses(f, list, places) ==
    /\ f[0] = <<>>
    /\ \A i \in 1 .. Len(list) :
          f[i] = IF i \in places THEN Append(f[i - 1], list[i]) ELSE f[i - 1]

LEMMA ListOf ==
    ASSUME NEW S, NEW list \in Seq(S)
    PROVE  IsList(list) /\ Range(list) \subseteq S
<1>1. list \in [1 .. Len(list) -> S] /\ Len(list) \in Nat /\ DOMAIN list = 1 .. Len(list)
    OBVIOUS
<1>2. \A i \in 1 .. Len(list) : list[i] \in Range(list)
    BY <1>1 DEF Range
<1>3. list = [i \in 1 .. Len(list) |-> list[i]]
    BY <1>1
<1>4. list \in [1 .. Len(list) -> Range(list)]
    BY ONLY <1>2, <1>3
<1>5. list \in Seq(Range(list))
    BY <1>1, <1>4, SeqDef
<1> QED
    BY <1>1, <1>5 DEF IsList, Range

\* Selected, seen as a loop over the list.
LEMMA SelectedStepwise ==
    ASSUME NEW list, IsList(list), NEW places
    PROVE  \E f : Chooses(f, list, places) /\ Selected(list, places) = f[Len(list)]
<1> DEFINE Is(f) ==
        f = [n \in 0 .. Len(list) |->
               IF n = 0 THEN <<>>
               ELSE IF n \in places THEN Append(f[n - 1], list[n]) ELSE f[n - 1]]
           S == Range(list)
<1>1. list \in Seq(S)
    BY DEF IsList
<1> HIDE DEF S
<1>2. PICK n \in Nat : n = Len(list)
    BY <1>1
<1>3. \E f : Is(f)
    <2> DEFINE step == [i \in 1 .. n |-> [x \in Seq(S) |->
                          IF i \in places THEN Append(x, list[i]) ELSE x]]
    <2>1. <<>> \in Seq(S) /\ step \in [1 .. n -> [Seq(S) -> Seq(S)]]
        BY <1>1, <1>2
    <2>2. \A i \in 1 .. n, x \in Seq(S) :
              step[i][x] = IF i \in places THEN Append(x, list[i]) ELSE x
        OBVIOUS
    <2> HIDE DEF step
    <2>3. PICK f : Stepwise(f, n, Seq(S), <<>>, step)
        BY <2>1, StepwiseFunction
    <2>4. f \in [0 .. n -> Seq(S)] /\ f[0] = <<>> /\ \A i \in 1 .. n : f[i] = step[i][f[i - 1]]
        BY <2>3 DEF Stepwise
    <2>5. ASSUME NEW i \in 1 .. n
          PROVE  f[i] = IF i \in places THEN Append(f[i - 1], list[i]) ELSE f[i - 1]
        <3>1. f[i - 1] \in Seq(S)
            <4>1. i - 1 \in 0 .. n
                OBVIOUS
            <4> QED
                BY <2>4, <4>1
        <3> QED
            BY <2>2, <2>4, <3>1
    <2>6. \A i \in 0 .. n : i # 0 => i \in 1 .. n
        OBVIOUS
    <2>7. Is(f)
        BY <1>2, <2>4, <2>5, <2>6
    <2> QED
        BY <2>7
<1>4. PICK f : f = CHOOSE g : Is(g)
    OBVIOUS
<1>5. Is(f)
    <2> HIDE DEF Is
    <2> QED
        BY <1>3, <1>4
<1>6. Selected(list, places) = f[Len(list)]
    BY <1>4 DEF Selected
<1>7. Chooses(f, list, places)
    <2>1. f = [m \in 0 .. n |->
                 IF m = 0 THEN <<>>
                 ELSE IF m \in places THEN Append(f[m - 1], list[m]) ELSE f[m - 1]]
        BY <1>2, <1>5
    <2>2. 0 \in 0 .. n /\ \A i \in 1 .. n : i \in 0 .. n /\ i # 0
        OBVIOUS
    <2> HIDE DEF Is
    <2>3. f[0] = <<>>
        BY <2>1, <2>2
    <2>4. \A i \in 1 .. n : f[i] = IF i \in places THEN Append(f[i - 1], list[i]) ELSE f[i - 1]
        BY <2>1, <2>2
    <2> QED
        BY <1>2, <2>3, <2>4 DEF Chooses
<1> QED
    BY <1>6, <1>7

\* What is selected is what the list has at the places.
LEMMA SelectedElements ==
    ASSUME NEW list, IsList(list), NEW places \in SUBSET DOMAIN list
    PROVE  /\ IsList(Selected(list, places))
           /\ Range(Selected(list, places)) = {list[i] : i \in places}
<1>1. PICK f : Chooses(f, list, places) /\ Selected(list, places) = f[Len(list)]
    BY SelectedStepwise
<1> DEFINE S == Range(list)
           n == Len(list)
           Elements(m) == {list[i] : i \in {j \in places : j <= m}}
           G == {m \in 0 .. n : f[m] \in Seq(S) /\ Range(f[m]) = Elements(m)}
<1>2. n \in Nat /\ DOMAIN list = 1 .. n /\ \A i \in 1 .. n : list[i] \in S
    BY DomainOfList, InRange
<1> HIDE DEF S, n
<1>3. 0 \in G
    <2>1. f[0] = <<>> /\ Elements(0) = {} /\ Range(<<>>) = {}
        BY <1>1, <1>2 DEF Chooses, Range
    <2>2. f[0] \in Seq(S) /\ Range(f[0]) = Elements(0) /\ 0 \in 0 .. n
        <3>1. f[0] \in Seq(S) /\ 0 \in 0 .. n
            BY <1>2, <2>1
        <3>2. Range(f[0]) = Range(<<>>)
            BY ONLY <2>1
        <3> QED
            BY ONLY <2>1, <3>1, <3>2
    <2> QED
        BY <2>2
<1>4. ASSUME NEW i \in 1 .. n, i - 1 \in G PROVE i \in G
    <2>1. /\ i \in 0 .. n /\ list[i] \in S
          /\ f[i - 1] \in Seq(S) /\ Range(f[i - 1]) = Elements(i - 1)
          /\ f[i] = IF i \in places THEN Append(f[i - 1], list[i]) ELSE f[i - 1]
        BY <1>1, <1>2, <1>4 DEF Chooses, n
    <2>2. CASE i \in places
        <3>1. f[i] \in Seq(S)
            BY <2>1, <2>2
        <3>2. \A s \in Seq(S), x \in S : Range(Append(s, x)) = Range(s) \cup {x}
            <4> TAKE s \in Seq(S), x \in S
            <4>1. /\ DOMAIN s = 1 .. Len(s) /\ DOMAIN Append(s, x) = 1 .. Len(s) + 1 /\ Len(s) \in Nat
                  /\ \A j \in 1 .. Len(s) : Append(s, x)[j] = s[j]
                  /\ Append(s, x)[Len(s) + 1] = x
                OBVIOUS
            <4>2. 1 .. Len(s) + 1 = (1 .. Len(s)) \cup {Len(s) + 1}
                BY <4>1
            <4> HIDE <4>1
            <4> QED
                BY ONLY <4>1, <4>2 DEF Range
        <3>3. Elements(i) = Elements(i - 1) \cup {list[i]}
            <4>1. {j \in places : j <= i} = {j \in places : j <= i - 1} \cup {i}
                BY <1>2, <2>2
            <4> QED
                BY <4>1
        <3>4. Range(f[i]) = Elements(i)
            BY <2>1, <2>2, <3>2, <3>3
        <3> QED
            BY <2>1, <3>1, <3>4
    <2>3. CASE i \notin places
        <3>1. {j \in places : j <= i} = {j \in places : j <= i - 1}
            BY <1>2, <2>3
        <3> QED
            BY <2>1, <2>3, <3>1
    <2> QED
        BY <2>2, <2>3
<1> HIDE DEF G
<1>5. n \in G
    BY <1>2, <1>3, <1>4, CountingUp
<1>6. f[n] \in Seq(S) /\ Range(f[n]) = Elements(n)
    BY <1>5 DEF G
<1>7. {j \in places : j <= n} = places
    BY <1>2
<1>8. Range(f[n]) = {list[i] : i \in places}
    BY <1>6, <1>7
<1> QED
    BY <1>1, <1>6, <1>8, ListOf DEF n

LEMMA SelectedOne ==
    ASSUME NEW list, IsList(list), NEW i \in DOMAIN list
    PROVE  Selected(list, {i}) = <<list[i]>>
<1>1. PICK f : Chooses(f, list, {i}) /\ Selected(list, {i}) = f[Len(list)]
    BY SelectedStepwise
<1> DEFINE n == Len(list)
           G == {m \in 0 .. n : f[m] = IF m < i THEN <<>> ELSE <<list[i]>>}
<1>2. n \in Nat /\ i \in 1 .. n
    BY DomainOfList
<1> HIDE DEF n
<1>3. 0 \in G
    BY <1>1, <1>2 DEF Chooses
<1>4. ASSUME NEW m \in 1 .. n, m - 1 \in G PROVE m \in G
    <2>1. f[m] = IF m = i THEN Append(f[m - 1], list[m]) ELSE f[m - 1]
        BY <1>1, <1>2, <1>4 DEF Chooses, n
    <2>2. f[m - 1] = IF m - 1 < i THEN <<>> ELSE <<list[i]>>
        BY <1>4
    <2>3. CASE m = i
        BY <1>2, <2>1, <2>2, <2>3
    <2>4. CASE m # i
        BY <1>2, <2>1, <2>2, <2>4
    <2> QED
        BY <2>3, <2>4
<1> HIDE DEF G
<1>5. n \in G
    BY <1>2, <1>3, <1>4, CountingUp
<1> QED
    BY <1>1, <1>2, <1>5 DEF G, n

-----------------------------------------------------------------------------
(* The frame that is held.                                                   *)

\* A frame as the client holds it once its lightweight data is worked out.
Completed(f) == IF f.lightweights # <<>> THEN CalculateGlobalsFromLocals(f) ELSE f

\* The axes are well chosen, and a frame that is held is one of the server's,
\* completed.
QueryInv ==
    /\ AxesInv
    /\ heldFrame = NoData \/ \E f \in Frames : heldFrame = Completed(f)

LEMMA QueryInvInit == QueryInit /\ AxisInit => QueryInv
    BY AxesInvInit DEF QueryInit, QueryInv

\* A frame is completed when it is fetched; no query or change of axes disturbs
\* it.
LEMMA QueryInvNext ==
    QueryInv /\ [(QueryNext /\ UNCHANGED axisVars) \/ (AxisNext /\ UNCHANGED queryVars)]_<<queryVars, axisVars>>
        => QueryInv'
<1> SUFFICES ASSUME QueryInv,
                    [(QueryNext /\ UNCHANGED axisVars) \/ (AxisNext /\ UNCHANGED queryVars)]_<<queryVars, axisVars>>
             PROVE  QueryInv'
    OBVIOUS
<1> USE DEF QueryInv
<1>1. ASSUME QueryNext, UNCHANGED axisVars PROVE QueryInv'
    <2>1. AxesInv'
        BY <1>1, AxesInvNext
    <2>2. ASSUME NEW light \in BOOLEAN, GoOnline(light) PROVE heldFrame' = heldFrame
        BY <2>2 DEF GoOnline
    <2>3. ASSUME GoOffline PROVE heldFrame' = heldFrame
        BY <2>3 DEF GoOffline
    <2>4. ASSUME NEW f \in Frames, HoldFrame(f) PROVE heldFrame' = Completed(f)
        BY <2>4 DEF HoldFrame, Completed
    <2>5. heldFrame' = heldFrame \/ \E f \in Frames : heldFrame' = Completed(f)
        BY <1>1, <2>2, <2>3, <2>4 DEF QueryNext
    <2> QED
        BY <2>1, <2>5
<1>2. ASSUME AxisNext, UNCHANGED queryVars PROVE QueryInv'
    BY <1>2, AxesInvNext DEF queryVars
<1>3. CASE UNCHANGED <<queryVars, axisVars>>
    <2>1. AxesInv'
        BY <1>3, AxesInvNext
    <2> QED
        BY <1>3, <2>1 DEF queryVars
<1> QED
    BY <1>1, <1>2, <1>3

\* What is held stays a frame of the server, and the axes stay right-handed.
LEMMA QueriesStay == QuerySpec => []QueryInv
    BY QueryInvInit, QueryInvNext, PTL DEF QuerySpec

\* Completing a frame changes only its lists of poses.
LEMMA HeldFrame ==
    ASSUME QueryInv, HasData
    PROVE  \E f \in Frames :
              /\ IsFrame(f) /\ heldFrame = Completed(f)
              /\ DOMAIN heldFrame = DOMAIN f
              /\ \A field \in DOMAIN f \ {"globals", "locals"} : heldFrame[field] = f[field]
<1>1. PICK f \in Frames : heldFrame = Completed(f)
    BY DEF QueryInv, HasData
<1>2. IsFrame(f)
    BY FramesAssumption
<1>3. DOMAIN heldFrame = DOMAIN f /\ \A field \in DOMAIN f \ {"globals", "locals"} : heldFrame[field] = f[field]
    BY <1>1 DEF Completed, CalculateGlobalsFromLocals
<1> QED
    BY <1>1, <1>2, <1>3

-----------------------------------------------------------------------------
(* Cameras.                                                                  *)

\* The cameras of the frame that is held are as they were sent.
LEMMA HeldCameras ==
    ASSUME QueryInv, HasData
    PROVE  HasCameras(heldFrame)
<1>1. PICK f \in Frames : /\ DOMAIN heldFrame = DOMAIN f
                          /\ \A field \in DOMAIN f \ {"globals", "locals"} : heldFrame[field] = f[field]
    BY HeldFrame
<1>2. HasCameras(f)
    BY CamerasAssumption
<1>3. /\ heldFrame.cameras = f.cameras /\ heldFrame.centroids = f.centroids
      /\ heldFrame.subsampled = f.subsampled /\ heldFrame.blobs = f.blobs
    BY <1>1, <1>2 DEF HasCameras
<1> QED
    BY ONLY <1>1, <1>2, <1>3 DEF HasCameras

\* A listed name is found at the camera that is listed.
LEMMA CameraByName ==
    ASSUME QueryInv, Reading, NEW i \in DOMAIN heldFrame.cameras
    PROVE  LET c == heldFrame.cameras[i]
               name == AdaptCameraName(c)
           IN /\ GetCameraName(i - 1) = Answer(name)
              /\ First({k \in DOMAIN heldFrame.cameras : AdaptCameraName(heldFrame.cameras[k]) = name}) = i
              /\ {k \in DOMAIN heldFrame.cameras : AdaptCameraName(heldFrame.cameras[k]) = name} = {i}
<1> DEFINE cameras == heldFrame.cameras
           name == AdaptCameraName(cameras[i])
<1>1. HasCameras(heldFrame) /\ HasData /\ online
    BY HeldCameras DEF Reading
<1>2. IsList(cameras) /\ \A k, j \in DOMAIN cameras : cameras[k].id = cameras[j].id => k = j
    BY <1>1 DEF HasCameras, Distinct, Id
<1>3. /\ i \in Nat /\ i - 1 \in Nat /\ i - 1 < Len(cameras) /\ i - 1 + 1 = i /\ Len(cameras) \in Nat
    BY <1>2, DomainOfList
<1>4. GetCameraName(i - 1) = Answer(name)
    BY <1>1, <1>3 DEF GetCameraName, InitGet, At
<1>5. \A k \in DOMAIN cameras : AdaptCameraName(cameras[k]) = name => k = i
    BY <1>2 DEF AdaptCameraName
<1>6. {k \in DOMAIN cameras : AdaptCameraName(cameras[k]) = name} = {i}
    BY <1>5
<1> HIDE DEF name, cameras
<1>7. First({k \in DOMAIN cameras : AdaptCameraName(cameras[k]) = name}) = i
    BY <1>3, <1>6, OnlyPlace
<1> QED
    BY <1>4, <1>6, <1>7 DEF name, cameras

\* What is asked of a camera by its listed name.
LEMMA CameraAnswers ==
    ASSUME QueryInv, Reading, NEW i \in DOMAIN heldFrame.cameras
    PROVE  LET c == heldFrame.cameras[i]
               name == GetCameraName(i - 1).value
               sets == {j \in DOMAIN heldFrame.centroids : heldFrame.centroids[j].camera = c.id}
               all == heldFrame.subsampled \o heldFrame.blobs
               hits == {j \in DOMAIN all : all[j].camera = c.id}
           IN /\ GetCameraID(name) = Answer(c.id)
              /\ GetCentroidCount(name) =
                     IF sets = {} THEN Fail("InvalidIndex")
                     ELSE Answer(Len(heldFrame.centroids[First(sets)].centroids))
              /\ GetGreyscaleBlobCount(name) =
                     IF hits = {} THEN Fail("InvalidIndex") ELSE Answer(Len(all[First(hits)].blobs))
              /\ GetGreyscaleBlobSubsampleInfo(name) =
                     IF hits = {} THEN Fail("InvalidIndex") ELSE Answer(all[First(hits)].scale)
              /\ \A k : GetGreyscaleBlob(name, k) =
                     IF hits = {} THEN Fail("InvalidIndex")
                     ELSE At(all[First(hits)].blobs, k, LAMBDA b : b)
<1> DEFINE name == AdaptCameraName(heldFrame.cameras[i])
           all == heldFrame.subsampled \o heldFrame.blobs
<1>1. GetCameraName(i - 1).value = name
    <2>1. GetCameraName(i - 1) = Answer(name)
        BY CameraByName
    <2> HIDE DEF name
    <2> QED
        BY ONLY <2>1 DEF Answer
<1>2. HasData /\ online
    BY DEF Reading
<1>3. /\ First({k \in DOMAIN heldFrame.cameras : AdaptCameraName(heldFrame.cameras[k]) = name}) = i
      /\ {k \in DOMAIN heldFrame.cameras : AdaptCameraName(heldFrame.cameras[k]) = name} # {}
    BY CameraByName
<1>4. GetCameraID(name) = Answer(heldFrame.cameras[i].id)
    BY <1>2, <1>3 DEF GetCameraID, OfHeldCamera, GetCamera, FirstOf, Places
<1>5. GetCentroidCount(name) =
          IF {j \in DOMAIN heldFrame.centroids : heldFrame.centroids[j].camera = heldFrame.cameras[i].id} = {}
          THEN Fail("InvalidIndex")
          ELSE Answer(Len(heldFrame.centroids[First({j \in DOMAIN heldFrame.centroids :
                   heldFrame.centroids[j].camera = heldFrame.cameras[i].id})].centroids))
    BY <1>2, <1>3 DEF GetCentroidCount, SetOf, InCamera, InitGet, GetCamera, FirstOf, Places
<1> DEFINE hits == {j \in DOMAIN all : all[j].camera = heldFrame.cameras[i].id}
<1>6. GetGreyscaleBlobCount(name) =
                     IF hits = {} THEN Fail("InvalidIndex") ELSE Answer(Len(all[First(hits)].blobs))
    BY <1>2, <1>3 DEF GetGreyscaleBlobCount, GetGreyscaleBlobs, SetOf, InCamera, InitGet, GetCamera, FirstOf, Places
<1>7. GetGreyscaleBlobSubsampleInfo(name) =
                     IF hits = {} THEN Fail("InvalidIndex") ELSE Answer(all[First(hits)].scale)
    BY <1>2, <1>3 DEF GetGreyscaleBlobSubsampleInfo, GetGreyscaleBlobs, SetOf, InCamera, InitGet, GetCamera, FirstOf, Places
<1>8. ASSUME NEW k
      PROVE  GetGreyscaleBlob(name, k) =
                     IF hits = {} THEN Fail("InvalidIndex")
                     ELSE At(all[First(hits)].blobs, k, LAMBDA b : b)
    BY <1>2, <1>3 DEF GetGreyscaleBlob, GetGreyscaleBlobs, SetOf, InCamera, InitGet, GetCamera, FirstOf, Places
<1> QED
    BY <1>1, <1>4, <1>5, <1>6, <1>7, <1>8

\* A camera's display name leads to that camera alone, in every query that
\* takes it.
LEMMA CamerasFound == QueryInv => CamerasAreToldApart
<1> SUFFICES ASSUME QueryInv, Reading, NEW i \in DOMAIN heldFrame.cameras
             PROVE  LET c == heldFrame.cameras[i]
                        name == GetCameraName(i - 1).value
                        seen == {x \in Range(heldFrame.centroids) : x.camera = c.id}
                        blobs == {x \in Range(heldFrame.subsampled \o heldFrame.blobs) : x.camera = c.id}
                    IN /\ GetCameraID(name) = Answer(c.id)
                       /\ IF seen = {} THEN GetCentroidCount(name) = Fail("InvalidIndex")
                          ELSE \A x \in seen : GetCentroidCount(name) = Answer(Len(x.centroids))
                       /\ Succeeds(GetGreyscaleBlobCount(name)) => \E x \in blobs :
                            /\ x.scale = GetGreyscaleBlobSubsampleInfo(name).value
                            /\ Len(x.blobs) = GetGreyscaleBlobCount(name).value
                            /\ \A k \in DOMAIN x.blobs : GetGreyscaleBlob(name, k - 1) = Answer(x.blobs[k])
    BY DEF CamerasAreToldApart
<1> DEFINE c == heldFrame.cameras[i]
           name == GetCameraName(i - 1).value
           centroids == heldFrame.centroids
           all == heldFrame.subsampled \o heldFrame.blobs
           sets == {j \in DOMAIN centroids : centroids[j].camera = c.id}
           hits == {j \in DOMAIN all : all[j].camera = c.id}
<1>1. HasCameras(heldFrame)
    BY HeldCameras DEF Reading
<1>2. /\ GetCameraID(name) = Answer(c.id)
      /\ GetCentroidCount(name) =
             IF sets = {} THEN Fail("InvalidIndex") ELSE Answer(Len(centroids[First(sets)].centroids))
      /\ GetGreyscaleBlobCount(name) =
             IF hits = {} THEN Fail("InvalidIndex") ELSE Answer(Len(all[First(hits)].blobs))
      /\ GetGreyscaleBlobSubsampleInfo(name) =
             IF hits = {} THEN Fail("InvalidIndex") ELSE Answer(all[First(hits)].scale)
      /\ \A k : GetGreyscaleBlob(name, k) =
             IF hits = {} THEN Fail("InvalidIndex") ELSE At(all[First(hits)].blobs, k, LAMBDA b : b)
    BY CameraAnswers
<1> HIDE DEF name
<1>3. IF {x \in Range(centroids) : x.camera = c.id} = {} THEN GetCentroidCount(name) = Fail("InvalidIndex")
      ELSE \A x \in {y \in Range(centroids) : y.camera = c.id} : GetCentroidCount(name) = Answer(Len(x.centroids))
    <2>2. ASSUME NEW j \in sets PROVE GetCentroidCount(name) = Answer(Len(centroids[j].centroids))
        <3>1. \A k, l \in DOMAIN centroids : centroids[k].camera = centroids[l].camera => k = l
            BY <1>1 DEF HasCameras, Distinct
        <3>2. sets = {j}
            BY <3>1
        <3>3. j \in Nat
            BY <1>1, DomainOfList DEF HasCameras
        <3>4. First(sets) = j
            BY <3>2, <3>3, OnlyPlace
        <3> QED
            BY <1>2, <3>2, <3>4
    <2>3. \A x \in {y \in Range(centroids) : y.camera = c.id} : \E j \in sets : x = centroids[j]
        BY InRange
    <2>4. sets = {} => {x \in Range(centroids) : x.camera = c.id} = {}
        BY <2>3
    <2>5. sets # {} => {x \in Range(centroids) : x.camera = c.id} # {}
        BY InRange
    <2> HIDE DEF sets
    <2> QED
        BY <1>2, <2>2, <2>3, <2>4, <2>5
<1>4. ASSUME Succeeds(GetGreyscaleBlobCount(name))
      PROVE  \E x \in {y \in Range(all) : y.camera = c.id} :
                /\ x.scale = GetGreyscaleBlobSubsampleInfo(name).value
                /\ Len(x.blobs) = GetGreyscaleBlobCount(name).value
                /\ \A k \in DOMAIN x.blobs : GetGreyscaleBlob(name, k - 1) = Answer(x.blobs[k])
    <2>1. hits # {}
        <3> SUFFICES ASSUME hits = {} PROVE FALSE
            OBVIOUS
        <3>1. GetGreyscaleBlobCount(name) = Fail("InvalidIndex")
            BY <1>2
        <3> QED
            BY ONLY <1>4, <3>1 DEF Succeeds, Fail
    <2>2. IsList(heldFrame.subsampled) /\ IsList(heldFrame.blobs)
        BY <1>1 DEF HasCameras
    <2>3. /\ DOMAIN all = 1 .. Len(all) /\ Len(all) \in Nat
          /\ \A j \in DOMAIN all : all[j] \in Range(heldFrame.subsampled) \cup Range(heldFrame.blobs)
        <3>1. /\ heldFrame.subsampled \in Seq(Range(heldFrame.subsampled) \cup Range(heldFrame.blobs))
              /\ heldFrame.blobs \in Seq(Range(heldFrame.subsampled) \cup Range(heldFrame.blobs))
            BY <2>2 DEF IsList
        <3>2. all \in Seq(Range(heldFrame.subsampled) \cup Range(heldFrame.blobs))
            BY <3>1
        <3> HIDE DEF all
        <3> QED
            BY <3>2
    <2> DEFINE j == First(hits)
               x == all[j]
    <2>4. j \in hits
        <3>1. hits \in SUBSET (1 .. Len(all))
            BY <2>3
        <3> QED
            BY <2>1, <2>3, <3>1, FirstPlace
    <2>5. x \in Range(all) /\ x.camera = c.id /\ IsList(x.blobs)
        BY <1>1, <2>3, <2>4, InRange DEF HasCameras
    <2>6. /\ GetGreyscaleBlobSubsampleInfo(name) = Answer(x.scale)
          /\ GetGreyscaleBlobCount(name) = Answer(Len(x.blobs))
          /\ \A k : GetGreyscaleBlob(name, k) = At(x.blobs, k, LAMBDA b : b)
        BY <1>2, <2>1
    <2> HIDE DEF all, x
    <2>7. \A k \in DOMAIN x.blobs : At(x.blobs, k - 1, LAMBDA b : b) = Answer(x.blobs[k])
        BY <2>5, DomainOfList DEF At
    <2>8. /\ x.scale = GetGreyscaleBlobSubsampleInfo(name).value
          /\ Len(x.blobs) = GetGreyscaleBlobCount(name).value
        BY ONLY <2>6 DEF Answer
    <2>9. x \in {y \in Range(all) : y.camera = c.id}
        BY <2>5
    <2>10. \A k \in DOMAIN x.blobs : GetGreyscaleBlob(name, k - 1) = Answer(x.blobs[k])
        BY <2>6, <2>7
    <2> QED
        BY ONLY <2>8, <2>9, <2>10
<1> QED
    BY <1>2, <1>3, <1>4 DEF name

\* The display name that is listed of a camera leads back to it, its centroids and
\* one set of its blobs, also where cameras share their names, for every frame
\* whose cameras have distinct ids.
THEOREM CamerasKeepApart == QuerySpec => []CamerasAreToldApart
    BY QueriesStay, CamerasFound, PTL

-----------------------------------------------------------------------------
(* Samples of a device, for all rates, start ticks and frames.               *)

LEMMA Quotient ==
  ASSUME NEW a \in Nat, NEW p \in Nat \ {0}
  PROVE  a \div p \in Nat /\ (a \div p) * p <= a /\ a < (a \div p) * p + p
  OBVIOUS

\* Rounding up gives the least number of periods that reach a distance.
LEMMA LeastMultiple ==
  ASSUME NEW q \in Nat, NEW k \in Nat, NEW p \in Nat \ {0}, NEW d \in Nat,
         q * p <= d + p - 1, d + p - 1 < q * p + p
  PROVE  (k >= q) <=> (k * p >= d)
  <1>1. CASE k >= q
    <2>1. k * p >= q * p
      BY <1>1
    <2> QED BY <1>1, <2>1
  <1>2. CASE k < q
    <2>1. (k + 1) * p <= q * p
      BY <1>2
    <2>2. k * p + p <= q * p
      BY <2>1
    <2> QED BY <1>2, <2>2
  <1> QED BY <1>1, <1>2

\* GetNextSampleIndex is the index of the first sample that is not taken before
\* a tick.
LEMMA NextIsFirst ==
  ASSUME NEW tick \in Nat, NEW start \in Nat, NEW p \in Nat \ {0}, NEW k \in Nat
  PROVE  /\ GetNextSampleIndex(tick, start, p) \in Nat
         /\ (k >= GetNextSampleIndex(tick, start, p)) <=> (TickOf(k, start, p) >= tick)
  <1>1. k * p \in Nat
    OBVIOUS
  <1>2. CASE tick < start
    BY <1>1, <1>2 DEF GetNextSampleIndex, TickOf
  <1>3. CASE ~(tick < start)
    <2> DEFINE d == tick - start
               q == (d + p - 1) \div p
    <2>1. d \in Nat /\ d + p - 1 \in Nat
      BY <1>3
    <2>2. q \in Nat /\ q * p <= d + p - 1 /\ d + p - 1 < q * p + p
      BY <2>1, Quotient
    <2>3. GetNextSampleIndex(tick, start, p) = q
      BY <1>3 DEF GetNextSampleIndex
    <2> HIDE DEF q
    <2>4. (k >= q) <=> (k * p >= d)
      BY <2>1, <2>2, LeastMultiple
    <2> QED BY <1>1, <2>2, <2>3, <2>4 DEF TickOf
  <1> QED BY <1>2, <1>3

\* The samples that the client counts to a frame, from GetNextSampleIndex of its
\* first tick up to that of its last, are exactly those taken in the frame.
THEOREM SamplesAreTakenInTheFrame ==
  ASSUME NEW id \in Nat, NEW period \in Nat, NEW start \in Nat, NEW p \in Nat \ {0}, NEW k \in Nat
  PROVE  LET frame == FramePeriod(id, period)
             begin == GetNextSampleIndex(frame.first, start, p)
         IN (begin <= k /\ k < begin + GetSamplesInFrame(frame, start, p))
              <=> (frame.first <= TickOf(k, start, p) /\ TickOf(k, start, p) < frame.second)
  <1> DEFINE frame == FramePeriod(id, period)
             begin == GetNextSampleIndex(frame.first, start, p)
             end == GetNextSampleIndex(frame.second, start, p)
  <1>1. period * id \in Nat
    OBVIOUS
  <1>2. frame.first \in Nat /\ frame.second \in Nat
    BY <1>1 DEF FramePeriod
  <1>3. TickOf(k, start, p) \in Nat
    BY DEF TickOf
  <1>4. begin \in Nat /\ (k >= begin <=> TickOf(k, start, p) >= frame.first)
    BY <1>2, NextIsFirst
  <1>5. end \in Nat /\ (k >= end <=> TickOf(k, start, p) >= frame.second)
    BY <1>2, NextIsFirst
  <1>6. begin + GetSamplesInFrame(frame, start, p) = end
    BY <1>4, <1>5 DEF GetSamplesInFrame
  <1> HIDE DEF frame, begin, end
  <1>7. (begin <= k /\ k < end)
           <=> (frame.first <= TickOf(k, start, p) /\ TickOf(k, start, p) < frame.second)
    BY <1>2, <1>3, <1>4, <1>5
  <1> QED BY <1>6, <1>7 DEF frame, begin, end

\* No sample belongs to two frames: the frames of a stream share none of the
\* samples that are counted to them.
THEOREM NoSampleInTwoFrames ==
  ASSUME NEW id \in Nat, NEW other \in Nat, id < other, NEW period \in Nat,
         NEW start \in Nat, NEW p \in Nat \ {0}, NEW k \in Nat
  PROVE  ~ /\ k < GetNextSampleIndex(FramePeriod(id, period).second, start, p)
           /\ k >= GetNextSampleIndex(FramePeriod(other, period).first, start, p)
  <1>1. period * id \in Nat /\ period * other \in Nat
    OBVIOUS
  <1>2. period * id + period <= period * other
    <2>1. period * (id + 1) <= period * other
      OBVIOUS
    <2> QED BY <2>1
  <1>3. /\ FramePeriod(id, period).second \in Nat /\ FramePeriod(other, period).first \in Nat
        /\ FramePeriod(id, period).second <= FramePeriod(other, period).first
    BY <1>1, <1>2 DEF FramePeriod
  <1>4. TickOf(k, start, p) \in Nat
    BY DEF TickOf
  <1>5. /\ k >= GetNextSampleIndex(FramePeriod(id, period).second, start, p)
             <=> TickOf(k, start, p) >= FramePeriod(id, period).second
        /\ k >= GetNextSampleIndex(FramePeriod(other, period).first, start, p)
             <=> TickOf(k, start, p) >= FramePeriod(other, period).first
        /\ GetNextSampleIndex(FramePeriod(id, period).second, start, p) \in Nat
    BY <1>3, NextIsFirst
  <1> QED BY <1>3, <1>4, <1>5


\* The devices and their samples are as they were sent.
LEMMA HeldDevices ==
    ASSUME QueryInv, HasData
    PROVE  /\ HasDevices(heldFrame) /\ HasSamples(heldFrame) /\ HasPlates(heldFrame)
           /\ heldFrame.id \in Nat
<1>1. PICK f \in Frames : /\ DOMAIN heldFrame = DOMAIN f
                          /\ \A field \in DOMAIN f \ {"globals", "locals"} : heldFrame[field] = f[field]
    BY HeldFrame
<1>2. HasDevices(f) /\ HasSamples(f) /\ HasPlates(f) /\ IsFrame(f)
    BY DevicesAssumption, FramesAssumption
<1>3. /\ heldFrame.period = f.period /\ heldFrame.devices = f.devices
      /\ heldFrame.starts = f.starts /\ heldFrame.channels = f.channels
      /\ heldFrame.samples = f.samples /\ heldFrame.trackers = f.trackers
    BY <1>1, <1>2 DEF HasDevices
<1>4. heldFrame.id = f.id /\ f.id \in Nat
    BY <1>1, <1>2 DEF IsFrame
<1>5. HasDevices(heldFrame)
    BY ONLY <1>1, <1>2, <1>3 DEF HasDevices
<1>6. HasSamples(heldFrame)
    BY ONLY <1>2, <1>3 DEF HasSamples
<1>7. HasPlates(heldFrame)
    BY ONLY <1>2, <1>3 DEF HasPlates
<1> QED
    BY <1>4, <1>5, <1>6, <1>7

\* The period of the device of a channel and the tick at which it was started.
LEMMA DeviceOf ==
    ASSUME QueryInv, HasData, NEW c \in Range(heldFrame.channels)
    PROVE  /\ GetDevicePeriod(c.device) \in Nat \ {0} /\ GetDeviceStartTick(c.device) \in Nat
           /\ \E d \in Range(heldFrame.devices) : d.id = c.device /\ GetDevicePeriod(c.device) = d.period
<1> DEFINE devices == heldFrame.devices
           starts == heldFrame.starts
           mine == {k \in DOMAIN devices : devices[k].id = c.device}
           started == {k \in DOMAIN starts : starts[k].id = c.device}
<1>1. HasDevices(heldFrame)
    BY HeldDevices
<1>2. PICK i \in DOMAIN devices : devices[i].id = c.device
    BY <1>1, InRange DEF HasDevices
<1>3. \A k \in DOMAIN devices : devices[k].id = c.device => k = i
    BY <1>1, <1>2 DEF HasDevices, Distinct, Id
<1>4. mine = {i} /\ i \in Nat
    BY <1>1, <1>2, <1>3, DomainOfList DEF HasDevices
<1>5. First(mine) = i
    BY <1>4, OnlyPlace
<1>6. GetDevicePeriod(c.device) = devices[i].period
    BY <1>4, <1>5 DEF GetDevicePeriod, FirstOf, Places
<1>7. devices[i] \in Range(devices) /\ devices[i].period \in Nat \ {0}
    BY <1>1, InRange DEF HasDevices
<1>8. GetDeviceStartTick(c.device) = IF started = {} THEN 0 ELSE starts[First(started)].tick
    BY DEF GetDeviceStartTick, FirstOf, Places
<1>9. ASSUME started # {} PROVE starts[First(started)].tick \in Nat
    <2>1. First(started) \in started
        <3>1. IsList(starts)
            BY <1>1 DEF HasDevices
        <3>2. Len(starts) \in Nat /\ started \in SUBSET (1 .. Len(starts))
            BY <3>1, DomainOfList
        <3> QED
            BY <1>9, <3>2, FirstPlace
    <2>2. starts[First(started)] \in Range(starts)
        BY <2>1, InRange
    <2> QED
        BY <1>1, <2>2 DEF HasDevices
<1> QED
    BY <1>2, <1>6, <1>7, <1>8, <1>9

\* The records of samples that are searched for a channel are the server's.
LEMMA RecordsOfChannel ==
    ASSUME QueryInv, HasData, NEW c \in Range(heldFrame.channels)
    PROVE  /\ IsList(RecordsOf(c))
           /\ \A x \in Range(RecordsOf(c)) :
                 IsRecordOf(x, c) /\ \E i \in DOMAIN heldFrame.samples[KindOf(c)] : x = heldFrame.samples[KindOf(c)][i]
           /\ KindOf(c) \in Kinds /\ IsList(heldFrame.samples[KindOf(c)])
<1> DEFINE list == heldFrame.samples[KindOf(c)]
           places == {i \in DOMAIN list : IsRecordOf(list[i], c)}
<1>1. KindOf(c) \in Kinds
    BY DEF KindOf, Kinds
<1>2. IsList(list)
    BY <1>1, HeldDevices DEF HasSamples
<1>3. RecordsOf(c) = Selected(list, places)
    BY DEF RecordsOf, Those, Places
<1>4. IsList(Selected(list, places)) /\ Range(Selected(list, places)) = {list[i] : i \in places}
    BY <1>2, SelectedElements
<1> QED
    BY <1>1, <1>2, <1>3, <1>4

\* The period of the samples of a record divides that of its device.
LEMMA PeriodOfRecord ==
    ASSUME QueryInv, HasData, NEW c \in Range(heldFrame.channels), NEW x \in Range(RecordsOf(c))
    PROVE  LET n == Len(c.components)
           IN /\ n \in Nat \ {0} /\ Stride(x, n) \in Nat \ {0} /\ x.frame \in Nat
              /\ SamplePeriod(x, n, c.device) \in Nat \ {0}
              /\ GetDevicePeriod(c.device) % Stride(x, n) = 0
<1> DEFINE n == Len(c.components)
           s == Len(x.samples)
           stride == s \div n
           period == GetDevicePeriod(c.device)
<1>1. HasDevices(heldFrame) /\ HasSamples(heldFrame)
    BY HeldDevices
<1>2. PICK i \in DOMAIN heldFrame.samples[KindOf(c)] : x = heldFrame.samples[KindOf(c)][i]
    BY RecordsOfChannel
<1>3. x \in Range(heldFrame.samples[KindOf(c)]) /\ KindOf(c) \in Kinds /\ IsRecordOf(x, c)
    BY <1>2, InRange, RecordsOfChannel
<1>4. s \in Nat /\ x.frame \in Nat
    <2>1. IsList(x.samples) /\ x.frame \in Nat
        BY <1>1, <1>3 DEF HasSamples
    <2> QED
        BY <2>1, DomainOfList
<1>5. n \in Nat \ {0} /\ s >= n
    <2>1. IsList(c.components) /\ c.components # <<>> /\ s >= n
        BY <1>1, <1>3 DEF HasDevices, IsRecordOf
    <2>2. n = 0 => c.components = <<>>
        BY <2>1 DEF IsList
    <2> QED
        BY <2>1, <2>2, DomainOfList
<1> HIDE DEF n, s
<1>6. stride \in Nat \ {0}
    <2>1. stride \in Nat /\ s < stride * n + n
        BY <1>4, <1>5, Quotient
    <2>2. stride # 0
        <3> HIDE DEF stride
        <3> QED
            BY <1>4, <1>5, <2>1
    <2> QED
        BY <2>1, <2>2
<1>7. Stride(x, n) = stride
    BY DEF Stride, s
<1> HIDE DEF stride
<1>8. period \in Nat \ {0} /\ period % stride = 0
    <2>1. PICK d \in Range(heldFrame.devices) : d.id = c.device /\ period = d.period
        BY DeviceOf
    <2>2. d.period % Stride(x, Len(c.components)) = 0
        BY ONLY <1>1, <1>3, <2>1, c \in Range(heldFrame.channels) DEF HasSamples
    <2> QED
        BY <1>7, <2>1, <2>2, DeviceOf DEF n
<1> HIDE DEF period
<1>9. period \div stride \in Nat \ {0}
    <2> DEFINE q == period \div stride
    <2>1. q \in Nat /\ q * stride <= period
        BY <1>6, <1>8, Quotient
    <2>2. period % stride = period - q * stride
        BY <1>6, <1>8
    <2> HIDE DEF q
    <2>3. q # 0
        BY <1>6, <1>8, <2>1, <2>2
    <2> QED
        BY <2>1, <2>3 DEF q
<1> QED
    BY <1>4, <1>5, <1>6, <1>7, <1>8, <1>9 DEF SamplePeriod, n, period

\* The samples taken in a frame follow each other, from the first that is not
\* before the frame on.
Taken(frame, start, p) ==
    {k \in 0 .. frame.second : TickOf(k, start, p) >= frame.first /\ TickOf(k, start, p) < frame.second}
\* The samples of a frame are a block of indices, counted from its first.
AreCounted(frame, start, p) ==
    LET begin == GetNextSampleIndex(frame.first, start, p)
        taken == Taken(frame, start, p)
    IN /\ begin \in Nat /\ GetSamplesInFrame(frame, start, p) \in Nat
       /\ taken = begin .. begin + GetSamplesInFrame(frame, start, p) - 1
       /\ Cardinality(taken) = GetSamplesInFrame(frame, start, p)
       /\ \A k \in taken : Cardinality({j \in taken : j < k}) = k - begin

LEMMA TakenSamples ==
    ASSUME NEW id \in Nat, NEW period \in Nat, NEW frame, frame = FramePeriod(id, period),
           NEW start \in Nat, NEW p \in Nat \ {0}
    PROVE  AreCounted(frame, start, p)
<1> DEFINE begin == GetNextSampleIndex(frame.first, start, p)
           end == GetNextSampleIndex(frame.second, start, p)
           count == GetSamplesInFrame(frame, start, p)
           taken == Taken(frame, start, p)
<1>1. frame.first \in Nat /\ frame.second \in Nat /\ frame.first <= frame.second
    <2>1. period * id \in Nat
        OBVIOUS
    <2> QED
        BY <2>1 DEF FramePeriod
<1>2. /\ begin \in Nat /\ end \in Nat
      /\ \A k \in Nat : k >= begin <=> TickOf(k, start, p) >= frame.first
      /\ \A k \in Nat : k >= end <=> TickOf(k, start, p) >= frame.second
    BY <1>1, NextIsFirst
<1>3. \A k \in Nat : TickOf(k, start, p) \in Nat /\ k <= TickOf(k, start, p)
    <2> TAKE k \in Nat
    <2>1. k * p >= k /\ k * p \in Nat
        OBVIOUS
    <2> QED
        BY <2>1 DEF TickOf
<1>4. count = end - begin
    BY DEF GetSamplesInFrame
<1> HIDE DEF begin, end, count
<1>5. begin <= end
    BY <1>1, <1>2, <1>3
<1>6. \A k : k \in taken <=> k \in begin .. end - 1
    <2>1. ASSUME NEW k \in Nat
          PROVE  k \in taken <=> k \in begin .. end - 1
        <3>1. TickOf(k, start, p) \in Nat /\ k <= TickOf(k, start, p)
            BY <1>3
        <3>2. k >= begin <=> TickOf(k, start, p) >= frame.first
            BY <1>2
        <3>3. k >= end <=> TickOf(k, start, p) >= frame.second
            BY <1>2
        <3> QED
            BY <1>1, <1>2, <3>1, <3>2, <3>3 DEF Taken
    <2>2. \A k : k \in taken \/ k \in begin .. end - 1 => k \in Nat
        BY <1>1, <1>2 DEF Taken
    <2> QED
        BY <2>1, <2>2
<1>7. taken = begin .. end - 1
    BY <1>6
<1> HIDE DEF taken
<1>8. Cardinality(taken) = end - begin
    <2>1. begin \in Int /\ end - 1 \in Int
        BY <1>2
    <2>2. Cardinality(begin .. end - 1) = IF begin > end - 1 THEN 0 ELSE (end - 1) - begin + 1
        BY ONLY <2>1, FS_Interval
    <2> QED
        BY ONLY <1>2, <1>5, <1>7, <2>2
<1>9. ASSUME NEW k \in taken PROVE Cardinality({j \in taken : j < k}) = k - begin
    <2>1. {j \in taken : j < k} = begin .. k - 1
        BY <1>2, <1>5, <1>7
    <2>3. k \in Int /\ k - 1 \in Int /\ begin \in Int /\ begin <= k
        BY <1>2, <1>5, <1>7
    <2>2. Cardinality(begin .. k - 1) = IF begin > k - 1 THEN 0 ELSE (k - 1) - begin + 1
        BY ONLY <2>3, FS_Interval
    <2>4. Cardinality(begin .. k - 1) = k - begin
        BY ONLY <2>2, <2>3
    <2> QED
        BY ONLY <2>1, <2>4
<1>10. count \in Nat /\ begin + count - 1 = end - 1
    BY <1>2, <1>4, <1>5
<1> QED
    BY <1>2, <1>4, <1>7, <1>8, <1>9, <1>10 DEF begin, end, count, taken, AreCounted

\* An index is in the samples of one device frame only.
LEMMA OneBlock ==
    ASSUME NEW size \in Nat \ {0}, NEW a \in Nat, NEW b \in Nat, NEW k \in Int,
           k >= a * size, k < a * size + size, k >= b * size, k < b * size + size
    PROVE  a = b
<1>1. \A i, j \in Nat : i < j => i * size + size <= j * size
    <2> TAKE i, j \in Nat
    <2> HAVE i < j
    <2>1. (i + 1) * size <= j * size
        OBVIOUS
    <2> QED
        BY <2>1
<1>2. a * size \in Nat /\ b * size \in Nat
    OBVIOUS
<1>3. CASE a < b
    BY <1>1, <1>2, <1>3
<1>4. CASE b < a
    BY <1>1, <1>2, <1>4
<1> QED
    BY <1>3, <1>4

\* Only one record of a channel has a sample, for their sizes are the same and
\* their device frames are different.
LEMMA OneRecordHasIt ==
    ASSUME QueryInv, HasData, NEW c \in Range(heldFrame.channels),
           NEW x \in Range(RecordsOf(c)), NEW y \in Range(RecordsOf(c)), NEW k \in Int,
           SampleIndexInRange(k, x.frame, Stride(x, Len(c.components))),
           SampleIndexInRange(k, y.frame, Stride(y, Len(c.components)))
    PROVE  x = y
<1> DEFINE list == heldFrame.samples[KindOf(c)]
           n == Len(c.components)
           stride == Stride(x, n)
<1>1. HasSamples(heldFrame) /\ KindOf(c) \in Kinds /\ IsRecordOf(x, c) /\ IsRecordOf(y, c)
    BY HeldDevices, RecordsOfChannel
<1>2. PICK i \in DOMAIN list, j \in DOMAIN list : x = list[i] /\ y = list[j]
    BY RecordsOfChannel
<1>3. x \in Range(list) /\ y \in Range(list)
    BY <1>2, InRange
<1>4. Len(x.samples) = Len(y.samples)
    BY ONLY <1>1, <1>3, c \in Range(heldFrame.channels) DEF HasSamples
<1>5. Stride(y, n) = stride /\ stride \in Nat \ {0} /\ x.frame \in Nat /\ y.frame \in Nat
    BY <1>4, PeriodOfRecord DEF Stride
<1> HIDE DEF stride
<1>6. /\ k >= x.frame * stride /\ k < x.frame * stride + stride
      /\ k >= y.frame * stride /\ k < y.frame * stride + stride
    BY <1>5 DEF SampleIndexInRange, stride
<1>7. x.frame = y.frame
    BY <1>5, <1>6, OneBlock
<1>8. i = j
    <2>1. \A k1, k2 \in DOMAIN list :
              <<list[k1].device, list[k1].channel, list[k1].frame>> = <<list[k2].device, list[k2].channel, list[k2].frame>>
                  => k1 = k2
        BY <1>1 DEF HasSamples, Distinct
    <2>2. x.device = y.device /\ x.channel = y.channel
        BY <1>1 DEF IsRecordOf
    <2> QED
        BY <1>2, <1>7, <2>1, <2>2
<1> QED
    BY <1>2, <1>8

LEMMA SamplesFound == QueryInv => SamplesOfTheFrame
<1> SUFFICES ASSUME QueryInv, Reading, NEW c \in Range(heldFrame.channels), NEW x \in Range(RecordsOf(c))
             PROVE  LET n == Len(c.components)
                        Tick(k) == TickOf(k, GetDeviceStartTick(c.device), SamplePeriod(x, n, c.device))
                        taken == {k \in 0 .. HeldPeriod.second :
                                      Tick(k) >= HeldPeriod.first /\ Tick(k) < HeldPeriod.second}
                    IN /\ CountOf(x, n, c.device) = Cardinality(taken)
                       /\ \A i \in 1 .. Stride(x, n) :
                            LET k == x.frame * Stride(x, n) + i - 1
                                nth == Cardinality({j \in taken : j < k})
                            IN k \in taken =>
                                   FirstSample(RecordsOf(c), n, c.device, nth, Occluded)
                                       = Answer([m \in 1 .. n |-> x.samples[(m - 1) * Stride(x, n) + i]])
    BY DEF SamplesOfTheFrame
<1> DEFINE n == Len(c.components)
           start == GetDeviceStartTick(c.device)
           p == SamplePeriod(x, n, c.device)
           stride == Stride(x, n)
           frame == HeldPeriod
           begin == GetNextSampleIndex(frame.first, start, p)
           count == GetSamplesInFrame(frame, start, p)
           taken == Taken(frame, start, p)
<1>1. HasData
    BY DEF Reading
<1>2. heldFrame.id \in Nat /\ heldFrame.period \in Nat
    BY <1>1, HeldDevices DEF HasDevices
<1>3. start \in Nat /\ p \in Nat \ {0} /\ n \in Nat \ {0} /\ stride \in Nat \ {0} /\ x.frame \in Nat
    BY <1>1, DeviceOf, PeriodOfRecord
<1>4. /\ begin \in Nat /\ count \in Nat /\ taken = begin .. begin + count - 1
      /\ Cardinality(taken) = count
      /\ \A k \in taken : Cardinality({j \in taken : j < k}) = k - begin
    <2>1. PICK id \in Nat, period \in Nat : frame = FramePeriod(id, period)
        BY <1>2 DEF HeldPeriod
    <2> HIDE DEF start, p, frame
    <2>2. AreCounted(frame, start, p)
        BY ONLY <1>3, <2>1, TakenSamples
    <2> QED
        BY ONLY <2>2 DEF AreCounted
<1>5. CountOf(x, n, c.device) = count
    BY DEF CountOf
<1>6. ASSUME NEW i \in 1 .. stride, x.frame * stride + i - 1 \in taken
      PROVE  FirstSample(RecordsOf(c), n, c.device,
                         Cardinality({j \in taken : j < x.frame * stride + i - 1}), Occluded)
                 = Answer([m \in 1 .. n |-> x.samples[(m - 1) * stride + i]])
    <2> DEFINE k == x.frame * stride + i - 1
               nth == Cardinality({j \in taken : j < k})
               records == RecordsOf(c)
               hits == {r \in DOMAIN records : TakeSample(records[r], n, c.device, nth) # NotHere}
    <2>1. k \in Int /\ nth = k - begin /\ nth \in Nat /\ nth < count /\ k = nth + begin
        <3>1. x.frame * stride \in Nat
            BY <1>3
        <3>2. k \in Int
            BY <3>1
        <3> HIDE DEF k
        <3>3. nth = k - begin
            BY <1>4, <1>6 DEF k
        <3>4. k \in begin .. begin + count - 1
            BY <1>4, <1>6 DEF k
        <3> HIDE DEF nth
        <3> QED
            BY <1>4, <3>2, <3>3, <3>4
    <2>2. /\ SampleIndexInRange(k, x.frame, stride) /\ SubSample(k, x.frame, stride) = i - 1
        <3>1. x.frame * stride \in Nat
            BY <1>3
        <3> DEFINE base == x.frame * stride
        <3>2. base \in Nat /\ k = base + i - 1 /\ i \in 1 .. stride /\ stride \in Nat
            BY <1>3, <3>1
        <3> HIDE DEF base, k, stride
        <3>3. k >= base /\ k < base + stride /\ k - base = i - 1
            BY ONLY <3>2
        <3> QED
            BY ONLY <3>3 DEF base, SampleIndexInRange, SubSample
    <2> HIDE DEF nth
    <2>3. TakeSample(x, n, c.device, nth) = Answer([m \in 1 .. n |-> x.samples[(m - 1) * stride + i]])
        <3>1. RequestedSampleIndex(nth, frame, start, p) = k
            BY <2>1 DEF RequestedSampleIndex
        <3>2. ~(nth >= CountOf(x, n, c.device))
            BY <1>4, <1>5, <2>1
        <3> HIDE DEF k
        <3>3. TakeSample(x, n, c.device, nth)
                  = Answer([m \in 1 .. n |-> x.samples[(m - 1) * stride + (i - 1) + 1]])
            BY ONLY <2>2, <3>1, <3>2 DEF TakeSample
        <3>4. \A m \in 1 .. n : (m - 1) * stride + (i - 1) + 1 = (m - 1) * stride + i
            <4> TAKE m \in 1 .. n
            <4>1. (m - 1) * stride \in Int
                BY <1>3
            <4> QED
                BY <4>1
        <3> QED
            BY <3>3, <3>4
    <2>4. ASSUME NEW y \in Range(records), TakeSample(y, n, c.device, nth) # NotHere
          PROVE  y = x
        <3>1. Stride(y, n) = stride
            <4>1. /\ IsRecordOf(x, c) /\ IsRecordOf(y, c) /\ HasSamples(heldFrame)
                  /\ x \in Range(heldFrame.samples[KindOf(c)]) /\ y \in Range(heldFrame.samples[KindOf(c)])
                BY <1>1, HeldDevices, RecordsOfChannel, InRange
            <4>2. Len(x.samples) = Len(y.samples)
                BY ONLY <4>1, c \in Range(heldFrame.channels) DEF HasSamples
            <4> QED
                BY <4>2 DEF Stride
        <3>2. SamplePeriod(y, n, c.device) = p /\ CountOf(y, n, c.device) = count
            BY <3>1 DEF SamplePeriod, CountOf
        <3>3. ~(nth >= CountOf(y, n, c.device)) /\ RequestedSampleIndex(nth, frame, start, p) = k
            BY <1>4, <2>1, <3>2 DEF RequestedSampleIndex
        <3>4. SampleIndexInRange(k, y.frame, Stride(y, n))
            <4> HIDE DEF k, p, start
            <4> QED
                BY ONLY <2>4, <3>1, <3>2, <3>3 DEF TakeSample, p, start
        <3> QED
            BY <1>1, <2>1, <2>2, <3>4, OneRecordHasIt
    <2>5. PICK r \in DOMAIN records : x = records[r]
        BY InRange
    <2>6. r \in hits
        <3>1. TakeSample(x, n, c.device, nth) # NotHere
            BY ONLY <2>3 DEF Answer, NotHere, Fail
        <3> QED
            BY <2>5, <3>1
    <2>7. First(hits) \in hits
        <3>1. Len(records) \in Nat /\ hits \in SUBSET (1 .. Len(records))
            BY <1>1, RecordsOfChannel, DomainOfList
        <3> QED
            BY <2>6, <3>1, FirstPlace
    <2>8. records[First(hits)] = x
        BY <2>4, <2>7, InRange
    <2>9. FirstSample(records, n, c.device, nth, Occluded) = TakeSample(records[First(hits)], n, c.device, nth)
        BY <2>6 DEF FirstSample, FirstOf, Places
    <2> QED
        BY <2>3, <2>8, <2>9 DEF nth
<1> QED
    BY <1>4, <1>5, <1>6 DEF Taken

\* Of every channel the client counts and gives the samples that were taken while
\* the frame was captured, each at its place, for any rates of frame and device.
THEOREM SamplesKeepToTheirFrame == QuerySpec => []SamplesOfTheFrame
    BY QueriesStay, SamplesFound, PTL


-----------------------------------------------------------------------------
(* Subjects and segments by their names.                                     *)

\* The subjects of the frame that is held are as they were sent.
LEMMA HeldSubjects ==
    ASSUME QueryInv, HasData
    PROVE  /\ HasSubjects(heldFrame)
           /\ IsList(heldFrame.latencies) /\ Distinct(heldFrame.latencies, Name)
           /\ IsList(heldFrame.labeled)
<1>1. PICK f \in Frames : /\ IsFrame(f)
                          /\ \A field \in DOMAIN f \ {"globals", "locals"} : heldFrame[field] = f[field]
    BY HeldFrame
<1>2. /\ heldFrame.subjects = f.subjects /\ heldFrame.latencies = f.latencies
      /\ heldFrame.labeled = f.labeled
    BY <1>1 DEF IsFrame
<1>3. HasSubjects(f) /\ IsList(f.latencies) /\ Distinct(f.latencies, Name) /\ IsList(f.labeled)
    BY <1>1 DEF IsFrame
<1> QED
    BY ONLY <1>2, <1>3 DEF HasSubjects

\* A name that is sent leads to one place in its list.
LEMMA SubjectPlace ==
    ASSUME QueryInv, HasData, NEW i \in DOMAIN heldFrame.subjects
    PROVE  LET subjects == heldFrame.subjects
               s == subjects[i]
               hits == {k \in DOMAIN subjects : s.name # "" /\ subjects[k].name = s.name}
           IN IsSubject(s) /\ hits = {i} /\ First(hits) = i
<1> DEFINE subjects == heldFrame.subjects
           s == subjects[i]
           hits == {k \in DOMAIN subjects : s.name # "" /\ subjects[k].name = s.name}
<1>1. HasSubjects(heldFrame)
    BY HeldSubjects
<1>2. /\ IsList(subjects) /\ s.name # "" /\ IsSubject(s)
      /\ \A k, j \in DOMAIN subjects : subjects[k].name = subjects[j].name => k = j
    BY <1>1, InRange DEF HasSubjects, Distinct, Name
<1>3. hits = {i} /\ i \in Nat
    BY <1>2, DomainOfList
<1> HIDE DEF hits
<1>4. First(hits) = i
    BY <1>3, OnlyPlace
<1> QED
    BY <1>2, <1>3, <1>4 DEF hits

LEMMA NamePlace ==
    ASSUME NEW list, IsList(list), Distinct(list, Name), \A x \in Range(list) : x.name # "",
           NEW j \in DOMAIN list
    PROVE  LET hits == {k \in DOMAIN list : list[j].name # "" /\ list[k].name = list[j].name}
           IN hits = {j} /\ First(hits) = j
<1> DEFINE hits == {k \in DOMAIN list : list[j].name # "" /\ list[k].name = list[j].name}
<1>1. /\ list[j].name # "" /\ j \in Nat
      /\ \A k, l \in DOMAIN list : list[k].name = list[l].name => k = l
    BY InRange, DomainOfList DEF Distinct, Name
<1>2. hits = {j}
    BY <1>1
<1> HIDE DEF hits
<1>3. First(hits) = j
    BY <1>1, <1>2, OnlyPlace
<1> QED
    BY <1>2, <1>3 DEF hits

\* What the client says of a part of the pose of a segment.
PoseT(lists, s, g) ==
    LET hits == Pose(lists, s, g)
    IN IF hits = {} THEN Occluded ELSE Answer(MappedT((CHOOSE p \in hits : TRUE).t))
PoseR(lists, s, g) ==
    LET hits == Pose(lists, s, g)
    IN IF hits = {} THEN Occluded ELSE Answer(MappedR((CHOOSE p \in hits : TRUE).r))
SegmentT(lists, s, segment) ==
    FirstOf(s.segments, LAMBDA g : segment # "" /\ g.name = segment,
            LAMBDA g : PoseT(lists, s, g), Fail("InvalidSegmentName"))
SegmentR(lists, s, segment) ==
    FirstOf(s.segments, LAMBDA g : segment # "" /\ g.name = segment,
            LAMBDA g : PoseR(lists, s, g), Fail("InvalidSegmentName"))

LEMMA PoseOfSegment ==
    ASSUME NEW s, IsSubject(s), NEW j \in DOMAIN s.segments, NEW lists
    PROVE  /\ SegmentT(lists, s, s.segments[j].name) = PoseT(lists, s, s.segments[j])
           /\ SegmentR(lists, s, s.segments[j].name) = PoseR(lists, s, s.segments[j])
<1> DEFINE list == s.segments
           hits == {k \in DOMAIN list : list[j].name # "" /\ list[k].name = list[j].name}
<1>1. IsList(list) /\ Distinct(list, Name) /\ \A x \in Range(list) : x.name # ""
    BY DEF IsSubject
<1>2. hits = {j} /\ First(hits) = j
    <2> HIDE DEF list
    <2>1. j \in DOMAIN list
        BY DEF list
    <2> QED
        BY ONLY <1>1, <2>1, NamePlace
<1>3. SegmentT(lists, s, list[j].name) =
          IF hits = {} THEN Fail("InvalidSegmentName") ELSE PoseT(lists, s, list[First(hits)])
    BY DEF SegmentT, FirstOf, Places
<1>4. SegmentR(lists, s, list[j].name) =
          IF hits = {} THEN Fail("InvalidSegmentName") ELSE PoseR(lists, s, list[First(hits)])
    BY DEF SegmentR, FirstOf, Places
<1> HIDE DEF hits
<1> QED
    BY <1>2, <1>3, <1>4

\* What the four queries of poses answer for names that were sent.
LEMMA PoseAnswers ==
    ASSUME QueryInv, Reading, NEW i \in DOMAIN heldFrame.subjects,
           NEW j \in DOMAIN heldFrame.subjects[i].segments
    PROVE  LET s == heldFrame.subjects[i]
               g == s.segments[j]
           IN /\ GetSegmentGlobalTranslation(s.name, g.name) = PoseT(heldFrame.globals, s, g)
              /\ GetSegmentGlobalRotationMatrix(s.name, g.name) = PoseR(heldFrame.globals, s, g)
              /\ GetSegmentLocalTranslation(s.name, g.name) = PoseT(heldFrame.locals, s, g)
              /\ GetSegmentLocalRotationMatrix(s.name, g.name) = PoseR(heldFrame.locals, s, g)
<1> DEFINE subjects == heldFrame.subjects
           s == subjects[i]
           g == s.segments[j]
           hits == {k \in DOMAIN subjects : s.name # "" /\ subjects[k].name = s.name}
           Missing == Fail("InvalidSubjectName")
<1>1. online /\ HasData
    BY DEF Reading
<1>2. hits # {} /\ First(hits) = i /\ IsSubject(s)
    BY <1>1, SubjectPlace
<1>3. /\ SegmentT(heldFrame.globals, s, g.name) = PoseT(heldFrame.globals, s, g)
      /\ SegmentR(heldFrame.globals, s, g.name) = PoseR(heldFrame.globals, s, g)
      /\ SegmentT(heldFrame.locals, s, g.name) = PoseT(heldFrame.locals, s, g)
      /\ SegmentR(heldFrame.locals, s, g.name) = PoseR(heldFrame.locals, s, g)
    BY <1>2, PoseOfSegment
<1>4. GetSegmentGlobalTranslation(s.name, g.name) =
          IF hits = {} THEN Missing ELSE SegmentT(heldFrame.globals, subjects[First(hits)], g.name)
    BY <1>1 DEF GetSegmentGlobalTranslation, PoseAnswer, InSegment, InSubject, InitGet, FirstOf, Places, SegmentT, PoseT
<1>5. GetSegmentGlobalRotationMatrix(s.name, g.name) =
          IF hits = {} THEN Missing ELSE SegmentR(heldFrame.globals, subjects[First(hits)], g.name)
    BY <1>1 DEF GetSegmentGlobalRotationMatrix, PoseAnswer, InSegment, InSubject, InitGet, FirstOf, Places, SegmentR, PoseR
<1>6. GetSegmentLocalTranslation(s.name, g.name) =
          IF hits = {} THEN Missing ELSE SegmentT(heldFrame.locals, subjects[First(hits)], g.name)
    BY <1>1 DEF GetSegmentLocalTranslation, PoseAnswer, InSegment, InSubject, InitGet, FirstOf, Places, SegmentT, PoseT
<1>7. GetSegmentLocalRotationMatrix(s.name, g.name) =
          IF hits = {} THEN Missing ELSE SegmentR(heldFrame.locals, subjects[First(hits)], g.name)
    BY <1>1 DEF GetSegmentLocalRotationMatrix, PoseAnswer, InSegment, InSubject, InitGet, FirstOf, Places, SegmentR, PoseR
<1> HIDE DEF hits
<1> QED
    BY <1>2, <1>3, <1>4, <1>5, <1>6, <1>7


-----------------------------------------------------------------------------
(* Lightweight segment data.                                                 *)

LEMMA QuarterTurns ==
    /\ Sin(1) = 1 /\ Sin(2) = 0 /\ Sin(3) = -1
    /\ Cos(1) = 0 /\ Cos(2) = -1 /\ Cos(3) = 0
<1>1. 0 % 4 = 0 /\ 1 % 4 = 1 /\ 2 % 4 = 2 /\ 3 % 4 = 3 /\ 4 % 4 = 0
    OBVIOUS
<1>2. /\ Sin(1) = 1 /\ Sin(2) = 0 /\ Sin(3) = -1 /\ Sin(4) = 0
    BY ONLY <1>1 DEF Sin
<1>3. Cos(1) = Sin(2) /\ Cos(2) = Sin(3) /\ Cos(3) = Sin(4)
    BY ONLY DEF Cos
<1> QED
    BY ONLY <1>2, <1>3

\* Orthogonal directions and their cross product are a rotation.
LEMMA UnitRows ==
    ASSUME NEW x \in UnitVectors, NEW y \in UnitVectors, NEW z, DotProduct(x, y) = 0, z = CrossProduct(x, y)
    PROVE  <<x, y, z>> \in Rotations
<1> DEFINE m == <<x, y, CrossProduct(x, y)>>
<1>1. m \in {<<v, w, CrossProduct(v, w)>> : v, w \in UnitVectors} /\ DotProduct(m[1], m[2]) = 0
    OBVIOUS
<1> QED
    BY <1>1 DEF Rotations

\* A turn about a unit vector is a rotation of the cube.
LEMMA HelicalRotations ==
    ASSUME NEW axis \in UnitVectors, NEW turns \in 0 .. 3
    PROVE  HelicalToMatrix(axis, turns) \in Rotations
<1>0. /\ HelicalToMatrix(axis, 0) \in Rotations
      /\ <<<<1, 0, 0>>, <<0, 0, 1>>, <<0, -1, 0>>>> \in Rotations
      /\ <<<<1, 0, 0>>, <<0, 0, -1>>, <<0, 1, 0>>>> \in Rotations
      /\ <<<<1, 0, 0>>, <<0, -1, 0>>, <<0, 0, -1>>>> \in Rotations
      /\ <<<<0, 1, 0>>, <<-1, 0, 0>>, <<0, 0, 1>>>> \in Rotations
      /\ <<<<0, 0, 1>>, <<0, 1, 0>>, <<-1, 0, 0>>>> \in Rotations
      /\ <<<<0, 0, -1>>, <<0, 1, 0>>, <<1, 0, 0>>>> \in Rotations
      /\ <<<<0, -1, 0>>, <<1, 0, 0>>, <<0, 0, 1>>>> \in Rotations
      /\ <<<<-1, 0, 0>>, <<0, 1, 0>>, <<0, 0, -1>>>> \in Rotations
      /\ <<<<-1, 0, 0>>, <<0, -1, 0>>, <<0, 0, 1>>>> \in Rotations
    <2>1. HelicalToMatrix(axis, 0) \in Rotations
        BY NoRotationKeeps DEF HelicalToMatrix
    <2>2. <<<<1, 0, 0>>, <<0, 0, 1>>, <<0, -1, 0>>>> \in Rotations
        BY SixUnitVectors, UnitRows DEF DotProduct, CrossProduct, Sum3
    <2>3. <<<<1, 0, 0>>, <<0, 0, -1>>, <<0, 1, 0>>>> \in Rotations
        BY SixUnitVectors, UnitRows DEF DotProduct, CrossProduct, Sum3
    <2>4. <<<<1, 0, 0>>, <<0, -1, 0>>, <<0, 0, -1>>>> \in Rotations
        BY SixUnitVectors, UnitRows DEF DotProduct, CrossProduct, Sum3
    <2>5. <<<<0, 1, 0>>, <<-1, 0, 0>>, <<0, 0, 1>>>> \in Rotations
        BY SixUnitVectors, UnitRows DEF DotProduct, CrossProduct, Sum3
    <2>6. <<<<0, 0, 1>>, <<0, 1, 0>>, <<-1, 0, 0>>>> \in Rotations
        BY SixUnitVectors, UnitRows DEF DotProduct, CrossProduct, Sum3
    <2>7. <<<<0, 0, -1>>, <<0, 1, 0>>, <<1, 0, 0>>>> \in Rotations
        BY SixUnitVectors, UnitRows DEF DotProduct, CrossProduct, Sum3
    <2>8. <<<<0, -1, 0>>, <<1, 0, 0>>, <<0, 0, 1>>>> \in Rotations
        BY SixUnitVectors, UnitRows DEF DotProduct, CrossProduct, Sum3
    <2>9. <<<<-1, 0, 0>>, <<0, 1, 0>>, <<0, 0, -1>>>> \in Rotations
        BY SixUnitVectors, UnitRows DEF DotProduct, CrossProduct, Sum3
    <2>10. <<<<-1, 0, 0>>, <<0, -1, 0>>, <<0, 0, 1>>>> \in Rotations
        BY SixUnitVectors, UnitRows DEF DotProduct, CrossProduct, Sum3
    <2> QED
        BY ONLY <2>1, <2>2, <2>3, <2>4, <2>5, <2>6, <2>7, <2>8, <2>9, <2>10
<1>7. turns = 0 \/ turns = 1 \/ turns = 2 \/ turns = 3
    OBVIOUS
<1>1. CASE axis = <<1, 0, 0>>
    <2>1. HelicalToMatrix(<<1, 0, 0>>, 1) = <<<<1, 0, 0>>, <<0, 0, -1>>, <<0, 1, 0>>>>
        BY ONLY QuarterTurns DEF HelicalToMatrix
    <2>2. HelicalToMatrix(<<1, 0, 0>>, 2) = <<<<1, 0, 0>>, <<0, -1, 0>>, <<0, 0, -1>>>>
        BY ONLY QuarterTurns DEF HelicalToMatrix
    <2>3. HelicalToMatrix(<<1, 0, 0>>, 3) = <<<<1, 0, 0>>, <<0, 0, 1>>, <<0, -1, 0>>>>
        BY ONLY QuarterTurns DEF HelicalToMatrix
    <2>4. /\ HelicalToMatrix(<<1, 0, 0>>, 1) \in Rotations
          /\ HelicalToMatrix(<<1, 0, 0>>, 2) \in Rotations
          /\ HelicalToMatrix(<<1, 0, 0>>, 3) \in Rotations
        BY ONLY <1>0, <2>1, <2>2, <2>3
    <2> QED
        BY ONLY <1>1, <1>0, <1>7, <2>4
<1>2. CASE axis = <<-1, 0, 0>>
    <2>1. HelicalToMatrix(<<-1, 0, 0>>, 1) = <<<<1, 0, 0>>, <<0, 0, 1>>, <<0, -1, 0>>>>
        BY ONLY QuarterTurns DEF HelicalToMatrix
    <2>2. HelicalToMatrix(<<-1, 0, 0>>, 2) = <<<<1, 0, 0>>, <<0, -1, 0>>, <<0, 0, -1>>>>
        BY ONLY QuarterTurns DEF HelicalToMatrix
    <2>3. HelicalToMatrix(<<-1, 0, 0>>, 3) = <<<<1, 0, 0>>, <<0, 0, -1>>, <<0, 1, 0>>>>
        BY ONLY QuarterTurns DEF HelicalToMatrix
    <2>4. /\ HelicalToMatrix(<<-1, 0, 0>>, 1) \in Rotations
          /\ HelicalToMatrix(<<-1, 0, 0>>, 2) \in Rotations
          /\ HelicalToMatrix(<<-1, 0, 0>>, 3) \in Rotations
        BY ONLY <1>0, <2>1, <2>2, <2>3
    <2> QED
        BY ONLY <1>2, <1>0, <1>7, <2>4
<1>3. CASE axis = <<0, 1, 0>>
    <2>1. HelicalToMatrix(<<0, 1, 0>>, 1) = <<<<0, 0, 1>>, <<0, 1, 0>>, <<-1, 0, 0>>>>
        BY ONLY QuarterTurns DEF HelicalToMatrix
    <2>2. HelicalToMatrix(<<0, 1, 0>>, 2) = <<<<-1, 0, 0>>, <<0, 1, 0>>, <<0, 0, -1>>>>
        BY ONLY QuarterTurns DEF HelicalToMatrix
    <2>3. HelicalToMatrix(<<0, 1, 0>>, 3) = <<<<0, 0, -1>>, <<0, 1, 0>>, <<1, 0, 0>>>>
        BY ONLY QuarterTurns DEF HelicalToMatrix
    <2>4. /\ HelicalToMatrix(<<0, 1, 0>>, 1) \in Rotations
          /\ HelicalToMatrix(<<0, 1, 0>>, 2) \in Rotations
          /\ HelicalToMatrix(<<0, 1, 0>>, 3) \in Rotations
        BY ONLY <1>0, <2>1, <2>2, <2>3
    <2> QED
        BY ONLY <1>3, <1>0, <1>7, <2>4
<1>4. CASE axis = <<0, -1, 0>>
    <2>1. HelicalToMatrix(<<0, -1, 0>>, 1) = <<<<0, 0, -1>>, <<0, 1, 0>>, <<1, 0, 0>>>>
        BY ONLY QuarterTurns DEF HelicalToMatrix
    <2>2. HelicalToMatrix(<<0, -1, 0>>, 2) = <<<<-1, 0, 0>>, <<0, 1, 0>>, <<0, 0, -1>>>>
        BY ONLY QuarterTurns DEF HelicalToMatrix
    <2>3. HelicalToMatrix(<<0, -1, 0>>, 3) = <<<<0, 0, 1>>, <<0, 1, 0>>, <<-1, 0, 0>>>>
        BY ONLY QuarterTurns DEF HelicalToMatrix
    <2>4. /\ HelicalToMatrix(<<0, -1, 0>>, 1) \in Rotations
          /\ HelicalToMatrix(<<0, -1, 0>>, 2) \in Rotations
          /\ HelicalToMatrix(<<0, -1, 0>>, 3) \in Rotations
        BY ONLY <1>0, <2>1, <2>2, <2>3
    <2> QED
        BY ONLY <1>4, <1>0, <1>7, <2>4
<1>5. CASE axis = <<0, 0, 1>>
    <2>1. HelicalToMatrix(<<0, 0, 1>>, 1) = <<<<0, -1, 0>>, <<1, 0, 0>>, <<0, 0, 1>>>>
        BY ONLY QuarterTurns DEF HelicalToMatrix
    <2>2. HelicalToMatrix(<<0, 0, 1>>, 2) = <<<<-1, 0, 0>>, <<0, -1, 0>>, <<0, 0, 1>>>>
        BY ONLY QuarterTurns DEF HelicalToMatrix
    <2>3. HelicalToMatrix(<<0, 0, 1>>, 3) = <<<<0, 1, 0>>, <<-1, 0, 0>>, <<0, 0, 1>>>>
        BY ONLY QuarterTurns DEF HelicalToMatrix
    <2>4. /\ HelicalToMatrix(<<0, 0, 1>>, 1) \in Rotations
          /\ HelicalToMatrix(<<0, 0, 1>>, 2) \in Rotations
          /\ HelicalToMatrix(<<0, 0, 1>>, 3) \in Rotations
        BY ONLY <1>0, <2>1, <2>2, <2>3
    <2> QED
        BY ONLY <1>5, <1>0, <1>7, <2>4
<1>6. CASE axis = <<0, 0, -1>>
    <2>1. HelicalToMatrix(<<0, 0, -1>>, 1) = <<<<0, 1, 0>>, <<-1, 0, 0>>, <<0, 0, 1>>>>
        BY ONLY QuarterTurns DEF HelicalToMatrix
    <2>2. HelicalToMatrix(<<0, 0, -1>>, 2) = <<<<-1, 0, 0>>, <<0, -1, 0>>, <<0, 0, 1>>>>
        BY ONLY QuarterTurns DEF HelicalToMatrix
    <2>3. HelicalToMatrix(<<0, 0, -1>>, 3) = <<<<0, -1, 0>>, <<1, 0, 0>>, <<0, 0, 1>>>>
        BY ONLY QuarterTurns DEF HelicalToMatrix
    <2>4. /\ HelicalToMatrix(<<0, 0, -1>>, 1) \in Rotations
          /\ HelicalToMatrix(<<0, 0, -1>>, 2) \in Rotations
          /\ HelicalToMatrix(<<0, 0, -1>>, 3) \in Rotations
        BY ONLY <1>0, <2>1, <2>2, <2>3
    <2> QED
        BY ONLY <1>6, <1>0, <1>7, <2>4
<1> QED
    BY SixUnitVectors, <1>1, <1>2, <1>3, <1>4, <1>5, <1>6

\* Lightweight data: a translation, and an axis and a number of quarter turns.
IsLight(light) ==
    \A l \in light : l.t \in Triples /\ l.axis \in UnitVectors /\ l.turns \in 0 .. 3
Poses(light) ==
    [ id : {l.id : l \in light}, localT : Triples, localR : Rotations, t : Triples, r : Rotations ]

\* The poses of a subject by their depth in the tree of its segments.
Below(s, p) == {c.id : c \in Range(Children(s, p))}
DataOf(light, ids) == {l \in light : l.id \in ids}
FirstLevel(root, light) == {PoseBelow(<<0, 0, 0>>, NoRotation, l) : l \in DataOf(light, {root.id})}
NextLevel(s, light, level) ==
    UNION {{PoseBelow(p.t, p.r, l) : l \in DataOf(light, Below(s, p))} : p \in level}
AreLevels(f, s, root, light) ==
    /\ f \in [0 .. Len(s.segments) -> SUBSET Poses(light)]
    /\ f[0] = FirstLevel(root, light)
    /\ \A d \in 1 .. Len(s.segments) : f[d] = NextLevel(s, light, f[d - 1])
Placed(f, s) == UNION {f[d] : d \in 0 .. Len(s.segments)}

\* A pose below another is their composition.
LEMMA PosesBelow ==
    ASSUME NEW light, IsLight(light), NEW l \in light, NEW t \in Triples, NEW r \in Rotations
    PROVE  LET turned == HelicalToMatrix(l.axis, l.turns)
           IN /\ PoseBelow(t, r, l) =
                     [ id |-> l.id, localT |-> l.t, localR |-> turned,
                       t |-> Plus(t, TimesVector(r, l.t)), r |-> Times(r, turned) ]
              /\ PoseBelow(t, r, l) \in Poses(light)
<1> DEFINE turned == HelicalToMatrix(l.axis, l.turns)
<1>1. turned \in Rotations /\ l.t \in Triples
    BY HelicalRotations DEF IsLight
<1>2. Times(r, turned) \in Rotations
    BY <1>1, ProductOfRotations
<1>3. Plus(t, TimesVector(r, l.t)) \in Triples
    BY <1>1, RotationRows, TriplesOfMatrix
<1>4. PoseBelow(t, r, l) =
                     [ id |-> l.id, localT |-> l.t, localR |-> turned,
                       t |-> Plus(t, TimesVector(r, l.t)), r |-> Times(r, turned) ]
    BY DEF PoseBelow
<1> HIDE DEF turned
<1> QED
    BY <1>1, <1>2, <1>3, <1>4 DEF Poses, turned

LEMMA LevelsAreOfPoses ==
    ASSUME NEW s, NEW root, NEW light, IsLight(light)
    PROVE  /\ FirstLevel(root, light) \in SUBSET Poses(light)
           /\ \A level \in SUBSET Poses(light) : NextLevel(s, light, level) \in SUBSET Poses(light)
<1>1. <<0, 0, 0>> \in Triples /\ NoRotation \in Rotations
    BY NoRotationKeeps DEF Triples, Index
<1>2. \A l \in light, t \in Triples, r \in Rotations : PoseBelow(t, r, l) \in Poses(light)
    BY PosesBelow
<1>3. FirstLevel(root, light) \in SUBSET Poses(light)
    BY <1>1, <1>2 DEF FirstLevel, DataOf
<1>4. ASSUME NEW level \in SUBSET Poses(light), NEW q \in NextLevel(s, light, level)
      PROVE  q \in Poses(light)
    <2>1. PICK p \in level, l \in light : q = PoseBelow(p.t, p.r, l)
        BY <1>4 DEF NextLevel, DataOf
    <2>2. p.t \in Triples /\ p.r \in Rotations
        BY <1>4 DEF Poses
    <2> QED
        BY <1>2, <2>1, <2>2
<1> QED
    BY <1>3, <1>4

\* The walk over the tree collects its levels, or nothing when it finds data
\* missing.
LEMMA LevelsOf ==
    ASSUME NEW s, Len(s.segments) \in Nat, NEW root, NEW light, IsLight(light)
    PROVE  \E f : /\ AreLevels(f, s, root, light)
                  /\ CalculateSegmentGlobalFromLocal(s, root, light) =
                         IF \A p \in Placed(f, s) : Below(s, p) \subseteq {l.id : l \in light}
                         THEN Placed(f, s) ELSE {}
<1> DEFINE n == Len(s.segments)
           S == SUBSET Poses(light)
           Is(f) ==
               f = [depth \in 0 .. Len(s.segments) |->
                       IF depth = 0 THEN FirstLevel(root, light) ELSE NextLevel(s, light, f[depth - 1])]
<1>1. /\ FirstLevel(root, light) \in S
      /\ \A level \in S : NextLevel(s, light, level) \in S
    BY LevelsAreOfPoses
<1>2. PICK m \in Nat : m = n
    OBVIOUS
<1>3. ASSUME NEW f, Is(f) PROVE AreLevels(f, s, root, light)
    <2> HIDE DEF S
    <2>1. /\ DOMAIN f = 0 .. m /\ f[0] = FirstLevel(root, light)
          /\ \A d \in 1 .. m : f[d] = NextLevel(s, light, f[d - 1])
        <3>1. f = [depth \in 0 .. m |->
                     IF depth = 0 THEN FirstLevel(root, light) ELSE NextLevel(s, light, f[depth - 1])]
            BY <1>2, <1>3
        <3>2. 0 \in 0 .. m /\ \A d \in 1 .. m : d \in 0 .. m /\ d # 0
            OBVIOUS
        <3> HIDE DEF Is
        <3> QED
            BY ONLY <3>1, <3>2
    <2> DEFINE G == {d \in 0 .. m : f[d] \in S}
    <2>2. 0 \in G
        BY <1>1, <2>1
    <2>3. \A d \in 1 .. m : d - 1 \in G => d \in G
        BY <1>1, <2>1
    <2>4. \A d \in 0 .. m : d \in G
        <3> HIDE DEF G
        <3> QED
            BY <2>2, <2>3, CountingUp
    <2>5. f \in [0 .. m -> S]
        <3>1. f = [d \in 0 .. m |-> f[d]]
            <4>1. f = [depth \in 0 .. m |->
                     IF depth = 0 THEN FirstLevel(root, light) ELSE NextLevel(s, light, f[depth - 1])]
                BY <1>2, <1>3
            <4> HIDE DEF Is
            <4> QED
                BY ONLY <4>1
        <3>2. \A d \in 0 .. m : f[d] \in S
            BY <2>4
        <3> QED
            BY ONLY <3>1, <3>2
    <2> HIDE DEF Is
    <2> QED
        BY <1>2, <2>1, <2>5 DEF AreLevels, S
<1>4. \E f : Is(f)
    <2> DEFINE step == [i \in 1 .. m |-> [level \in S |-> NextLevel(s, light, level)]]
    <2> HIDE DEF S
    <2>1. step \in [1 .. m -> [S -> S]]
        BY <1>1
    <2>2. \A i \in 1 .. m, level \in S : step[i][level] = NextLevel(s, light, level)
        OBVIOUS
    <2> HIDE DEF step
    <2>3. PICK f : Stepwise(f, m, S, FirstLevel(root, light), step)
        BY <1>1, <2>1, StepwiseFunction
    <2>4. f \in [0 .. m -> S] /\ f[0] = FirstLevel(root, light) /\ \A i \in 1 .. m : f[i] = step[i][f[i - 1]]
        BY <2>3 DEF Stepwise
    <2>5. ASSUME NEW i \in 1 .. m PROVE f[i] = NextLevel(s, light, f[i - 1])
        <3>1. f[i - 1] \in S
            <4>1. i - 1 \in 0 .. m
                OBVIOUS
            <4> QED
                BY <2>4, <4>1
        <3> QED
            BY <2>2, <2>4, <3>1
    <2>6. \A i \in 0 .. m : i # 0 => i \in 1 .. m
        OBVIOUS
    <2>7. Is(f)
        BY <1>2, <2>4, <2>5, <2>6
    <2> QED
        BY <2>7
<1>5. PICK f : f = CHOOSE g : Is(g)
    OBVIOUS
<1>6. Is(f)
    <2> HIDE DEF Is
    <2> QED
        BY <1>4, <1>5
<1>7. CalculateSegmentGlobalFromLocal(s, root, light) =
          LET poses == UNION {f[depth] : depth \in DOMAIN f}
          IN IF \A p \in poses : Below(s, p) \subseteq {l.id : l \in light} THEN poses ELSE {}
    BY <1>5 DEF CalculateSegmentGlobalFromLocal, FirstLevel, NextLevel, DataOf, Below
<1>8. AreLevels(f, s, root, light)
    BY <1>3, <1>6
<1>9. DOMAIN f = 0 .. Len(s.segments)
    BY ONLY <1>8 DEF AreLevels
<1> HIDE DEF Is
<1> QED
    BY <1>7, <1>8, <1>9 DEF Placed


LEMMA EmptyList ==
    ASSUME NEW list, IsList(list), Range(list) = {}
    PROVE  list = <<>>
<1>1. list \in Seq({})
    BY DEF IsList
<1> QED
    BY <1>1

\* The segments of a subject point to one root, or it has no segments without a
\* parent at all.
LEMMA RootPlace ==
    ASSUME NEW s, IsSubject(s)
    PROVE  \/ /\ RootOf(s) = <<>>
              /\ \A g \in Range(s.segments) : g.parent # 0
           \/ \E j \in DOMAIN s.segments : /\ s.segments[j].parent = 0
                                           /\ RootOf(s) = <<s.segments[j]>>
                                           /\ \A g \in Range(s.segments) : g.parent = 0 => g = s.segments[j]
<1> DEFINE list == s.segments
           hits == {k \in DOMAIN list : list[k].parent = 0}
<1>1. /\ IsList(list) /\ \A j, k \in DOMAIN list : list[j].id = list[k].id => j = k
      /\ \A g, h \in Range(list) : g.parent = 0 /\ h.parent = 0 => g = h
    BY DEF IsSubject, IsTree, Distinct, Id
<1>2. RootOf(s) = Selected(list, hits)
    BY DEF RootOf, Those, Places
<1>3. CASE hits = {}
    <2>1. IsList(RootOf(s)) /\ Range(RootOf(s)) = {}
        <3>1. hits \in SUBSET DOMAIN list
            OBVIOUS
        <3>2. Range(Selected(list, hits)) = {list[i] : i \in hits} /\ IsList(Selected(list, hits))
            BY <1>1, <3>1, SelectedElements
        <3>3. {list[i] : i \in hits} = {}
            BY ONLY <1>3
        <3> QED
            BY ONLY <1>2, <3>2, <3>3
    <2>2. RootOf(s) = <<>>
        BY <2>1, EmptyList
    <2>3. \A g \in Range(list) : g.parent # 0
        BY <1>3, InRange
    <2> QED
        BY <2>2, <2>3
<1>4. CASE hits # {}
    <2>1. PICK j \in hits : TRUE
        BY <1>4
    <2>2. \A k \in hits : list[k] = list[j]
        BY <1>1, <2>1, InRange
    <2>3. hits = {j}
        BY <1>1, <2>1, <2>2
    <2>4. j \in DOMAIN list /\ list[j].parent = 0
        BY <2>1
    <2>5. RootOf(s) = <<list[j]>>
        <3> HIDE DEF hits
        <3> QED
            BY ONLY <1>1, <1>2, <2>3, <2>4, SelectedOne
    <2>6. \A g \in Range(list) : g.parent = 0 => g = list[j]
        BY <1>1, <2>4, InRange
    <2> QED
        BY <2>4, <2>5, <2>6
<1> QED
    BY <1>3, <1>4

\* The subjects that are worked out are those before the first without a root.
LEMMA SubjectsBefore ==
    ASSUME NEW subjects, IsList(subjects)
    PROVE  LET B == BeforeRootless(subjects)
           IN /\ IsList(B) /\ DOMAIN B \subseteq DOMAIN subjects
              /\ \A i \in DOMAIN B : B[i] = subjects[i] /\ RootOf(subjects[i]) # <<>>
<1> DEFINE B == BeforeRootless(subjects)
           n == Len(subjects)
           S == Range(subjects)
           places == {i \in DOMAIN subjects : RootOf(subjects[i]) = <<>>} \cup {n + 1}
           m == First(places)
<1>1. n \in Nat /\ DOMAIN subjects = 1 .. n /\ subjects \in Seq(S)
    BY DomainOfList DEF IsList
<1>2. /\ places \in SUBSET (1 .. (n + 1)) /\ places # {} /\ n + 1 \in Nat
      /\ \A i \in 1 .. n : RootOf(subjects[i]) = <<>> => i \in places
    BY <1>1
<1>3. B = SubSeq(subjects, 1, m - 1)
    BY DEF BeforeRootless
<1> HIDE DEF places, S, n, B
<1>4. m \in places /\ \A j \in places : m <= j
    BY <1>2, FirstPlace
<1>5. m \in 1 .. (n + 1) /\ \A i \in 1 .. (m - 1) : i \notin places
    <2>1. m \in 1 .. (n + 1)
        BY ONLY <1>2, <1>4
    <2>2. \A i \in 1 .. (m - 1) : ~(m <= i)
        BY ONLY <2>1, <1>1
    <2> QED
        BY ONLY <1>4, <2>1, <2>2
<1> HIDE DEF m
<1>6. B \in Seq(S) /\ Len(B) = m - 1 /\ \A i \in 1 .. (m - 1) : B[i] = subjects[i]
    BY <1>1, <1>3, <1>5, SubSeqProperties
<1>7. DOMAIN B = 1 .. (m - 1) /\ m - 1 \in 0 .. n
    <2>1. DOMAIN B = 1 .. Len(B)
        BY <1>6
    <2> QED
        BY ONLY <1>1, <1>5, <1>6, <2>1
<1>8. \A i \in 1 .. (m - 1) : i \in 1 .. n
    BY <1>1, <1>5
<1>9. IsList(B)
    BY <1>6, ListOf
<1> QED
    BY <1>1, <1>2, <1>5, <1>6, <1>7, <1>8, <1>9 DEF B


\* The poses that the client adds to a frame with lightweight data.
GlobalOf(f, s) == {[id |-> p.id, t |-> p.t, r |-> p.r] : p \in PosesOf(f, s)}
LocalOf(f, s) == {[id |-> p.id, t |-> p.localT, r |-> p.localR] : p \in PosesOf(f, s)}
GlobalLists(f, posed) == [i \in DOMAIN posed |-> [subject |-> posed[i].id, segments |-> GlobalOf(f, posed[i])]]
LocalLists(f, posed) == [i \in DOMAIN posed |-> [subject |-> posed[i].id, segments |-> LocalOf(f, posed[i])]]
PosedPlaces(f) == {i \in DOMAIN BeforeRootless(f.subjects) : PosesOf(f, f.subjects[i]) # {}}

LEMMA NothingBefore ==
    ASSUME NEW S, NEW list \in Seq(S)
    PROVE  <<>> \o list = list
    OBVIOUS

\* The lists of poses that the completed frame has.
LEMMA CompletedPoses ==
    ASSUME NEW f, IsFrame(f), f.lightweights # <<>>
    PROVE  \E posed : /\ IsList(posed)
                      /\ Range(posed) = {f.subjects[i] : i \in PosedPlaces(f)}
                      /\ CalculateGlobalsFromLocals(f).globals = GlobalLists(f, posed)
                      /\ CalculateGlobalsFromLocals(f).locals = LocalLists(f, posed)
<1> DEFINE subjects == f.subjects
           B == BeforeRootless(subjects)
           places == Places(B, LAMBDA s : PosesOf(f, s) # {})
           posed == Selected(B, places)
           c == CalculateGlobalsFromLocals(f)
<1>1. /\ f.globals = <<>> /\ f.locals = <<>> /\ IsList(subjects)
      /\ "globals" \in DOMAIN f /\ "locals" \in DOMAIN f
    BY DEF IsFrame, HasPoses, HasSubjects
<1>2. IsList(B) /\ \A i \in DOMAIN B : B[i] = subjects[i]
    <2> HIDE DEF subjects
    <2> QED
        BY <1>1, SubjectsBefore
<1>3. places = {i \in DOMAIN B : PosesOf(f, B[i]) # {}}
    BY DEF Places
<1>4. places = PosedPlaces(f)
    BY <1>2, <1>3 DEF PosedPlaces
<1>5. places \in SUBSET DOMAIN B
    BY <1>3
<1>6. IsList(posed) /\ Range(posed) = {B[i] : i \in places}
    <2> HIDE DEF B, places
    <2> QED
        BY <1>2, <1>5, SelectedElements
<1>7. {B[i] : i \in places} = {subjects[i] : i \in places}
    <2> HIDE DEF B, places, subjects
    <2> QED
        BY <1>2, <1>5
<1>8. /\ c.globals = f.globals \o GlobalLists(f, posed)
      /\ c.locals = f.locals \o LocalLists(f, posed)
    <2>1. c = [f EXCEPT !.globals = @ \o GlobalLists(f, posed), !.locals = @ \o LocalLists(f, posed)]
        BY DEF CalculateGlobalsFromLocals, Those, GlobalLists, LocalLists, GlobalOf, LocalOf
    <2> HIDE DEF c, posed
    <2> QED
        BY <1>1, <2>1
<1> HIDE DEF posed
<1>9. /\ GlobalLists(f, posed) \in Seq({[subject |-> posed[i].id, segments |-> GlobalOf(f, posed[i])] : i \in DOMAIN posed})
      /\ LocalLists(f, posed) \in Seq({[subject |-> posed[i].id, segments |-> LocalOf(f, posed[i])] : i \in DOMAIN posed})
    <2>1. PICK n \in Nat : DOMAIN posed = 1 .. n
        BY <1>6, DomainOfList
    <2> QED
        BY <2>1 DEF GlobalLists, LocalLists
<1>10. c.globals = GlobalLists(f, posed) /\ c.locals = LocalLists(f, posed)
    <2> HIDE DEF c
    <2>1. <<>> \o GlobalLists(f, posed) = GlobalLists(f, posed)
        BY <1>9, NothingBefore
    <2>2. <<>> \o LocalLists(f, posed) = LocalLists(f, posed)
        BY <1>9, NothingBefore
    <2> QED
        BY <1>1, <1>8, <2>1, <2>2
<1> HIDE DEF places, B
<1> QED
    BY <1>4, <1>6, <1>7, <1>10

\* The poses of a subject are computed from its own lightweight data.
LEMMA PosesComputed ==
    ASSUME NEW f, IsFrame(f), NEW s \in Range(f.subjects)
    PROVE  \/ /\ PosesOf(f, s) = {}
              /\ \A x \in Range(f.lightweights) : x.subject # s.id
           \/ \E x \in Range(f.lightweights) :
                 /\ x.subject = s.id /\ IsLight(x.segments)
                 /\ \A y \in Range(f.lightweights) : y.subject = s.id => y = x
                 /\ \A l, m \in x.segments : l.id = m.id => l = m
                 /\ \A l \in x.segments : \E g \in Range(s.segments) : g.id = l.id
                 /\ PosesOf(f, s) = CalculateSegmentGlobalFromLocal(s, RootOf(s)[1], x.segments)
<1> DEFINE list == f.lightweights
           hits == {k \in DOMAIN list : list[k].subject = s.id}
           Of(x) == CalculateSegmentGlobalFromLocal(s, RootOf(s)[1], x.segments)
<1>1. /\ IsList(list)
      /\ \A i, j \in DOMAIN list : list[i].subject = list[j].subject => i = j
      /\ \A x \in Range(list) :
          /\ \A l, m \in x.segments : l.id = m.id => l = m
          /\ \A l \in x.segments :
                /\ l.t \in Triples /\ l.axis \in UnitVectors /\ l.turns \in 0 .. 3
                /\ s.id = x.subject => \E g \in Range(s.segments) : g.id = l.id
    BY DEF IsFrame, HasPoses, Distinct
<1>2. PosesOf(f, s) = IF hits = {} THEN {} ELSE Of(list[First(hits)])
    BY DEF PosesOf, FirstOf, Places
<1>3. CASE hits = {}
    <2>1. \A x \in Range(list) : x.subject # s.id
        BY <1>3, InRange
    <2> QED
        BY <1>2, <1>3, <2>1
<1>4. CASE hits # {}
    <2>1. PICK j \in DOMAIN list : list[j].subject = s.id
        BY <1>4
    <2>2. hits = {j} /\ j \in Nat
        BY <1>1, <2>1, DomainOfList
    <2> HIDE DEF hits
    <2>3. First(hits) = j
        BY <2>2, OnlyPlace
    <2>4. PosesOf(f, s) = Of(list[j])
        BY ONLY <1>2, <1>4, <2>3
    <2>5. list[j] \in Range(list)
        BY <2>1, InRange
    <2>6. IsLight(list[j].segments)
        BY <1>1, <2>5 DEF IsLight
    <2>7. \A y \in Range(list) : y.subject = s.id => y = list[j]
        BY <1>1, <2>1, InRange
    <2> QED
        BY <1>1, <2>1, <2>4, <2>5, <2>6, <2>7
<1> QED
    BY <1>3, <1>4

LEMMA PosesArePoses ==
    ASSUME NEW f, IsFrame(f), NEW s \in Range(f.subjects), NEW p \in PosesOf(f, s)
    PROVE  /\ p.t \in Triples /\ p.r \in Rotations /\ p.localT \in Triples /\ p.localR \in Rotations
<1>1. PICK x \in Range(f.lightweights) :
          /\ IsLight(x.segments)
          /\ PosesOf(f, s) = CalculateSegmentGlobalFromLocal(s, RootOf(s)[1], x.segments)
    BY PosesComputed
<1>2. Len(s.segments) \in Nat
    BY DomainOfList DEF IsFrame, HasSubjects, IsSubject
<1>3. PICK root : root = RootOf(s)[1]
    OBVIOUS
<1>4. PICK g : /\ AreLevels(g, s, root, x.segments)
               /\ CalculateSegmentGlobalFromLocal(s, root, x.segments) =
                      IF \A q \in Placed(g, s) : Below(s, q) \subseteq {l.id : l \in x.segments}
                      THEN Placed(g, s) ELSE {}
    BY <1>1, <1>2, LevelsOf
<1>5. p \in Placed(g, s)
    BY <1>1, <1>3, <1>4
<1>6. g \in [0 .. Len(s.segments) -> SUBSET Poses(x.segments)]
    BY <1>4 DEF AreLevels
<1>7. p \in Poses(x.segments)
    BY <1>5, <1>6 DEF Placed
<1> QED
    BY <1>7 DEF Poses


\* Translations and rotations in all of a list of poses.
ArePoses(list) == \A x \in Range(list) : \A p \in x.segments : p.t \in Triples /\ p.r \in Rotations

\* All poses of a held frame are of integers and rotations, sent or computed.
LEMMA HeldPoses ==
    ASSUME QueryInv, HasData
    PROVE  ArePoses(heldFrame.globals) /\ ArePoses(heldFrame.locals)
<1>1. PICK f \in Frames : IsFrame(f) /\ heldFrame = Completed(f)
    BY HeldFrame
<1>2. CASE f.lightweights = <<>>
    <2>1. heldFrame = f
        BY <1>1, <1>2 DEF Completed
    <2> QED
        BY <1>1, <2>1 DEF IsFrame, HasPoses, ArePoses
<1>3. CASE f.lightweights # <<>>
    <2>1. heldFrame = CalculateGlobalsFromLocals(f)
        BY <1>1, <1>3 DEF Completed
    <2>2. PICK posed : /\ IsList(posed)
                       /\ Range(posed) = {f.subjects[i] : i \in PosedPlaces(f)}
                       /\ heldFrame.globals = GlobalLists(f, posed)
                       /\ heldFrame.locals = LocalLists(f, posed)
        BY <1>1, <1>3, <2>1, CompletedPoses
    <2>3. \A s \in Range(posed) : s \in Range(f.subjects)
        <3>1. PosedPlaces(f) \subseteq DOMAIN f.subjects
            BY <1>1, SubjectsBefore DEF PosedPlaces, IsFrame, HasSubjects
        <3>2. \A i \in PosedPlaces(f) : f.subjects[i] \in Range(f.subjects)
            BY <3>1, InRange
        <3> QED
            BY ONLY <2>2, <3>2
    <2>4. ASSUME NEW x \in Range(GlobalLists(f, posed)), NEW p \in x.segments
          PROVE  p.t \in Triples /\ p.r \in Rotations
        <3>1. PICK i \in DOMAIN posed : x.segments = GlobalOf(f, posed[i])
            BY <2>4, InRange DEF GlobalLists
        <3>2. posed[i] \in Range(f.subjects)
            BY <2>3, InRange
        <3>3. PICK q \in PosesOf(f, posed[i]) : p = [id |-> q.id, t |-> q.t, r |-> q.r]
            BY <3>1 DEF GlobalOf
        <3> QED
            BY <1>1, <3>2, <3>3, PosesArePoses
    <2>5. ASSUME NEW x \in Range(LocalLists(f, posed)), NEW p \in x.segments
          PROVE  p.t \in Triples /\ p.r \in Rotations
        <3>1. PICK i \in DOMAIN posed : x.segments = LocalOf(f, posed[i])
            BY <2>5, InRange DEF LocalLists
        <3>2. posed[i] \in Range(f.subjects)
            BY <2>3, InRange
        <3>3. PICK q \in PosesOf(f, posed[i]) : p = [id |-> q.id, t |-> q.localT, r |-> q.localR]
            BY <3>1 DEF LocalOf
        <3> QED
            BY <1>1, <3>2, <3>3, PosesArePoses
    <2> QED
        BY <2>2, <2>4, <2>5 DEF ArePoses
<1> QED
    BY <1>2, <1>3

LEMMA PosesFound ==
    ASSUME NEW lists, ArePoses(lists), NEW s, NEW g, NEW p \in Pose(lists, s, g)
    PROVE  p.t \in Triples /\ p.r \in Rotations
<1>1. PICK i \in DOMAIN lists : p \in lists[i].segments
    BY DEF Pose
<1> QED
    BY <1>1, InRange DEF ArePoses

\* A pose that is put together in the axes of the server is the one put together
\* in those of the client.
LEMMA MappedSum ==
    ASSUME AxesInv, NEW t \in Triples, NEW r \in Rotations, NEW v \in Triples, NEW n \in Rotations
    PROVE  /\ MappedT(Plus(t, TimesVector(r, v))) = Plus(MappedT(t), TimesVector(MappedR(r), MappedT(v)))
           /\ MappedT(Plus(TimesVector(r, v), t)) = Plus(TimesVector(MappedR(r), MappedT(v)), MappedT(t))
           /\ MappedR(Times(r, n)) = Times(MappedR(r), MappedR(n))
<1> DEFINE k == Change(axes, yUp)
<1>1. IsMapping(axes) /\ yUp \in BOOLEAN
    BY DEF AxesInv
<1>2. /\ k \in Rotations
      /\ \A x \in Triples : MappedT(x) = TimesVector(k, x)
      /\ \A m \in Matrices : MappedR(m) = Times(Times(k, m), Transpose(k))
    BY <1>1, ChangeOfAxes DEF MappedT, MappedR
<1> HIDE DEF k
<1>3. k \in Matrices /\ r \in Matrices /\ n \in Matrices
    BY <1>2, RotationRows
<1>4. /\ TimesVector(Times(Times(k, r), Transpose(k)), TimesVector(k, v)) = TimesVector(k, TimesVector(r, v))
      /\ Times(Times(Times(k, r), Transpose(k)), Times(Times(k, n), Transpose(k)))
             = Times(Times(k, Times(r, n)), Transpose(k))
    BY <1>2, <1>3, ChangeKeepsPoses
<1>5. TimesVector(r, v) \in Triples
    BY <1>3, TriplesOfMatrix
<1>6. Plus(t, TimesVector(r, v)) \in Triples /\ Plus(TimesVector(r, v), t) \in Triples
    BY <1>3, <1>5, TriplesOfMatrix
<1>7. Times(r, n) \in Matrices
    BY <1>3, MatricesOfMatrices
<1>8. /\ TimesVector(k, Plus(t, TimesVector(r, v))) = Plus(TimesVector(k, t), TimesVector(k, TimesVector(r, v)))
      /\ TimesVector(k, Plus(TimesVector(r, v), t)) = Plus(TimesVector(k, TimesVector(r, v)), TimesVector(k, t))
    BY <1>3, <1>5, TurnedSum
<1> QED
    BY ONLY <1>2, <1>3, <1>4, <1>6, <1>7, <1>8, t \in Triples, v \in Triples


-----------------------------------------------------------------------------
(* Eye trackers.                                                             *)

\* Where the client says that the eye tracker t is.
TrackerAt(t) == WornOn(t, LAMBDA p : Plus(TimesVector(p.r, t.t), p.t))

\* What is told of an eye tracker by its id.
LEMMA TrackerById ==
    ASSUME QueryInv, Reading, NEW t \in Range(heldFrame.trackers)
    PROVE  GetEyeTrackerGlobalPosition(t.id) = TrackerAt(t) /\ t.t \in Triples
<1> DEFINE list == heldFrame.trackers
           n == Len(list)
           back == Reverse(list)
           hits == {k \in DOMAIN back : back[k].id = t.id}
<1>1. online /\ HasData
    BY DEF Reading
<1>2. IsList(list) /\ (\A i, j \in DOMAIN list : list[i].id = list[j].id => i = j) /\ t.t \in Triples
    BY <1>1, HeldDevices DEF HasDevices, Distinct, Id
<1>3. n \in Nat /\ DOMAIN list = 1 .. n
    BY <1>2, DomainOfList
<1>4. GetEyeTrackerGlobalPosition(t.id) = IF hits = {} THEN Fail("InvalidIndex") ELSE TrackerAt(back[First(hits)])
    BY <1>1 DEF GetEyeTrackerGlobalPosition, InitGet, LastOf, FirstOf, Places, TrackerAt
<1>5. DOMAIN back = 1 .. n /\ \A k \in 1 .. n : back[k] = list[(n - k) + 1]
    BY DEF Reverse
<1>6. PICK m \in 1 .. n : t = list[m]
    BY <1>3, InRange
<1> HIDE DEF back, n
<1>7. hits = {(n - m) + 1} /\ (n - m) + 1 \in Nat /\ back[(n - m) + 1] = t
    <2>1. \A k \in 1 .. n : (n - k) + 1 \in 1 .. n /\ (n - ((n - k) + 1)) + 1 = k
        BY <1>3
    <2>2. (n - m) + 1 \in 1 .. n /\ back[(n - m) + 1] = t
        <3>1. list[(n - ((n - m) + 1)) + 1] = t
            BY <1>6, <2>1
        <3> QED
            BY <1>5, <2>1, <3>1
    <2>3. ASSUME NEW k \in 1 .. n, back[k].id = t.id PROVE k = (n - m) + 1
        <3>1. list[(n - k) + 1].id = list[m].id
            BY <1>5, <1>6, <2>3
        <3>2. (n - k) + 1 = m
            BY <1>2, <1>3, <2>1, <3>1
        <3> QED
            BY <1>3, <3>2
    <2> QED
        BY <1>5, <2>2, <2>3
<1> HIDE DEF hits
<1>8. First(hits) = (n - m) + 1
    BY <1>7, OnlyPlace
<1> QED
    BY <1>2, <1>4, <1>7, <1>8

\* Change of axes commutes with the pose of the segment the eye tracker is worn
\* on.
LEMMA EyeIsWorn == QueryInv => EyeGoesWithSegment
<1> SUFFICES ASSUME QueryInv, Reading,
                    NEW t \in Range(heldFrame.trackers),
                    NEW i \in DOMAIN heldFrame.subjects,
                    NEW j \in DOMAIN heldFrame.subjects[i].segments,
                    heldFrame.subjects[i].id = t.subject,
                    heldFrame.subjects[i].segments[j].id = t.segment
             PROVE  LET s == heldFrame.subjects[i]
                        g == s.segments[j]
                        r == GetSegmentGlobalRotationMatrix(s.name, g.name)
                        p == GetSegmentGlobalTranslation(s.name, g.name)
                    IN GetEyeTrackerGlobalPosition(t.id) =
                           IF ~Succeeds(p) THEN p
                           ELSE Answer(Plus(TimesVector(r.value, MappedT(t.t)), p.value))
    BY InRange DEF EyeGoesWithSegment
<1> DEFINE s == heldFrame.subjects[i]
           g == s.segments[j]
           r == GetSegmentGlobalRotationMatrix(s.name, g.name)
           p == GetSegmentGlobalTranslation(s.name, g.name)
           hits == Pose(heldFrame.globals, s, g)
           q == CHOOSE x \in hits : TRUE
<1>1. HasData /\ AxesInv
    BY DEF Reading, QueryInv
<1>2. GetEyeTrackerGlobalPosition(t.id) = TrackerAt(t) /\ t.t \in Triples
    BY TrackerById
<1>3. /\ p = IF hits = {} THEN Occluded ELSE Answer(MappedT(q.t))
      /\ r = IF hits = {} THEN Occluded ELSE Answer(MappedR(q.r))
    BY PoseAnswers DEF PoseT, PoseR
<1>4. TrackerAt(t) = IF hits = {} THEN Occluded ELSE Answer(MappedT(Plus(TimesVector(q.r, t.t), q.t)))
    <2>1. PosesWornOn(t) = hits
        BY DEF PosesWornOn, Pose
    <2> HIDE DEF hits
    <2> QED
        BY <2>1 DEF TrackerAt, WornOn
<1> HIDE DEF p, r
<1>5. CASE hits = {}
    BY <1>2, <1>3, <1>4, <1>5 DEF Occluded, Fail, Succeeds, p, r
<1>6. CASE hits # {}
    <2>1. q \in hits
        BY <1>6
    <2>2. q.t \in Triples /\ q.r \in Rotations
        <3>1. ArePoses(heldFrame.globals)
            BY <1>1, HeldPoses
        <3> QED
            BY <2>1, <3>1, PosesFound
    <2> HIDE DEF hits, q
    <2>3. MappedT(Plus(TimesVector(q.r, t.t), q.t)) = Plus(TimesVector(MappedR(q.r), MappedT(t.t)), MappedT(q.t))
        <3>1. NoRotation \in Rotations
            BY NoRotationKeeps
        <3> QED
            BY <1>1, <1>2, <2>2, <3>1, MappedSum
    <2>4. p = Answer(MappedT(q.t)) /\ r = Answer(MappedR(q.r))
        BY <1>3, <1>6
    <2>5. Succeeds(p) /\ p.value = MappedT(q.t) /\ r.value = MappedR(q.r)
        BY <2>4 DEF Answer, Succeeds
    <2> QED
        BY <1>2, <1>4, <1>6, <2>3, <2>5 DEF p, r
<1> QED
    BY <1>5, <1>6

\* An eye tracker goes with the segment that it is worn on: its position is told
\* in the axes of the client by the pose that the client tells of that segment,
\* for every frame, choice of axes and orientation of the server's world.
THEOREM EyeStaysOnItsSegment == QuerySpec => []EyeGoesWithSegment
    BY QueriesStay, EyeIsWorn, PTL


-----------------------------------------------------------------------------
(* The tree of the segments.                                                 *)

\* What the client says of a segment of a subject.
ParentOf(s, g) ==
    FirstOf(s.segments, LAMBDA p : p.id = g.parent, LAMBDA p : Answer(p.name), Fail("Unknown"))
SegmentParent(s, segment) ==
    FirstOf(s.segments, LAMBDA g : segment # "" /\ g.name = segment,
            LAMBDA g : ParentOf(s, g), Fail("InvalidSegmentName"))
SegmentChildCount(s, segment) ==
    FirstOf(s.segments, LAMBDA g : segment # "" /\ g.name = segment,
            LAMBDA g : Answer(Len(Children(s, g))), Fail("InvalidSegmentName"))
SegmentChild(s, segment, n) ==
    FirstOf(s.segments, LAMBDA g : segment # "" /\ g.name = segment,
            LAMBDA g : At(Children(s, g), n, Name), Fail("InvalidSegmentName"))
RootName(s) == IF RootOf(s) = <<>> THEN Fail("Unknown") ELSE Answer(RootOf(s)[1].name)

LEMMA OfSegmentByName ==
    ASSUME NEW s, IsSubject(s), NEW j \in DOMAIN s.segments
    PROVE  /\ SegmentParent(s, s.segments[j].name) = ParentOf(s, s.segments[j])
           /\ SegmentChildCount(s, s.segments[j].name) = Answer(Len(Children(s, s.segments[j])))
           /\ \A n : SegmentChild(s, s.segments[j].name, n) = At(Children(s, s.segments[j]), n, Name)
<1> DEFINE list == s.segments
           hits == {k \in DOMAIN list : list[j].name # "" /\ list[k].name = list[j].name}
           Missing == Fail("InvalidSegmentName")
<1>1. IsList(list) /\ Distinct(list, Name) /\ \A x \in Range(list) : x.name # ""
    BY DEF IsSubject
<1>2. hits = {j} /\ First(hits) = j
    <2> HIDE DEF list
    <2>1. j \in DOMAIN list
        BY DEF list
    <2> QED
        BY ONLY <1>1, <2>1, NamePlace
<1>3. SegmentParent(s, list[j].name) = IF hits = {} THEN Missing ELSE ParentOf(s, list[First(hits)])
    BY DEF SegmentParent, FirstOf, Places
<1>4. SegmentChildCount(s, list[j].name) = IF hits = {} THEN Missing ELSE Answer(Len(Children(s, list[First(hits)])))
    BY DEF SegmentChildCount, FirstOf, Places
<1>5. ASSUME NEW n
      PROVE  SegmentChild(s, list[j].name, n) = IF hits = {} THEN Missing ELSE At(Children(s, list[First(hits)]), n, Name)
    BY DEF SegmentChild, FirstOf, Places
<1> HIDE DEF hits
<1> QED
    BY <1>2, <1>3, <1>4, <1>5

\* What the queries of the tree of segments answer for names that were sent.
LEMMA SubjectAnswers ==
    ASSUME QueryInv, Reading, NEW i \in DOMAIN heldFrame.subjects
    PROVE  LET s == heldFrame.subjects[i]
           IN /\ GetSubjectRootSegmentName(s.name) = RootName(s)
              /\ GetSegmentCount(s.name) = Answer(Len(s.segments))
              /\ \A n : GetSegmentName(s.name, n) = At(s.segments, n, Name)
<1> DEFINE subjects == heldFrame.subjects
           s == subjects[i]
           hits == {k \in DOMAIN subjects : s.name # "" /\ subjects[k].name = s.name}
           Missing == Fail("InvalidSubjectName")
<1>1. online /\ HasData
    BY DEF Reading
<1>2. hits # {} /\ First(hits) = i
    BY <1>1, SubjectPlace
<1>3. GetSubjectRootSegmentName(s.name) = IF hits = {} THEN Missing ELSE RootName(subjects[First(hits)])
    BY <1>1 DEF GetSubjectRootSegmentName, InSubject, InitGet, FirstOf, Places, RootName
<1>4. GetSegmentCount(s.name) = IF hits = {} THEN Missing ELSE Answer(Len(subjects[First(hits)].segments))
    BY <1>1 DEF GetSegmentCount, InSubject, InitGet, FirstOf, Places
<1>5. ASSUME NEW n
      PROVE  GetSegmentName(s.name, n) = IF hits = {} THEN Missing ELSE At(subjects[First(hits)].segments, n, Name)
    BY <1>1 DEF GetSegmentName, InSubject, InitGet, FirstOf, Places
<1> HIDE DEF hits
<1> QED
    BY <1>2, <1>3, <1>4, <1>5

LEMMA TreeAnswers ==
    ASSUME QueryInv, Reading, NEW i \in DOMAIN heldFrame.subjects,
           NEW j \in DOMAIN heldFrame.subjects[i].segments
    PROVE  LET s == heldFrame.subjects[i]
               g == s.segments[j]
           IN /\ GetSegmentParentName(s.name, g.name) = ParentOf(s, g)
              /\ GetSegmentChildCount(s.name, g.name) = Answer(Len(Children(s, g)))
              /\ \A n : GetSegmentChildName(s.name, g.name, n) = At(Children(s, g), n, Name)
<1> DEFINE subjects == heldFrame.subjects
           s == subjects[i]
           g == s.segments[j]
           hits == {k \in DOMAIN subjects : s.name # "" /\ subjects[k].name = s.name}
           Missing == Fail("InvalidSubjectName")
<1>1. online /\ HasData
    BY DEF Reading
<1>2. hits # {} /\ First(hits) = i /\ IsSubject(s)
    BY <1>1, SubjectPlace
<1>3. /\ SegmentParent(s, g.name) = ParentOf(s, g)
      /\ SegmentChildCount(s, g.name) = Answer(Len(Children(s, g)))
      /\ \A n : SegmentChild(s, g.name, n) = At(Children(s, g), n, Name)
    BY <1>2, OfSegmentByName
<1>4. GetSegmentParentName(s.name, g.name) =
          IF hits = {} THEN Missing ELSE SegmentParent(subjects[First(hits)], g.name)
    BY <1>1 DEF GetSegmentParentName, InSegment, InSubject, InitGet, FirstOf, Places, SegmentParent, ParentOf
<1>5. GetSegmentChildCount(s.name, g.name) =
          IF hits = {} THEN Missing ELSE SegmentChildCount(subjects[First(hits)], g.name)
    BY <1>1 DEF GetSegmentChildCount, InSegment, InSubject, InitGet, FirstOf, Places, SegmentChildCount
<1>6. ASSUME NEW n
      PROVE  GetSegmentChildName(s.name, g.name, n) =
                 IF hits = {} THEN Missing ELSE SegmentChild(subjects[First(hits)], g.name, n)
    BY <1>1 DEF GetSegmentChildName, InSegment, InSubject, InitGet, FirstOf, Places, SegmentChild
<1> HIDE DEF hits
<1> QED
    BY <1>2, <1>3, <1>4, <1>5, <1>6

\* A segment is either the root or has the parent that it names.
LEMMA ParentAnswer ==
    ASSUME NEW s, IsSubject(s), NEW g \in Range(s.segments)
    PROVE  \/ g.parent = 0 /\ ParentOf(s, g) = Fail("Unknown")
           \/ \E h \in Range(s.segments) : g.parent = h.id /\ g.parent # 0 /\ ParentOf(s, g) = Answer(h.name)
<1> DEFINE list == s.segments
           hits == {k \in DOMAIN list : list[k].id = g.parent}
<1>1. /\ IsList(list) /\ \A j, k \in DOMAIN list : list[j].id = list[k].id => j = k
      /\ \A x \in Range(list) : x.id # 0
      /\ g.parent \in {x.id : x \in Range(list)} \cup {0}
    BY DEF IsSubject, IsTree, Distinct, Id
<1>2. ParentOf(s, g) = IF hits = {} THEN Fail("Unknown") ELSE Answer(list[First(hits)].name)
    BY DEF ParentOf, FirstOf, Places
<1>3. CASE g.parent = 0
    <2>1. hits = {}
        BY <1>1, <1>3, InRange
    <2> QED
        BY <1>2, <1>3, <2>1
<1>4. CASE g.parent # 0
    <2>1. PICK k \in DOMAIN list : list[k].id = g.parent
        BY <1>1, <1>4, InRange
    <2>2. hits = {k} /\ k \in Nat
        BY <1>1, <2>1, DomainOfList
    <2> HIDE DEF hits
    <2>3. First(hits) = k
        BY <2>2, OnlyPlace
    <2>4. ParentOf(s, g) = Answer(list[k].name)
        BY <1>2, <2>2, <2>3
    <2>5. list[k] \in Range(list)
        BY <2>1, InRange
    <2> QED
        BY <1>4, <2>1, <2>4, <2>5
<1> QED
    BY <1>3, <1>4

\* Those that are listed below a segment are those that point to it.
LEMMA ChildrenOf ==
    ASSUME NEW s, IsSubject(s), NEW g
    PROVE  /\ IsList(Children(s, g))
           /\ Range(Children(s, g)) = {c \in Range(s.segments) : c.parent = g.id}
<1> DEFINE list == s.segments
           hits == {k \in DOMAIN list : list[k].parent = g.id}
<1>1. IsList(list)
    BY DEF IsSubject
<1>2. Children(s, g) = Selected(list, hits)
    BY DEF Children, Those, Places
<1>3. hits \in SUBSET DOMAIN list
    OBVIOUS
<1>4. {list[k] : k \in hits} = {c \in Range(list) : c.parent = g.id}
    BY InRange
<1> HIDE DEF hits, list
<1> QED
    BY <1>1, <1>2, <1>3, <1>4, SelectedElements DEF list


-----------------------------------------------------------------------------
(* The poses of a tree of segments.                                          *)

\* f has the levels of the poses of s, and depth those of its segments.
InLevels(f, s, root, light, depth) ==
    /\ IsSubject(s) /\ IsLight(light) /\ AreLevels(f, s, root, light)
    /\ root \in Range(s.segments) /\ root.parent = 0
    /\ \A l, m \in light : l.id = m.id => l = m
    /\ \A l \in light : \E g \in Range(s.segments) : g.id = l.id
    /\ depth \in [{g.id : g \in Range(s.segments)} -> 0 .. Len(s.segments)]
    /\ \A g, h \in Range(s.segments) :
          /\ g.parent = 0 => depth[g.id] = 0
          /\ g.parent = h.id => depth[g.id] = depth[h.id] + 1

LEMMA SameSegment ==
    ASSUME NEW s, IsSubject(s), NEW g \in Range(s.segments), NEW h \in Range(s.segments), g.id = h.id
    PROVE  g = h
<1>1. \A j, k \in DOMAIN s.segments : s.segments[j].id = s.segments[k].id => j = k
    BY DEF IsSubject, Distinct, Id
<1>2. PICK j \in DOMAIN s.segments : g = s.segments[j]
    BY InRange
<1>3. PICK k \in DOMAIN s.segments : h = s.segments[k]
    BY InRange
<1> QED
    BY <1>1, <1>2, <1>3

\* The poses of the first level are the root's, those of others are below one
\* of the level before.
LEMMA LevelOne ==
    ASSUME NEW f, NEW s, NEW root, NEW light, NEW depth, InLevels(f, s, root, light, depth),
           NEW q \in f[0]
    PROVE  /\ q \in Poses(light) /\ q.id = root.id
           /\ \E l \in light : l.id = root.id /\ q = PoseBelow(<<0, 0, 0>>, NoRotation, l)
<1>1. /\ IsLight(light) /\ f[0] = FirstLevel(root, light)
    BY DEF InLevels, AreLevels
<1>2. PICK l \in light : l.id = root.id /\ q = PoseBelow(<<0, 0, 0>>, NoRotation, l)
    BY <1>1 DEF FirstLevel, DataOf
<1>3. <<0, 0, 0>> \in Triples /\ NoRotation \in Rotations
    BY NoRotationKeeps DEF Triples, Index
<1>4. q \in Poses(light) /\ q.id = l.id
    BY <1>1, <1>2, <1>3, PosesBelow
<1> QED
    BY <1>2, <1>4

LEMMA LevelAbove ==
    ASSUME NEW f, NEW s, NEW root, NEW light, NEW depth, InLevels(f, s, root, light, depth),
           NEW d \in 1 .. Len(s.segments), NEW q \in f[d]
    PROVE  /\ q \in Poses(light)
           /\ \E p \in f[d - 1], l \in light, c \in Range(s.segments) :
                 /\ p \in Poses(light) /\ q = PoseBelow(p.t, p.r, l)
                 /\ q.id = l.id /\ l.id = c.id /\ c.parent = p.id
<1>1. /\ IsLight(light) /\ IsSubject(s) /\ f[d] = NextLevel(s, light, f[d - 1])
      /\ f \in [0 .. Len(s.segments) -> SUBSET Poses(light)]
    BY DEF InLevels, AreLevels
<1>2. PICK p \in f[d - 1], l \in light : q = PoseBelow(p.t, p.r, l) /\ l.id \in Below(s, p)
    BY <1>1 DEF NextLevel, DataOf
<1>3. PICK c \in Range(s.segments) : l.id = c.id /\ c.parent = p.id
    BY <1>1, <1>2, ChildrenOf DEF Below
<1>4. p \in Poses(light)
    <2>1. Len(s.segments) \in Nat
        BY <1>1, DomainOfList DEF IsSubject
    <2>2. d - 1 \in 0 .. Len(s.segments)
        BY <2>1
    <2> QED
        BY <1>1, <1>2, <2>2
<1>5. p.t \in Triples /\ p.r \in Rotations
    BY <1>4 DEF Poses
<1>6. q \in Poses(light) /\ q.id = l.id
    BY <1>1, <1>2, <1>5, PosesBelow
<1> QED
    BY <1>2, <1>3, <1>4, <1>6

\* A pose is at the depth of its segment.
LEMMA LevelsByDepth ==
    ASSUME NEW f, NEW s, NEW root, NEW light, NEW depth, InLevels(f, s, root, light, depth)
    PROVE  \A d \in 0 .. Len(s.segments) : \A q \in f[d] :
              \E g \in Range(s.segments) : q.id = g.id /\ depth[g.id] = d
<1> DEFINE n == Len(s.segments)
           G == {d \in 0 .. n : \A q \in f[d] : \E g \in Range(s.segments) : q.id = g.id /\ depth[g.id] = d}
<1>0. n \in Nat
    BY DomainOfList DEF InLevels, IsSubject
<1>1. 0 \in G
    <2>1. root \in Range(s.segments) /\ depth[root.id] = 0
        BY DEF InLevels
    <2> QED
        BY <1>0, <2>1, LevelOne
<1>2. ASSUME NEW d \in 1 .. n, d - 1 \in G PROVE d \in G
    <2>1. ASSUME NEW q \in f[d] PROVE \E g \in Range(s.segments) : q.id = g.id /\ depth[g.id] = d
        <3>1. PICK p \in f[d - 1], c \in Range(s.segments) : q.id = c.id /\ c.parent = p.id
            BY <2>1, LevelAbove
        <3>2. PICK h \in Range(s.segments) : p.id = h.id /\ depth[h.id] = d - 1
            BY <1>2, <3>1
        <3>3. depth[c.id] = depth[h.id] + 1
            BY <3>1, <3>2 DEF InLevels
        <3>4. depth[c.id] = d
            BY <1>0, <3>2, <3>3
        <3> QED
            BY <3>1, <3>4
    <2> QED
        BY <1>0, <2>1
<1> HIDE DEF G
<1>3. \A d \in 0 .. n : d \in G
    BY <1>0, <1>1, <1>2, CountingUp
<1> QED
    BY <1>3 DEF G

\* In a level, and so among all poses, there is one for a segment at most.
LEMMA OneInLevel ==
    ASSUME NEW f, NEW s, NEW root, NEW light, NEW depth, InLevels(f, s, root, light, depth)
    PROVE  \A d \in 0 .. Len(s.segments) : \A p, q \in f[d] : p.id = q.id => p = q
<1> DEFINE n == Len(s.segments)
           G == {d \in 0 .. n : \A p, q \in f[d] : p.id = q.id => p = q}
<1>0. n \in Nat
    BY DomainOfList DEF InLevels, IsSubject
<1>a. \A l, m \in light : l.id = m.id => l = m
    BY DEF InLevels
<1>1. 0 \in G
    <2>1. ASSUME NEW p \in f[0], NEW q \in f[0] PROVE p = q
        BY <1>a, LevelOne
    <2> QED
        BY <1>0, <2>1
<1>2. ASSUME NEW d \in 1 .. n, d - 1 \in G PROVE d \in G
    <2>1. ASSUME NEW p \in f[d], NEW q \in f[d], p.id = q.id PROVE p = q
        <3>1. PICK pp \in f[d - 1], pl \in light, pc \in Range(s.segments) :
                  /\ p = PoseBelow(pp.t, pp.r, pl) /\ p.id = pl.id /\ pl.id = pc.id /\ pc.parent = pp.id
            BY <2>1, LevelAbove
        <3>2. PICK qq \in f[d - 1], ql \in light, qc \in Range(s.segments) :
                  /\ q = PoseBelow(qq.t, qq.r, ql) /\ q.id = ql.id /\ ql.id = qc.id /\ qc.parent = qq.id
            BY <2>1, LevelAbove
        <3>3. pl = ql
            BY <1>a, <2>1, <3>1, <3>2
        <3>4. pc = qc
            BY <3>1, <3>2, <3>3, SameSegment DEF InLevels
        <3>5. pp = qq
            BY <1>2, <3>1, <3>2, <3>4
        <3> QED
            BY <3>1, <3>2, <3>3, <3>5
    <2> QED
        BY <1>0, <2>1
<1> HIDE DEF G
<1>3. \A d \in 0 .. n : d \in G
    BY <1>0, <1>1, <1>2, CountingUp
<1> QED
    BY <1>3 DEF G

LEMMA OnePose ==
    ASSUME NEW f, NEW s, NEW root, NEW light, NEW depth, InLevels(f, s, root, light, depth),
           NEW p \in Placed(f, s), NEW q \in Placed(f, s), p.id = q.id
    PROVE  p = q
<1>1. PICK d \in 0 .. Len(s.segments) : p \in f[d]
    BY DEF Placed
<1>2. PICK e \in 0 .. Len(s.segments) : q \in f[e]
    BY DEF Placed
<1>3. PICK g \in Range(s.segments) : p.id = g.id /\ depth[g.id] = d
    BY <1>1, LevelsByDepth
<1>4. PICK h \in Range(s.segments) : q.id = h.id /\ depth[h.id] = e
    BY <1>2, LevelsByDepth
<1>5. d = e
    BY <1>3, <1>4
<1> QED
    BY <1>1, <1>2, <1>5, OneInLevel

\* When no data is missing below a pose, and the root has a pose, all have one.
LEMMA AllReached ==
    ASSUME NEW f, NEW s, NEW root, NEW light, NEW depth, InLevels(f, s, root, light, depth), f[0] # {},
           \A p \in Placed(f, s) : Below(s, p) \subseteq {l.id : l \in light}
    PROVE  \A g \in Range(s.segments) : \E q \in Placed(f, s) : q.id = g.id
<1> DEFINE n == Len(s.segments)
           Segments == Range(s.segments)
           Has(d) == \A g \in Segments : depth[g.id] = d => \E q \in f[d] : q.id = g.id
           G == {d \in 0 .. n : Has(d)}
<1>0. /\ n \in Nat /\ IsSubject(s) /\ IsLight(light) /\ AreLevels(f, s, root, light)
      /\ f \in [0 .. n -> SUBSET Poses(light)]
    BY DomainOfList DEF InLevels, IsSubject, AreLevels
<1>1. /\ \A g \in Segments : depth[g.id] \in 0 .. n
      /\ \A g, h \in Segments : g.parent = h.id => depth[g.id] = depth[h.id] + 1
      /\ \A g \in Segments : g.parent = 0 => depth[g.id] = 0 /\ g = root
      /\ \A g \in Segments : g.parent # 0 => \E h \in Segments : g.parent = h.id
    <2>1. /\ root \in Segments /\ root.parent = 0 /\ depth \in [{g.id : g \in Segments} -> 0 .. n]
          /\ \A g, h \in Segments : (g.parent = 0 => depth[g.id] = 0)
                                     /\ (g.parent = h.id => depth[g.id] = depth[h.id] + 1)
        BY DEF InLevels
    <2>2. /\ \A g \in Segments : g.parent \in {h.id : h \in Segments} \cup {0}
          /\ \A g, h \in Segments : g.parent = 0 /\ h.parent = 0 => g = h
        BY <1>0 DEF IsSubject, IsTree
    <2>3. \A g \in Segments : depth[g.id] \in 0 .. n
        BY ONLY <2>1
    <2> QED
        BY ONLY <2>1, <2>2, <2>3
<1>2. 0 \in G
    <2>1. ASSUME NEW g \in Segments, depth[g.id] = 0 PROVE \E q \in f[0] : q.id = g.id
        <3>1. ASSUME g.parent # 0 PROVE FALSE
            <4>1. PICK h \in Segments : g.parent = h.id
                BY <1>1, <3>1
            <4>2. depth[g.id] = depth[h.id] + 1 /\ depth[h.id] \in 0 .. n
                BY <1>1, <4>1
            <4> QED
                BY ONLY <1>0, <2>1, <4>2
        <3>2. g = root
            BY <1>1, <3>1
        <3>3. PICK q \in f[0] : TRUE
            OBVIOUS
        <3>4. q.id = root.id
            BY LevelOne
        <3> QED
            BY <3>2, <3>3, <3>4
    <2> QED
        BY <1>0, <2>1
<1>3. ASSUME NEW d \in 1 .. n, d - 1 \in G PROVE d \in G
    <2>1. ASSUME NEW g \in Segments, depth[g.id] = d PROVE \E q \in f[d] : q.id = g.id
        <3>1. g.parent # 0
            BY <1>0, <1>1, <2>1
        <3>2. PICK h \in Segments : g.parent = h.id
            BY <1>1, <3>1
        <3>3. depth[h.id] = d - 1
            <4>1. depth[g.id] = depth[h.id] + 1 /\ depth[h.id] \in 0 .. n
                BY <1>1, <3>2
            <4> QED
                BY ONLY <1>0, <2>1, <4>1
        <3>4. PICK p \in f[d - 1] : p.id = h.id
            BY <1>3, <3>3
        <3>5. d - 1 \in 0 .. n
            BY <1>0
        <3>6. p \in Placed(f, s) /\ p \in Poses(light)
            BY <1>0, <3>4, <3>5 DEF Placed
        <3>7. g.id \in Below(s, p)
            BY <1>0, <3>2, <3>4, ChildrenOf DEF Below
        <3>8. PICK l \in light : l.id = g.id
            BY <3>6, <3>7
        <3>9. p.t \in Triples /\ p.r \in Rotations
            BY <3>6 DEF Poses
        <3>10. PoseBelow(p.t, p.r, l).id = g.id
            BY <1>0, <3>8, <3>9, PosesBelow
        <3>11. PoseBelow(p.t, p.r, l) \in NextLevel(s, light, f[d - 1])
            BY <3>4, <3>7, <3>8 DEF NextLevel, DataOf
        <3>12. f[d] = NextLevel(s, light, f[d - 1])
            BY <1>0 DEF AreLevels
        <3> QED
            BY <3>10, <3>11, <3>12
    <2> QED
        BY <1>0, <2>1
<1> HIDE DEF G
<1>4. \A d \in 0 .. n : d \in G
    BY <1>0, <1>2, <1>3, CountingUp
<1>5. ASSUME NEW g \in Segments PROVE \E q \in Placed(f, s) : q.id = g.id
    <2>1. depth[g.id] \in 0 .. n
        BY <1>1
    <2>2. Has(depth[g.id])
        BY <1>4, <2>1 DEF G
    <2> QED
        BY <2>1, <2>2 DEF Placed
<1> QED
    BY <1>5

\* Without a pose of the root there is none.
LEMMA NoneReached ==
    ASSUME NEW f, NEW s, NEW root, NEW light, NEW depth, InLevels(f, s, root, light, depth), f[0] = {}
    PROVE  Placed(f, s) = {}
<1> DEFINE n == Len(s.segments)
           G == {d \in 0 .. n : f[d] = {}}
<1>0. n \in Nat /\ \A d \in 1 .. n : f[d] = NextLevel(s, light, f[d - 1])
    BY DomainOfList DEF InLevels, IsSubject, AreLevels
<1>1. 0 \in G
    BY <1>0
<1>2. ASSUME NEW d \in 1 .. n, d - 1 \in G PROVE d \in G
    BY <1>0, <1>2 DEF NextLevel
<1> HIDE DEF G
<1>3. \A d \in 0 .. n : d \in G
    BY <1>0, <1>1, <1>2, CountingUp
<1> QED
    BY <1>3 DEF G, Placed


\* The poses P of the segments of s: one for each, the root's as it is sent, and
\* every other one turned and moved by the one above it.
IsTreeOfPoses(P, s) ==
    /\ \A g \in Range(s.segments) : \E q \in P : q.id = g.id
    /\ \A p, q \in P : p.id = q.id => p = q
    /\ \A q \in P : /\ q.t \in Triples /\ q.localT \in Triples
                    /\ q.r \in Rotations /\ q.localR \in Rotations
    /\ \A q \in P, g \in Range(s.segments) :
          q.id = g.id /\ g.parent = 0 => q.t = q.localT /\ q.r = q.localR
    /\ \A p, q \in P, g \in Range(s.segments) :
          q.id = g.id /\ g.parent = p.id =>
              q.t = Plus(p.t, TimesVector(p.r, q.localT)) /\ q.r = Times(p.r, q.localR)

LEMMA NothingAdded ==
    ASSUME NEW v \in Triples
    PROVE  Plus(<<0, 0, 0>>, v) = v
<1>1. <<0, 0, 0>> \in Triples
    BY DEF Triples, Index
<1>2. Plus(<<0, 0, 0>>, v) \in Triples
    BY <1>1, NoRotationKeeps, RotationRows, TriplesOfMatrix
<1>3. v[1] \in Int /\ v[2] \in Int /\ v[3] \in Int
    BY Components
<1>4. /\ Plus(<<0, 0, 0>>, v)[1] = v[1] /\ Plus(<<0, 0, 0>>, v)[2] = v[2]
      /\ Plus(<<0, 0, 0>>, v)[3] = v[3]
    BY <1>3 DEF Plus, Index
<1> QED
    BY <1>2, <1>4, SameTriple

\* The root is where its own data says, and every child where its parent's pose
\* takes it.
LEMMA RootPose ==
    ASSUME NEW f, NEW s, NEW root, NEW light, NEW depth, InLevels(f, s, root, light, depth),
           NEW q \in Placed(f, s), NEW g \in Range(s.segments), q.id = g.id, g.parent = 0
    PROVE  q.t = q.localT /\ q.r = q.localR
<1>1. PICK d \in 0 .. Len(s.segments) : q \in f[d]
    BY DEF Placed
<1>2. Len(s.segments) \in Nat /\ IsLight(light) /\ \A h \in Range(s.segments) : h.id # 0
    BY DomainOfList DEF InLevels, IsSubject, IsTree
<1>3. CASE d = 0
    <2>1. PICK l \in light : q = PoseBelow(<<0, 0, 0>>, NoRotation, l)
        BY <1>1, <1>3, LevelOne
    <2>2. <<0, 0, 0>> \in Triples /\ NoRotation \in Rotations
        BY NoRotationKeeps DEF Triples, Index
    <2>3. PICK turned : turned = HelicalToMatrix(l.axis, l.turns)
        OBVIOUS
    <2>4. q = [ id |-> l.id, localT |-> l.t, localR |-> turned,
                t |-> Plus(<<0, 0, 0>>, TimesVector(NoRotation, l.t)), r |-> Times(NoRotation, turned) ]
        BY <1>2, <2>1, <2>2, <2>3, PosesBelow
    <2>5. l.t \in Triples /\ turned \in Rotations
        BY <1>2, <2>3, HelicalRotations DEF IsLight
    <2>6. Plus(<<0, 0, 0>>, TimesVector(NoRotation, l.t)) = l.t
        BY <2>5, NothingAdded, NoRotationKeeps
    <2>7. Times(NoRotation, turned) = turned
        BY <2>5, NoRotationKeeps, RotationRows
    <2> QED
        BY <2>4, <2>6, <2>7
<1>4. CASE d # 0
    <2>1. d \in 1 .. Len(s.segments)
        BY <1>2, <1>4
    <2>2. PICK p \in f[d - 1], c \in Range(s.segments) : q.id = c.id /\ c.parent = p.id
        BY <1>1, <2>1, LevelAbove
    <2>3. c = g
        BY <2>2, SameSegment DEF InLevels
    <2>4. d - 1 \in 0 .. Len(s.segments)
        BY <1>2, <2>1
    <2>5. p.id # 0
        BY <1>2, <2>4, LevelsByDepth
    <2> QED
        BY <2>2, <2>3, <2>5
<1> QED
    BY <1>3, <1>4

LEMMA PoseOfChild ==
    ASSUME NEW f, NEW s, NEW root, NEW light, NEW depth, InLevels(f, s, root, light, depth),
           NEW p \in Placed(f, s), NEW q \in Placed(f, s),
           NEW g \in Range(s.segments), q.id = g.id, g.parent = p.id
    PROVE  q.t = Plus(p.t, TimesVector(p.r, q.localT)) /\ q.r = Times(p.r, q.localR)
<1>1. PICK d \in 0 .. Len(s.segments) : q \in f[d]
    BY DEF Placed
<1>2. /\ Len(s.segments) \in Nat /\ IsLight(light) /\ \A h \in Range(s.segments) : h.id # 0
      /\ root.parent = 0 /\ root \in Range(s.segments)
    BY DomainOfList DEF InLevels, IsSubject, IsTree
<1>3. p.id # 0
    BY <1>2, LevelsByDepth DEF Placed
<1>4. d # 0
    <2>1. ASSUME d = 0 PROVE FALSE
        <3>1. q.id = root.id
            BY <1>1, <2>1, LevelOne
        <3>2. g = root
            BY <1>2, <3>1, SameSegment DEF InLevels
        <3> QED
            BY <1>2, <1>3, <3>2
    <2> QED
        BY <2>1
<1>5. d \in 1 .. Len(s.segments) /\ d - 1 \in 0 .. Len(s.segments)
    BY <1>2, <1>4
<1>6. PICK above \in f[d - 1], l \in light, c \in Range(s.segments) :
          /\ above \in Poses(light) /\ q = PoseBelow(above.t, above.r, l)
          /\ q.id = c.id /\ c.parent = above.id
    BY <1>1, <1>5, LevelAbove
<1>7. c = g
    BY <1>6, SameSegment DEF InLevels
<1>8. above = p
    <2>1. above \in Placed(f, s)
        BY <1>5 DEF Placed
    <2> QED
        BY <1>6, <1>7, <2>1, OnePose
<1>9. p.t \in Triples /\ p.r \in Rotations
    BY <1>6, <1>8 DEF Poses
<1>10. PICK turned : turned = HelicalToMatrix(l.axis, l.turns)
    OBVIOUS
<1>11. q = [ id |-> l.id, localT |-> l.t, localR |-> turned,
             t |-> Plus(p.t, TimesVector(p.r, l.t)), r |-> Times(p.r, turned) ]
    BY <1>2, <1>6, <1>8, <1>9, <1>10, PosesBelow
<1> QED
    BY <1>11

\* The walk gives the tree of composed poses when no data is missing, else
\* nothing.
LEMMA TreeOfPoses ==
    ASSUME NEW s, IsSubject(s), NEW root \in Range(s.segments), root.parent = 0,
           NEW light, IsLight(light), \A l, m \in light : l.id = m.id => l = m,
           \A l \in light : \E g \in Range(s.segments) : g.id = l.id
    PROVE  IF {g.id : g \in Range(s.segments)} = {l.id : l \in light}
           THEN IsTreeOfPoses(CalculateSegmentGlobalFromLocal(s, root, light), s)
           ELSE CalculateSegmentGlobalFromLocal(s, root, light) = {}
<1> DEFINE n == Len(s.segments)
           Ids == {g.id : g \in Range(s.segments)}
           Sent == {l.id : l \in light}
           P == CalculateSegmentGlobalFromLocal(s, root, light)
<1>0. n \in Nat
    BY DomainOfList DEF IsSubject
<1>1. PICK f : AreLevels(f, s, root, light)
               /\ P = IF \A p \in Placed(f, s) : Below(s, p) \subseteq Sent THEN Placed(f, s) ELSE {}
    BY <1>0, LevelsOf
<1>2. PICK depth \in [Ids -> 0 .. n] :
          \A g, h \in Range(s.segments) :
             /\ g.parent = 0 => depth[g.id] = 0
             /\ g.parent = h.id => depth[g.id] = depth[h.id] + 1
    BY DEF IsSubject, IsTree
<1>3. InLevels(f, s, root, light, depth)
    BY <1>1, <1>2 DEF InLevels
<1> DEFINE Closed == \A p \in Placed(f, s) : Below(s, p) \subseteq Sent
<1>4. Placed(f, s) \subseteq Poses(light)
    BY <1>1 DEF AreLevels, Placed
<1> HIDE DEF P
<1>5. CASE Ids = Sent
    <2>1. Closed
        <3>1. ASSUME NEW p, NEW x \in Below(s, p) PROVE x \in Sent
            <4>1. PICK c \in Range(Children(s, p)) : x = c.id
                BY DEF Below
            <4>2. c \in Range(s.segments)
                BY ONLY <4>1, ChildrenOf, IsSubject(s)
            <4> QED
                BY <1>5, <4>1, <4>2
        <3> QED
            BY <3>1
    <2>2. P = Placed(f, s)
        BY <1>1, <2>1
    <2>3. f[0] # {}
        <3>1. PICK l \in light : l.id = root.id
            BY <1>5
        <3> QED
            BY <1>1, <3>1 DEF AreLevels, FirstLevel, DataOf
    <2>4. \A g \in Range(s.segments) : \E q \in P : q.id = g.id
        BY <1>3, <2>1, <2>2, <2>3, AllReached
    <2>5. \A p, q \in P : p.id = q.id => p = q
        BY <1>3, <2>2, OnePose
    <2>6. \A q \in P : /\ q.t \in Triples /\ q.localT \in Triples
                       /\ q.r \in Rotations /\ q.localR \in Rotations
        BY <1>4, <2>2 DEF Poses
    <2>7. \A q \in P, g \in Range(s.segments) :
              q.id = g.id /\ g.parent = 0 => q.t = q.localT /\ q.r = q.localR
        BY <1>3, <2>2, RootPose
    <2>8. \A p, q \in P, g \in Range(s.segments) :
              q.id = g.id /\ g.parent = p.id =>
                  q.t = Plus(p.t, TimesVector(p.r, q.localT)) /\ q.r = Times(p.r, q.localR)
        BY <1>3, <2>2, PoseOfChild
    <2>9. IsTreeOfPoses(P, s)
        BY ONLY <2>4, <2>5, <2>6, <2>7, <2>8 DEF IsTreeOfPoses
    <2> QED
        BY <1>5, <2>9 DEF P
<1>6. CASE Ids # Sent
    <2>1. ASSUME P # {} PROVE FALSE
        <3>1. Closed /\ P = Placed(f, s)
            BY <1>1, <2>1
        <3>2. f[0] # {}
            BY <1>3, <2>1, <3>1, NoneReached
        <3>3. \A g \in Range(s.segments) : \E q \in P : q.id = g.id
            BY <1>3, <3>1, <3>2, AllReached
        <3>4. \A q \in P : q.id \in Sent
            BY <1>4, <3>1 DEF Poses
        <3>5. Ids \subseteq Sent /\ Sent \subseteq Ids
            BY <3>3, <3>4
        <3> QED
            BY <1>6, <3>5
    <2>2. P = {}
        BY <2>1
    <2> QED
        BY <1>6, <2>2 DEF P
<1> QED
    BY <1>5, <1>6


\* Data was sent of every segment of the subject.
IsComplete(f, s) ==
    \E x \in Range(f.lightweights) :
        x.subject = s.id /\ {g.id : g \in Range(s.segments)} = {l.id : l \in x.segments}

\* The lists that the client adds have the poses of a subject under its id.
LEMMA PoseInLists ==
    ASSUME NEW f, HasSubjects(f), NEW posed, IsList(posed),
           Range(posed) = {f.subjects[k] : k \in PosedPlaces(f)},
           NEW i \in DOMAIN BeforeRootless(f.subjects)
    PROVE  \A p : /\ \A g : p \in Pose(GlobalLists(f, posed), f.subjects[i], g) <=>
                                p \in GlobalOf(f, f.subjects[i]) /\ p.id = g.id
                  /\ \A g : p \in Pose(LocalLists(f, posed), f.subjects[i], g) <=>
                                p \in LocalOf(f, f.subjects[i]) /\ p.id = g.id
<1> DEFINE s == f.subjects[i]
<1>1. /\ IsList(f.subjects) /\ \A j, k \in DOMAIN f.subjects : f.subjects[j].id = f.subjects[k].id => j = k
    BY DEF HasSubjects, Distinct, Id
<1>2. DOMAIN BeforeRootless(f.subjects) \subseteq DOMAIN f.subjects
    BY <1>1, SubjectsBefore
<1>3. \A j \in DOMAIN posed : posed[j].id = s.id => posed[j] = s
    <2>1. ASSUME NEW j \in DOMAIN posed, posed[j].id = s.id PROVE posed[j] = s
        <3>1. posed[j] \in Range(posed)
            BY InRange
        <3>2. PICK k \in PosedPlaces(f) : posed[j] = f.subjects[k]
            BY <3>1
        <3>3. k \in DOMAIN f.subjects
            BY <1>2, <3>2 DEF PosedPlaces
        <3> QED
            BY <1>1, <1>2, <2>1, <3>2, <3>3
    <2> QED
        BY <2>1
<1>4. PosesOf(f, s) # {} => \E j \in DOMAIN posed : posed[j] = s
    <2>1. PosesOf(f, s) # {} => s \in Range(posed)
        BY DEF PosedPlaces
    <2> QED
        BY <2>1, InRange
<1> HIDE DEF s
<1>5. ASSUME NEW p, NEW g
      PROVE  p \in Pose(GlobalLists(f, posed), s, g) <=> p \in GlobalOf(f, s) /\ p.id = g.id
    <2>1. p \in Pose(GlobalLists(f, posed), s, g) <=>
              p.id = g.id /\ \E j \in DOMAIN posed : posed[j].id = s.id /\ p \in GlobalOf(f, posed[j])
        BY DEF Pose, GlobalLists
    <2>2. p \in GlobalOf(f, s) => PosesOf(f, s) # {}
        BY DEF GlobalOf
    <2> QED
        BY <1>3, <1>4, <2>1, <2>2
<1>6. ASSUME NEW p, NEW g
      PROVE  p \in Pose(LocalLists(f, posed), s, g) <=> p \in LocalOf(f, s) /\ p.id = g.id
    <2>1. p \in Pose(LocalLists(f, posed), s, g) <=>
              p.id = g.id /\ \E j \in DOMAIN posed : posed[j].id = s.id /\ p \in LocalOf(f, posed[j])
        BY DEF Pose, LocalLists
    <2>2. p \in LocalOf(f, s) => PosesOf(f, s) # {}
        BY DEF LocalOf
    <2> QED
        BY <1>3, <1>4, <2>1, <2>2
<1> QED
    BY <1>5, <1>6 DEF s

LEMMA PosesOfFrame ==
    ASSUME NEW f, IsFrame(f), NEW i \in DOMAIN BeforeRootless(f.subjects)
    PROVE  IF IsComplete(f, f.subjects[i])
           THEN IsTreeOfPoses(PosesOf(f, f.subjects[i]), f.subjects[i])
           ELSE PosesOf(f, f.subjects[i]) = {}
<1> DEFINE s == f.subjects[i]
           Ids == {g.id : g \in Range(s.segments)}
<1>1. s \in Range(f.subjects) /\ RootOf(s) # <<>> /\ IsSubject(s)
    BY SubjectsBefore, InRange DEF IsFrame, HasSubjects
<1> HIDE DEF s
<1>2. PICK root \in Range(s.segments) : RootOf(s)[1] = root /\ root.parent = 0
    <2>1. PICK j \in DOMAIN s.segments : s.segments[j].parent = 0 /\ RootOf(s) = <<s.segments[j]>>
        BY <1>1, RootPlace
    <2>2. s.segments[j] \in Range(s.segments)
        BY <2>1, InRange
    <2> QED
        BY <2>1, <2>2
<1>3. CASE PosesOf(f, s) = {} /\ \A x \in Range(f.lightweights) : x.subject # s.id
    BY <1>3 DEF IsComplete, s
<1>4. ASSUME NEW x \in Range(f.lightweights), x.subject = s.id, IsLight(x.segments),
             \A y \in Range(f.lightweights) : y.subject = s.id => y = x,
             \A l, m \in x.segments : l.id = m.id => l = m,
             \A l \in x.segments : \E g \in Range(s.segments) : g.id = l.id,
             PosesOf(f, s) = CalculateSegmentGlobalFromLocal(s, RootOf(s)[1], x.segments)
      PROVE  IF IsComplete(f, s) THEN IsTreeOfPoses(PosesOf(f, s), s) ELSE PosesOf(f, s) = {}
    <2>1. PICK light : light = x.segments
        OBVIOUS
    <2>2. /\ IsLight(light) /\ \A l, m \in light : l.id = m.id => l = m
          /\ \A l \in light : \E g \in Range(s.segments) : g.id = l.id
          /\ PosesOf(f, s) = CalculateSegmentGlobalFromLocal(s, root, light)
        BY <1>2, <1>4, <2>1
    <2>3. IsComplete(f, s) <=> Ids = {l.id : l \in light}
        BY <1>4, <2>1 DEF IsComplete
    <2>4. IF Ids = {l.id : l \in light}
          THEN IsTreeOfPoses(CalculateSegmentGlobalFromLocal(s, root, light), s)
          ELSE CalculateSegmentGlobalFromLocal(s, root, light) = {}
        BY <1>1, <1>2, <2>2, TreeOfPoses
    <2> QED
        BY ONLY <2>2, <2>3, <2>4
<1> QED
    BY <1>1, <1>3, <1>4, PosesComputed DEF s

\* The poses of the subject i of the frame that is held.
LEMMA HeldTree ==
    ASSUME QueryInv, HasData, heldFrame.lightweights # <<>>,
           NEW i \in DOMAIN BeforeRootless(heldFrame.subjects)
    PROVE  \E P : /\ IF IsComplete(heldFrame, heldFrame.subjects[i])
                     THEN IsTreeOfPoses(P, heldFrame.subjects[i]) ELSE P = {}
                  /\ \A p, g :
                        /\ p \in Pose(heldFrame.globals, heldFrame.subjects[i], g) <=>
                               \E q \in P : q.id = g.id /\ p = [id |-> q.id, t |-> q.t, r |-> q.r]
                        /\ p \in Pose(heldFrame.locals, heldFrame.subjects[i], g) <=>
                               \E q \in P : q.id = g.id /\ p = [id |-> q.id, t |-> q.localT, r |-> q.localR]
<1>1. PICK f \in Frames : /\ IsFrame(f) /\ heldFrame = Completed(f)
                          /\ \A field \in DOMAIN f \ {"globals", "locals"} : heldFrame[field] = f[field]
    BY HeldFrame
<1>2. heldFrame.subjects = f.subjects /\ heldFrame.lightweights = f.lightweights
    BY <1>1 DEF IsFrame
<1>3. heldFrame = CalculateGlobalsFromLocals(f)
    BY <1>1, <1>2 DEF Completed
<1>4. PICK posed : /\ IsList(posed)
                   /\ Range(posed) = {f.subjects[k] : k \in PosedPlaces(f)}
                   /\ heldFrame.globals = GlobalLists(f, posed)
                   /\ heldFrame.locals = LocalLists(f, posed)
    BY <1>1, <1>2, <1>3, CompletedPoses
<1> DEFINE s == f.subjects[i]
           P == PosesOf(f, s)
<1>5. i \in DOMAIN BeforeRootless(f.subjects) /\ HasSubjects(f)
    BY <1>1, <1>2 DEF IsFrame
<1>6. IF IsComplete(f, s) THEN IsTreeOfPoses(P, s) ELSE P = {}
    BY <1>1, <1>5, PosesOfFrame
<1>7. IsComplete(heldFrame, heldFrame.subjects[i]) <=> IsComplete(f, s)
    BY <1>2 DEF IsComplete
<1>8. \A p, g : /\ p \in Pose(heldFrame.globals, s, g) <=> p \in GlobalOf(f, s) /\ p.id = g.id
                /\ p \in Pose(heldFrame.locals, s, g) <=> p \in LocalOf(f, s) /\ p.id = g.id
    BY <1>4, <1>5, PoseInLists
<1>9. \A p, g : /\ p \in GlobalOf(f, s) /\ p.id = g.id <=>
                       \E q \in P : q.id = g.id /\ p = [id |-> q.id, t |-> q.t, r |-> q.r]
                /\ p \in LocalOf(f, s) /\ p.id = g.id <=>
                       \E q \in P : q.id = g.id /\ p = [id |-> q.id, t |-> q.localT, r |-> q.localR]
    BY DEF GlobalOf, LocalOf
<1>10. heldFrame.subjects[i] = s
    BY ONLY <1>2
<1> HIDE DEF P, s
<1>11. IF IsComplete(heldFrame, s) THEN IsTreeOfPoses(P, s) ELSE P = {}
    BY ONLY <1>6, <1>7, <1>10
<1>12. \A p, g : /\ p \in Pose(heldFrame.globals, s, g) <=>
                        \E q \in P : q.id = g.id /\ p = [id |-> q.id, t |-> q.t, r |-> q.r]
                 /\ p \in Pose(heldFrame.locals, s, g) <=>
                        \E q \in P : q.id = g.id /\ p = [id |-> q.id, t |-> q.localT, r |-> q.localR]
    BY ONLY <1>8, <1>9
<1> QED
    BY ONLY <1>10, <1>11, <1>12


\* A list of poses that has one for the segment g.
LEMMA ToldPose ==
    ASSUME NEW lists, NEW s, NEW g, NEW pose, \A p : p \in Pose(lists, s, g) <=> p = pose
    PROVE  /\ PoseT(lists, s, g) = Answer(MappedT(pose.t))
           /\ PoseR(lists, s, g) = Answer(MappedR(pose.r))
<1> DEFINE hits == Pose(lists, s, g)
<1>1. hits = {pose}
    OBVIOUS
<1> HIDE DEF hits
<1>2. hits # {} /\ (CHOOSE p \in hits : TRUE) = pose
    BY <1>1
<1> QED
    BY <1>2 DEF PoseT, PoseR, hits

\* A segment without any is occluded.
LEMMA ToldOccluded ==
    ASSUME NEW lists, NEW s, NEW g, Pose(lists, s, g) = {}
    PROVE  PoseT(lists, s, g) = Occluded /\ PoseR(lists, s, g) = Occluded
    BY DEF PoseT, PoseR

\* What the client tells of the poses of the segment g: what q says.
IsTold(s, g, q) ==
    /\ GetSegmentGlobalTranslation(s.name, g.name) = Answer(MappedT(q.t))
    /\ GetSegmentGlobalRotationMatrix(s.name, g.name) = Answer(MappedR(q.r))
    /\ GetSegmentLocalTranslation(s.name, g.name) = Answer(MappedT(q.localT))
    /\ GetSegmentLocalRotationMatrix(s.name, g.name) = Answer(MappedR(q.localR))

\* What is told of a segment is the one pose that was computed of it.
LEMMA TreeIsTold ==
    ASSUME QueryInv, Reading, NEW i \in DOMAIN heldFrame.subjects,
           NEW P, IsTreeOfPoses(P, heldFrame.subjects[i]),
           \A p, g :
              /\ p \in Pose(heldFrame.globals, heldFrame.subjects[i], g) <=>
                     \E q \in P : q.id = g.id /\ p = [id |-> q.id, t |-> q.t, r |-> q.r]
              /\ p \in Pose(heldFrame.locals, heldFrame.subjects[i], g) <=>
                     \E q \in P : q.id = g.id /\ p = [id |-> q.id, t |-> q.localT, r |-> q.localR],
           NEW g \in Range(heldFrame.subjects[i].segments)
    PROVE  \E q \in P : q.id = g.id /\ IsTold(heldFrame.subjects[i], g, q)
<1> DEFINE s == heldFrame.subjects[i]
<1>1. PICK q \in P : q.id = g.id
    BY DEF IsTreeOfPoses
<1>2. \A x \in P : x.id = g.id => x = q
    BY <1>1 DEF IsTreeOfPoses
<1>3. PICK j \in DOMAIN s.segments : g = s.segments[j]
    BY InRange
<1> DEFINE pose == [id |-> q.id, t |-> q.t, r |-> q.r]
           local == [id |-> q.id, t |-> q.localT, r |-> q.localR]
<1>4. \A p : p \in Pose(heldFrame.globals, s, g) <=> p = pose
    BY <1>1, <1>2
<1>5. \A p : p \in Pose(heldFrame.locals, s, g) <=> p = local
    BY <1>1, <1>2
<1>6. pose.t = q.t /\ pose.r = q.r /\ local.t = q.localT /\ local.r = q.localR
    OBVIOUS
<1> HIDE DEF pose, local
<1>7. PoseT(heldFrame.globals, s, g) = Answer(MappedT(q.t)) /\ PoseR(heldFrame.globals, s, g) = Answer(MappedR(q.r))
    BY ONLY <1>4, <1>6, ToldPose
<1>8. PoseT(heldFrame.locals, s, g) = Answer(MappedT(q.localT)) /\ PoseR(heldFrame.locals, s, g) = Answer(MappedR(q.localR))
    BY ONLY <1>5, <1>6, ToldPose
<1>9. /\ GetSegmentGlobalTranslation(s.name, g.name) = PoseT(heldFrame.globals, s, g)
      /\ GetSegmentGlobalRotationMatrix(s.name, g.name) = PoseR(heldFrame.globals, s, g)
      /\ GetSegmentLocalTranslation(s.name, g.name) = PoseT(heldFrame.locals, s, g)
      /\ GetSegmentLocalRotationMatrix(s.name, g.name) = PoseR(heldFrame.locals, s, g)
    BY <1>3, PoseAnswers
<1> QED
    BY <1>1, <1>7, <1>8, <1>9 DEF IsTold

LEMMA PosesCompose == QueryInv => LightweightPosesCompose
<1> SUFFICES ASSUME QueryInv, Reading, heldFrame.lightweights # <<>>,
                    NEW i \in DOMAIN BeforeRootless(heldFrame.subjects),
                    NEW g \in Range(heldFrame.subjects[i].segments)
             PROVE  LET s == heldFrame.subjects[i]
                        t == GetSegmentGlobalTranslation(s.name, g.name)
                        r == GetSegmentGlobalRotationMatrix(s.name, g.name)
                        lt == GetSegmentLocalTranslation(s.name, g.name)
                        lr == GetSegmentLocalRotationMatrix(s.name, g.name)
                        p == GetSegmentParentName(s.name, g.name)
                        pt == GetSegmentGlobalTranslation(s.name, p.value)
                        pr == GetSegmentGlobalRotationMatrix(s.name, p.value)
                    IN CASE ~IsComplete(heldFrame, s) -> {t, r, lt, lr} = {Occluded}
                         [] ~Succeeds(p) -> t = lt /\ r = lr
                         [] OTHER        -> /\ t = Answer(Plus(pt.value, TimesVector(pr.value, lt.value)))
                                            /\ r = Answer(Times(pr.value, lr.value))
    BY DEF LightweightPosesCompose, IsComplete
<1> DEFINE s == heldFrame.subjects[i]
           t == GetSegmentGlobalTranslation(s.name, g.name)
           r == GetSegmentGlobalRotationMatrix(s.name, g.name)
           lt == GetSegmentLocalTranslation(s.name, g.name)
           lr == GetSegmentLocalRotationMatrix(s.name, g.name)
           p == GetSegmentParentName(s.name, g.name)
           Complete == IsComplete(heldFrame, s)
<1>1. HasData /\ AxesInv
    BY DEF Reading, QueryInv
<1>2. i \in DOMAIN heldFrame.subjects /\ IsSubject(s)
    <2>1. IsList(heldFrame.subjects)
        BY <1>1, HeldSubjects DEF HasSubjects
    <2>2. i \in DOMAIN heldFrame.subjects
        BY <2>1, SubjectsBefore
    <2> QED
        BY <1>1, <2>2, SubjectPlace
<1>3. PICK j \in DOMAIN s.segments : g = s.segments[j]
    BY InRange
<1>4. p = ParentOf(s, g)
    BY <1>2, <1>3, TreeAnswers
<1>5. PICK P : /\ IF Complete THEN IsTreeOfPoses(P, s) ELSE P = {}
               /\ \A x, h :
                    /\ x \in Pose(heldFrame.globals, s, h) <=>
                           \E q \in P : q.id = h.id /\ x = [id |-> q.id, t |-> q.t, r |-> q.r]
                    /\ x \in Pose(heldFrame.locals, s, h) <=>
                           \E q \in P : q.id = h.id /\ x = [id |-> q.id, t |-> q.localT, r |-> q.localR]
    BY <1>1, HeldTree
<1>6. CASE ~Complete
    <2>1. Pose(heldFrame.globals, s, g) = {} /\ Pose(heldFrame.locals, s, g) = {}
        BY <1>5, <1>6
    <2>2. /\ t = PoseT(heldFrame.globals, s, g) /\ r = PoseR(heldFrame.globals, s, g)
          /\ lt = PoseT(heldFrame.locals, s, g) /\ lr = PoseR(heldFrame.locals, s, g)
        BY <1>2, <1>3, PoseAnswers
    <2>3. t = Occluded /\ r = Occluded /\ lt = Occluded /\ lr = Occluded
        BY <2>1, <2>2, ToldOccluded
    <2> HIDE DEF t, r, lt, lr, p, Complete
    <2> QED
        BY <1>6, <2>3 DEF t, r, lt, lr, p, Complete
<1>7. CASE Complete
    <2>1. IsTreeOfPoses(P, s) /\ \A h \in Range(s.segments) : \E q \in P : q.id = h.id /\ IsTold(s, h, q)
        BY <1>2, <1>5, <1>7, TreeIsTold
    <2>2. PICK q \in P : q.id = g.id /\ IsTold(s, g, q)
        BY <2>1
    <2>3. /\ t = Answer(MappedT(q.t)) /\ r = Answer(MappedR(q.r))
          /\ lt = Answer(MappedT(q.localT)) /\ lr = Answer(MappedR(q.localR))
        BY <2>2 DEF IsTold
    <2>4. CASE g.parent = 0 /\ ParentOf(s, g) = Fail("Unknown")
        <3>1. q.t = q.localT /\ q.r = q.localR
            BY <2>1, <2>2, <2>4 DEF IsTreeOfPoses
        <3>2. ~Succeeds(p)
            BY <1>4, <2>4 DEF Succeeds, Fail
        <3> HIDE DEF t, r, lt, lr, p, Complete
        <3>3. t = lt /\ r = lr
            BY <2>3, <3>1
        <3> QED
            BY <1>7, <3>2, <3>3 DEF t, r, lt, lr, p, Complete
    <2>5. ASSUME NEW h \in Range(s.segments), g.parent = h.id, ParentOf(s, g) = Answer(h.name)
          PROVE  /\ Succeeds(p)
                 /\ t = Answer(Plus(GetSegmentGlobalTranslation(s.name, p.value).value,
                                    TimesVector(GetSegmentGlobalRotationMatrix(s.name, p.value).value, lt.value)))
                 /\ r = Answer(Times(GetSegmentGlobalRotationMatrix(s.name, p.value).value, lr.value))
        <3>1. Succeeds(p) /\ p.value = h.name
            BY <1>4, <2>5 DEF Succeeds, Answer
        <3>2. PICK a \in P : a.id = h.id /\ IsTold(s, h, a)
            BY <2>1
        <3>3. /\ q.t = Plus(a.t, TimesVector(a.r, q.localT)) /\ q.r = Times(a.r, q.localR)
              /\ a.t \in Triples /\ a.r \in Rotations /\ q.localT \in Triples /\ q.localR \in Rotations
            BY <2>1, <2>2, <2>5, <3>2 DEF IsTreeOfPoses
        <3>4. /\ MappedT(q.t) = Plus(MappedT(a.t), TimesVector(MappedR(a.r), MappedT(q.localT)))
              /\ MappedR(q.r) = Times(MappedR(a.r), MappedR(q.localR))
            BY <1>1, <3>3, MappedSum
        <3>5. /\ GetSegmentGlobalTranslation(s.name, p.value).value = MappedT(a.t)
              /\ GetSegmentGlobalRotationMatrix(s.name, p.value).value = MappedR(a.r)
            BY <3>1, <3>2 DEF IsTold, Answer
        <3>6. lt.value = MappedT(q.localT) /\ lr.value = MappedR(q.localR)
            BY <2>3 DEF Answer
        <3> HIDE DEF t, r, lt, lr, p
        <3> QED
            BY <2>3, <3>1, <3>4, <3>5, <3>6
    <2>6. CASE \E h \in Range(s.segments) : g.parent = h.id /\ g.parent # 0 /\ ParentOf(s, g) = Answer(h.name)
        <3>1. /\ Succeeds(p)
              /\ t = Answer(Plus(GetSegmentGlobalTranslation(s.name, p.value).value,
                                 TimesVector(GetSegmentGlobalRotationMatrix(s.name, p.value).value, lt.value)))
              /\ r = Answer(Times(GetSegmentGlobalRotationMatrix(s.name, p.value).value, lr.value))
            BY <2>5, <2>6
        <3> HIDE DEF t, r, lt, lr, p, Complete
        <3> QED
            BY <1>7, <3>1 DEF t, r, lt, lr, p, Complete
    <2> QED
        BY <1>2, <2>4, <2>6, ParentAnswer
<1> QED
    BY <1>6, <1>7

\* With lightweight data the poses that the client computes compose as those of
\* the server would: for every frame, tree of segments, axes and orientation.  A
\* subject of which data is missing has no pose, and others keep theirs.
THEOREM LightweightPosesAreComposed == QuerySpec => []LightweightPosesCompose
    BY QueriesStay, PosesCompose, PTL


-----------------------------------------------------------------------------
(* What is listed.                                                           *)

\* The names that the indices of a list give.
NamesOf(list) == {x.name : x \in Range(list)}

\* Names are listed by their places, all of them and no others.
LEMMA ListedName ==
    ASSUME NEW list, IsList(list), NEW k \in DOMAIN list
    PROVE  At(list, k - 1, Name) = Answer(list[k].name) /\ k - 1 \in 0 .. Len(list) - 1
<1>1. /\ Len(list) \in Nat /\ DOMAIN list = 1 .. Len(list)
      /\ k - 1 \in Nat /\ k - 1 < Len(list) /\ (k - 1) + 1 = k
    BY DomainOfList
<1>2. ~(k - 1 >= Len(list)) /\ k - 1 \in 0 .. Len(list) - 1
    BY ONLY <1>1
<1>3. At(list, k - 1, Name) = IF k - 1 >= Len(list) THEN Fail("InvalidIndex") ELSE Answer(list[(k - 1) + 1].name)
    BY DEF At, Name
<1> QED
    BY <1>1, <1>2, <1>3

LEMMA ListedNames ==
    ASSUME NEW list, IsList(list)
    PROVE  NamesOf(list) = {At(list, n, Name).value : n \in 0 .. Len(list) - 1}
<1>1. /\ Len(list) \in Nat /\ DOMAIN list = 1 .. Len(list)
    BY DomainOfList
<1>2. \A n \in 0 .. Len(list) - 1 : n + 1 \in DOMAIN list /\ (n + 1) - 1 = n
    BY <1>1
<1>3. \A k \in DOMAIN list : At(list, k - 1, Name).value = list[k].name /\ k - 1 \in 0 .. Len(list) - 1
    <2>1. ASSUME NEW k \in DOMAIN list
          PROVE  At(list, k - 1, Name).value = list[k].name /\ k - 1 \in 0 .. Len(list) - 1
        <3>1. At(list, k - 1, Name) = Answer(list[k].name) /\ k - 1 \in 0 .. Len(list) - 1
            BY ListedName
        <3> QED
            BY ONLY <3>1 DEF Answer
    <2> QED
        BY <2>1
<1>4. ASSUME NEW x \in NamesOf(list) PROVE \E n \in 0 .. Len(list) - 1 : x = At(list, n, Name).value
    <2>1. PICK k \in DOMAIN list : x = list[k].name
        BY InRange DEF NamesOf
    <2>2. k - 1 \in 0 .. Len(list) - 1 /\ x = At(list, k - 1, Name).value
        BY <1>3, <2>1
    <2> QED
        BY <2>2
<1>5. ASSUME NEW n \in 0 .. Len(list) - 1 PROVE At(list, n, Name).value \in NamesOf(list)
    <2>1. At(list, n, Name).value = list[n + 1].name
        <3>1. PICK k : k = n + 1
            OBVIOUS
        <3>2. k \in DOMAIN list /\ k - 1 = n
            BY <1>2, <3>1
        <3> QED
            BY <1>3, <3>1, <3>2
    <2>2. list[n + 1] \in Range(list)
        BY <1>2, InRange
    <2> QED
        BY <2>1, <2>2 DEF NamesOf
<1> QED
    BY <1>4, <1>5

LEMMA SubjectsListed ==
    ASSUME QueryInv, Reading
    PROVE  SubjectNames = NamesOf(heldFrame.subjects)
<1>1. online /\ HasData /\ IsList(heldFrame.subjects)
    BY HeldSubjects DEF Reading, HasSubjects
<1>2. \A n : GetSubjectName(n) = At(heldFrame.subjects, n, Name)
    BY <1>1 DEF GetSubjectName, InitGet
<1>3. GetSubjectCount.value = Len(heldFrame.subjects)
    BY <1>1 DEF GetSubjectCount, InitGet, Answer
<1>4. SubjectNames = {At(heldFrame.subjects, n, Name).value : n \in 0 .. Len(heldFrame.subjects) - 1}
    BY <1>2, <1>3 DEF SubjectNames
<1> QED
    BY <1>1, <1>4, ListedNames

LEMMA SegmentsListed ==
    ASSUME QueryInv, Reading, NEW i \in DOMAIN heldFrame.subjects
    PROVE  SegmentNames(heldFrame.subjects[i].name) = NamesOf(heldFrame.subjects[i].segments)
<1> DEFINE s == heldFrame.subjects[i]
<1>1. /\ GetSegmentCount(s.name) = Answer(Len(s.segments))
      /\ \A n : GetSegmentName(s.name, n) = At(s.segments, n, Name)
    BY SubjectAnswers
<1>2. IsList(s.segments)
    BY SubjectPlace DEF Reading, IsSubject
<1>3. SegmentNames(s.name) = {At(s.segments, n, Name).value : n \in 0 .. Len(s.segments) - 1}
    BY <1>1 DEF SegmentNames, Answer
<1> QED
    BY <1>2, <1>3, ListedNames

LEMMA ChildrenListed ==
    ASSUME QueryInv, Reading, NEW i \in DOMAIN heldFrame.subjects,
           NEW j \in DOMAIN heldFrame.subjects[i].segments
    PROVE  ChildNames(heldFrame.subjects[i].name, heldFrame.subjects[i].segments[j].name) =
               {c.name : c \in {x \in Range(heldFrame.subjects[i].segments) :
                                    x.parent = heldFrame.subjects[i].segments[j].id}}
<1> DEFINE s == heldFrame.subjects[i]
           g == s.segments[j]
<1>1. /\ GetSegmentChildCount(s.name, g.name) = Answer(Len(Children(s, g)))
      /\ \A n : GetSegmentChildName(s.name, g.name, n) = At(Children(s, g), n, Name)
    BY TreeAnswers
<1>2. IsList(Children(s, g)) /\ Range(Children(s, g)) = {c \in Range(s.segments) : c.parent = g.id}
    <2>1. IsSubject(s)
        BY SubjectPlace DEF Reading
    <2> HIDE DEF s, g
    <2> QED
        BY <2>1, ChildrenOf
<1>3. ChildNames(s.name, g.name) = {At(Children(s, g), n, Name).value : n \in 0 .. Len(Children(s, g)) - 1}
    BY <1>1 DEF ChildNames, Answer
<1>4. ChildNames(s.name, g.name) = NamesOf(Children(s, g))
    BY <1>2, <1>3, ListedNames
<1> QED
    BY <1>2, <1>4 DEF NamesOf

\* The latencies
LEMMA LatenciesAdd == QueryInv => LatencyAddsUp
<1> SUFFICES ASSUME QueryInv, Reading PROVE LatencyAddsUp
    BY DEF LatencyAddsUp
<1> DEFINE list == heldFrame.latencies
           count == GetLatencySampleCount.value
           Value(i) == GetLatencySampleValue(GetLatencySampleName(i).value).value
           hits(name) == {k \in DOMAIN list : list[k].name = name}
<1>1. online /\ HasData /\ IsList(list) /\ \A i, j \in DOMAIN list : list[i].name = list[j].name => i = j
    BY HeldSubjects DEF Reading, Distinct, Name
<1>2. Len(list) \in Nat /\ DOMAIN list = 1 .. Len(list)
    BY <1>1, DomainOfList
<1>3. /\ GetLatencyTotal = Answer(Total([i \in DOMAIN list |-> list[i].latency]))
      /\ GetLatencySampleCount = Answer(Len(list))
      /\ \A n : GetLatencySampleName(n) = At(list, n, Name)
    BY <1>1 DEF GetLatencyTotal, GetLatencySampleCount, GetLatencySampleName, InitGet
<1>4. ASSUME NEW name
      PROVE  GetLatencySampleValue(name) =
                 IF hits(name) = {} THEN Fail("InvalidLatencySampleName")
                 ELSE Answer(list[First(hits(name))].latency)
    BY <1>1 DEF GetLatencySampleValue, InitGet, FirstOf, Places
<1>5. ASSUME NEW k \in 1 .. Len(list) PROVE Value(k - 1) = list[k].latency
    <2>1. GetLatencySampleName(k - 1).value = list[k].name
        <3>1. k \in DOMAIN list
            BY <1>2
        <3>2. At(list, k - 1, Name) = Answer(list[k].name)
            BY <1>1, <3>1, ListedName
        <3> QED
            BY ONLY <1>3, <3>2 DEF Answer
    <2>2. hits(list[k].name) = {k} /\ k \in Nat
        BY <1>1, <1>2
    <2>3. First(hits(list[k].name)) = k
        BY <2>2, OnlyPlace
    <2>4. GetLatencySampleValue(list[k].name) = Answer(list[k].latency)
        <3> HIDE DEF hits
        <3> QED
            BY <1>4, <2>2, <2>3
    <2> QED
        BY <2>1, <2>4 DEF Answer
<1> HIDE DEF hits
<1>6. count = Len(list)
    BY <1>3 DEF Answer
<1>7. [i \in 1 .. count |-> Value(i - 1)] = [i \in DOMAIN list |-> list[i].latency]
    <2> HIDE DEF count, Value, list
    <2> QED
        BY <1>2, <1>5, <1>6
<1>8. GetLatencyTotal.value = Total([i \in 1 .. count |-> Value(i - 1)])
    <2> HIDE DEF count, Value, list
    <2> QED
        BY <1>3, <1>7 DEF Answer
<1>9. GetLatencySampleName(count) = Fail("InvalidIndex")
    <2>1. At(list, Len(list), Name) = Fail("InvalidIndex")
        BY <1>2 DEF At
    <2> QED
        BY <1>3, <1>6, <2>1
<1> QED
    BY <1>8, <1>9 DEF LatencyAddsUp


\* The name of the parent is what the lists of children say.
TreeAgreesAt(s, c) ==
    LET parents == {g \in SegmentNames(s) : c \in ChildNames(s, g)}
    IN IF parents = {}
       THEN /\ GetSubjectRootSegmentName(s) = Answer(c)
            /\ GetSegmentParentName(s, c) = Fail("Unknown")
       ELSE parents = {GetSegmentParentName(s, c).value}

\* Upwards and downwards, a segment has the same parent.
LEMMA SegmentIsRead ==
    ASSUME QueryInv, Reading, NEW i \in DOMAIN heldFrame.subjects,
           NEW j \in DOMAIN heldFrame.subjects[i].segments
    PROVE  TreeAgreesAt(heldFrame.subjects[i].name, heldFrame.subjects[i].segments[j].name)
<1> DEFINE sub == heldFrame.subjects[i]
           seg == sub.segments[j]
           Segments == Range(sub.segments)
           parents == {g \in SegmentNames(sub.name) : seg.name \in ChildNames(sub.name, g)}
<1>1. IsSubject(sub) /\ seg \in Segments
    BY SubjectPlace, InRange DEF Reading
<1>2. /\ \A g, h \in Segments : g.name = h.name => g = h
      /\ \A g, h \in Segments : g.id = h.id => g = h
      /\ \A g \in Segments : g.id # 0
    <2>1. \A k, l \in DOMAIN sub.segments : sub.segments[k].name = sub.segments[l].name => k = l
        BY <1>1 DEF IsSubject, Distinct, Name
    <2>2. \A g, h \in Segments : g.name = h.name => g = h
        BY <2>1, InRange
    <2>3. \A g, h \in Segments : g.id = h.id => g = h
        BY <1>1, SameSegment
    <2>4. \A g \in Segments : g.id # 0
        BY <1>1 DEF IsSubject, IsTree
    <2> QED
        BY ONLY <2>2, <2>3, <2>4
<1>3. SegmentNames(sub.name) = {g.name : g \in Segments}
    BY SegmentsListed DEF NamesOf
<1>4. \A g \in Segments : ChildNames(sub.name, g.name) = {c.name : c \in {x \in Segments : x.parent = g.id}}
    <2>1. \A k \in DOMAIN sub.segments :
              ChildNames(sub.name, sub.segments[k].name) = {c.name : c \in {x \in Segments : x.parent = sub.segments[k].id}}
        BY ChildrenListed
    <2> HIDE DEF sub, Segments
    <2>2. \A g \in Segments : \E k \in DOMAIN sub.segments : g = sub.segments[k]
        BY InRange DEF Segments
    <2> QED
        BY ONLY <2>1, <2>2
<1>5. /\ GetSubjectRootSegmentName(sub.name) = RootName(sub)
      /\ GetSegmentParentName(sub.name, seg.name) = ParentOf(sub, seg)
    BY SubjectAnswers, TreeAnswers
<1>6. \/ seg.parent = 0 /\ ParentOf(sub, seg) = Fail("Unknown")
      \/ \E h \in Segments : seg.parent = h.id /\ seg.parent # 0 /\ ParentOf(sub, seg) = Answer(h.name)
    BY <1>1, ParentAnswer
<1>7. \/ /\ RootOf(sub) = <<>>
         /\ \A g \in Segments : g.parent # 0
      \/ \E k \in DOMAIN sub.segments : /\ RootOf(sub) = <<sub.segments[k]>>
                                        /\ \A g \in Segments : g.parent = 0 => g = sub.segments[k]
    BY <1>1, RootPlace
<1> HIDE DEF sub, seg, Segments
<1>8. parents = {h.name : h \in {g \in Segments : seg.parent = g.id}}
    <2>1. \A g \in Segments : seg.name \in ChildNames(sub.name, g.name) <=> seg.parent = g.id
        BY ONLY <1>1, <1>2, <1>4
    <2> QED
        BY ONLY <1>3, <2>1
<1> HIDE DEF parents
<1>9. CASE seg.parent = 0
    <2>1. parents = {}
        BY <1>2, <1>8, <1>9
    <2>2. ParentOf(sub, seg) = Fail("Unknown")
        BY <1>6, <1>9
    <2>3. PICK k \in DOMAIN sub.segments : RootOf(sub) = <<sub.segments[k]>> /\ seg = sub.segments[k]
        BY <1>1, <1>7, <1>9
    <2>4. RootName(sub) = Answer(seg.name)
        <3>1. RootOf(sub) # <<>> /\ RootOf(sub)[1] = seg
            BY <2>3
        <3> QED
            BY <3>1 DEF RootName
    <2> QED
        BY <1>5, <2>1, <2>2, <2>4 DEF TreeAgreesAt, sub, seg, parents
<1>10. CASE seg.parent # 0
    <2>1. PICK h \in Segments : seg.parent = h.id /\ ParentOf(sub, seg) = Answer(h.name)
        BY <1>6, <1>10
    <2>2. {g \in Segments : seg.parent = g.id} = {h}
        BY <1>2, <2>1
    <2>3. parents = {h.name}
        BY ONLY <1>8, <2>2
    <2>4. ParentOf(sub, seg).value = h.name
        BY <2>1 DEF Answer
    <2>5. parents = {ParentOf(sub, seg).value} /\ parents # {}
        BY ONLY <2>3, <2>4
    <2> QED
        BY <1>5, <2>5 DEF TreeAgreesAt, sub, seg, parents
<1> QED
    BY <1>9, <1>10

LEMMA TreeIsRead == QueryInv => SegmentTreeAgrees
<1> SUFFICES ASSUME QueryInv, Reading, NEW s \in SubjectNames, NEW c \in SegmentNames(s)
             PROVE  TreeAgreesAt(s, c)
    BY DEF SegmentTreeAgrees, TreeAgreesAt
<1>1. PICK i \in DOMAIN heldFrame.subjects : s = heldFrame.subjects[i].name
    BY SubjectsListed, InRange DEF NamesOf
<1>2. PICK j \in DOMAIN heldFrame.subjects[i].segments : c = heldFrame.subjects[i].segments[j].name
    <2>1. SegmentNames(heldFrame.subjects[i].name) = NamesOf(heldFrame.subjects[i].segments)
        BY SegmentsListed
    <2>2. c \in NamesOf(heldFrame.subjects[i].segments)
        BY ONLY <1>1, <2>1, c \in SegmentNames(s)
    <2> QED
        BY ONLY <2>2, InRange DEF NamesOf
<1> QED
    BY <1>1, <1>2, SegmentIsRead

LEMMA MappedRotation ==
    ASSUME AxesInv, NEW r \in Rotations
    PROVE  MappedR(r) \in Rotations
<1> DEFINE k == Change(axes, yUp)
<1>1. k \in Rotations /\ \A m \in Matrices : MappedR(m) = Times(Times(k, m), Transpose(k))
    BY ChangeOfAxes DEF AxesInv, MappedR
<1> HIDE DEF k
<1>2. Times(Times(k, r), Transpose(k)) \in Rotations
    BY <1>1, ProductOfRotations, InverseRotation
<1> QED
    BY <1>1, <1>2, RotationRows

\* What is told of the pose of a segment was sent, and its forms agree.
LEMMA SentPose ==
    ASSUME AxesInv, NEW lists, ArePoses(lists), NEW s, NEW g
    PROVE  LET sent == {p.t : p \in Pose(lists, s, g)}
               q == InForm(MatrixToQuaternion, PoseR(lists, s, g))
               r == PoseR(lists, s, g)
           IN /\ IF sent = {} THEN PoseT(lists, s, g) = Occluded
                 ELSE PoseT(lists, s, g) \in {Answer(MappedT(t)) : t \in sent}
              /\ IF Succeeds(r) THEN QuaternionNames(q.value, r.value) ELSE q = r
<1> DEFINE hits == Pose(lists, s, g)
<1>1. CASE hits = {}
    <2>1. PoseT(lists, s, g) = Occluded /\ PoseR(lists, s, g) = Occluded
        BY <1>1, ToldOccluded
    <2>2. ~Succeeds(Occluded) /\ InForm(MatrixToQuaternion, Occluded) = Occluded
        BY DEF Succeeds, Occluded, Fail, InForm
    <2> QED
        BY <1>1, <2>1, <2>2
<1>2. CASE hits # {}
    <2>1. PICK p \in hits : /\ PoseT(lists, s, g) = Answer(MappedT(p.t))
                            /\ PoseR(lists, s, g) = Answer(MappedR(p.r))
        BY <1>2 DEF PoseT, PoseR
    <2>2. MappedR(p.r) \in Rotations
        BY <2>1, PosesFound, MappedRotation
    <2>3. QuaternionNames(MatrixToQuaternion(MappedR(p.r)), MappedR(p.r))
        BY <2>2, QuaternionOfRotation
    <2>4. /\ Succeeds(PoseR(lists, s, g)) /\ PoseR(lists, s, g).value = MappedR(p.r)
          /\ InForm(MatrixToQuaternion, PoseR(lists, s, g)).value = MatrixToQuaternion(MappedR(p.r))
        BY <2>1 DEF InForm, Succeeds, Answer
    <2>5. {x.t : x \in hits} # {} /\ PoseT(lists, s, g) \in {Answer(MappedT(t)) : t \in {x.t : x \in hits}}
        BY <2>1
    <2> QED
        BY <2>3, <2>4, <2>5
<1> QED
    BY <1>1, <1>2


\* What the client tells of a marker.
MarkerT(s, k) ==
    FirstOf(OfMarker(heldFrame.labeled, s, k), LAMBDA x : TRUE, LAMBDA x : Answer(MappedT(x.t)), Occluded)
SubjectMarker(s, marker) ==
    FirstOf(s.markers, LAMBDA k : marker # "" /\ k.name = marker, LAMBDA k : MarkerT(s, k),
            Fail("InvalidMarkerName"))

\* What is told of a marker is a translation that was sent of it, if any was.
LEMMA MarkerAnswer ==
    ASSUME QueryInv, Reading, NEW i \in DOMAIN heldFrame.subjects,
           NEW j \in DOMAIN heldFrame.subjects[i].markers
    PROVE  GetMarkerGlobalTranslation(heldFrame.subjects[i].name, heldFrame.subjects[i].markers[j].name)
               = MarkerT(heldFrame.subjects[i], heldFrame.subjects[i].markers[j])
<1> DEFINE subjects == heldFrame.subjects
           s == subjects[i]
           list == s.markers
           hits == {k \in DOMAIN subjects : s.name # "" /\ subjects[k].name = s.name}
           places == {k \in DOMAIN list : list[j].name # "" /\ list[k].name = list[j].name}
<1>1. online /\ HasData
    BY DEF Reading
<1>2. hits # {} /\ First(hits) = i /\ IsSubject(s)
    BY <1>1, SubjectPlace
<1>3. places = {j} /\ First(places) = j
    <2>1. IsList(list) /\ Distinct(list, Name) /\ \A x \in Range(list) : x.name # ""
        BY <1>2 DEF IsSubject
    <2>2. j \in DOMAIN list
        OBVIOUS
    <2> HIDE DEF list
    <2> QED
        BY ONLY <2>1, <2>2, NamePlace
<1>4. GetMarkerGlobalTranslation(s.name, list[j].name) =
          IF hits = {} THEN Fail("InvalidSubjectName") ELSE SubjectMarker(subjects[First(hits)], list[j].name)
    BY <1>1 DEF GetMarkerGlobalTranslation, InMarker, InSubject, InitGet, FirstOf, Places, SubjectMarker, MarkerT
<1>5. SubjectMarker(s, list[j].name) =
          IF places = {} THEN Fail("InvalidMarkerName") ELSE MarkerT(s, list[First(places)])
    BY DEF SubjectMarker, FirstOf, Places
<1> HIDE DEF hits, places
<1> QED
    BY <1>2, <1>3, <1>4, <1>5

LEMMA SentMarker ==
    ASSUME QueryInv, HasData, NEW s, NEW k
    PROVE  LET sent == {x.t : x \in Range(OfMarker(heldFrame.labeled, s, k))}
           IN IF sent = {} THEN MarkerT(s, k) = Occluded
              ELSE MarkerT(s, k) \in {Answer(MappedT(t)) : t \in sent}
<1> DEFINE all == heldFrame.labeled
           list == OfMarker(all, s, k)
           hits == {n \in DOMAIN list : TRUE}
           places == {n \in DOMAIN all : all[n].subject = s.id /\ all[n].marker = k.id}
<1>1. IsList(list)
    <2>1. IsList(all)
        BY HeldSubjects
    <2>2. list = Selected(all, places)
        BY DEF OfMarker, Those, Places
    <2>3. places \in SUBSET DOMAIN all
        OBVIOUS
    <2> HIDE DEF all, places, list
    <2> QED
        BY <2>1, <2>2, <2>3, SelectedElements
<1>2. MarkerT(s, k) = IF hits = {} THEN Occluded ELSE Answer(MappedT(list[First(hits)].t))
    BY DEF MarkerT, FirstOf, Places
<1> HIDE DEF list
<1>3. hits = DOMAIN list /\ Len(list) \in Nat /\ DOMAIN list = 1 .. Len(list)
    BY <1>1, DomainOfList
<1> HIDE DEF hits
<1>4. CASE hits = {}
    <2>1. Range(list) = {}
        BY <1>3, <1>4, InRange
    <2> QED
        BY <1>2, <1>4, <2>1 DEF list
<1>5. CASE hits # {}
    <2>1. First(hits) \in hits
        BY <1>3, <1>5, FirstPlace
    <2>2. list[First(hits)] \in Range(list)
        BY <1>3, <2>1, InRange
    <2>3. list[First(hits)].t \in {x.t : x \in Range(list)}
        BY <2>2
    <2> QED
        BY <1>2, <1>5, <2>3 DEF list
<1> QED
    BY <1>4, <1>5

LEMMA DataIsFound == QueryInv => DataIsFoundByName
<1> SUFFICES ASSUME QueryInv, Reading, NEW i \in DOMAIN heldFrame.subjects
             PROVE  LET s == heldFrame.subjects[i]
                        Sent(lists, g) == {p.t : p \in {q \in UNION {x.segments :
                            x \in {y \in Range(lists) : y.subject = s.id}} : q.id = g.id}}
                        Found(answer, sent) ==
                            IF sent = {} THEN answer = Occluded
                                         ELSE answer \in {Answer(MappedT(t)) : t \in sent}
                        BothForms(q, r) ==
                            IF Succeeds(r) THEN QuaternionNames(q.value, r.value) ELSE q = r
                    IN /\ \A g \in Range(s.segments) :
                            /\ Found(GetSegmentGlobalTranslation(s.name, g.name), Sent(heldFrame.globals, g))
                            /\ Found(GetSegmentLocalTranslation(s.name, g.name), Sent(heldFrame.locals, g))
                            /\ BothForms(GetSegmentGlobalRotationQuaternion(s.name, g.name),
                                         GetSegmentGlobalRotationMatrix(s.name, g.name))
                            /\ BothForms(GetSegmentLocalRotationQuaternion(s.name, g.name),
                                         GetSegmentLocalRotationMatrix(s.name, g.name))
                       /\ \A k \in Range(s.markers) :
                            Found(GetMarkerGlobalTranslation(s.name, k.name),
                                  {x.t : x \in Range(OfMarker(heldFrame.labeled, s, k))})
    BY DEF DataIsFoundByName
<1> DEFINE s == heldFrame.subjects[i]
           Sent(lists, g) == {p.t : p \in {q \in UNION {x.segments :
               x \in {y \in Range(lists) : y.subject = s.id}} : q.id = g.id}}
           Found(answer, sent) ==
               IF sent = {} THEN answer = Occluded ELSE answer \in {Answer(MappedT(t)) : t \in sent}
           BothForms(q, r) == IF Succeeds(r) THEN QuaternionNames(q.value, r.value) ELSE q = r
<1>1. HasData /\ AxesInv /\ ArePoses(heldFrame.globals) /\ ArePoses(heldFrame.locals)
    BY HeldPoses DEF Reading, QueryInv
<1>2. ASSUME NEW lists, NEW g PROVE Sent(lists, g) = {p.t : p \in Pose(lists, s, g)}
    <2>1. ASSUME NEW q PROVE q \in UNION {x.segments : x \in {y \in Range(lists) : y.subject = s.id}}
                  <=> q \in UNION {lists[k].segments : k \in {l \in DOMAIN lists : lists[l].subject = s.id}}
        BY InRange
    <2>2. {q \in UNION {x.segments : x \in {y \in Range(lists) : y.subject = s.id}} : q.id = g.id}
              = Pose(lists, s, g)
        BY <2>1 DEF Pose
    <2> QED
        BY ONLY <2>2
<1>3. ASSUME NEW lists, ArePoses(lists), NEW g
      PROVE  /\ Found(PoseT(lists, s, g), Sent(lists, g))
             /\ BothForms(InForm(MatrixToQuaternion, PoseR(lists, s, g)), PoseR(lists, s, g))
    <2>1. Sent(lists, g) = {p.t : p \in Pose(lists, s, g)}
        BY <1>2
    <2>2. /\ Found(PoseT(lists, s, g), {p.t : p \in Pose(lists, s, g)})
          /\ BothForms(InForm(MatrixToQuaternion, PoseR(lists, s, g)), PoseR(lists, s, g))
        BY <1>1, <1>3, SentPose
    <2> HIDE DEF Sent
    <2> QED
        BY <2>1, <2>2
<1> HIDE DEF Sent, Found, BothForms
<1>4. ASSUME NEW j \in DOMAIN s.segments
      PROVE  LET g == s.segments[j]
             IN /\ Found(GetSegmentGlobalTranslation(s.name, g.name), Sent(heldFrame.globals, g))
                /\ Found(GetSegmentLocalTranslation(s.name, g.name), Sent(heldFrame.locals, g))
                /\ BothForms(GetSegmentGlobalRotationQuaternion(s.name, g.name),
                             GetSegmentGlobalRotationMatrix(s.name, g.name))
                /\ BothForms(GetSegmentLocalRotationQuaternion(s.name, g.name),
                             GetSegmentLocalRotationMatrix(s.name, g.name))
    <2> DEFINE g == s.segments[j]
    <2>1. /\ GetSegmentGlobalTranslation(s.name, g.name) = PoseT(heldFrame.globals, s, g)
          /\ GetSegmentGlobalRotationMatrix(s.name, g.name) = PoseR(heldFrame.globals, s, g)
          /\ GetSegmentLocalTranslation(s.name, g.name) = PoseT(heldFrame.locals, s, g)
          /\ GetSegmentLocalRotationMatrix(s.name, g.name) = PoseR(heldFrame.locals, s, g)
        BY PoseAnswers
    <2>2. /\ GetSegmentGlobalRotationQuaternion(s.name, g.name)
                 = InForm(MatrixToQuaternion, PoseR(heldFrame.globals, s, g))
          /\ GetSegmentLocalRotationQuaternion(s.name, g.name)
                 = InForm(MatrixToQuaternion, PoseR(heldFrame.locals, s, g))
        BY <2>1 DEF GetSegmentGlobalRotationQuaternion, GetSegmentLocalRotationQuaternion
    <2> HIDE DEF s, g
    <2> QED
        BY <1>1, <1>3, <2>1, <2>2 DEF g
<1>5. ASSUME NEW j \in DOMAIN s.markers
      PROVE  Found(GetMarkerGlobalTranslation(s.name, s.markers[j].name),
                   {x.t : x \in Range(OfMarker(heldFrame.labeled, s, s.markers[j]))})
    <2>1. GetMarkerGlobalTranslation(s.name, s.markers[j].name) = MarkerT(s, s.markers[j])
        BY MarkerAnswer
    <2>2. Found(MarkerT(s, s.markers[j]), {x.t : x \in Range(OfMarker(heldFrame.labeled, s, s.markers[j]))})
        BY <1>1, SentMarker DEF Found
    <2> QED
        BY ONLY <2>1, <2>2
<1>6. \A g \in Range(s.segments) :
          /\ Found(GetSegmentGlobalTranslation(s.name, g.name), Sent(heldFrame.globals, g))
          /\ Found(GetSegmentLocalTranslation(s.name, g.name), Sent(heldFrame.locals, g))
          /\ BothForms(GetSegmentGlobalRotationQuaternion(s.name, g.name),
                       GetSegmentGlobalRotationMatrix(s.name, g.name))
          /\ BothForms(GetSegmentLocalRotationQuaternion(s.name, g.name),
                       GetSegmentLocalRotationMatrix(s.name, g.name))
    <2> HIDE DEF s
    <2> QED
        BY <1>4, InRange
<1>7. \A k \in Range(s.markers) :
          Found(GetMarkerGlobalTranslation(s.name, k.name), {x.t : x \in Range(OfMarker(heldFrame.labeled, s, k))})
    <2> HIDE DEF s
    <2> QED
        BY <1>5, InRange
<1> QED
    BY ONLY <1>6, <1>7 DEF Found, BothForms, Sent

\* The names that are listed lead to what was sent: to the one tree of segments,
\* read upwards and downwards, to every pose, marker and latency, and to nothing
\* else, for every frame whose lists have distinct names and ids.
THEOREM NamesLeadThere == QuerySpec => []NamesLeadToData
<1>1. QueryInv => NamesLeadToData
    BY TreeIsRead, DataIsFound, LatenciesAdd DEF NamesLeadToData
<1> QED
    BY <1>1, QueriesStay, PTL


-----------------------------------------------------------------------------
(* Force plates.                                                             *)

\* Elements that are selected come from places of their own.
ComesFrom(pos, found, list, places) ==
    /\ pos \in [1 .. Len(found) -> places]
    /\ \A k, l \in 1 .. Len(found) : pos[k] = pos[l] => k = l
    /\ \A k \in 1 .. Len(found) : found[k] = list[pos[k]]

PlacesTo(places, m) == {p \in places : p <= m}

\* One more of the places goes to the end of what was selected.
LEMMA OneMore ==
    ASSUME NEW S, NEW found \in Seq(S), NEW list, NEW n \in Nat, NEW places,
           NEW pos, ComesFrom(pos, found, list, PlacesTo(places, n - 1)),
           n \in places, \A p \in places : p \in Nat, list[n] \in S
    PROVE  \E q : ComesFrom(q, Append(found, list[n]), list, PlacesTo(places, n))
<1> DEFINE m == Len(found)
           more == Append(found, list[n])
           q == [k \in 1 .. (m + 1) |-> IF k = m + 1 THEN n ELSE pos[k]]
<1>1. m \in Nat /\ Len(more) = m + 1 /\ more[m + 1] = list[n] /\ \A k \in 1 .. m : more[k] = found[k]
    BY AppendProperties
<1>2. /\ \A k \in 1 .. m : pos[k] \in places /\ pos[k] <= n - 1 /\ pos[k] \in Nat /\ found[k] = list[pos[k]]
      /\ \A k, l \in 1 .. m : pos[k] = pos[l] => k = l
    BY DEF ComesFrom, PlacesTo
<1> HIDE DEF more
<1>3. PICK k0 : k0 = m
    OBVIOUS
<1>4. k0 \in Nat /\ k0 + 1 \notin 1 .. k0 /\ \A k \in 1 .. (k0 + 1) : k # k0 + 1 => k \in 1 .. k0
    BY <1>1, <1>3
<1>5. \A k \in 1 .. m : pos[k] # n /\ pos[k] <= n
    BY <1>2
<1>6. q \in [1 .. (m + 1) -> PlacesTo(places, n)]
    BY <1>2, <1>3, <1>4, <1>5 DEF PlacesTo
<1>7. \A k, l \in 1 .. (m + 1) : q[k] = q[l] => k = l
    BY <1>2, <1>3, <1>4, <1>5
<1>8. \A k \in 1 .. (m + 1) : more[k] = list[q[k]]
    BY <1>1, <1>2, <1>3, <1>4
<1> HIDE DEF q, m
<1>9. ComesFrom(q, more, list, PlacesTo(places, n))
    BY <1>1, <1>6, <1>7, <1>8 DEF ComesFrom
<1> QED
    BY <1>9 DEF more

LEMMA SelectedPlaces ==
    ASSUME NEW list, IsList(list), NEW places \in SUBSET DOMAIN list
    PROVE  \E pos : ComesFrom(pos, Selected(list, places), list, places)
<1>1. PICK f : Chooses(f, list, places) /\ Selected(list, places) = f[Len(list)]
    BY SelectedStepwise
<1> DEFINE S == Range(list)
           n == Len(list)
           G == {m \in 0 .. n : f[m] \in Seq(S) /\ \E pos : ComesFrom(pos, f[m], list, PlacesTo(places, m))}
<1>2. /\ n \in Nat /\ DOMAIN list = 1 .. n /\ \A i \in 1 .. n : list[i] \in S
      /\ \A p \in places : p \in Nat /\ p \in 1 .. n
    BY DomainOfList, InRange
<1>3. /\ f[0] = <<>>
      /\ \A i \in 1 .. n : f[i] = IF i \in places THEN Append(f[i - 1], list[i]) ELSE f[i - 1]
    BY <1>1 DEF Chooses
<1> HIDE DEF S, n
<1>4. 0 \in G
    <2>1. Len(<<>>) = 0 /\ 1 .. 0 = {} /\ <<>> \in Seq(S)
        OBVIOUS
    <2>2. ComesFrom(<<>>, <<>>, list, PlacesTo(places, 0))
        BY <2>1 DEF ComesFrom
    <2>3. f[0] \in Seq(S) /\ \E pos : ComesFrom(pos, f[0], list, PlacesTo(places, 0))
        BY ONLY <1>3, <2>1, <2>2
    <2> QED
        BY <1>2, <2>3
<1>5. ASSUME NEW i \in 1 .. n, i - 1 \in G PROVE i \in G
    <2>1. f[i - 1] \in Seq(S)
        BY <1>5
    <2>2. PICK pos : ComesFrom(pos, f[i - 1], list, PlacesTo(places, i - 1))
        BY <1>5
    <2>3. i \in Nat /\ i \in 0 .. n
        BY <1>2
    <2>4. CASE i \in places
        <3>1. f[i] = Append(f[i - 1], list[i]) /\ list[i] \in S
            BY <1>2, <1>3, <2>4
        <3>2. \E q : ComesFrom(q, Append(f[i - 1], list[i]), list, PlacesTo(places, i))
            BY <1>2, <2>1, <2>2, <2>3, <2>4, <3>1, OneMore
        <3>3. Append(f[i - 1], list[i]) \in Seq(S)
            BY <2>1, <3>1
        <3> QED
            BY <2>3, <3>1, <3>2, <3>3
    <2>5. CASE i \notin places
        <3>1. f[i] = f[i - 1]
            BY <1>3, <2>5
        <3>2. PlacesTo(places, i - 1) = PlacesTo(places, i)
            BY <1>2, <2>3, <2>5 DEF PlacesTo
        <3> QED
            BY <2>1, <2>2, <2>3, <3>1, <3>2
    <2> QED
        BY <2>4, <2>5
<1> HIDE DEF G
<1>6. \A i \in 0 .. n : i \in G
    BY <1>2, <1>4, <1>5, CountingUp
<1>7. n \in G
    BY <1>2, <1>6
<1>8. PlacesTo(places, n) = places
    BY <1>2 DEF PlacesTo
<1>9. \E pos : ComesFrom(pos, f[n], list, PlacesTo(places, n))
    BY <1>7 DEF G
<1> QED
    BY <1>1, <1>8, <1>9 DEF n

LEMMA FlatOne ==
    ASSUME NEW seqs, Len(seqs) = 1
    PROVE  FlattenSeq(seqs) = seqs[1]
<1> DEFINE Is(f) == f = [i \in 1 .. Len(seqs) |-> IF i = 1 THEN seqs[i] ELSE f[i - 1] \o seqs[i]]
<1>1. Is([i \in 1 .. 1 |-> seqs[1]])
    <2>1. \A i \in 1 .. 1 : i = 1
        OBVIOUS
    <2> QED
        BY ONLY <2>1, Len(seqs) = 1
<1>2. PICK f : f = CHOOSE g : Is(g)
    OBVIOUS
<1>3. Is(f)
    <2> HIDE DEF Is
    <2> QED
        BY <1>1, <1>2
<1>4. FlattenSeq(seqs) = f[1]
    BY <1>2 DEF FlattenSeq
<1>5. f[1] = seqs[1]
    BY <1>3
<1> QED
    BY <1>4, <1>5


\* The components of a core channel have names of their own.
LEMMA CoreComponents ==
    ASSUME NEW c, IsForcePlateCoreChannel(c)
    PROVE  /\ Len(c.components) = 3 /\ DOMAIN c.components = 1 .. 3 /\ c.components # <<>>
           /\ \A k, l \in 1 .. 3 : c.components[k] = c.components[l] => k = l
           /\ \A k \in 1 .. 3 : c.components[k] # ""
<1>1. \/ c.components = <<"Fx", "Fy", "Fz">>
      \/ c.components = <<"Mx", "My", "Mz">>
      \/ c.components = <<"Cx", "Cy", "Cz">>
    BY DEF IsForcePlateCoreChannel, KindOf
<1>2. ASSUME NEW x, NEW y, NEW z, x # "", y # "", z # "", x # y, y # z, x # z, c.components = <<x, y, z>>
      PROVE  /\ Len(c.components) = 3 /\ DOMAIN c.components = 1 .. 3 /\ c.components # <<>>
             /\ \A k, l \in 1 .. 3 : c.components[k] = c.components[l] => k = l
             /\ \A k \in 1 .. 3 : c.components[k] # ""
    <2>1. PICK t : t = c.components
        OBVIOUS
    <2>2. t = <<x, y, z>>
        BY <1>2, <2>1
    <2>3. Len(t) = 3 /\ DOMAIN t = 1 .. 3 /\ t # <<>> /\ t[1] = x /\ t[2] = y /\ t[3] = z
        BY ONLY <2>2
    <2>4. \A k \in 1 .. 3 : k = 1 \/ k = 2 \/ k = 3
        OBVIOUS
    <2> QED
        BY ONLY <1>2, <2>1, <2>3, <2>4
<1>3. /\ "Fx" # "Fy" /\ "Fy" # "Fz" /\ "Fx" # "Fz" /\ "Fx" # "" /\ "Fy" # "" /\ "Fz" # ""
      /\ "Mx" # "My" /\ "My" # "Mz" /\ "Mx" # "Mz" /\ "Mx" # "" /\ "My" # "" /\ "Mz" # ""
      /\ "Cx" # "Cy" /\ "Cy" # "Cz" /\ "Cx" # "Cz" /\ "Cx" # "" /\ "Cy" # "" /\ "Cz" # ""
    OBVIOUS
<1> QED
    BY <1>1, <1>2, <1>3

\* The outputs of a core channel alone.
CoreOutputs(c) == [k \in 1 .. 3 |-> [channel |-> c, at |-> k, name |-> c.components[k]]]

\* A force plate's channel has three outputs.
LEMMA OutputsOfCore ==
    ASSUME NEW c, IsForcePlateCoreChannel(c)
    PROVE  Outputs(<<c>>) = CoreOutputs(c)
<1> DEFINE one == <<c>>
           nested == [i \in DOMAIN one |-> [k \in DOMAIN one[i].components |-> [channel |-> one[i], at |-> k]]]
           pairs == FlattenSeq(nested)
<1>1. Len(c.components) = 3 /\ DOMAIN c.components = 1 .. 3 /\ \A k \in 1 .. 3 : c.components[k] # ""
    BY CoreComponents
<1>2. DOMAIN one = 1 .. 1 /\ one[1] = c
    OBVIOUS
<1>3. Len(nested) = 1 /\ nested[1] = [k \in DOMAIN c.components |-> [channel |-> c, at |-> k]]
    <2>1. PICK x : x = one
        OBVIOUS
    <2>2. nested = [i \in 1 .. 1 |-> [k \in DOMAIN x[i].components |-> [channel |-> x[i], at |-> k]]] /\ x[1] = c
        BY <1>2, <2>1
    <2> HIDE DEF nested, one
    <2> QED
        BY ONLY <2>2
<1> HIDE DEF nested
<1>4. pairs = [k \in 1 .. 3 |-> [channel |-> c, at |-> k]]
    <2>1. pairs = nested[1]
        BY ONLY <1>3, FlatOne
    <2> QED
        BY ONLY <1>1, <1>3, <2>1
<1>5. Outputs(one) = [i \in DOMAIN pairs |->
           [ channel |-> pairs[i].channel, at |-> pairs[i].at,
             name |-> AdaptDeviceOutputName(pairs[i].channel.components[pairs[i].at], i - 1) ]]
    BY DEF Outputs, nested
<1> HIDE DEF pairs, one
<1>6. \A i \in 1 .. 3 : AdaptDeviceOutputName(c.components[i], i - 1) = c.components[i]
    BY <1>1 DEF AdaptDeviceOutputName
<1>7. DOMAIN pairs = 1 .. 3 /\ \A i \in 1 .. 3 : pairs[i].channel = c /\ pairs[i].at = i
    BY ONLY <1>4
<1>8. Outputs(one) = CoreOutputs(c)
    BY ONLY <1>5, <1>6, <1>7 DEF CoreOutputs
<1> QED
    BY <1>8 DEF one

\* A component is found at its place.
LEMMA CoreOutput ==
    ASSUME NEW c, IsForcePlateCoreChannel(c), NEW k \in 1 .. 3
    PROVE  LET hits == {l \in DOMAIN Outputs(<<c>>) : Outputs(<<c>>)[l].name = c.components[k]}
           IN /\ hits # {} /\ Outputs(<<c>>)[First(hits)] = [channel |-> c, at |-> k, name |-> c.components[k]]
<1> DEFINE hits == {l \in DOMAIN CoreOutputs(c) : CoreOutputs(c)[l].name = c.components[k]}
<1>1. Outputs(<<c>>) = CoreOutputs(c)
    BY OutputsOfCore
<1>2. /\ DOMAIN CoreOutputs(c) = 1 .. 3
      /\ \A l \in 1 .. 3 : CoreOutputs(c)[l] = [channel |-> c, at |-> l, name |-> c.components[l]]
    BY DEF CoreOutputs
<1>3. hits = {k} /\ k \in Nat
    <2>1. \A l \in 1 .. 3 : c.components[l] = c.components[k] => l = k
        BY CoreComponents
    <2>2. \A l \in DOMAIN CoreOutputs(c) : CoreOutputs(c)[l].name = c.components[l]
        BY ONLY <1>2
    <2>3. \A l : l \in hits <=> l = k
        BY ONLY <1>2, <2>1, <2>2, k \in 1 .. 3
    <2> QED
        BY <2>3
<1> HIDE DEF hits
<1>4. First(hits) = k
    BY <1>3, OnlyPlace
<1> QED
    BY <1>1, <1>2, <1>3, <1>4 DEF hits

\* A channel of a plate is the only one with its name.
LEMMA OnlyChannel ==
    ASSUME QueryInv, HasData, NEW c \in Range(heldFrame.channels), IsForcePlateCoreChannel(c)
    PROVE  /\ c.name # ""
           /\ Those(ChannelsOf(c.device), LAMBDA x : c.name \in {"", x.name}) = <<c>>
<1> DEFINE all == heldFrame.channels
           list == ChannelsOf(c.device)
           places == {k \in DOMAIN all : all[k].device = c.device}
           hits == {k \in DOMAIN list : c.name \in {"", list[k].name}}
<1>1. PICK m \in DOMAIN all : c = all[m]
    BY InRange
<1>2. /\ IsList(all) /\ c.name # ""
      /\ \A k \in DOMAIN all : all[k].device = c.device /\ all[k].name = c.name => k = m
    <2>1. HasDevices(heldFrame) /\ HasPlates(heldFrame)
        BY HeldDevices
    <2>2. IsList(all)
        BY <2>1 DEF HasDevices
    <2>3. /\ all[m].name # ""
          /\ \A k \in DOMAIN all : all[k].device = all[m].device /\ all[k].name = all[m].name => m = k
        BY <1>1, <2>1 DEF HasPlates
    <2> QED
        BY ONLY <1>1, <2>2, <2>3
<1>3. list = Selected(all, places)
    BY DEF ChannelsOf, Those, Places
<1>4. places \in SUBSET DOMAIN all
    OBVIOUS
<1> HIDE DEF all, list, places
<1>5. IsList(list) /\ Range(list) = {all[k] : k \in places}
    BY <1>2, <1>3, <1>4, SelectedElements
<1>6. PICK pos : ComesFrom(pos, list, all, places)
    BY <1>2, <1>3, <1>4, SelectedPlaces
<1>7. c \in Range(list)
    BY <1>1, <1>5 DEF places
<1>8. PICK k \in DOMAIN list : c = list[k]
    BY <1>7, InRange
<1>9. \A l \in DOMAIN list : list[l].name = c.name => l = k
    <2>1. DOMAIN list = 1 .. Len(list)
        BY <1>5, DomainOfList
    <2>2. ASSUME NEW l \in DOMAIN list, list[l].name = c.name PROVE pos[l] = m
        <3>1. pos[l] \in places /\ list[l] = all[pos[l]]
            BY <1>6, <2>1 DEF ComesFrom
        <3> QED
            BY <1>2, <2>2, <3>1 DEF places
    <2>3. \A l \in DOMAIN list : pos[l] = pos[k] => l = k
        BY <1>6, <2>1 DEF ComesFrom
    <2> QED
        BY <1>8, <2>2, <2>3
<1>10. hits = {k}
    BY <1>2, <1>8, <1>9
<1>11. Those(list, LAMBDA x : c.name \in {"", x.name}) = Selected(list, hits)
    BY DEF Those, Places
<1> HIDE DEF hits
<1>12. Selected(list, {k}) = <<list[k]>>
    BY <1>5, SelectedOne
<1> QED
    BY ONLY <1>2, <1>8, <1>10, <1>11, <1>12 DEF list


\* A display name leads to its device.
LEMMA DeviceByName ==
    ASSUME QueryInv, HasData, NEW d \in Range(heldFrame.devices)
    PROVE  LET hits == {k \in DOMAIN heldFrame.devices :
                            AdaptDeviceName(heldFrame.devices[k].name, heldFrame.devices[k].id)
                                = AdaptDeviceName(d.name, d.id)}
           IN hits # {} /\ heldFrame.devices[First(hits)] = d
<1> DEFINE list == heldFrame.devices
           hits == {k \in DOMAIN list : AdaptDeviceName(list[k].name, list[k].id) = AdaptDeviceName(d.name, d.id)}
<1>1. PICK m \in DOMAIN list : d = list[m]
    BY InRange
<1>2. HasDevices(heldFrame)
    BY HeldDevices
<1>3. /\ IsList(list)
      /\ \A k, l \in DOMAIN list :
            AdaptDeviceName(list[k].name, list[k].id) = AdaptDeviceName(list[l].name, list[l].id) => k = l
    BY <1>2 DEF HasDevices, Distinct
<1> HIDE DEF list
<1>4. hits = {m} /\ m \in Nat
    BY <1>1, <1>3, DomainOfList
<1> HIDE DEF hits
<1>5. First(hits) = m
    BY <1>4, OnlyPlace
<1> QED
    BY <1>1, <1>4, <1>5 DEF hits, list

\* A sample of an output of a device, and the number of its subsamples.
OutputValue(o, sub) ==
    LET c == o.channel
        s == FirstSample(RecordsOf(c), Len(c.components), c.device, sub, Occluded)
    IN IF ~Succeeds(s) THEN s
       ELSE IF IsForcePlateCoreChannel(c) THEN Answer(MappedT(s.value)[o.at])
       ELSE Answer(s.value[o.at])
\* GetDeviceOutputValue and GetDeviceOutputSubsamples once the device is found.
ValueOfDevice(id, output, component, sub) ==
    FirstOf(Outputs(Those(ChannelsOf(id), LAMBDA c : output \in {"", c.name})),
            LAMBDA o : o.name = component, LAMBDA o : OutputValue(o, sub), Fail("InvalidDeviceOutputName"))
OutputCount(o, id) ==
    LET c == o.channel
        n == Len(c.components)
    IN IF RecordsOf(c) = <<>> THEN Occluded ELSE Answer(CountOf(RecordsOf(c)[1], n, id))
CountOfSearched(searched, id, component) ==
    LET empty == Places(searched, LAMBDA c : c.components = <<>>)
    IN FirstOf(Outputs(IF empty = {} THEN searched ELSE SubSeq(searched, 1, First(empty) - 1)),
               LAMBDA o : o.name = component, LAMBDA o : OutputCount(o, id),
               Fail(IF empty = {} THEN "InvalidDeviceOutputName" ELSE "NoFrame"))

\* What is told of a force plate by the names of its outputs.
LEMMA ValueByName ==
    ASSUME QueryInv, Reading, NEW d \in Range(heldFrame.devices),
           NEW c \in Range(heldFrame.channels), c.device = d.id, IsForcePlateCoreChannel(c),
           NEW k \in 1 .. 3, NEW sub
    PROVE  GetDeviceOutputValue(AdaptDeviceName(d.name, d.id), c.name, c.components[k], sub) =
               LET s == FirstSample(RecordsOf(c), 3, c.device, sub, Occluded)
               IN IF ~Succeeds(s) THEN s ELSE Answer(MappedT(s.value)[k])
<1> DEFINE devices == heldFrame.devices
           name == AdaptDeviceName(d.name, d.id)
           hits == {l \in DOMAIN devices : AdaptDeviceName(devices[l].name, devices[l].id) = name}
           outputs == Outputs(<<c>>)
           places == {l \in DOMAIN outputs : outputs[l].name = c.components[k]}
           o == [channel |-> c, at |-> k, name |-> c.components[k]]
<1>1. online /\ HasData
    BY DEF Reading
<1>2. hits # {} /\ devices[First(hits)] = d
    BY <1>1, DeviceByName
<1>3. GetDeviceOutputValue(name, c.name, c.components[k], sub) =
          IF hits = {} THEN Fail("InvalidDeviceName")
          ELSE ValueOfDevice(devices[First(hits)].id, c.name, c.components[k], sub)
    <2> HIDE DEF name
    <2> QED
        BY <1>1 DEF GetDeviceOutputValue, InOutput, InDevice, InitGet, FirstOf, Places, ValueOfDevice, OutputValue
<1>4. Those(ChannelsOf(d.id), LAMBDA x : c.name \in {"", x.name}) = <<c>>
    BY <1>1, OnlyChannel
<1>5. ValueOfDevice(d.id, c.name, c.components[k], sub) =
          IF places = {} THEN Fail("InvalidDeviceOutputName") ELSE OutputValue(outputs[First(places)], sub)
    BY <1>4 DEF ValueOfDevice, FirstOf, Places
<1>6. places # {} /\ outputs[First(places)] = o
    BY CoreOutput
<1>7. GetDeviceOutputValue(name, c.name, c.components[k], sub) = OutputValue(o, sub)
    <2> HIDE DEF hits, places, outputs, name, devices, o
    <2> QED
        BY ONLY <1>2, <1>3, <1>5, <1>6
<1>8. Len(c.components) = 3 /\ o.channel = c /\ o.at = k
    BY CoreComponents
<1>9. OutputValue(o, sub) = LET s == FirstSample(RecordsOf(c), 3, c.device, sub, Occluded)
                            IN IF ~Succeeds(s) THEN s ELSE Answer(MappedT(s.value)[k])
    <2> HIDE DEF o
    <2> QED
        BY <1>8 DEF OutputValue
<1> QED
    BY ONLY <1>7, <1>9

LEMMA CountByName ==
    ASSUME QueryInv, Reading, NEW d \in Range(heldFrame.devices),
           NEW c \in Range(heldFrame.channels), c.device = d.id, IsForcePlateCoreChannel(c),
           RecordsOf(c) # <<>>
    PROVE  GetDeviceOutputSubsamples(AdaptDeviceName(d.name, d.id), c.name, c.components[1]) =
               Answer(CountOf(RecordsOf(c)[1], 3, d.id))
<1> DEFINE devices == heldFrame.devices
           name == AdaptDeviceName(d.name, d.id)
           component == c.components[1]
           hits == {l \in DOMAIN devices : AdaptDeviceName(devices[l].name, devices[l].id) = name}
           outputs == Outputs(<<c>>)
           places == {l \in DOMAIN outputs : outputs[l].name = component}
           o == [channel |-> c, at |-> 1, name |-> component]
           Searched(id) == Those(ChannelsOf(id), LAMBDA x : c.name \in {"", x.name})
<1>1. online /\ HasData
    BY DEF Reading
<1>2. hits # {} /\ devices[First(hits)] = d
    BY <1>1, DeviceByName
<1>3. GetDeviceOutputSubsamples(name, c.name, component) =
          IF hits = {} THEN Fail("InvalidDeviceName")
          ELSE CountOfSearched(Searched(devices[First(hits)].id), devices[First(hits)].id, component)
    <2> HIDE DEF name, component
    <2> QED
        BY <1>1 DEF GetDeviceOutputSubsamples, InDevice, InitGet, FirstOf, Places, CountOfSearched, OutputCount
<1>4. Searched(d.id) = <<c>>
    BY <1>1, OnlyChannel
<1>5. CountOfSearched(<<c>>, d.id, component) =
          IF places = {} THEN Fail("InvalidDeviceOutputName") ELSE OutputCount(outputs[First(places)], d.id)
    <2>1. Places(<<c>>, LAMBDA x : x.components = <<>>) = {}
        <3>1. c.components # <<>>
            BY CoreComponents
        <3>2. \A l \in DOMAIN <<c>> : <<c>>[l] = c
            OBVIOUS
        <3> QED
            BY <3>1, <3>2 DEF Places
    <2> HIDE DEF component
    <2> QED
        BY <2>1 DEF CountOfSearched, FirstOf, Places
<1>6. places # {} /\ outputs[First(places)] = o
    <2>1. 1 \in 1 .. 3
        OBVIOUS
    <2> QED
        BY <2>1, CoreOutput
<1>7. GetDeviceOutputSubsamples(name, c.name, component) = OutputCount(o, d.id)
    <2> HIDE DEF hits, places, outputs, name, devices, o, component, Searched
    <2> QED
        BY ONLY <1>2, <1>3, <1>4, <1>5, <1>6
<1>8. Len(c.components) = 3 /\ o.channel = c
    BY CoreComponents
<1>9. OutputCount(o, d.id) = Answer(CountOf(RecordsOf(c)[1], 3, d.id))
    <2> HIDE DEF o
    <2> QED
        BY <1>8 DEF OutputCount
<1> QED
    BY ONLY <1>7, <1>9


LEMMA SendsWithForces ==
    ASSUME QueryInv, HasData, NEW c \in Range(heldFrame.channels), IsForcePlateCoreChannel(c)
    PROVE  SendsForces(heldFrame.samples, c)
<1>1. PICK m \in DOMAIN heldFrame.channels : c = heldFrame.channels[m]
    BY InRange
<1>2. HasPlates(heldFrame)
    BY HeldDevices
<1> QED
    BY ONLY <1>1, <1>2, IsForcePlateCoreChannel(c) DEF HasPlates

\* The records of a plate are those of its channel of the kind.
LEMMA RecordsOfPlate ==
    ASSUME QueryInv, HasData, NEW c \in Range(heldFrame.channels), IsForcePlateCoreChannel(c)
    PROVE  PlateRecords(KindOf(c), c.device) = RecordsOf(c)
<1> DEFINE list == heldFrame.samples[KindOf(c)]
<1>1. \A x \in Range(list) : x.device = c.device => IsRecordOf(x, c)
    BY SendsWithForces DEF SendsForces
<1>2. PlateRecords(KindOf(c), c.device) = Selected(list, {k \in DOMAIN list : list[k].device = c.device})
    BY DEF PlateRecords, Those, Places
<1>3. RecordsOf(c) = Selected(list, {k \in DOMAIN list : IsRecordOf(list[k], c)})
    BY DEF RecordsOf, Those, Places
<1> HIDE DEF list
<1>4. {k \in DOMAIN list : list[k].device = c.device} = {k \in DOMAIN list : IsRecordOf(list[k], c)}
    BY <1>1, InRange DEF IsRecordOf
<1> QED
    BY ONLY <1>2, <1>3, <1>4

\* A record of the plate has a count that the device allows.
LEMMA GoodCount ==
    ASSUME QueryInv, HasData, NEW c \in Range(heldFrame.channels), IsForcePlateCoreChannel(c),
           NEW x \in Range(RecordsOf(c))
    PROVE  ~BadCount(x, 3, c.device)
<1>1. Len(c.components) = 3
    BY CoreComponents
<1>2. Stride(x, 3) \in Nat \ {0} /\ GetDevicePeriod(c.device) % Stride(x, 3) = 0
    BY <1>1, PeriodOfRecord
<1> QED
    BY ONLY <1>2 DEF BadCount

\* What GetForcePlateSubsamples says of one record.
PlateCount(x, id) == IF BadCount(x, 3, id) THEN Fail("Unknown") ELSE Answer(CountOf(x, 3, id))

\* What is told of a force plate by its number.
LEMMA CountByNumber ==
    ASSUME QueryInv, Reading, NEW c \in Range(heldFrame.channels), IsForcePlateCoreChannel(c),
           IsForcePlateDevice(c.device), RecordsOf(c) # <<>>
    PROVE  GetForcePlateSubsamples(c.device) = Answer(CountOf(RecordsOf(c)[1], 3, c.device))
<1> DEFINE all == heldFrame.samples["Forces"]
           id == c.device
           list == PlateRecords("Forces", id)
           places == {k \in DOMAIN all : all[k].device = id}
           hits == {k \in DOMAIN list : TRUE}
           x == RecordsOf(c)[1]
<1>1. online /\ HasData
    BY DEF Reading
<1>2. x \in Range(RecordsOf(c)) /\ x \in Range(heldFrame.samples[KindOf(c)]) /\ x.device = id
    <2>1. /\ IsList(RecordsOf(c))
          /\ \A y \in Range(RecordsOf(c)) :
                IsRecordOf(y, c) /\ \E i \in DOMAIN heldFrame.samples[KindOf(c)] : y = heldFrame.samples[KindOf(c)][i]
        BY <1>1, RecordsOfChannel
    <2>2. Range(RecordsOf(c)) # {}
        BY <2>1, EmptyList
    <2>3. 1 \in DOMAIN RecordsOf(c)
        <3>1. PICK k \in DOMAIN RecordsOf(c) : TRUE
            BY <2>2, InRange
        <3> QED
            BY <2>1, <3>1, DomainOfList
    <2>4. x \in Range(RecordsOf(c))
        BY <2>3, InRange
    <2> HIDE DEF x
    <2> QED
        BY <2>1, <2>4, InRange DEF IsRecordOf
<1>3. /\ \E y \in Range(all) : y.device = id
      /\ \A y \in Range(all) : y.device = id => Len(y.samples) = Len(x.samples)
    <2>1. SendsForces(heldFrame.samples, c)
        BY <1>1, SendsWithForces
    <2> HIDE DEF x
    <2> QED
        BY <1>2, <2>1 DEF SendsForces
<1>4. IsList(all)
    BY <1>1, HeldDevices DEF HasSamples, Kinds
<1>5. IsList(list) /\ Range(list) = {all[k] : k \in places}
    <2>1. list = Selected(all, places)
        BY DEF PlateRecords, Those, Places
    <2>2. places \in SUBSET DOMAIN all
        OBVIOUS
    <2> HIDE DEF list, all, places
    <2> QED
        BY <1>4, <2>1, <2>2, SelectedElements
<1>6. GetForcePlateSubsamples(id) = IF hits = {} THEN Fail("Unknown") ELSE PlateCount(list[First(hits)], id)
    BY <1>1 DEF GetForcePlateSubsamples, InPlate, InitGet, FirstOf, Places, PlateCount
<1> HIDE DEF x, list, all
<1>7. hits # {} /\ list[First(hits)] \in Range(list)
    <2>1. PICK k \in DOMAIN all : all[k].device = id
        BY <1>3, InRange
    <2>2. all[k] \in Range(list)
        BY <1>5, <2>1
    <2>3. PICK l \in DOMAIN list : TRUE
        BY <2>2, InRange
    <2>4. hits # {} /\ hits = DOMAIN list
        BY <2>3
    <2>5. Len(list) \in Nat /\ DOMAIN list = 1 .. Len(list)
        BY <1>5, DomainOfList
    <2> HIDE DEF hits
    <2>6. First(hits) \in hits
        BY <2>4, <2>5, FirstPlace
    <2> QED
        BY <2>4, <2>6, InRange
<1>8. PICK y \in Range(list) : y = list[First(hits)]
    BY <1>7
<1>9. Len(y.samples) = Len(x.samples)
    <2>1. PICK k \in places : y = all[k]
        BY <1>5, <1>8
    <2>2. y \in Range(all) /\ y.device = id
        BY <2>1, InRange
    <2> QED
        BY <1>3, <2>2
<1>10. Stride(y, 3) = Stride(x, 3)
    BY <1>9 DEF Stride
<1>11. BadCount(y, 3, id) = BadCount(x, 3, id) /\ CountOf(y, 3, id) = CountOf(x, 3, id)
    BY ONLY <1>10 DEF BadCount, CountOf, SamplePeriod
<1>12. ~BadCount(x, 3, id)
    BY <1>1, <1>2, GoodCount
<1> HIDE DEF hits
<1>13. PlateCount(y, id) = Answer(CountOf(x, 3, id))
    BY ONLY <1>11, <1>12 DEF PlateCount
<1> QED
    BY ONLY <1>6, <1>7, <1>8, <1>13 DEF x

\* The search by number meets no bad count, and so is one for the sample alone.
LEMMA VectorByNumber ==
    ASSUME QueryInv, Reading, NEW c \in Range(heldFrame.channels), IsForcePlateCoreChannel(c),
           IsForcePlateDevice(c.device), NEW sub
    PROVE  GetForcePlateVector(KindOf(c), c.device, sub) =
               FirstSample(RecordsOf(c), 3, c.device, sub, Fail("Unknown"))
<1> DEFINE id == c.device
           list == RecordsOf(c)
           tries == {k \in DOMAIN list : TryRecord(list[k], 3, id, sub) # NotHere}
           hits == {k \in DOMAIN list : TakeSample(list[k], 3, id, sub) # NotHere}
           Missing == Fail("Unknown")
<1>1. online /\ HasData
    BY DEF Reading
<1>2. GetDevicePeriod(id) # 0 /\ PlateRecords(KindOf(c), id) = list
    BY <1>1, DeviceOf, RecordsOfPlate
<1>3. GetForcePlateVector(KindOf(c), id, sub) = IF tries = {} THEN Missing ELSE TryRecord(list[First(tries)], 3, id, sub)
    <2> HIDE DEF list
    <2> QED
        BY <1>1, <1>2 DEF GetForcePlateVector, InPlate, InitGet, FirstOf, Places
<1>4. FirstSample(list, 3, id, sub, Missing) = IF hits = {} THEN Missing ELSE TakeSample(list[First(hits)], 3, id, sub)
    BY DEF FirstSample, FirstOf, Places
<1>5. \A k \in DOMAIN list : TryRecord(list[k], 3, id, sub) = TakeSample(list[k], 3, id, sub)
    <2>1. \A k \in DOMAIN list : ~BadCount(list[k], 3, id)
        BY <1>1, GoodCount, InRange
    <2> QED
        BY ONLY <2>1 DEF TryRecord
<1>6. tries = hits
    BY <1>5
<1>7. hits # {} => First(hits) \in DOMAIN list
    <2>1. Len(list) \in Nat /\ DOMAIN list = 1 .. Len(list)
        <3>1. IsList(list)
            BY <1>1, RecordsOfChannel
        <3> HIDE DEF list
        <3> QED
            BY <3>1, DomainOfList
    <2>2. hits \in SUBSET (1 .. Len(list))
        BY <2>1
    <2> HIDE DEF hits, list
    <2> QED
        BY <2>1, <2>2, FirstPlace
<1> HIDE DEF tries, hits, list
<1> QED
    BY ONLY <1>3, <1>4, <1>5, <1>6, <1>7 DEF list


\* What a search for a sample has to say: a sample, or that there is none.
LEMMA SampleOrNone ==
    ASSUME QueryInv, HasData, NEW c \in Range(heldFrame.channels), NEW id, NEW sub, NEW missing
    PROVE  \/ \A other : FirstSample(RecordsOf(c), 3, id, sub, other) = other
           \/ /\ FirstSample(RecordsOf(c), 3, id, sub, missing) = Fail("InvalidIndex")
              /\ \A other : FirstSample(RecordsOf(c), 3, id, sub, other)
                                = FirstSample(RecordsOf(c), 3, id, sub, missing)
           \/ /\ Succeeds(FirstSample(RecordsOf(c), 3, id, sub, missing))
              /\ \A other : FirstSample(RecordsOf(c), 3, id, sub, other)
                                = FirstSample(RecordsOf(c), 3, id, sub, missing)
<1> DEFINE list == RecordsOf(c)
           hits == {k \in DOMAIN list : TakeSample(list[k], 3, id, sub) # NotHere}
           found == TakeSample(list[First(hits)], 3, id, sub)
<1>1. IsList(list)
    BY RecordsOfChannel
<1>2. ASSUME NEW other
      PROVE  FirstSample(list, 3, id, sub, other) = IF hits = {} THEN other ELSE found
    BY DEF FirstSample, FirstOf, Places
<1>3. \A x : \/ TakeSample(x, 3, id, sub) = Fail("InvalidIndex")
             \/ TakeSample(x, 3, id, sub) = NotHere
             \/ Succeeds(TakeSample(x, 3, id, sub))
    BY DEF TakeSample, Succeeds, Answer
<1> HIDE DEF list
<1>4. hits # {} => found # NotHere
    <2>1. Len(list) \in Nat /\ DOMAIN list = 1 .. Len(list)
        BY <1>1, DomainOfList
    <2>2. hits \in SUBSET (1 .. Len(list)) /\ \A k \in hits : TakeSample(list[k], 3, id, sub) # NotHere
        BY <2>1
    <2> HIDE DEF hits
    <2> QED
        BY <2>1, <2>2, FirstPlace
<1>5. found = Fail("InvalidIndex") \/ found = NotHere \/ Succeeds(found)
    BY <1>3
<1> HIDE DEF hits, found
<1>6. CASE hits = {}
    BY <1>2, <1>6 DEF list
<1>7. CASE hits # {} /\ found = Fail("InvalidIndex")
    BY <1>2, <1>7 DEF list
<1>8. CASE hits # {} /\ Succeeds(found)
    BY <1>2, <1>8 DEF list
<1> QED
    BY ONLY <1>4, <1>5, <1>6, <1>7, <1>8

\* The same sample by both searches.
LEMMA SameSample ==
    ASSUME QueryInv, Reading, NEW d \in Range(heldFrame.devices), IsForcePlateDevice(d.id),
           NEW c \in Range(heldFrame.channels), c.device = d.id, IsForcePlateCoreChannel(c),
           NEW sub, NEW k \in 1 .. 3
    PROVE  LET v == GetVectorAtSample(KindOf(c), d.id, sub)
           IN GetDeviceOutputValue(AdaptDeviceName(d.name, d.id), c.name, c.components[k], sub)
                  = IF Succeeds(v) THEN Answer(v.value[k])
                    ELSE IF v = Fail("Unknown") THEN Occluded ELSE v
<1> DEFINE Sample(missing) == FirstSample(RecordsOf(c), 3, d.id, sub, missing)
           named == GetDeviceOutputValue(AdaptDeviceName(d.name, d.id), c.name, c.components[k], sub)
           v == GetVectorAtSample(KindOf(c), d.id, sub)
           o == Sample(Occluded)
           u == Sample(Fail("Unknown"))
<1>1. HasData
    BY DEF Reading
<1>2. named = IF ~Succeeds(o) THEN o ELSE Answer(MappedT(o.value)[k])
    BY ValueByName
<1>3. v = IF Succeeds(u) THEN Answer(MappedT(u.value)) ELSE u
    BY VectorByNumber DEF GetVectorAtSample, InForm
<1>4. \/ o = Occluded /\ u = Fail("Unknown")
      \/ o = u /\ u = Fail("InvalidIndex")
      \/ o = u /\ Succeeds(u)
    BY <1>1, SampleOrNone
<1> HIDE DEF named, v, o, u
<1>5. CASE o = Occluded /\ u = Fail("Unknown")
    <2>1. ~Succeeds(o) /\ ~Succeeds(u)
        BY <1>5 DEF Succeeds, Occluded, Fail
    <2> QED
        BY <1>2, <1>3, <1>5, <2>1 DEF named, v
<1>6. CASE o = u /\ u = Fail("InvalidIndex")
    <2>1. ~Succeeds(o) /\ ~Succeeds(u) /\ Fail("InvalidIndex") # Fail("Unknown")
        <3>1. Fail("InvalidIndex").result = "InvalidIndex" /\ Fail("Unknown").result = "Unknown"
            BY DEF Fail
        <3> QED
            BY <1>6, <3>1 DEF Succeeds
    <2> QED
        BY <1>2, <1>3, <1>6, <2>1 DEF named, v
<1>7. CASE o = u /\ Succeeds(u)
    <2>1. named = Answer(MappedT(u.value)[k]) /\ v = Answer(MappedT(u.value))
        BY <1>2, <1>3, <1>7
    <2>2. Succeeds(v) /\ v.value = MappedT(u.value)
        BY <2>1 DEF Succeeds, Answer
    <2> QED
        BY <2>1, <2>2 DEF named, v
<1> QED
    BY <1>4, <1>5, <1>6, <1>7

LEMMA PlatesAgree == QueryInv => PlatesTellTheSame
<1> SUFFICES ASSUME QueryInv, Reading,
                    NEW d \in Range(PlateDevices), NEW c \in Range(ChannelsOf(d.id)),
                    IsForcePlateCoreChannel(c), RecordsOf(c) # <<>>
             PROVE  LET name == AdaptDeviceName(d.name, d.id)
                        count == GetForcePlateSubsamples(d.id)
                        Named(k, sub) == GetDeviceOutputValue(name, c.name, c.components[k], sub)
                    IN /\ GetDeviceOutputSubsamples(name, c.name, c.components[1]) = count
                       /\ \A sub \in 0 .. count.value : \A k \in 1 .. 3 :
                             LET v == GetVectorAtSample(KindOf(c), d.id, sub)
                             IN Named(k, sub) = IF Succeeds(v) THEN Answer(v.value[k])
                                                ELSE IF v = Fail("Unknown") THEN Occluded ELSE v
    BY DEF PlatesTellTheSame
<1>1. online /\ HasData
    BY DEF Reading
<1>2. IsList(heldFrame.devices) /\ IsList(heldFrame.channels)
    BY <1>1, HeldDevices DEF HasDevices
<1>3. d \in Range(heldFrame.devices) /\ IsForcePlateDevice(d.id)
    <2> DEFINE list == heldFrame.devices
               places == {k \in DOMAIN list : IsForcePlateDevice(list[k].id)}
    <2>1. PlateDevices = Selected(list, places)
        BY DEF PlateDevices, Those, Places
    <2>2. places \in SUBSET DOMAIN list /\ \A k \in places : IsForcePlateDevice(list[k].id)
        OBVIOUS
    <2> HIDE DEF list, places
    <2>3. Range(Selected(list, places)) = {list[k] : k \in places}
        BY <1>2, <2>2, SelectedElements DEF list
    <2>4. PICK k \in places : d = list[k]
        BY <2>1, <2>3
    <2> QED
        BY <2>2, <2>4, InRange DEF list
<1>4. c \in Range(heldFrame.channels) /\ c.device = d.id
    <2> DEFINE list == heldFrame.channels
               places == {k \in DOMAIN list : list[k].device = d.id}
    <2>1. ChannelsOf(d.id) = Selected(list, places)
        BY DEF ChannelsOf, Those, Places
    <2>2. places \in SUBSET DOMAIN list /\ \A k \in places : list[k].device = d.id
        OBVIOUS
    <2> HIDE DEF list, places
    <2>3. Range(Selected(list, places)) = {list[k] : k \in places}
        BY <1>2, <2>2, SelectedElements DEF list
    <2>4. PICK k \in places : c = list[k]
        BY <2>1, <2>3
    <2> QED
        BY <2>2, <2>4, InRange DEF list
<1>5. GetDeviceOutputSubsamples(AdaptDeviceName(d.name, d.id), c.name, c.components[1])
          = GetForcePlateSubsamples(d.id)
    BY <1>3, <1>4, CountByName, CountByNumber
<1>6. \A sub, k : k \in 1 .. 3 =>
          LET v == GetVectorAtSample(KindOf(c), d.id, sub)
          IN GetDeviceOutputValue(AdaptDeviceName(d.name, d.id), c.name, c.components[k], sub)
                 = IF Succeeds(v) THEN Answer(v.value[k])
                   ELSE IF v = Fail("Unknown") THEN Occluded ELSE v
    BY <1>3, <1>4, SameSample
<1> QED
    BY ONLY <1>5, <1>6

\* A force plate tells the same count and the same vectors by its number as by
\* the names of its outputs, two searches of the code with rules of their own,
\* for every frame in which the plate's channels are named apart.
THEOREM PlatesTellOneStory == QuerySpec => []PlatesTellTheSame
    BY QueriesStay, PlatesAgree, PTL
=============================================================================
