------------------------------ MODULE Geometry ------------------------------
(* The geometry of the client: the small matrix library of ClientUtils.cpp,  *)
(* the change of axes of AxisMapping.cpp, and VClient's use of both when it  *)
(* hands out a position or a rotation (CopyAndTransformT / ...R).            *)
(*                                                                           *)
(* Numbers are integers: every matrix met here has entries -1, 0 and 1 (the  *)
(* 24 rotations of the cube), for which the code's floating point is exact.  *)
(* Angles are counted in quarter turns.  A quaternion is left unnormalised:  *)
(* MatrixToQuaternion divides by a common factor at its end, which is kept   *)
(* out of the model.                                                         *)
EXTENDS Integers, Sequences

Index == 1 .. 3
NoRotation == << <<1, 0, 0>>, <<0, 1, 0>>, <<0, 0, 1>> >>

-----------------------------------------------------------------------------
(* ClientUtils.cpp: vectors and matrices *)

Sum3(a, b, c) == a + b + c
TimesVector(m, v) == [i \in Index |-> Sum3(m[i][1] * v[1], m[i][2] * v[2], m[i][3] * v[3])]
Times(m, n) ==
    [i \in Index |-> [j \in Index |-> Sum3(m[i][1] * n[1][j], m[i][2] * n[2][j], m[i][3] * n[3][j])]]
Plus(v, w) == [i \in Index |-> v[i] + w[i]]
Minus(v, w) == [i \in Index |-> v[i] - w[i]]
Transpose(m) == [i \in Index |-> [j \in Index |-> m[j][i]]]
CrossProduct(a, b) ==
    << a[2] * b[3] - a[3] * b[2], a[3] * b[1] - a[1] * b[3], a[1] * b[2] - a[2] * b[1] >>
DotProduct(a, b) == Sum3(a[1] * b[1], a[2] * b[2], a[3] * b[3])

-----------------------------------------------------------------------------
(* ClientUtils.cpp: other forms of a rotation *)

\* Variant for mutation testing: the first element of the diagonal is taken for
\* the largest.
MatrixToQuaternion_FirstLargest(m) ==
    LET trace == Sum3(m[1][1], m[2][2], m[3][3])
    IN IF trace > 0
       THEN << m[3][2] - m[2][3], m[1][3] - m[3][1], m[2][1] - m[1][2], trace + 1 >>
       ELSE << m[1][1] - m[2][2] - m[3][3] + 1, m[2][1] + m[1][2], m[3][1] + m[1][3],
               m[3][2] - m[2][3] >>

\* The unnormalised quaternion <<x, y, z, w>> of a matrix.
MatrixToQuaternion(m) ==
    LET trace == Sum3(m[1][1], m[2][2], m[3][3])
        largest == IF m[2][2] > m[1][1] THEN (IF m[3][3] > m[2][2] THEN 3 ELSE 2)
                                        ELSE (IF m[3][3] > m[1][1] THEN 3 ELSE 1)
        j == (largest % 3) + 1
        k == (j % 3) + 1
    IN IF trace > 0
       THEN << m[3][2] - m[2][3], m[1][3] - m[3][1], m[2][1] - m[1][2], trace + 1 >>
       ELSE [ c \in 1 .. 4 |->
                CASE c = largest -> m[largest][largest] - m[j][j] - m[k][k] + 1
                  [] c = j       -> m[j][largest] + m[largest][j]
                  [] c = k       -> m[k][largest] + m[largest][k]
                  [] c = 4       -> m[k][j] - m[j][k] ]

\* std::atan2 and std::asin in quarter turns, for arguments among -1, 0, 1 with
\* one of the two zero; -0.0 and 0.0 are one number here.
ArcTan(y, x) == CASE y > 0 -> 1 [] y < 0 -> -1 [] x < 0 -> 2 [] OTHER -> 0
Sin(q) == <<0, 1, 0, -1>>[(q % 4) + 1]
Cos(q) == Sin(q + 1)

\* The gimbal-lock branches look at two different elements of the matrix.
MatrixToEulerXYZ(m) ==
    LET y == m[1][3]
        gimbalLock == y # 0
    IN IF ~gimbalLock
       THEN << ArcTan(-m[2][3], m[3][3]), y, ArcTan(-m[1][2], m[1][1]) >>
       ELSE << IF y > 0 THEN ArcTan(m[2][1], m[2][2]) ELSE -ArcTan(m[1][2], m[2][2]), y, 0 >>

\* The rotation by q quarter turns about a unit axis (HelicalToMatrix with
\* angle the length of its argument; no angle is the identity).
HelicalToMatrix(axis, q) ==
    IF q = 0 THEN NoRotation
    ELSE LET c == Cos(q)
             s == Sin(q)
             x == axis[1]
             y == axis[2]
             z == axis[3]
         IN << << c + (1 - c) * x * x, (1 - c) * x * y - s * z, (1 - c) * x * z + s * y >>,
               << (1 - c) * y * x + s * z, c + (1 - c) * y * y, (1 - c) * y * z - s * x >>,
               << (1 - c) * z * x - s * y, (1 - c) * z * y + s * x, c + (1 - c) * z * z >> >>

\* The axis and the number of quarter turns of a rotation about a coordinate
\* axis: twice the angle of the quaternion's parts, along its vector part.
MatrixToHelical(m) ==
    LET q == MatrixToQuaternion(m)
        length == CHOOSE l \in 0 .. 4 : l * l = DotProduct(q, q)
    IN IF length = 0 THEN [axis |-> <<0, 0, 0>>, turns |-> 0]
       ELSE [ axis  |-> [i \in Index |-> q[i] \div length],
              turns |-> IF q[4] = 0 THEN 2 ELSE IF q[4] > 0 THEN 1 ELSE 3 ]

-----------------------------------------------------------------------------
(* AxisMapping.cpp *)

Direction == {"Forward", "Backward", "Left", "Right", "Up", "Down"}
ComponentSign(d) == IF d \in {"Forward", "Left", "Up"} THEN 1 ELSE -1
ComponentIndex(d) ==
    CASE d \in {"Forward", "Backward"} -> 1
      [] d \in {"Left", "Right"}       -> 2
      [] d \in {"Up", "Down"}          -> 3
AxisOf(d) == [i \in Index |-> IF i = ComponentIndex(d) THEN ComponentSign(d) ELSE 0]

\* What VAxisMapping::SetAxisMapping says of three directions.
AxisMappingResult(x, y, z) ==
    IF {ComponentIndex(d) : d \in {x, y, z}} # Index THEN "CoLinearAxes"
    ELSE IF AxisOf(z) # CrossProduct(AxisOf(x), AxisOf(y)) THEN "LeftHandedAxes"
    ELSE "Success"

\* The transform a mapping keeps: one row for each axis of the client.
GetTransformationMatrix(map) == [i \in Index |-> AxisOf(map[i])]

MapT(map, t) == TimesVector(GetTransformationMatrix(map), t)
MapR(map, r) ==
    Times(Times(GetTransformationMatrix(map), r), Transpose(GetTransformationMatrix(map)))
\* Variant for mutation testing: the server's axes are applied, not undone.
MapTFrom_Twice(map, q, t) == TimesVector(Times(GetTransformationMatrix(map), q), t)

MapTFrom(map, q, t) ==
    TimesVector(Times(GetTransformationMatrix(map), Transpose(q)), t)

MapRFrom(map, q, r) ==
    LET t == GetTransformationMatrix(map)
    IN Times(Times(Times(Times(t, Transpose(q)), r), q), Transpose(t))

-----------------------------------------------------------------------------
(* CoreClient.cpp: what the client hands out *)

YUpAxes == <<"Forward", "Up", "Right">>
ZUpAxes == <<"Forward", "Left", "Up">>
ServerAxes(yUp) == IF yUp THEN YUpAxes ELSE ZUpAxes

CopyAndTransformT(map, yUp, t) ==
    IF map = ServerAxes(yUp) THEN t
    ELSE IF yUp THEN MapTFrom(map, GetTransformationMatrix(YUpAxes), t)
    ELSE MapT(map, t)

CopyAndTransformR(map, yUp, r) ==
    IF map = ServerAxes(yUp) THEN r
    ELSE IF yUp THEN MapRFrom(map, GetTransformationMatrix(YUpAxes), r)
    ELSE MapR(map, r)
=============================================================================
