----------------------------- MODULE AxisMapping -----------------------------
(* The axes of a client: SetAxisMapping chooses them, the server says with   *)
(* each frame whether its own world has Y or Z up, and every position and    *)
(* rotation of the frame is handed out in the axes of the client.            *)
EXTENDS Geometry, FiniteSets

VARIABLES axes,      \* m_pAxisMapping: the directions of the client's X, Y and Z
          yUp,       \* m_AxisOrientation of the latest frame is EYUp
          rotation,  \* the rotation of the one segment of the latest frame
          axesResult \* what the last call of SetAxisMapping returned

axisVars == <<axes, yUp, rotation, axesResult>>

\* The rotations of the cube: the orthogonal matrices of entries -1, 0, 1 that
\* keep handedness.
UnitVectors == {AxisOf(d) : d \in Direction}
Rotations ==
    {m \in {<<x, y, CrossProduct(x, y)>> : x, y \in UnitVectors} : DotProduct(m[1], m[2]) = 0}

AxisInit ==
    /\ axes = <<"Forward", "Left", "Up">>
    /\ yUp = FALSE
    /\ rotation = NoRotation
    /\ axesResult = "Success"

SetAxisMapping(x, y, z) ==
    /\ axesResult' = AxisMappingResult(x, y, z)
    /\ axes' = IF axesResult' = "Success" THEN <<x, y, z>> ELSE axes
    /\ UNCHANGED <<yUp, rotation>>

\* A frame of a server whose world is turned as up says.
FrameOf(up, r) ==
    /\ yUp' = up
    /\ rotation' = r
    /\ UNCHANGED <<axes, axesResult>>

AxisNext ==
    \/ \E x, y, z \in Direction : SetAxisMapping(x, y, z)
    \/ \E up \in BOOLEAN, r \in Rotations : FrameOf(up, r)

AxisSpec == AxisInit /\ [][AxisNext]_axisVars

-----------------------------------------------------------------------------
\* The coordinates of a physical direction in a set of axes.
Coordinates(a, d) == [i \in Index |-> DotProduct(AxisOf(a[i]), AxisOf(d))]

\* The client sees the same world from a server with Y up and from one with Z
\* up (VClient::CopyAndTransformT and R over both branches of AxisMapping.cpp):
\* a direction comes out with its coordinates in the axes the client asked for;
\* translations and rotations are mapped by one change of axes, so a client that
\* composes a global pose from local ones lands where the server says; and the
\* world is no mirror image, whatever calls of SetAxisMapping came before.
AxesKeepTheWorld ==
    LET Mapped(v) == CopyAndTransformT(axes, yUp, v)
    IN /\ \A d \in Direction : Mapped(Coordinates(ServerAxes(yUp), d)) = Coordinates(axes, d)
       /\ \A v \in UnitVectors :
            Mapped(TimesVector(rotation, v)) =
            TimesVector(CopyAndTransformR(axes, yUp, rotation), Mapped(v))
       /\ \A v, w \in UnitVectors :
            Mapped(CrossProduct(v, w)) = CrossProduct(Mapped(v), Mapped(w))

\* The rotation n times the matrix of an unnormalised quaternion q, n its norm.
QuaternionTimes(q) ==
    LET x == q[1]
        y == q[2]
        z == q[3]
        w == q[4]
    IN << << w*w + x*x - y*y - z*z, 2 * (x*y - w*z), 2 * (x*z + w*y) >>,
          << 2 * (x*y + w*z), w*w - x*x + y*y - z*z, 2 * (y*z - w*x) >>,
          << 2 * (x*z - w*y), 2 * (y*z + w*x), w*w - x*x - y*y + z*z >> >>

QuaternionNames(q, r) ==
    LET n == DotProduct(q, q) + q[4] * q[4]
    IN n # 0 /\ QuaternionTimes(q) = [i \in Index |-> [j \in Index |-> n * r[i][j]]]

\* What is handed out for the rotation of a segment names it.  The quaternion
\* does in both branches of MatrixToQuaternion, also where the trace is not
\* positive and the largest element of the diagonal is looked for.  The helical
\* vector does for the rotations about a coordinate axis: HelicalToMatrix, which
\* the client uses on lightweight data, undoes MatrixToHelical.  The Euler angles
\* do but for Y at -90 degrees, where MatrixToEulerXYZ looks at another element
\* than for 90.
RotationsAreNamed ==
    LET h == MatrixToHelical(rotation)
        e == MatrixToEulerXYZ(rotation)
        About(i, q) == HelicalToMatrix([j \in Index |-> IF i = j THEN 1 ELSE 0], q)
        aboutAxis == /\ Cardinality({i \in Index : rotation[i][i] # 0}) \in {1, 3}
                     /\ \A i, j \in Index : i # j => rotation[i][j] = -rotation[j][i]
    IN /\ QuaternionNames(MatrixToQuaternion(rotation), rotation)
       /\ aboutAxis => HelicalToMatrix(h.axis, h.turns) = rotation
       /\ e[2] # -1 => Times(Times(About(1, e[1]), About(2, e[2])), About(3, e[3])) = rotation
=============================================================================
