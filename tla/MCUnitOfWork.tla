---------------------------- MODULE MCUnitOfWork ----------------------------
EXTENDS UnitOfWork, TLC

CONSTANTS r1, r2, r3, q1, q2, q3, q4

TwoRequests == {r1, r2}
ThreeRequests == {r1, r2, r3}
ThreeRunners == {q1, q2, q3}
FourRunners == {q1, q2, q3, q4}
=============================================================================
