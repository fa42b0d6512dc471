---------------------------- MODULE MCEventLedger ----------------------------
(* Requests that race for one eventId, each with a body of its own; the body *)
(* of r3 is one that the Account Service rejects.                            *)
EXTENDS EventLedger, TLC

CONSTANTS r1, r2, r3, e1, b1, b2, b3

MCEventOf == [r \in Requests |-> e1]
MCBodyOf  == [r \in Requests |-> IF r = r1 THEN b1 ELSE IF r = r2 THEN b2 ELSE b3]

\* r1 and r2 may change places together with their bodies.
MCSymmetry == {p \in Permutations({r1, r2, b1, b2}) :
    <<p[r1], p[b1]>> \in {<<r1, b1>>, <<r2, b2>>} /\ <<p[r2], p[b2]>> \in {<<r1, b1>>, <<r2, b2>>}}
=============================================================================
