----------------------------- MODULE MCEnrollment -----------------------------
(* Small instances of Enrollment.                                            *)
EXTENDS Enrollment, TLC

CONSTANTS m1, m2, k1, k2, t1, b1, p1, f1, f2

\* The batch and the explicit serial share a prefix.
OwnPrefix == [b \in Batch |-> p1]

\* A host that takes this name loses its own and blocks the batch's last serial.
Names == {<<p1, 2>>}

None(c) == [cred |-> c, serial |-> NoSerial, fp |-> f1]

\* Two devices compete for one token, plain or linked, and for one batch; the
\* second one may come back with another host key.
Contend ==
    (k1 :> {None(t1), None(b1)}) @@
    (k2 :> {None(b1), [cred |-> t1, serial |-> <<p1, 1>>, fp |-> f2]})
=============================================================================
