------------------------------- MODULE MCConsole -------------------------------
(***************************************************************************)
(* Constants of Console for TLC: characters 1 to 3 with the exclusive or   *)
(* of two bits each, a key of two characters that is used again for the    *)
(* third, and new passwords of which one has a character of the key at its *)
(* place.  Freed memory may hold the administrator's password, whose row   *)
(* is read first.                                                          *)
(***************************************************************************)
EXTENDS Console, Downsample

MCChars == 1..3
MCKey == <<1, 2>>
Bit(a, i) == (a \div (2 ^ i)) % 2
MCXor(a, b) == LET Differ(i) == IF Bit(a, i) = Bit(b, i) THEN 0 ELSE 2 ^ i
               IN  Differ(0) + Differ(1)
MCOperator == <<2, 1>>
MCAdmin == <<3, 3>>
MCNew == {<<2, 3>>, <<2, 2>>}
MCGarbled == {MCAdmin}

(* What is read back is what was written, up to a character of the key.    *)
Words == UNION {[1..n -> MCChars] : n \in 0..4}
ASSUME \A p \in Words :
    LET q == Reloaded(Stored(p))
    IN  /\ ~HasKeyChar(p) => q = p
        /\ HasKeyChar(p) => /\ Len(q) < Len(p) /\ q = SubSeq(p, 1, Len(q))
                            /\ p[Len(q) + 1] = KeyAt(Len(q) + 1)

(* The points of a chart partition the rows, but for the newest.           *)
ASSUME \A m \in 1..3 : \A n \in (m + 1)..7 : \A lim \in Limits(n, m) :
    \A j \in 0..(n - 2) :
        Cardinality({i \in 0..(m - 1) : lim[i] <= j /\ j < lim[i + 1]}) = 1
=============================================================================
