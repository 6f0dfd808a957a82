--------------------------- MODULE PowerOfTwoRing ---------------------------
(* PotRingbuffer with a capacity its & and ^ are meant for.                  *)
EXTENDS PotRingbuffer

(* Masking with N-1 and with 2N-1 has period N and 2N, also where size_t     *)
(* wraps, and ^ N is a half turn.  A power of two that divides 2^w has both. *)
ASSUME PowerOfTwoAssumption ==
    /\ \A x \in 0..(N - 1) : BitAnd(x, N - 1) = x
    /\ \A x \in 0..(SizeLimit - N - 1) :
           BitAnd(x + N, N - 1) = BitAnd(x, N - 1)
    /\ \A x \in 1..N : BitAnd(SizeLimit - x, N - 1) = N - x
    /\ \A x \in 0..(2 * N - 1) : BitAnd(x, 2 * N - 1) = x
    /\ BitAnd(2 * N, 2 * N - 1) = 0
    /\ BitAnd(SizeLimit - 1, 2 * N - 1) = 2 * N - 1
    /\ \A x \in 0..(2 * N - 1) : BitXor(x, N) = IF x < N THEN x + N ELSE x - N
=============================================================================
