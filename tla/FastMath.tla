------------------------------ MODULE FastMath ------------------------------
(***************************************************************************)
(* The arithmetic of fast_math.c and fast_math.h that the allocators'      *)
(* size classes are computed with.                                         *)
(***************************************************************************)
EXTENDS Integers

(* fast_math_fastlog2: the position of the top bit; rounding up adds one   *)
(* unless x is a power of two.                                             *)
Log2Down(x) == IF x = 0 THEN 0 ELSE CHOOSE k \in 0 .. x : 2^k <= x /\ x < 2^(k + 1)
Log2Up(x)   == IF x = 0 \/ 2^Log2Down(x) = x THEN Log2Down(x) ELSE Log2Down(x) + 1

(* fast_math_find_prime *)
IsPrime(x)   == x > 1 /\ \A i \in 2 .. x - 1 : x % i # 0
FindPrime(x) == CHOOSE p \in x .. 2 * x + 2 : IsPrime(p) /\ \A q \in x .. p - 1 : ~IsPrime(q)

(* A division whose remainder counts as one more. *)
DivUp(x, y) == x \div y + (IF x % y = 0 THEN 0 ELSE 1)

(* FAST_MATH_ALIGNMENT: the next multiple of a. *)
AlignTo(x, a) == a * DivUp(x, a)
=============================================================================
