------------------------------ MODULE AtomicOps ------------------------------
(***************************************************************************)
(* Integers of Bits bits, signed (two's complement) or not, and what the   *)
(* read-modify-write operations of an atomic of that type do to its value. *)
(***************************************************************************)
EXTENDS Integers

CONSTANTS Bits, Signed

Modulus == 2^Bits
Value == IF Signed THEN -(Modulus \div 2)..(Modulus \div 2 - 1) ELSE 0..(Modulus - 1)

(* The conversion of an integer to the type: modulo 2^Bits. *)
Trunc(n) ==
  LET m == n % Modulus
  IN  IF Signed /\ m >= Modulus \div 2 THEN m - Modulus ELSE m

Bit(n, i) == ((n % Modulus) \div 2^i) % 2

(* The value whose bits are those that Op makes of the bits of a and b. *)
PerBit(Op(_, _), a, b) ==
  CHOOSE v \in Value : \A i \in 0..(Bits - 1) : Bit(v, i) = Op(Bit(a, i), Bit(b, i))

Updates == {"load", "store", "exchange", "add", "sub", "and", "or", "xor", "max", "min"}
Compares == {"weak", "strong"}     \* compare_exchange_weak and _strong

(* The value an update leaves when it finds v. *)
Updated(op, v, arg) ==
  CASE op = "load" -> v
    [] op \in {"store", "exchange"} -> arg
    [] op = "add" -> Trunc(v + arg)
    [] op = "sub" -> Trunc(v - arg)
    [] op = "and" -> PerBit(LAMBDA a, b : a * b, v, arg)
    [] op = "or"  -> PerBit(LAMBDA a, b : a + b - a * b, v, arg)
    [] op = "xor" -> PerBit(LAMBDA a, b : (a + b) % 2, v, arg)
    [] op = "max" -> IF v > arg THEN v ELSE arg
    [] op = "min" -> IF v < arg THEN v ELSE arg

=============================================================================
