------------------------------ MODULE MCKernels ----------------------------
(***************************************************************************)
(* Kernels with 4-bit words, on which the laws of module WordLaws can be   *)
(* checked for all values.  A constant keeps its low four bits.            *)
(***************************************************************************)
EXTENDS Kernels, WordLaws
Bits == INSTANCE Bitwise

MCWord == 0 .. 15
MCPlus(x, y)  == (x + y) % 16
MCMinus(x, y) == (x + 16 - y) % 16
MCAnd(x, y)   == Bits!&(x, y)
MCOr(x, y)    == Bits!|(x, y)
MCXor(x, y)   == Bits!^^(x, y)
MCNot(x)      == 15 - x
MCRotl(x, r)  == ((x * 2^(r % 4)) % 16) + (x \div 2^(4 - (r % 4)))
MCRor(x, r)   == MCRotl(x, 4 - (r % 4))
(* Lanes of four bits: a count stands for its remainder by four. *)
MCShl(x, n)   == (x * 2^(n % 4)) % 16
MCShr(x, n)   == x \div 2^(n % 4)
MCOnes        == 15
MCConst(s)    == K[s + 1][2] % 16
MCUnset       == 0

(* No two words of a block, and no two blocks, are alike in all steps.     *)
BlockOf(p, q) == [i \in 0 .. 15 |-> (p * i + q + (i \div 5)) % 16]
MCInputs == {<<BlockOf(1, 0)>>, <<BlockOf(7, 3), BlockOf(11, 5)>>,
             <<BlockOf(0, 15), BlockOf(0, 0), BlockOf(5, 2)>>}
MCChains == {[r \in Reg |-> (3 * r + 1) % 16], [r \in Reg |-> 15]}
=============================================================================
