----------------------------- MODULE MCKernels32 ---------------------------
(***************************************************************************)
(* Kernels with the real 32-bit words, each kept as an upper and a lower   *)
(* half, on padded messages whose digests are published.                   *)
(***************************************************************************)
EXTENDS Kernels, SequencesExt
Bits == INSTANCE Bitwise

Half == 2^16
MCWord == (0 .. Half - 1) \X (0 .. Half - 1)
OnHalves(Op(_, _), x, y) == <<Op(x[1], y[1]), Op(x[2], y[2])>>
MCPlus(x, y) ==
  LET low == x[2] + y[2]
  IN  <<(x[1] + y[1] + (low \div Half)) % Half, low % Half>>
MCNot(x)      == <<Half - 1 - x[1], Half - 1 - x[2]>>
MCMinus(x, y) == MCPlus(MCPlus(x, MCNot(y)), <<0, 1>>)
MCAnd(x, y)   == OnHalves(Bits!&, x, y)
MCOr(x, y)    == OnHalves(Bits!|, x, y)
MCXor(x, y)   == OnHalves(Bits!^^, x, y)

(* A rotate by r < 16, or by 16 (the halves swapped) and r - 16.           *)
Short(x, r) ==
  LET up == 2^r
      over == 2^(16 - r)
  IN  <<((x[1] % over) * up) + (x[2] \div over), ((x[2] % over) * up) + (x[1] \div over)>>
MCRotl(x, r) == IF r < 16 THEN Short(x, r) ELSE Short(<<x[2], x[1]>>, r - 16)
MCRor(x, r)  == MCRotl(x, 32 - r)
MCShl(x, n) ==
  IF n < 16 THEN <<((x[1] % 2^(16 - n)) * 2^n) + (x[2] \div 2^(16 - n)), (x[2] % 2^(16 - n)) * 2^n>>
            ELSE <<(x[2] % 2^(32 - n)) * 2^(n - 16), 0>>
MCShr(x, n) ==
  IF n < 16 THEN <<x[1] \div 2^n, ((x[1] % 2^n) * 2^(16 - n)) + (x[2] \div 2^n)>>
            ELSE <<0, x[1] \div 2^(n - 16)>>
MCOnes       == <<Half - 1, Half - 1>>
MCConst(s)   == K[s + 1]
MCUnset      == <<0, 0>>

STATE_INIT == <<<<\h6745, \h2301>>, <<\hefcd, \hab89>>, <<\h98ba, \hdcfe>>, <<\h1032, \h5476>>>>
MCChains == {[r \in Reg |-> STATE_INIT[r + 1]]}

(* Messages, as bytes, and the digests that the repository expects of      *)
(* them: empty_digest of src/backend.rs, and tests/rfc1321.rs.             *)
Abc      == <<97, 98, 99>>
Digits80 == [i \in 1 .. 80 |-> 48 + (i % 10)]
Published ==
  {<<<< >>,    <<\hd4, \h1d, \h8c, \hd9, \h8f, \h00, \hb2, \h04,
                 \he9, \h80, \h09, \h98, \hec, \hf8, \h42, \h7e>>>>,
   <<Abc,      <<\h90, \h01, \h50, \h98, \h3c, \hd2, \h4f, \hb0,
                 \hd6, \h96, \h3f, \h7d, \h28, \he1, \h7f, \h72>>>>,
   <<Digits80, <<\h57, \hed, \hf4, \ha2, \h2b, \he3, \hc9, \h55,
                 \hac, \h49, \hda, \h2e, \h21, \h07, \hb6, \h7a>>>>}

(* Padding, and load_m: the little-endian words of each block.             *)
Padded(msg) ==
  LET zeros == 63 - ((Len(msg) + 8) % 64)
      bits  == 8 * Len(msg)
  IN  msg \o <<128>> \o [i \in 1 .. zeros |-> 0]
          \o <<bits % 256, bits \div 256, 0, 0, 0, 0, 0, 0>>
WordAt(s, i) == <<s[i + 3] + 256 * s[i + 4], s[i + 1] + 256 * s[i + 2]>>
BlocksOf(msg) ==
  [b \in 1 .. Len(Padded(msg)) \div 64 |->
     [w \in 0 .. 15 |-> WordAt(Padded(msg), 64 * (b - 1) + 4 * w)]]
MCInputs == {BlocksOf(p[1]) : p \in Published}

(* state_to_bytes. *)
BytesOf(w)  == <<w[2] % 256, w[2] \div 256, w[1] % 256, w[1] \div 256>>
Serialised  == BytesOf(chain[0]) \o BytesOf(chain[1]) \o BytesOf(chain[2]) \o BytesOf(chain[3])

(* With the constants of src/consts.rs every kernel gives the published    *)
(* digests, and the empty message gives the literal that the one-shot      *)
(* entry points return without compressing anything (src/backend.rs:18).   *)
PublishedDigests ==
  ~busy /\ todo = << >> =>
    \A p \in Published : m = Last(BlocksOf(p[1])) => Serialised = p[2]
=============================================================================
