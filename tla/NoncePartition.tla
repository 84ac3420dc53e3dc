---------------------------- MODULE NoncePartition ----------------------------
(***************************************************************************)
(* How SessionState::build_work (src/src/mining/stratum.rs) splits the     *)
(* nonces of one block header between the threads of a rig.  The code      *)
(* works on u32; Nonces is 2^32 there and any number here, so that the     *)
(* wrap of the cast and of the product stay visible.                       *)
(***************************************************************************)
EXTENDS Integers

CONSTANT Nonces   \* how many nonces there are: 2^32 in the code

ASSUME NoncesAssumption == Nonces \in Nat \ {0}

LastNonce == Nonces - 1

\* (2^32 / total) as u32: with one thread the quotient wraps to zero.
Span(total) == (Nonces \div total) % Nonces

\* index.wrapping_mul(span)
NonceStart(index, total) == (index * Span(total)) % Nonces

\* Mutant of NonceEnd: the range is closed where it should be half open.
NonceEndClosed(index, total) ==
  IF index + 1 = total THEN LastNonce
  ELSE NonceStart(index, total) + Span(total) + 1

\* The last thread takes what is left; the others end where the next begins,
\* by saturating_add.
NonceEnd(index, total) ==
  LET end == NonceStart(index, total) + Span(total) IN
    IF index + 1 = total \/ end > LastNonce THEN LastNonce ELSE end

\* The nonces thread index hashes: nonce_end itself is not one of them.
NonceRange(index, total) ==
  {n \in 0..LastNonce : NonceStart(index, total) <= n /\ n < NonceEnd(index, total)}
=============================================================================
