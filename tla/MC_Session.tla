----------------------------- MODULE MC_Session -----------------------------
(* Instantiates Session for TLC.  Sequence numbers and nonces are taken   *)
(* modulo small numbers so that their wraparound happens within the       *)
(* bounds; the client starts two below the wrap, as rand.Intn(0xFFFF) can.                          *)
EXTENDS Session

\* bound: Encryptors the client creates (the first one and renegotiations)
MaxEnc == 2

\* Behaviours stop being explored once the client would create Encryptor
\* MaxEnc + 1.
WithinBounds == sess.enc + (IF sess.newEnc # 0 THEN 1 ELSE 0) <= MaxEnc
=============================================================================
