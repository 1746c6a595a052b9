------------------------------ MODULE Encryptor ------------------------------
(***************************************************************************)
(* The framing of the Encryptor (pkg/crypto/encryptor.go): where Encrypt  *)
(* puts the nonce and Sign the signature, and how CheckSignature and      *)
(* Decrypt take them out again.                                            *)
(*                                                                         *)
(* The cryptography is abstracted: a key is a number, Salsa20's keystream *)
(* is a function of key, nonce and position (KeyStream), and the SHA3    *)
(* MAC truncated to SignatureLength bytes is a function of the key and    *)
(* every byte it covers (Mac).  Both sides use the same two functions, so *)
(* what is checked is the layout and the order of the steps, as spec.md   *)
(* section 7 fixes them.  An encryptor is a record of its four keys and   *)
(* its send nonce.                                                         *)
(***************************************************************************)
EXTENDS Naturals, Sequences, SequencesExt, Bitwise

HeaderLength == 5
SignatureLength == 6

\* Op applied to the value of x, x evaluated once.
LOCAL With(x, Op(_)) == CHOOSE y \in {Op(v) : v \in {x}} : TRUE

\* Stand-ins for Salsa20 and SHA3-256.
KeyStream(key, nonce, i) == (key * 37 + nonce * 11 + i * 5 + 3) % 256
\* The hash of bytes lo..hi, every byte weighted by its position.
RECURSIVE Digest(_, _, _)
Digest(bytes, lo, hi) ==
    IF lo > hi THEN 0
    ELSE IF lo = hi THEN ((bytes[lo] + 1) * (lo * 7919 % 65521)) % 65521
    ELSE (Digest(bytes, lo, (lo + hi) \div 2) + Digest(bytes, (lo + hi) \div 2 + 1, hi)) % 65521
Mac(key, bytes) ==
    With((Digest(bytes, 1, Len(bytes)) + key * 40503) % 65521, LAMBDA h :
         [j \in 1..SignatureLength |-> (h * j + key) % 256])

\* salsa20.XORKeyStream with an 8-byte nonce whose last two bytes are n.
XORKeyStream(body, n, key) == [i \in DOMAIN body |-> body[i] ^^ KeyStream(key, n, i)]

\* GetNonce: the nonce, then e.nonce++ on a uint16.
GetNonce(e) == [n |-> e.nonce, e |-> [e EXCEPT !.nonce = (@ + 1) % 65536]]

\* ShouldRenegotiate
ShouldRenegotiate(e) == e.nonce > 65520

\* Encrypt: data shorter than a header is returned as it is; otherwise
\* header, the 2-byte big-endian nonce, the body XORed with the keystream.
Encrypt(e, data) ==
    IF Len(data) < HeaderLength THEN [e |-> e, data |-> data]
    ELSE LET g == GetNonce(e)
         IN  [e |-> g.e,
              data |-> SubSeq(data, 1, HeaderLength) \o <<g.n \div 256, g.n % 256>>
                       \o XORKeyStream(SubSeq(data, HeaderLength + 1, Len(data)), g.n, e.myWriteKey)]

\* Sign: the signature of header and body put between them.
Sign(e, data) ==
    IF Len(data) < HeaderLength THEN data
    ELSE LET header == SubSeq(data, 1, HeaderLength)
             body == SubSeq(data, HeaderLength + 1, Len(data))
         IN  header \o Mac(e.myMacKey, header \o body) \o body

\* CheckSignature: header and body without the signature when it is the
\* one their MAC key gives.
CheckSignature(e, data) ==
    IF Len(data) < HeaderLength + SignatureLength THEN [ok |-> FALSE]
    ELSE LET header == SubSeq(data, 1, HeaderLength)
             sig == SubSeq(data, HeaderLength + 1, HeaderLength + SignatureLength)
             body == SubSeq(data, HeaderLength + SignatureLength + 1, Len(data))
         IN  IF sig # Mac(e.theirMacKey, header \o body) THEN [ok |-> FALSE]
             ELSE [ok |-> TRUE, data |-> header \o body]

\* Decrypt: the nonce after the header, the rest XORed with their keystream.
Decrypt(e, data) ==
    IF Len(data) < HeaderLength + 2 THEN [ok |-> FALSE]
    ELSE LET n == data[HeaderLength + 1] * 256 + data[HeaderLength + 2]
         IN  [ok |-> TRUE, nonce |-> n,
              data |-> SubSeq(data, 1, HeaderLength)
                       \o XORKeyStream(SubSeq(data, HeaderLength + 3, Len(data)), n, e.theirWriteKey)]
====
