----------------------------- MODULE CryptoCore -----------------------------
(***************************************************************************)
(* internal/cryptocore as a term algebra.  Every primitive is modelled by  *)
(* what it guarantees: a derived key is a term that names all its inputs   *)
(* and its label, so that two keys are equal only when they were derived   *)
(* in the same way from the same inputs; a ciphertext opens under the key  *)
(* it was sealed with and under no other; Diffie-Hellman gives both sides  *)
(* the same secret; XOR is its own inverse.                                *)
(*                                                                         *)
(* A 16-byte string that takes part in an XOR (the share S, a response     *)
(* pad, a response) is the set of the independent random strings it is the *)
(* XOR of: the XOR of two such sets is their symmetric difference, and a   *)
(* string is another one only if the two sets are equal.                   *)
(***************************************************************************)

\* A fresh X25519 key for an owner (one seal, or one unlock session).  The
\* keys of two owners differ: they come from the system's random source.
NewKeyPair(use, owner) == <<use, owner>>

PublicKey(sk) == <<"public", sk>>

\* X25519 of a private key with a public one; both sides get the same set.
ECDH(sk, public) == {sk, public[2]}

\* The all-zero and the other low-order points: a well-formed 32-byte public
\* key for which ECDH returns an error.
LowOrderPoint == PublicKey(<<"none", "low order">>)

\* Fresh salt, one per payload.
NewSalt(payload, owner) == <<payload, owner>>

\* P: Argon2id of the password (or the warden passphrase) and the salt.
DeriveP(password, salt) == <<"argon2id", password, salt>>

-----------------------------------------------------------------------------
\* FAULT: the response pad is forgotten, the share is sent as it is.
FaultNoPad(shared) == {}

\* hkdfKey(shared, infoRespPad): the one-time pad of a response.
ResponsePad(shared) == {<<"response-pad", shared>>}

\* S: HKDF of the warden's private key.
DeriveShare(sk) == {<<"asset-share", sk>>}

Xor(a, b) == (a \ b) \cup (b \ a)

\* FAULT: the asset key is derived from the password key alone.
FaultShareIgnored(share, p) == <<"asset-key", {}, p>>

\* K_a of a two-factor vault: HKDF of S followed by P.
DeriveAssetKey(share, p) == <<"asset-key", share, p>>

\* K_a of a --no-warden vault: HKDF of P under a label of its own.
DeriveAssetKeySolo(p) == <<"asset-key-single-factor", p>>

-----------------------------------------------------------------------------
\* XChaCha20-Poly1305 envelope.
Seal(key, plaintext) == [key |-> key, plaintext |-> plaintext]

\* FAULT: the authentication tag is not looked at.
FaultNoTag(key, ciphertext) == TRUE

\* Open returns the plaintext when this holds, and an error otherwise.
Opens(key, ciphertext) == ciphertext.key = key

-----------------------------------------------------------------------------
\* The warden's answer to the challenge ePub: S XOR pad.
Respond(sk, ePub) == Xor(DeriveShare(sk), ResponsePad(ECDH(sk, ePub)))

\* FAULT: the vault derives the pad from its own public key.
FaultOwnKey(ePriv, pk, response) ==
    Xor(response, ResponsePad(ECDH(ePriv, PublicKey(ePriv))))

\* The vault takes the pad off again with its ephemeral private key.
RecoverShare(ePriv, pk, response) ==
    Xor(response, ResponsePad(ECDH(ePriv, pk)))
=============================================================================
