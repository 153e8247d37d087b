----------------------------- MODULE Container ------------------------------
(***************************************************************************)
(* internal/blob: the payload behind a stub, and the fields in a payload.   *)
(* A file is a sequence of bytes.  Lengths are written by encoding/binary,  *)
(* of which only is assumed that what was put can be got back, and of the   *)
(* trailer that every eight bytes are some number's.                       *)
(***************************************************************************)
EXTENDS Integers, Sequences

CONSTANTS
    Byte,          \* the values of a byte
    PutUint64(_), Uint64(_), TrailerLen, \* 8 bytes, big endian
    PutUint32(_), Uint32(_), LenLen,     \* 4 bytes
    SaltLen,
    MaxLen         \* bound: lengths that fit in either

ASSUME ByteAssumption == {0, 1} \subseteq Byte
ASSUME LenAssumption ==
    TrailerLen \in Nat /\ LenLen \in Nat /\ SaltLen \in Nat /\ MaxLen \in Nat
ASSUME Uint64Assumption ==
    \A n \in 0..MaxLen : /\ PutUint64(n) \in Seq(Byte) /\ Len(PutUint64(n)) = TrailerLen
                         /\ Uint64(PutUint64(n)) = n
ASSUME TrailerAssumption ==
    \A b \in [1..TrailerLen -> Byte] : PutUint64(Uint64(b)) = b
ASSUME Uint32Assumption ==
    \A n \in 0..MaxLen : /\ PutUint32(n) \in Seq(Byte) /\ Len(PutUint32(n)) = LenLen
                         /\ Uint32(PutUint32(n)) = n

\* FAULT: the trailer is counted in.
FaultCountsTrailer(stub, payload) ==
    stub \o payload \o PutUint64(Len(payload) + TrailerLen)

WriteSealedBytes(stub, payload) == stub \o payload \o PutUint64(Len(payload))

\* The length in the last bytes, and where they begin.
End(data) == Len(data) - TrailerLen
PayloadLen(data) == Uint64(SubSeq(data, End(data) + 1, Len(data)))

\* FAULT: the length is not compared with the size of the file.
FaultTrustsLength(data) == Len(data) >= TrailerLen /\ PayloadLen(data) # 0

\* Read returns no ErrNotSealed.
IsSealed(data) == Len(data) >= TrailerLen /\ PayloadLen(data) \in 1..End(data)
Read(data) == SubSeq(data, End(data) - PayloadLen(data) + 1, End(data))

\* VaultPayload
VaultPayloads ==
    [salt : {s \in Seq(Byte) : Len(s) = SaltLen}, meta : Seq(Byte), asset : Seq(Byte)]

MarshalVault(p) == p.salt \o PutUint32(Len(p.meta)) \o p.meta \o p.asset

\* FAULT: the length is read from the front of the payload.
FaultNoSalt(b) == Uint32(SubSeq(b, 1, LenLen))

MetaLen(b) == Uint32(SubSeq(b, SaltLen + 1, SaltLen + LenLen))
ParsesVault(b) ==
    Len(b) >= SaltLen + LenLen /\ MetaLen(b) <= Len(b) - SaltLen - LenLen
ParseVaultPayload(b) ==
    LET meta == SaltLen + LenLen
    IN  [salt  |-> SubSeq(b, 1, SaltLen),
         meta  |-> SubSeq(b, meta + 1, meta + MetaLen(b)),
         asset |-> SubSeq(b, meta + MetaLen(b) + 1, Len(b))]

\* WardenPayload
WardenPayloads ==
    [hasPass : BOOLEAN, salt : {s \in Seq(Byte) : Len(s) = SaltLen}, ct : Seq(Byte)]

MarshalWarden(p) == <<IF p.hasPass THEN 1 ELSE 0>> \o p.salt \o p.ct

ParsesWarden(b) == Len(b) >= 1 + SaltLen
ParseWardenPayload(b) ==
    [hasPass |-> b[1] = 1,
     salt    |-> SubSeq(b, 2, 1 + SaltLen),
     ct      |-> SubSeq(b, 2 + SaltLen, Len(b))]

-----------------------------------------------------------------------------
(* Properties, of one stub and payload and of one file. *)

\* Whatever the stub is and ends with, the binary made of it is read as sealed,
\* and with the payload it was made with.
ReadBack(stub, payload) ==
    LET file == WriteSealedBytes(stub, payload)
    IN  IsSealed(file) /\ Read(file) = payload

\* A file that is read as sealed, cut short, damaged or no product of seal at
\* all, is one that WriteSealedBytes could have written: no slice is taken from
\* outside of it, and nothing is left over.
ReadIsExact(file) ==
    IsSealed(file) =>
        \E k \in 0..Len(file) :
            /\ k = End(file) - PayloadLen(file)
            /\ file = WriteSealedBytes(SubSeq(file, 1, k), Read(file))

\* Each of the two payloads is parsed into the fields it was made of.
VaultFieldsKept(p) ==
    ParsesVault(MarshalVault(p)) /\ ParseVaultPayload(MarshalVault(p)) = p
WardenFieldsKept(p) ==
    ParsesWarden(MarshalWarden(p)) /\ ParseWardenPayload(MarshalWarden(p)) = p
=============================================================================
