------------------------------- MODULE Words -------------------------------
(***************************************************************************)
(* internal/wordcodec: bytes as a phrase of words with a checksum, and     *)
(* back.  Bytes are sequences of bits.  The list has 2^WordBits words      *)
(* (2^11); three words hold one bit of checksum and the rest, BlockBits    *)
(* (32), of the bytes.  A word is a sequence of letters in lower case.     *)
(***************************************************************************)
EXTENDS Naturals, SequencesExt

CONSTANTS
    WordBits,         \* bits in a word
    Letters,          \* lower-case letters
    List,             \* the words, in order
    MinBits, MaxBits, \* the sizes Encode takes
    Sha256(_)         \* the bits of the hash of some bits

Word == Seq(Letters) \ {<<>>}

\* 1 << WordBits, and n >> b, bit by bit.
ListSize ==
    LET shl[b \in 0..WordBits] == IF b = 0 THEN 1 ELSE 2 * shl[b - 1] IN shl[WordBits]
Shr(n, b) ==
    LET shr[i \in 0..WordBits] == IF i = 0 THEN n ELSE shr[i - 1] \div 2 IN shr[b]

BlockBits == 3 * WordBits - 1

\* NewList takes nothing else, and ParseWordlist leaves no word empty.
IsList(words) == words \in Seq(Word) /\ Len(words) = ListSize /\ IsInjective(words)
ASSUME ListAssumption == WordBits \in Nat \ {0} /\ IsList(List)
ASSUME SizeAssumption == MinBits \in Nat \ {0} /\ MaxBits \in Nat

\* Bits, the highest first, as a number.
Number(bits) ==
    LET idx[b \in 0..Len(bits)] == IF b = 0 THEN 0 ELSE 2 * idx[b - 1] + bits[b]
    IN  idx[Len(bits)]

Encodes(entropy) ==
    Len(entropy) \in MinBits..MaxBits /\ Len(entropy) % BlockBits = 0

\* There is a bit of checksum for every block.
ASSUME Sha256Assumption ==
    \A n \in MinBits..MaxBits : \A entropy \in [1..n -> {0, 1}] :
        Encodes(entropy) =>
            Sha256(entropy) \in Seq({0, 1}) /\ Len(Sha256(entropy)) >= n \div BlockBits

\* FAULT: the checksum is taken one bit too late.
FaultLateChecksum(entropy) ==
    entropy \o SubSeq(Sha256(entropy) \o <<0>>, 2, Len(entropy) \div BlockBits + 1)

\* readBit: the bytes, and the beginning of their hash.
CheckedBits(entropy) ==
    entropy \o SubSeq(Sha256(entropy), 1, Len(entropy) \div BlockBits)

\* The bits of the w-th word.
Chunk(bits, w) == SubSeq(bits, (w - 1) * WordBits + 1, w * WordBits)

Encode(entropy) ==
    LET bits == CheckedBits(entropy)
    IN  [w \in 1..Len(bits) \div WordBits |-> List[1 + Number(Chunk(bits, w))]]

Valid(word) == Contains(List, word)

\* l.index[word]
Index(word) == (CHOOSE i \in 1..ListSize : List[i] = word) - 1

\* The bits the words of a phrase stand for.
PhraseBits(words) ==
    [p \in 1..Len(words) * WordBits |->
        Shr(Index(words[(p - 1) \div WordBits + 1]), WordBits - 1 - ((p - 1) % WordBits)) % 2]

EntropyBits(words) == (Len(words) * WordBits * BlockBits) \div (BlockBits + 1)
Decode(words) == SubSeq(PhraseBits(words), 1, EntropyBits(words))

IsPhraseSize(n) == n # 0 /\ (n * WordBits) % (BlockBits + 1) = 0

\* FAULT: the checksum is not compared.
FaultNoChecksum(words) ==
    IsPhraseSize(Len(words)) /\ \A i \in 1..Len(words) : Valid(words[i])

\* Decode returns no error: the size is possible, the words are known and the
\* bits left over are the first bits of the hash.
Decodes(words) ==
    /\ IsPhraseSize(Len(words))
    /\ \A i \in 1..Len(words) : Valid(words[i])
    /\ LET cs == Len(words) * WordBits - EntropyBits(words)
       IN  SubSeq(PhraseBits(words), EntropyBits(words) + 1, Len(words) * WordBits)
               = SubSeq(Sha256(Decode(words)), 1, cs)

\* The words that begin with a prefix, in order; none for the empty one.
Complete(prefix) ==
    LET out[i \in 0..ListSize] ==
            IF i = 0 THEN <<>>
            ELSE IF IsPrefix(prefix, List[i]) THEN Append(out[i - 1], List[i])
            ELSE out[i - 1]
    IN  IF prefix = <<>> THEN <<>> ELSE out[ListSize]

\* What a token may stand for: itself if it is a word, else its completions.
Expansions(token) == IF Valid(token) THEN <<token>> ELSE Complete(token)

Normalizes(tokens) == \A i \in 1..Len(tokens) : Len(Expansions(tokens[i])) = 1
Normalize(tokens) == [i \in 1..Len(tokens) |-> Expansions(tokens[i])[1]]

-----------------------------------------------------------------------------
\* The shortest prefix of a word that stands for it and for no other.
Shortest(word) ==
    SubSeq(word, 1, Min({n \in 1..Len(word) : Expansions(SubSeq(word, 1, n)) = <<word>>}))

\* What is read off one screen and typed, word by word, as briefly as is
\* allowed, at another is decoded to the same bytes.
PhraseKept(entropy) ==
    LET words  == Encode(entropy)
        tokens == [i \in 1..Len(words) |-> Shortest(words[i])]
    IN  /\ Encodes(entropy) /\ Normalizes(tokens) /\ Normalize(tokens) = words
        /\ Decodes(words) /\ Decode(words) = entropy
=============================================================================
