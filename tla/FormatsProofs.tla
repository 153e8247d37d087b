---------------------------- MODULE FormatsProofs ---------------------------
(***************************************************************************)
(* That the invariants of Formats hold of every input: of payloads and      *)
(* fields of any bytes and of any length that fits the length fields, of    *)
(* which only the assumptions of Container are used; of any directory and   *)
(* any request; of any release.  The phrases are WordsProofs' matter.       *)
(***************************************************************************)
EXTENDS Formats, WordsProofs, FiniteSetTheorems

-----------------------------------------------------------------------------
(* Container. *)

\* The middle of three sequences is where one looks for it.
LEMMA Middle ==
    ASSUME NEW S, NEW a \in Seq(S), NEW b \in Seq(S), NEW c \in Seq(S)
    PROVE  /\ a \o b \o c \in Seq(S)
           /\ Len(a \o b \o c) = Len(a) + Len(b) + Len(c)
           /\ SubSeq(a \o b \o c, Len(a) + 1, Len(a) + Len(b)) = b
<1> DEFINE s == a \o b \o c
           m == SubSeq(s, Len(a) + 1, Len(a) + Len(b))
<1>1. a \o b \in Seq(S) /\ Len(a \o b) = Len(a) + Len(b)
  BY ConcatProperties
<1>2. s \in Seq(S) /\ Len(s) = Len(a) + Len(b) + Len(c)
  BY <1>1, ConcatProperties
<1>3. Len(a) \in Nat /\ Len(b) \in Nat /\ Len(c) \in Nat
  BY LenProperties
<1>4. \A i \in 1..Len(b) : s[Len(a) + i] = b[i]
  <2> TAKE i \in 1..Len(b)
  <2>1. Len(a) + i \in 1..Len(a) + Len(b) /\ ~(Len(a) + i <= Len(a))
    BY <1>3
  <2>2. Len(a) + i \in 1..Len(a \o b) + Len(c) /\ Len(a) + i <= Len(a \o b)
    BY <1>1, <1>3, <2>1
  <2>3. s[Len(a) + i] = (a \o b)[Len(a) + i]
    BY <1>1, <2>2, ConcatProperties
  <2>4. (a \o b)[Len(a) + i] = b[Len(a) + i - Len(a)]
    BY <2>1, ConcatProperties
  <2> QED
    BY <1>3, <2>3, <2>4
<1>5. \A i \in Len(a) + 1..Len(a) + Len(b) : s[i] \in S
  BY <1>2, <1>3, ElementOfSeq
<1>6. /\ m \in Seq(S)
      /\ Len(m) = Len(b)
      /\ \A i \in 1..Len(b) : m[i] = s[Len(a) + i]
  <2>1. Len(a) + 1 \in Int /\ Len(a) + Len(b) \in Int
    BY <1>3
  <2>2. /\ m \in Seq(S)
        /\ Len(m) = IF Len(a) + 1 <= Len(a) + Len(b) THEN Len(a) + Len(b) - (Len(a) + 1) + 1 ELSE 0
        /\ \A i \in 1..Len(a) + Len(b) - (Len(a) + 1) + 1 : m[i] = s[Len(a) + 1 + i - 1]
    BY <1>5, <2>1, SubSeqProperties
  <2> QED
    BY <1>3, <2>2
<1>7. m = b
  BY <1>4, <1>6, SeqEqual
<1> QED
  BY <1>2, <1>7

\* The same of the first and of the last.
LEMMA Ends ==
    ASSUME NEW S, NEW a \in Seq(S), NEW b \in Seq(S)
    PROVE  /\ a \o b \in Seq(S) /\ Len(a \o b) = Len(a) + Len(b)
           /\ SubSeq(a \o b, 1, Len(a)) = a
           /\ SubSeq(a \o b, Len(a) + 1, Len(a \o b)) = b
<1>1. <<>> \in Seq(S) /\ Len(<<>>) = 0
  BY EmptySeq
<1>2. <<>> \o a = a /\ a \o b \in Seq(S) /\ a \o b \o <<>> = a \o b
  BY ConcatEmptySeq, ConcatProperties
<1>3. Len(a) \in Nat /\ Len(b) \in Nat /\ Len(a \o b) = Len(a) + Len(b)
  BY LenProperties, ConcatProperties
<1>4. SubSeq(<<>> \o a \o b, Len(<<>>) + 1, Len(<<>>) + Len(a)) = a
  BY <1>1, Middle
<1>5. SubSeq(a \o b \o <<>>, Len(a) + 1, Len(a) + Len(b)) = b
  BY <1>1, Middle
<1> QED
  BY <1>1, <1>2, <1>3, <1>4, <1>5

\* Four sequences, each where one looks for it.
AreParts(s, a, b, c, d) ==
    /\ Len(s) = Len(a) + Len(b) + Len(c) + Len(d)
    /\ SubSeq(s, 1, Len(a)) = a
    /\ SubSeq(s, Len(a) + 1, Len(a) + Len(b)) = b
    /\ SubSeq(s, Len(a) + Len(b) + 1, Len(a) + Len(b) + Len(c)) = c
    /\ SubSeq(s, Len(a) + Len(b) + Len(c) + 1, Len(s)) = d

\* Where the parentheses are makes no difference.
LEMMA Regrouped ==
    ASSUME NEW a \in Seq(Byte), NEW b \in Seq(Byte), NEW c \in Seq(Byte)
    PROVE  a \o b \o c = a \o (b \o c)
  BY ConcatAssociative, SMTT(30)

\* That is so in their concatenation.
LEMMA FourParts ==
    ASSUME NEW a \in Seq(Byte), NEW b \in Seq(Byte), NEW c \in Seq(Byte), NEW d \in Seq(Byte)
    PROVE  AreParts(a \o b \o c \o d, a, b, c, d)
<1> SUFFICES ASSUME NEW s, s = a \o b \o c \o d
             PROVE  AreParts(s, a, b, c, d)
  OBVIOUS
<1>1. a \o b \in Seq(Byte) /\ Len(a \o b) = Len(a) + Len(b)
  BY ConcatProperties
<1>2. c \o d \in Seq(Byte) /\ b \o (c \o d) \in Seq(Byte)
  BY ConcatProperties
<1>3. a \o b \o c \in Seq(Byte) /\ Len(a \o b \o c) = Len(a) + Len(b) + Len(c)
  BY <1>1, ConcatProperties
<1>4. s = a \o b \o (c \o d)
  <2>1. \A e \in Seq(Byte) : e \o c \o d = e \o (c \o d)
    BY Regrouped, Zenon
  <2> QED
    BY <1>1, <2>1, Zenon
<1>5. s = a \o (b \o (c \o d))
  <2>1. \A e \in Seq(Byte) : a \o b \o e = a \o (b \o e)
    BY Regrouped, Zenon
  <2> QED
    BY <1>2, <1>4, <2>1, Zenon
<1>6. Len(s) = Len(a) + Len(b) + Len(c) + Len(d)
  BY <1>3, ConcatProperties
<1>7. SubSeq(a \o (b \o (c \o d)), 1, Len(a)) = a
  BY <1>2, Ends
<1>8. SubSeq(a \o b \o (c \o d), Len(a) + 1, Len(a) + Len(b)) = b
  BY <1>2, Middle
<1>9. SubSeq(s, Len(a \o b) + 1, Len(a \o b) + Len(c)) = c
  BY <1>1, Middle
<1>10. SubSeq(s, Len(a \o b \o c) + 1, Len(s)) = d
  BY <1>3, Ends
<1> QED
  BY <1>1, <1>3, <1>4, <1>5, <1>6, <1>7, <1>8, <1>9, <1>10 DEF AreParts

\* WriteSealedBytes and Read: whatever bytes the stub has, the binary is read
\* as sealed, and with the payload that was put there.
THEOREM SealedBinaryIsReadBack ==
    ASSUME NEW stub \in Seq(Byte), NEW payload \in Seq(Byte),
           Len(payload) \in 1..MaxLen
    PROVE  ReadBack(stub, payload)
<1>1. PICK trailer \in Seq(Byte) :
        /\ trailer = PutUint64(Len(payload))
        /\ Len(trailer) = TrailerLen /\ Uint64(trailer) = Len(payload)
  BY Uint64Assumption, LenAssumption
<1>2. PICK file : file = stub \o payload \o trailer
  OBVIOUS
<1>3. Len(stub) \in Nat /\ Len(payload) \in Nat /\ TrailerLen \in Nat
  BY LenProperties, LenAssumption
<1>4. stub \o payload \in Seq(Byte) /\ Len(stub \o payload) = Len(stub) + Len(payload)
  BY ConcatProperties
<1>5. /\ Len(file) = Len(stub) + Len(payload) + TrailerLen
      /\ SubSeq(file, Len(stub) + 1, Len(stub) + Len(payload)) = payload
  BY <1>1, <1>2, Middle
<1>6. End(file) = Len(stub) + Len(payload)
  BY <1>3, <1>5 DEF End
<1>7. SubSeq(file, End(file) + 1, Len(file)) = trailer
  <2>1. SubSeq(file, Len(stub \o payload) + 1, Len(file)) = trailer
    BY <1>2, <1>4, Ends
  <2> QED
    BY <1>4, <1>6, <2>1
<1>8. PayloadLen(file) = Len(payload)
  BY <1>1, <1>7 DEF PayloadLen
<1>9. IsSealed(file)
  BY <1>3, <1>5, <1>6, <1>8 DEF IsSealed
<1>10. Read(file) = payload
  <2>1. End(file) - PayloadLen(file) + 1 = Len(stub) + 1
    BY <1>3, <1>6, <1>8
  <2> QED
    BY <1>5, <1>6, <2>1 DEF Read
<1> QED
  BY <1>1, <1>2, <1>9, <1>10 DEF ReadBack, WriteSealedBytes

\* Read: of any bytes at all, what is read from them was written there by
\* WriteSealedBytes, behind some stub.
THEOREM OnlyTheSealedIsRead ==
    ASSUME NEW file \in Seq(Byte)
    PROVE  ReadIsExact(file)
<1> SUFFICES ASSUME IsSealed(file)
             PROVE  \E k \in 0..Len(file) :
                        /\ k = End(file) - PayloadLen(file)
                        /\ file = WriteSealedBytes(SubSeq(file, 1, k), Read(file))
  BY DEF ReadIsExact
<1>1. PICK e : e = End(file)
  OBVIOUS
<1>2. PICK n : n = PayloadLen(file)
  OBVIOUS
<1>3. PICK trailer : trailer = SubSeq(file, e + 1, Len(file))
  OBVIOUS
<1>4. /\ Len(file) \in Nat /\ TrailerLen \in Nat
      /\ e = Len(file) - TrailerLen /\ e \in 0..Len(file) /\ n \in 1..e
  BY <1>1, <1>2, LenProperties, LenAssumption DEF IsSealed, End
<1>5. \A i \in 1..Len(file) : file[i] \in Byte
  BY ElementOfSeq
<1>6. Len(Read(file)) = n
  <2>1. \A i \in e - n + 1..e : file[i] \in Byte
    BY <1>4, <1>5
  <2>2. e - n + 1 \in Int /\ e \in Int
    BY <1>4
  <2>3. Len(SubSeq(file, e - n + 1, e)) =
            IF e - n + 1 <= e THEN e - (e - n + 1) + 1 ELSE 0
    BY <2>1, <2>2, SubSeqProperties
  <2> QED
    BY <1>1, <1>2, <1>4, <2>3 DEF Read
<1>7. trailer \in [1..TrailerLen -> Byte]
  <2>1. \A i \in e + 1..Len(file) : file[i] \in Byte
    BY <1>4, <1>5
  <2>2. e + 1 \in Int /\ Len(file) \in Int
    BY <1>4
  <2>3. /\ trailer \in Seq(Byte)
        /\ Len(trailer) = IF e + 1 <= Len(file) THEN Len(file) - (e + 1) + 1 ELSE 0
    BY <1>3, <2>1, <2>2, SubSeqProperties
  <2>4. Len(trailer) = TrailerLen
    BY <1>4, <2>3
  <2> QED
    BY <2>3, <2>4, LenProperties
<1>8. PutUint64(Len(Read(file))) = trailer
  BY <1>1, <1>2, <1>3, <1>6, <1>7, TrailerAssumption DEF PayloadLen
<1>9. SubSeq(file, 1, e - n) \o SubSeq(file, e - n + 1, e) = SubSeq(file, 1, e)
  <2>1. 1 \in 1..Len(file) + 1 /\ e - n \in 1 - 1..Len(file) /\ e \in e - n..Len(file)
    BY <1>4
  <2> QED
    BY <2>1, ConcatAdjacentSubSeq
<1>10. SubSeq(file, 1, e) \o trailer = file
  <2>1. 1 \in 1..Len(file) + 1 /\ e \in 1 - 1..Len(file) /\ Len(file) \in e..Len(file)
    BY <1>4
  <2>2. SubSeq(file, 1, e) \o SubSeq(file, e + 1, Len(file)) = SubSeq(file, 1, Len(file))
    BY <2>1, ConcatAdjacentSubSeq
  <2> QED
    BY <1>3, <2>2, SubSeqFull
<1>11. file = WriteSealedBytes(SubSeq(file, 1, e - n), Read(file))
  BY <1>1, <1>2, <1>8, <1>9, <1>10 DEF WriteSealedBytes, Read
<1> QED
  BY <1>1, <1>2, <1>4, <1>11

\* VaultPayload.Marshal and ParseVaultPayload: the three fields are told apart,
\* whatever they hold.
THEOREM VaultPayloadIsParsed ==
    ASSUME NEW p \in VaultPayloads, Len(p.meta) \in 0..MaxLen
    PROVE  VaultFieldsKept(p)
<1>1. PICK salt \in Seq(Byte), meta \in Seq(Byte), asset \in Seq(Byte) :
        /\ p = [salt |-> salt, meta |-> meta, asset |-> asset]
        /\ Len(salt) = SaltLen /\ Len(meta) \in 0..MaxLen
  BY DEF VaultPayloads
<1>2. PICK len \in Seq(Byte) :
        len = PutUint32(Len(meta)) /\ Len(len) = LenLen /\ Uint32(len) = Len(meta)
  BY <1>1, Uint32Assumption, LenAssumption
<1>3. PICK b : b = salt \o len \o meta \o asset
  OBVIOUS
<1>4. b = MarshalVault(p)
  BY <1>1, <1>2, <1>3 DEF MarshalVault
<1>5. Len(meta) \in Nat /\ Len(asset) \in Nat /\ SaltLen \in Nat /\ LenLen \in Nat
  BY LenProperties, LenAssumption
<1>6. AreParts(b, salt, len, meta, asset)
  BY <1>3, FourParts
<1>7. /\ Len(b) = SaltLen + LenLen + Len(meta) + Len(asset)
      /\ SubSeq(b, 1, SaltLen) = salt
      /\ SubSeq(b, SaltLen + 1, SaltLen + LenLen) = len
      /\ SubSeq(b, SaltLen + LenLen + 1, SaltLen + LenLen + Len(meta)) = meta
      /\ SubSeq(b, SaltLen + LenLen + Len(meta) + 1, Len(b)) = asset
  BY <1>1, <1>2, <1>6 DEF AreParts
<1>8. MetaLen(b) = Len(meta)
  BY <1>2, <1>7 DEF MetaLen
<1>9. ParsesVault(b)
  BY <1>5, <1>7, <1>8 DEF ParsesVault
<1>10. ParseVaultPayload(b) = p
  BY <1>1, <1>7, <1>8 DEF ParseVaultPayload
<1> QED
  BY <1>4, <1>9, <1>10 DEF VaultFieldsKept

\* WardenPayload.Marshal and ParseWardenPayload.
THEOREM WardenPayloadIsParsed ==
    ASSUME NEW p \in WardenPayloads
    PROVE  WardenFieldsKept(p)
<1>1. PICK hasPass \in BOOLEAN, salt \in Seq(Byte), ct \in Seq(Byte) :
        p = [hasPass |-> hasPass, salt |-> salt, ct |-> ct] /\ Len(salt) = SaltLen
  BY DEF WardenPayloads
<1>2. PICK flag \in Seq(Byte) :
        /\ flag = <<IF hasPass THEN 1 ELSE 0>>
        /\ Len(flag) = 1 /\ (flag[1] = 1 <=> hasPass)
  <2>1. CASE hasPass
    <3>1. <<1>> \in Seq(Byte) /\ Len(<<1>>) = 1 /\ <<1>>[1] = 1
      BY ByteAssumption
    <3> QED
      BY <2>1, <3>1
  <2>2. CASE ~hasPass
    <3>1. <<0>> \in Seq(Byte) /\ Len(<<0>>) = 1 /\ <<0>>[1] # 1
      BY ByteAssumption
    <3>2. <<IF hasPass THEN 1 ELSE 0>> = <<0>>
      BY <2>2
    <3> QED
      BY <2>2, <3>1, <3>2
  <2> QED
    BY <2>1, <2>2
<1>3. PICK b : b = flag \o salt \o ct
  OBVIOUS
<1>4. b = MarshalWarden(p)
  BY <1>1, <1>2, <1>3 DEF MarshalWarden
<1>5. SaltLen \in Nat /\ Len(ct) \in Nat
  BY LenProperties, LenAssumption
<1>6. Len(b) = 1 + SaltLen + Len(ct) /\ SubSeq(b, 1 + 1, 1 + SaltLen) = salt
  BY <1>1, <1>2, <1>3, Middle
<1>7. flag \o salt \in Seq(Byte) /\ Len(flag \o salt) = 1 + SaltLen
  BY <1>1, <1>2, ConcatProperties
<1>8. SubSeq(b, 2 + SaltLen, Len(b)) = ct
  <2>1. SubSeq((flag \o salt) \o ct, Len(flag \o salt) + 1, Len((flag \o salt) \o ct)) = ct
    BY <1>7, Ends
  <2>2. 1 + SaltLen + 1 = 2 + SaltLen
    BY <1>5
  <2> QED
    BY <1>3, <1>7, <2>1, <2>2
<1>9. b[1] = flag[1]
  <2>1. (flag \o salt)[1] = flag[1]
    BY <1>1, <1>2, <1>5, ConcatProperties
  <2>2. b[1] = (flag \o salt)[1]
    BY <1>3, <1>5, <1>7, ConcatProperties
  <2> QED
    BY <2>1, <2>2
<1>10. ParsesWarden(b)
  BY <1>5, <1>6 DEF ParsesWarden
<1>11. ParseWardenPayload(b) = p
  <2>1. (b[1] = 1) = hasPass
    BY <1>2, <1>9
  <2>2. SubSeq(b, 2, 1 + SaltLen) = salt
    BY <1>6
  <2> QED
    BY <1>1, <1>8, <2>1, <2>2 DEF ParseWardenPayload
<1> QED
  BY <1>4, <1>10, <1>11 DEF WardenFieldsKept

-----------------------------------------------------------------------------
(* Site. *)

\* What path.Clean has made of the first segments, from none of them to all.
AreSteps(at, rooted, s) ==
    /\ at[0] = <<>> /\ \A i \in 1..Len(s) : at[i] = Step(rooted, at[i - 1], s[i])
    /\ at[Len(s)] = Cleaned(rooted, s)

\* Cleaned is the last of them.
LEMMA Steps ==
    ASSUME NEW rooted, NEW s \in Seq(Segments)
    PROVE  \E at : AreSteps(at, rooted, s)
<1> DEFINE n == Len(s)
           Eq(f) == f = [i \in 0..Len(s) |-> IF i = 0 THEN <<>> ELSE Step(rooted, f[i - 1], s[i])]
           F == [p \in Seq(Segments) \X (1..n) |-> Step(rooted, p[1], s[p[2]])]
<1>1. n \in Nat /\ <<>> \in Seq(Segments) /\ \A i \in 1..n : s[i] \in Segments
  OBVIOUS
<1>2. F \in [Seq(Segments) \X (1..n) -> Seq(Segments)]
  <2> SUFFICES ASSUME NEW up \in Seq(Segments), NEW c \in Segments
               PROVE  Step(rooted, up, c) \in Seq(Segments)
    BY <1>1
  <2>1. Append(up, c) \in Seq(Segments)
    OBVIOUS
  <2>2. up # <<>> => Front(up) \in Seq(Segments)
    BY DEF Front
  <2> QED BY <2>1, <2>2 DEF Step
<1>3. PICK f \in [0..n -> Seq(Segments)] : Recurs(f, n, <<>>, F)
  <2> HIDE DEF F, n
  <2> QED BY <1>1, <1>2, Recursion, Zenon
<1>4. \A i \in 1..n : f[i] = Step(rooted, f[i - 1], s[i])
  <2> SUFFICES ASSUME NEW i \in 1..n PROVE F[<<f[i - 1], i>>] = Step(rooted, f[i - 1], s[i])
    BY <1>3 DEF Recurs
  <2>1. f[i - 1] \in Seq(Segments)
    BY <1>1
  <2> QED BY <2>1
<1>5. Eq(f)
  BY <1>1, <1>3, <1>4 DEF Recurs
<1>6. PICK at : at = CHOOSE g : Eq(g)
  OBVIOUS
<1>7. Eq(at)
  <2> HIDE DEF Eq
  <2> QED BY <1>5, <1>6
<1>8. at[n] = Cleaned(rooted, s)
  BY <1>6 DEF Cleaned
<1>9. at[0] = <<>> /\ \A i \in 1..n : at[i] = Step(rooted, at[i - 1], s[i])
  BY <1>1, <1>7
<1> QED BY <1>8, <1>9 DEF AreSteps

\* path.Clean leaves a path alone that has none of its special segments.
LEMMA PlainStays ==
    ASSUME NEW s \in Seq(Plain)
    PROVE  Clean(s) = s
<1> DEFINE n == Len(s)
           P(i) == SubSeq(s, 1, i)
<1>1. n \in Nat /\ s \in Seq(Segments) /\ \A i \in 1..n : s[i] \in Plain
  <2>1. n \in Nat /\ s \in [1..n -> Plain]
    OBVIOUS
  <2>2. Plain \subseteq Segments
    BY DEF Plain
  <2>3. s \in [1..n -> Segments]
    BY <2>1, <2>2
  <2> QED BY <2>1, <2>3
<1>2. \A up : \A c \in Plain : Step(TRUE, up, c) = Append(up, c)
  <2> SUFFICES ASSUME NEW up, NEW c \in Plain PROVE Step(TRUE, up, c) = Append(up, c)
    OBVIOUS
  <2>1. c \notin {"", "."} /\ c # ".."
    BY DEF Plain
  <2> QED BY <2>1 DEF Step
<1>3. P(0) = <<>> /\ P(n) = s
  OBVIOUS
<1>4. \A i \in 1..n : P(i) = Append(P(i - 1), s[i])
  OBVIOUS
<1> HIDE DEF P
<1>5. PICK at : AreSteps(at, TRUE, s)
  BY <1>1, Steps
<1> DEFINE T == {i \in 0..n : at[i] = P(i)}
<1>6. 0 \in T
  BY <1>1, <1>3, <1>5 DEF AreSteps
<1>7. ASSUME NEW i \in 1..n, i - 1 \in T PROVE i \in T
  <2>1. at[i] = Step(TRUE, at[i - 1], s[i]) /\ at[i - 1] = P(i - 1)
    BY <1>5, <1>7 DEF AreSteps
  <2>2. at[i] = P(i)
    BY <1>1, <1>2, <1>4, <2>1
  <2> QED BY <2>2
<1>8. \A i \in 0..n : i \in T
  <2> HIDE DEF T, n
  <2> QED BY <1>1, <1>6, <1>7, Upwards
<1>9. at[n] = P(n)
  BY <1>1, <1>8
<1> QED BY <1>3, <1>5, <1>9 DEF AreSteps, Clean

\* One segment, as a path.
LEMMA One ==
    ASSUME NEW S, NEW c \in S
    PROVE  <<c>> \in Seq(S) /\ Len(<<c>>) = 1 /\ <<c>>[1] = c
OBVIOUS

\* What is behind the slash of the root's address comes to nothing.
LEMMA RootIsNothing == Clean(<<"">>) = <<>>
<1>1. PICK c \in Segments : c = ""
  BY SegmentsAssumption
<1>2. PICK s \in Seq(Segments) : s = <<c>> /\ Len(s) = 1 /\ s[1] = c
  BY One
<1>3. PICK at : AreSteps(at, TRUE, s)
  BY Steps
<1>4. \A up : Step(TRUE, up, c) = up
  BY <1>1 DEF Step
<1>5. at[0] = <<>> /\ at[1] = Step(TRUE, at[0], c) /\ Clean(s) = at[1]
  <2>1. at[0] = <<>> /\ at[Len(s)] = Cleaned(TRUE, s)
    BY <1>3 DEF AreSteps
  <2>2. \A i \in 1..Len(s) : at[i] = Step(TRUE, at[i - 1], s[i])
    BY <1>3 DEF AreSteps
  <2>3. PICK i : i = 1 /\ i - 1 = 0 /\ i \in 1..Len(s)
    BY <1>2
  <2>4. at[i] = Step(TRUE, at[i - 1], s[i])
    BY <2>2, <2>3
  <2> QED BY <1>2, <2>1, <2>3, <2>4 DEF Clean
<1>6. Clean(s) = <<>>
  BY <1>4, <1>5
<1> QED BY <1>1, <1>2, <1>6

\* Extract of Create: a file for every regular file of a directory, with its
\* contents, and no other; of a link, no file at all.
LEMMA SealedFiles ==
    ASSUME NEW tree \in Trees, NEW files, files = Extract(Create(tree))
    PROVE  /\ \A f \in Create(tree) : Clean(f.name) = f.name /\ f.name # <<>>
           /\ \A n \in DOMAIN files : \E e \in Regular(tree) : e.name = n /\ e.data = files[n]
           /\ tree.root = "dir" =>
                 \A e \in Regular(tree) : e.name \in DOMAIN files /\ files[e.name] = e.data
<1> DEFINE tar == Create(tree)
<1>1. \A e \in tree.entries : e.name \in Seq(Plain) /\ e.name # <<>> /\ Clean(e.name) = e.name
  BY TreesAssumption, PlainStays
<1>2. \A f \in tar : \E e \in Regular(tree) : f = [name |-> e.name, data |-> e.data]
  BY DEF Create, Walked, Regular
<1>3. tree.root = "dir" =>
        \A e \in Regular(tree) : [name |-> e.name, data |-> e.data] \in tar
  BY DEF Create, Walked, Regular
<1>4. \A e \in Regular(tree) : e \in tree.entries
  BY DEF Regular
<1>5. \A e, f \in Regular(tree) : e.name = f.name => e = f
  BY <1>4, TreesAssumption
<1> HIDE DEF tar
<1>6. \A f \in tar : Clean(f.name) = f.name /\ f.name # <<>>
  BY <1>1, <1>2, <1>4
<1>7. /\ DOMAIN files = {Clean(f.name) : f \in tar}
      /\ \A n \in DOMAIN files : files[n] = (CHOOSE f \in tar : Clean(f.name) = n).data
  BY DEF Extract, tar
<1>8. ASSUME NEW n \in DOMAIN files
      PROVE  \E e \in Regular(tree) : e.name = n /\ e.data = files[n]
  <2>1. \E f \in tar : Clean(f.name) = n
    BY <1>7
  <2>2. PICK f \in tar : Clean(f.name) = n /\ files[n] = f.data
    BY <1>7, <2>1
  <2>3. PICK e \in Regular(tree) : f = [name |-> e.name, data |-> e.data]
    BY <1>2
  <2> QED BY <1>6, <2>2, <2>3
<1>9. ASSUME tree.root = "dir", NEW e \in Regular(tree)
      PROVE  e.name \in DOMAIN files /\ files[e.name] = e.data
  <2>1. [name |-> e.name, data |-> e.data] \in tar
    BY <1>3, <1>9
  <2>2. Clean(e.name) \in DOMAIN files /\ Clean(e.name) = e.name
    BY <1>1, <1>4, <1>7, <2>1
  <2>3. PICK g \in Regular(tree) : g.name = e.name /\ g.data = files[e.name]
    BY <1>8, <2>2
  <2> QED BY <1>5, <2>2, <2>3
<1> QED BY <1>6, <1>8, <1>9 DEF tar

\* One element and two sequences, in one sequence.
LEMMA FirstOfAll ==
    ASSUME NEW S, NEW x \in S, NEW a \in Seq(S), NEW b \in Seq(S)
    PROVE  <<x>> \o a \o b \in Seq(S) /\ Len(<<x>> \o a \o b) >= 1 /\ (<<x>> \o a \o b)[1] = x
<1>1. PICK o \in Seq(S) : o = <<x>> /\ Len(o) = 1 /\ o[1] = x
  BY One
<1>2. \A p, q \in Seq(S) : Len(p) >= 1 =>
        p \o q \in Seq(S) /\ Len(p \o q) >= 1 /\ (p \o q)[1] = p[1]
  OBVIOUS
<1>3. PICK p : p = o \o a
  OBVIOUS
<1>4. p \in Seq(S) /\ Len(p) >= 1 /\ p[1] = x
  <2>1. Len(o) >= 1
    BY <1>1
  <2> QED BY <1>1, <1>2, <1>3, <2>1
<1>5. p \o b \in Seq(S) /\ Len(p \o b) >= 1 /\ (p \o b)[1] = x
  BY <1>2, <1>4
<1> QED BY <1>1, <1>3, <1>5

\* The name of a file that the path may be answered with.
IsAnswer(m, files, opt, path) ==
    /\ Answer(files, opt, path) = files[m]
    /\ \/ m = Upath(opt, path)
       \/ Last(path) = "" /\ m = Join(Upath(opt, path), opt.entry)
       \/ opt.fallback /\ ~LooksLikeFile(Upath(opt, path)) /\ m = opt.entry

\* The first name of Candidates that is a file's is answered with; the path
\* itself goes before all others.
LEMMA AnswerIsCandidate ==
    ASSUME NEW files, NEW opt, NEW path
    PROVE  /\ Admitted(opt, path) /\ Upath(opt, path) \in DOMAIN files =>
                Answer(files, opt, path) = files[Upath(opt, path)]
           /\ Answer(files, opt, path) # NotFound =>
                Admitted(opt, path) /\ \E m \in DOMAIN files : IsAnswer(m, files, opt, path)
<1> DEFINE n == Upath(opt, path)
           c == Candidates(opt, path)
           b == IF Last(path) = "" THEN <<Join(n, opt.entry)>> ELSE <<>>
           d == IF opt.fallback /\ ~LooksLikeFile(n) THEN <<opt.entry>> ELSE <<>>
           S == {m \in {n, Join(n, opt.entry), opt.entry} :
                    \/ m = n
                    \/ Last(path) = "" /\ m = Join(n, opt.entry)
                    \/ opt.fallback /\ ~LooksLikeFile(n) /\ m = opt.entry}
           I == {i \in 1..Len(c) : c[i] \in DOMAIN files}
<1>1. n \in S /\ b \in Seq(S) /\ d \in Seq(S)
  <2>1. n \in S /\ <<>> \in Seq(S)
    OBVIOUS
  <2>2. Last(path) = "" => Join(n, opt.entry) \in S
    OBVIOUS
  <2>3. opt.fallback /\ ~LooksLikeFile(n) => opt.entry \in S
    OBVIOUS
  <2>4. \A m \in S : <<m>> \in Seq(S)
    <3> HIDE DEF S, n
    <3> QED BY One
  <2> HIDE DEF S, n
  <2> QED BY <2>1, <2>2, <2>3, <2>4
<1>2. Admitted(opt, path) => c = <<n>> \o b \o d
  BY DEF Candidates
<1>3. ~Admitted(opt, path) => c = <<>>
  BY DEF Candidates
<1>4. Admitted(opt, path) => c \in Seq(S) /\ Len(c) >= 1 /\ c[1] = n
  <2> SUFFICES ASSUME Admitted(opt, path) PROVE c \in Seq(S) /\ Len(c) >= 1 /\ c[1] = n
    OBVIOUS
  <2> HIDE DEF b, d, S, c, n
  <2>1. /\ <<n>> \o b \o d \in Seq(S) /\ Len(<<n>> \o b \o d) >= 1
        /\ (<<n>> \o b \o d)[1] = n
    BY <1>1, FirstOfAll
  <2> QED BY <1>2, <2>1
<1>5. Answer(files, opt, path) =
        LET hit == IF I # {} THEN Min(I) ELSE 0
        IN  IF hit = 0 THEN NotFound ELSE files[c[hit]]
  BY DEF Answer, SelectInSeq
<1>6. I = {} => Answer(files, opt, path) = NotFound
  <2> HIDE DEF I, c, n
  <2> QED BY <1>5
<1>7. I # {} =>
        \E i \in I : Answer(files, opt, path) = files[c[i]] /\ \A j \in I : i <= j
  <2>1. I \subseteq Nat
    OBVIOUS
  <2>2. I # {} => Min(I) \in I /\ \A j \in I : Min(I) <= j
    <3> HIDE DEF I
    <3> QED BY <2>1, Least DEF Min
  <2>3. 0 \notin I
    OBVIOUS
  <2> HIDE DEF I, c, n
  <2> QED BY <1>5, <2>2, <2>3
<1>8. ASSUME Admitted(opt, path), n \in DOMAIN files
      PROVE  Answer(files, opt, path) = files[n]
  <2>1. 1 \in I
    <3>1. 1 \in 1..Len(c) /\ c[1] \in DOMAIN files
      <4> HIDE DEF c, S, n
      <4> QED BY <1>4, <1>8
    <3> QED BY <3>1
  <2>2. PICK i \in I : Answer(files, opt, path) = files[c[i]] /\ \A j \in I : i <= j
    BY <1>7, <2>1
  <2>3. i = 1
    <3>1. i \in Nat /\ i >= 1 /\ i <= 1
      BY <2>1, <2>2
    <3> QED BY <3>1
  <2> QED BY <1>4, <1>8, <2>2, <2>3
<1>9. ASSUME Answer(files, opt, path) # NotFound
      PROVE  Admitted(opt, path) /\ \E m \in S : m \in DOMAIN files /\ Answer(files, opt, path) = files[m]
  <2>1. PICK i \in I : Answer(files, opt, path) = files[c[i]]
    BY <1>6, <1>7, <1>9
  <2>2. i \in 1..Len(c) /\ c[i] \in DOMAIN files
    BY <2>1
  <2>3. Admitted(opt, path)
    <3>1. Len(<<>>) = 0
      OBVIOUS
    <3> HIDE DEF c, n
    <3> QED BY <1>3, <2>2, <3>1
  <2>4. c[i] \in S
    <3> HIDE DEF c, S, n
    <3> QED BY <1>4, <2>2, <2>3
  <2> QED BY <2>1, <2>2, <2>3, <2>4
<1> QED
  <2>1. Answer(files, opt, path) # NotFound =>
          /\ Admitted(opt, path)
          /\ \E m \in S : m \in DOMAIN files /\ Answer(files, opt, path) = files[m]
    BY <1>9
  <2>2. \A m \in S : Answer(files, opt, path) = files[m] => IsAnswer(m, files, opt, path)
    BY DEF IsAnswer
  <2> HIDE DEF S
  <2> QED BY <1>8, <2>1, <2>2

\* archive.Create and Extract: what is in a directory is sealed.
LEMMA DirectorySealed ==
    ASSUME NEW tree \in Trees, tree.root = "dir"
    PROVE  DirectoryIsSealed(tree)
<1>1. PICK files : files = Extract(Create(tree))
  OBVIOUS
<1>2. Extracts(Create(tree))
  BY <1>1, SealedFiles DEF Extracts
<1>3. DOMAIN files = {e.name : e \in Regular(tree)}
  <2>1. \A n \in DOMAIN files : \E e \in Regular(tree) : e.name = n
    BY <1>1, SealedFiles
  <2>2. \A e \in Regular(tree) : e.name \in DOMAIN files
    BY <1>1, SealedFiles
  <2> QED BY <2>1, <2>2
<1>4. \A e \in Regular(tree) : files[e.name] = e.data
  BY <1>1, SealedFiles
<1> QED BY <1>1, <1>2, <1>3, <1>4 DEF DirectoryIsSealed

\* A path under the key, or under none, leads to where it would without it.
LEMMA UnderTheKey ==
    ASSUME NEW opt, NEW S, NEW s \in Seq(S)
    PROVE  Admitted(opt, Base(opt) \o s) /\ At(opt, Base(opt) \o s) = Clean(s)
<1>1. CASE opt.pathKey
  <2>1. PICK k \in Seq(S \cup {Key}) : k = <<Key>> /\ Len(k) = 1 /\ k[1] = Key
    BY One
  <2>2. s \in Seq(S \cup {Key})
    OBVIOUS
  <2>3. Head(k \o s) = Key /\ Tail(k \o s) = s
    BY <2>1, <2>2
  <2>4. Base(opt) \o s = k \o s
    BY <1>1, <2>1 DEF Base
  <2> QED BY <1>1, <2>3, <2>4 DEF Admitted, At
<1>2. CASE ~opt.pathKey
  <2>1. Base(opt) \o s = s
    BY <1>2 DEF Base
  <2> QED BY <1>2, <2>1 DEF Admitted, At
<1> QED BY <1>1, <1>2

\* The handler: every file that was sealed has its address.
LEMMA FilesHaveTheirAddress ==
    ASSUME NEW tree \in Trees, tree.root = "dir", NEW opt
    PROVE  EveryFileHasItsAddress(tree, opt)
<1>1. PICK files : files = Extract(Create(tree))
  OBVIOUS
<1>2. ASSUME NEW e \in Regular(tree)
      PROVE  Answer(files, opt, Base(opt) \o e.name) = e.data
  <2>1. e.name \in Seq(Plain) /\ e.name # <<>>
    BY TreesAssumption DEF Regular
  <2>2. PICK path : path = Base(opt) \o e.name
    OBVIOUS
  <2>3. Admitted(opt, path) /\ At(opt, path) = e.name
    BY <2>1, <2>2, UnderTheKey, PlainStays
  <2>4. Upath(opt, path) = e.name
    BY <2>1, <2>3 DEF Upath
  <2>5. e.name \in DOMAIN files /\ files[e.name] = e.data
    BY <1>1, SealedFiles
  <2>6. Answer(files, opt, path) = files[Upath(opt, path)]
    BY <2>3, <2>4, <2>5, AnswerIsCandidate, Zenon
  <2> QED BY <2>2, <2>4, <2>5, <2>6
<1>3. ASSUME opt.entry \in DOMAIN files
      PROVE  Answer(files, opt, Url(opt)) = files[opt.entry]
  <2>1. PICK path : path = Url(opt)
    OBVIOUS
  <2>2. <<"">> \in Seq({""})
    OBVIOUS
  <2>3. Admitted(opt, path) /\ At(opt, path) = <<>>
    BY <2>1, <2>2, UnderTheKey, RootIsNothing DEF Url
  <2>4. Upath(opt, path) = opt.entry
    BY <2>3 DEF Upath
  <2>5. Answer(files, opt, path) = files[Upath(opt, path)]
    BY <1>3, <2>3, <2>4, AnswerIsCandidate, Zenon
  <2> QED BY <2>1, <2>4, <2>5
<1> QED BY <1>1, <1>2, <1>3 DEF EveryFileHasItsAddress

\* The handler: what is sent was asked for.
LEMMA AskedFor ==
    ASSUME NEW tree \in Trees, NEW opt, NEW path
    PROVE  NothingUnasked(tree, opt, path)
<1>1. PICK files : files = Extract(Create(tree))
  OBVIOUS
<1>2. PICK at : at = At(opt, path)
  OBVIOUS
<1>3. PICK n : n = Upath(opt, path) /\ n = IF at = <<>> THEN opt.entry ELSE at
  BY <1>2 DEF Upath
<1> SUFFICES ASSUME Answer(files, opt, path) # NotFound
             PROVE  /\ opt.pathKey => path[1] = Key
                    /\ \E e \in Regular(tree) :
                        /\ Answer(files, opt, path) = e.data
                        /\ \/ e.name = at
                           \/ at = <<>> /\ e.name \in {opt.entry, Join(opt.entry, opt.entry)}
                           \/ at # <<>> /\ Last(path) = "" /\ e.name = Join(at, opt.entry)
                           \/ opt.fallback /\ e.name = opt.entry /\ (at = <<>> \/ Last(at) \notin Dotted)
  BY <1>1, <1>2 DEF NothingUnasked
<1>4. opt.pathKey => path[1] = Key
  <2>1. Admitted(opt, path)
    BY <1>3, AnswerIsCandidate
  <2> QED BY <2>1 DEF Admitted
<1>5. PICK m \in DOMAIN files :
        /\ Answer(files, opt, path) = files[m]
        /\ \/ m = n
           \/ Last(path) = "" /\ m = Join(n, opt.entry)
           \/ opt.fallback /\ ~LooksLikeFile(n) /\ m = opt.entry
  <2>1. PICK m \in DOMAIN files : IsAnswer(m, files, opt, path)
    BY AnswerIsCandidate, Zenon
  <2> QED BY <1>3, <2>1 DEF IsAnswer
<1>6. PICK e \in Regular(tree) : e.name = m /\ e.data = files[m]
  BY <1>1, SealedFiles
<1>7. CASE at = <<>>
  BY <1>3, <1>4, <1>5, <1>6, <1>7
<1>8. CASE at # <<>>
  BY <1>3, <1>4, <1>5, <1>6, <1>8 DEF LooksLikeFile
<1> QED BY <1>7, <1>8

-----------------------------------------------------------------------------
(* Manifest. *)

\* strings.Cut: what is before and behind the first separator.
LEMMA CutAt ==
    ASSUME NEW S, NEW s \in Seq(S), NEW sep, NEW k \in 1..Len(s), s[k] = sep,
           \A j \in 1..k - 1 : s[j] # sep
    PROVE  Cut(s, sep) = <<SubSeq(s, 1, k - 1), SubSeq(s, k + 1, Len(s))>>
<1> DEFINE I == {i \in 1..Len(s) : s[i] = sep}
<1>1. k \in I /\ \A i \in I : k <= i
  OBVIOUS
<1>2. Min(I) = k
  <2>1. \A i \in I : i \in Nat
    OBVIOUS
  <2> HIDE DEF I
  <2>2. Min(I) \in I /\ \A i \in I : Min(I) <= i
    BY <1>1 DEF Min
  <2>3. PICK m \in I : m = Min(I) /\ m \in Nat /\ k \in Nat
    BY <1>1, <2>1, <2>2
  <2>4. m <= k /\ k <= m
    BY <1>1, <2>2, <2>3
  <2> QED BY <2>3, <2>4
<1>3. Cut(s, sep) =
        LET i == IF I # {} THEN Min(I) ELSE 0
        IN  IF i = 0 THEN <<>> ELSE <<SubSeq(s, 1, i - 1), SubSeq(s, i + 1, Len(s))>>
  BY DEF Cut, SelectInSeq
<1>4. k # 0 /\ I # {}
  BY <1>1
<1> HIDE DEF I
<1> QED BY <1>2, <1>3, <1>4

\* The two parts of a text that is cut at its second atom.
CutOf(c, s) ==
    /\ c # <<>> /\ c[1][1] = s[1] /\ Len(c[2]) = Len(s) - 2
    /\ \A i \in 1..Len(s) - 2 : c[2][i] = s[i + 2]

\* Cut there.
LEMMA CutAtSecond ==
    ASSUME NEW S, NEW s \in Seq(S), Len(s) > 1, NEW sep, s[1] # sep, s[2] = sep
    PROVE  CutOf(Cut(s, sep), s) /\ Cut(s, sep)[2] \in Seq(S)
<1>1. PICK a, b : a = SubSeq(s, 1, 1) /\ b = SubSeq(s, 3, Len(s))
  OBVIOUS
<1>2. Cut(s, sep) = <<a, b>>
  <2>1. PICK k \in 1..Len(s) : k = 2
    OBVIOUS
  <2>2. s[k] = sep /\ \A j \in 1..k - 1 : s[j] # sep
    BY <2>1
  <2>3. Cut(s, sep) = <<SubSeq(s, 1, k - 1), SubSeq(s, k + 1, Len(s))>>
    BY <2>1, <2>2, CutAt
  <2> QED BY <1>1, <2>1, <2>3
<1>3. a[1] = s[1]
  BY <1>1
<1>4. b \in Seq(S) /\ Len(b) = Len(s) - 2 /\ \A i \in 1..Len(s) - 2 : b[i] = s[i + 2]
  <2>1. PICK m : m = 3
    OBVIOUS
  <2>2. /\ Len(s) \in Int /\ m \in Int /\ \A i \in m..Len(s) : s[i] \in S
        /\ b = SubSeq(s, m, Len(s))
    BY <1>1, <2>1
  <2>3. /\ b \in Seq(S)
        /\ Len(b) = IF m <= Len(s) THEN Len(s) - m + 1 ELSE 0
        /\ \A i \in 1..Len(s) - m + 1 : b[i] = s[m + i - 1]
    BY <2>2, SubSeqProperties
  <2>4. Len(s) \in Nat /\ Len(s) > 1
    OBVIOUS
  <2>5. Len(b) = Len(s) - 2
    <3>1. \A len \in Nat : len > 1 => (IF 3 <= len THEN len - 3 + 1 ELSE 0) = len - 2
      OBVIOUS
    <3> QED BY <2>1, <2>3, <2>4, <3>1
  <2>6. \A i \in 1..Len(s) - 2 : i \in 1..Len(s) - m + 1 /\ m + i - 1 = i + 2
    BY <2>1, <2>4
  <2>7. \A i \in 1..Len(s) - 2 : b[i] = s[i + 2]
    BY <2>3, <2>6
  <2> QED BY <2>3, <2>5, <2>7
<1>5. PICK c : c = Cut(s, sep) /\ c = <<a, b>> /\ c # <<>> /\ c[1] = a /\ c[2] = b
  BY <1>2
<1> QED BY <1>3, <1>4, <1>5 DEF CutOf

\* The atoms of the names in the manifest.
LEMMA NameOfTarget ==
    ASSUME NEW t \in Target
    PROVE  /\ Formed(assetPath(t)) /\ TargetOf(assetPath(t)) = t /\ assetPath(t) # <<>>
<1>1. PICK r \in Roles, p \in OsArch : t = [role |-> r, os |-> p[1], arch |-> p[2]]
  BY DEF Target
<1>2. PICK stubs, slash, blank, stub :
        stubs = "stubs" /\ slash = "/" /\ blank = "_" /\ stub = ".stub"
  OBVIOUS
<1>3. r # slash /\ p[1] # blank
  BY <1>2, OsArchAssumption DEF Roles
<1>4. PICK os, arch : os = p[1] /\ arch = p[2]
  OBVIOUS
<1>5. PICK n : n = <<stubs, slash, r, slash, os, blank, arch, stub>>
  OBVIOUS
<1>6. n = assetPath(t)
  BY <1>1, <1>2, <1>4, <1>5 DEF assetPath
<1> DEFINE S == {stubs, slash, r, os, blank, arch, stub}
<1>7. n \in Seq(S) /\ Len(n) = 8
  BY <1>5
<1>8. /\ n[1] = stubs /\ n[2] = slash /\ n[3] = r /\ n[4] = slash
      /\ n[5] = os /\ n[6] = blank /\ n[7] = arch /\ n[8] = stub
  BY <1>5
<1> HIDE DEF S
<1>9. PICK rest \in Seq(S) :
        /\ rest = Rest(n) /\ Len(rest) = 5 /\ rest[1] = r /\ rest[2] = slash
        /\ rest[3] = os /\ rest[4] = blank /\ rest[5] = arch
  <2>1. Rest(n) = SubSeq(n, 3, 7)
    <3>1. Last(n) = ".stub"
      BY <1>2, <1>7, <1>8 DEF Last
    <3>2. Rest(n) = SubSeq(n, 3, 8 - 1)
      BY <1>7, <3>1 DEF Rest
    <3> QED BY <3>2
  <2>2. \A i \in 1..8 : n[i] \in S
    <3>1. \A i \in 1..Len(n) : n[i] \in S
      BY <1>7, ElementOfSeq
    <3> QED BY <1>7, <3>1
  <2>3. PICK a, b : a = 3 /\ b = 7
    OBVIOUS
  <2>4. a \in Int /\ b \in Int /\ \A i \in a..b : n[i] \in S
    BY <2>2, <2>3
  <2>5. PICK rest : rest = SubSeq(n, a, b)
    OBVIOUS
  <2>6. /\ rest \in Seq(S)
        /\ Len(rest) = IF a <= b THEN b - a + 1 ELSE 0
        /\ \A i \in 1..b - a + 1 : rest[i] = n[a + i - 1]
    BY <2>4, <2>5, SubSeqProperties
  <2>7. Len(rest) = 5 /\ \A i \in 1..5 : rest[i] = n[i + 2]
    BY <2>3, <2>6
  <2>8. rest[1] = n[3] /\ rest[2] = n[4] /\ rest[3] = n[5] /\ rest[4] = n[6] /\ rest[5] = n[7]
    BY <2>7
  <2> QED BY <1>8, <2>1, <2>3, <2>5, <2>6, <2>7, <2>8
<1>10. PICK role : role = Cut(rest, slash)
  OBVIOUS
<1>11. CutOf(role, rest) /\ role[2] \in Seq(S)
  BY <1>3, <1>9, <1>10, CutAtSecond
<1>12. PICK pair \in Seq(S) : pair = role[2]
  BY <1>11
<1>13. /\ Len(pair) = 3 /\ pair[1] = os /\ pair[2] = blank /\ pair[3] = arch
       /\ role[1][1] = r /\ role # <<>>
  <2>1. Len(rest) - 2 = 3
    BY <1>9
  <2>2. Len(pair) = 3 /\ \A i \in 1..3 : pair[i] = rest[i + 2]
    BY <1>11, <1>12, <2>1 DEF CutOf
  <2>3. pair[1] = rest[3] /\ pair[2] = rest[4] /\ pair[3] = rest[5]
    BY <2>2
  <2>4. role[1][1] = r /\ role # <<>>
    BY <1>9, <1>11 DEF CutOf
  <2> QED BY <1>9, <2>2, <2>3, <2>4
<1>14. PICK two : two = Cut(pair, blank)
  OBVIOUS
<1>15. two[1][1] = os /\ two[2][1] = arch /\ two # <<>>
  <2>1. CutOf(two, pair)
    <3>1. Len(pair) > 1 /\ pair[1] # blank /\ pair[2] = blank
      BY <1>3, <1>4, <1>13
    <3> QED BY <1>14, <3>1, CutAtSecond
  <2>2. 1 \in 1..Len(pair) - 2 /\ two[2][1] = pair[1 + 2]
    BY <1>13, <2>1 DEF CutOf
  <2> QED BY <1>13, <2>1, <2>2 DEF CutOf
<1>16. RoleCut(n) = role /\ PairCut(n) = two
  BY <1>2, <1>9, <1>10, <1>12, <1>14 DEF RoleCut, PairCut
<1>17. IsPrefix(<<stubs, slash>>, n)
  BY <1>7, <1>8 DEF IsPrefix
<1>18. TargetOf(n) = t
  BY <1>1, <1>4, <1>13, <1>15, <1>16 DEF TargetOf
<1>19. n # <<>>
  <2> SUFFICES ASSUME n = <<>> PROVE FALSE
    OBVIOUS
  <2>1. Len(n) = 0
    OBVIOUS
  <2> QED BY <1>7, <2>1
<1>20. Formed(n)
  BY <1>2, <1>13, <1>15, <1>16, <1>17 DEF Formed
<1> QED BY <1>6, <1>18, <1>19, <1>20

\* Different targets have different names in the manifest.
LEMMA NamesDiffer ==
    ASSUME NEW t \in Target, NEW u \in Target, assetPath(t) = assetPath(u)
    PROVE  t = u
BY NameOfTarget

\* SetToSeq puts every element of a finite set in one place.
LEMMA InOrder ==
    ASSUME NEW S, IsFiniteSet(S), NEW q, q = SetToSeq(S)
    PROVE  /\ q \in Seq(S)
           /\ \A i, j \in 1..Len(q) : q[i] = q[j] => i = j
           /\ \A x \in S : \E i \in 1..Len(q) : q[i] = x
<1> DEFINE n == Cardinality(S)
<1>1. n \in Nat /\ ExistsBijection(1..n, S)
  BY FS_CardinalityType
<1> HIDE DEF n
<1>2. \E f \in [1..n -> S] : IsInjective(f)
  BY <1>1 DEF ExistsBijection, Bijection, Injection
<1>3. q \in [1..n -> S] /\ IsInjective(q)
  BY <1>2 DEF SetToSeq, n
<1>4. q \in Injection(1..n, S)
  BY <1>3 DEF Injection
<1>5. IsFiniteSet(1..n) /\ Cardinality(1..n) = n
  <2>1. 1 \in Int /\ n \in Int
    BY <1>1
  <2>2. IsFiniteSet(1..n) /\ Cardinality(1..n) = IF 1 > n THEN 0 ELSE n - 1 + 1
    BY <2>1, FS_Interval
  <2> QED BY <1>1, <2>2
<1>6. q \in Surjection(1..n, S)
  BY <1>4, <1>5, FS_Injection DEF n
<1>7. q \in Seq(S) /\ Len(q) = n
  BY <1>1, <1>3
<1> QED BY <1>3, <1>6, <1>7 DEF IsInjective, Surjection

\* A sequence behind one element.
LEMMA Behind ==
    ASSUME NEW S, NEW a \in Seq(S), NEW b \in Seq(S), Len(a) = 1
    PROVE  /\ Len(a \o b) = 1 + Len(b) /\ (a \o b)[1] = a[1]
           /\ \A i \in 1..Len(b) : (a \o b)[i + 1] = b[i]
<1>1. Len(b) \in Nat
  OBVIOUS
<1>2. Len(a \o b) = 1 + Len(b) /\ (a \o b)[1] = a[1]
  <2>1. 1 \in 1..Len(a) + Len(b) /\ 1 <= Len(a)
    BY <1>1
  <2> QED BY <2>1, ConcatProperties
<1>3. ASSUME NEW i \in 1..Len(b) PROVE (a \o b)[i + 1] = b[i]
  <2>1. i + 1 \in 1..Len(a) + Len(b) /\ ~(i + 1 <= Len(a)) /\ i + 1 - Len(a) = i
    BY <1>1
  <2>2. (a \o b)[i + 1] = b[i + 1 - Len(a)]
    BY <2>1, ConcatProperties
  <2> QED BY <2>1, <2>2
<1> QED BY <1>2, <1>3

\* Numbers of lines, with one more in front of them.
LEMMA OneMoreLine ==
    ASSUME NEW n \in Nat, NEW m, m = 1 + n
    PROVE  /\ \A i \in 1..n : i + 1 \in 1..m /\ i + 1 # 1
           /\ \A i \in 1..m : i # 1 => i - 1 \in 1..n /\ (i - 1) + 1 = i
  OBVIOUS

\* The manifest has of every stub of the release its hash, and nothing else.
Lists(manifest, released) ==
    /\ DOMAIN manifest = {assetPath(t) : t \in released}
    /\ \A t \in released : manifest[assetPath(t)] = Hash(Stub(t))

\* ParseManifest reads what sha256sum has written.
LEMMA ManifestOfSums ==
    ASSUME NEW released, released \subseteq Target, IsFiniteSet(released), NEW mark
    PROVE  Lists(ParseManifest(<<Blank>> \o Sums(released, mark)), released)
<1> SUFFICES ASSUME NEW manifest, manifest = ParseManifest(<<Blank>> \o Sums(released, mark))
             PROVE  Lists(manifest, released)
  OBVIOUS
<1> DEFINE L == {Line(t, mark) : t \in released}
           q == Sums(released, mark)
           lines == <<Blank>> \o q
           Listed == {i \in 1..Len(lines) : lines[i].hash # "" /\ lines[i].name # <<>>}
<1>1. IsFiniteSet(L)
  <2> DEFINE f == [t \in released |-> Line(t, mark)]
  <2>1. f \in Surjection(released, L)
    BY DEF Surjection
  <2> HIDE DEF f, L
  <2> QED BY <2>1, FS_Surjection
<1>2. q = SetToSeq(L)
  BY DEF Sums
<1> HIDE DEF L, q
<1>3. /\ q \in Seq(L) /\ Len(q) \in Nat
      /\ \A i, j \in 1..Len(q) : q[i] = q[j] => i = j
      /\ \A x \in L : \E i \in 1..Len(q) : q[i] = x
  BY <1>1, <1>2, InOrder
<1>4. /\ Len(lines) = 1 + Len(q) /\ Len(lines) \in Nat /\ lines[1] = Blank
      /\ \A i \in 1..Len(q) : lines[i + 1] = q[i]
  <2>1. PICK o \in Seq({Blank}) : o = <<Blank>> /\ Len(o) = 1 /\ o[1] = Blank
    BY One
  <2>2. o \in Seq(L \cup {Blank}) /\ q \in Seq(L \cup {Blank})
    BY <1>3, <2>1
  <2>3. /\ Len(o \o q) = 1 + Len(q) /\ (o \o q)[1] = o[1]
        /\ \A i \in 1..Len(q) : (o \o q)[i + 1] = q[i]
    BY <2>1, <2>2, Behind
  <2>4. lines = o \o q
    BY <2>1
  <2> HIDE DEF lines
  <2> QED BY <1>3, <2>1, <2>3, <2>4
<1> HIDE DEF lines
<1>5. \A i \in 1..Len(q) : \E t \in released : q[i] = Line(t, mark)
  BY <1>3 DEF L
<1>6. \A i \in 1..Len(lines) : i = 1 \/ (i - 1 \in 1..Len(q) /\ lines[i] = q[i - 1])
  <2> SUFFICES ASSUME NEW i \in 1..Len(lines), i # 1
               PROVE  i - 1 \in 1..Len(q) /\ lines[i] = q[i - 1]
    OBVIOUS
  <2>1. i - 1 \in 1..Len(q) /\ (i - 1) + 1 = i
    BY <1>3, <1>4, OneMoreLine
  <2>2. lines[(i - 1) + 1] = q[i - 1]
    BY <1>4, <2>1
  <2> QED BY <2>1, <2>2
<1>7. \A t \in released :
        Line(t, mark).name = assetPath(t) /\ Line(t, mark).hash = Hash(Stub(t))
  BY DEF Line
<1>8. \A t \in released : Hash(Stub(t)) # "" /\ assetPath(t) # <<>>
  BY HashAssumption, NameOfTarget
<1>9. \A i \in 1..Len(lines) : i \in Listed <=> i # 1
  <2>1. lines[1].hash = ""
    <3>1. lines[1] = Blank
      BY <1>4
    <3>2. Blank.hash = ""
      BY DEF Blank
    <3> QED BY <3>1, <3>2
  <2>2. ASSUME NEW i \in 1..Len(lines), i # 1
        PROVE  lines[i].hash # "" /\ lines[i].name # <<>>
    <3>1. PICK t \in released : lines[i] = Line(t, mark)
      BY <1>5, <1>6, <2>2
    <3> QED BY <1>7, <1>8, <3>1
  <2> QED BY <2>1, <2>2
<1>10. \A i \in Listed : i \in 1..Len(lines) /\ i # 1 /\ i \in Int
  <2>1. \A i \in Listed : i \in 1..Len(lines)
    OBVIOUS
  <2> HIDE DEF Listed
  <2>2. \A i \in 1..Len(lines) : i \in Int
    BY <1>4
  <2> QED BY <1>9, <2>1, <2>2
<1> HIDE DEF Listed
<1>11. \A i, j \in Listed : lines[i].name = lines[j].name => i = j
  <2> SUFFICES ASSUME NEW i \in Listed, NEW j \in Listed, lines[i].name = lines[j].name
               PROVE  i = j
    OBVIOUS
  <2>1. /\ i - 1 \in 1..Len(q) /\ j - 1 \in 1..Len(q)
        /\ lines[i] = q[i - 1] /\ lines[j] = q[j - 1]
    BY <1>6, <1>10
  <2>2. PICK t \in released, u \in released : q[i - 1] = Line(t, mark) /\ q[j - 1] = Line(u, mark)
    BY <1>5, <2>1
  <2>3. assetPath(t) = assetPath(u)
    BY <1>7, <2>1, <2>2
  <2>4. t = u
    BY <2>3, NamesDiffer
  <2>5. i - 1 = j - 1
    BY <1>3, <2>1, <2>2, <2>4
  <2>6. i \in Int /\ j \in Int
    BY <1>10
  <2> QED BY <2>5, <2>6
<1>12. \A t \in released : \E i \in Listed : lines[i] = Line(t, mark)
  <2> SUFFICES ASSUME NEW t \in released PROVE \E i \in Listed : lines[i] = Line(t, mark)
    OBVIOUS
  <2>1. PICK i \in 1..Len(q) : q[i] = Line(t, mark)
    BY <1>3 DEF L
  <2>2. i + 1 \in 1..Len(lines) /\ i + 1 # 1
    BY <1>3, <1>4, OneMoreLine
  <2>3. lines[i + 1] = Line(t, mark)
    BY <1>4, <2>1
  <2> QED BY <1>9, <2>2, <2>3
<1>13. /\ DOMAIN manifest = {lines[i].name : i \in Listed}
       /\ \A n \in DOMAIN manifest : manifest[n] = lines[Max({i \in Listed : lines[i].name = n})].hash
  BY DEF ParseManifest, lines, q, Listed
<1>14. \A i \in Listed : \E t \in released : lines[i] = Line(t, mark)
  BY <1>5, <1>6, <1>10
<1>15. DOMAIN manifest = {assetPath(t) : t \in released}
  <2>1. ASSUME NEW n \in DOMAIN manifest PROVE \E t \in released : n = assetPath(t)
    <3>1. PICK i \in Listed : n = lines[i].name
      BY <1>13
    <3> QED BY <1>7, <1>14, <3>1
  <2>2. ASSUME NEW t \in released PROVE assetPath(t) \in DOMAIN manifest
    <3>1. PICK i \in Listed : lines[i] = Line(t, mark)
      BY <1>12
    <3>2. lines[i].name = assetPath(t)
      BY <1>7, <3>1
    <3> QED BY <1>13, <3>2
  <2> QED BY <2>1, <2>2
<1>16. ASSUME NEW t \in released PROVE manifest[assetPath(t)] = Hash(Stub(t))
  <2>1. PICK i \in Listed : lines[i] = Line(t, mark)
    BY <1>12
  <2>2. {j \in Listed : lines[j].name = assetPath(t)} = {i}
    BY <1>7, <1>11, <2>1
  <2>3. Max({i}) = i
    BY <1>10 DEF Max
  <2>4. manifest[assetPath(t)] = lines[Max({j \in Listed : lines[j].name = assetPath(t)})].hash
    BY <1>13, <1>15
  <2> QED BY <1>7, <2>1, <2>2, <2>3, <2>4
<1> QED BY <1>15, <1>16 DEF Lists

\* fetch-stubs --all asks for all stubs of the release, completion offers their
\* pairs, and each is downloaded by the name it was published under.
LEMMA ReleaseFetched ==
    ASSUME NEW released, released \subseteq Target, IsFiniteSet(released), NEW mark
    PROVE  ReleaseIsFetched(released, mark)
<1>1. PICK manifest : manifest = ParseManifest(<<Blank>> \o Sums(released, mark))
  OBVIOUS
<1>2. /\ DOMAIN manifest = {assetPath(t) : t \in released}
      /\ \A t \in released : manifest[assetPath(t)] = Hash(Stub(t))
  BY <1>1, ManifestOfSums DEF Lists
<1>3. Entries(manifest) = released
  <2>1. ASSUME NEW t \in released PROVE t \in Entries(manifest)
    <3>1. assetPath(t) \in DOMAIN manifest
      BY <1>2
    <3>2. Formed(assetPath(t)) /\ TargetOf(assetPath(t)) = t
      BY NameOfTarget
    <3> QED BY <3>1, <3>2 DEF Entries
  <2>2. ASSUME NEW t \in Entries(manifest) PROVE t \in released
    <3>1. PICK n \in DOMAIN manifest : t = TargetOf(n)
      BY DEF Entries
    <3>2. PICK u \in released : n = assetPath(u)
      BY <1>2, <3>1
    <3>3. TargetOf(assetPath(u)) = u
      BY NameOfTarget
    <3> QED BY <3>1, <3>2, <3>3
  <2> QED BY <2>1, <2>2
<1>4. FetchTargets(manifest, TRUE, {}) = released
  BY <1>3 DEF FetchTargets
<1>5. released \subseteq FetchTargets(manifest, FALSE, Offered(manifest))
  <2> SUFFICES ASSUME NEW t \in released
               PROVE  t \in FetchTargets(manifest, FALSE, Offered(manifest))
    OBVIOUS
  <2>1. PICK r \in Roles, p \in OsArch : t = [role |-> r, os |-> p[1], arch |-> p[2]]
    BY DEF Target
  <2>2. PICK os, arch : os = p[1] /\ arch = p[2]
    OBVIOUS
  <2>3. PICK pair : pair = <<os, arch>>
    OBVIOUS
  <2>4. pair[1] = os /\ pair[2] = arch
    BY <2>3
  <2>5. pair \in Offered(manifest)
    <3>1. t.os = os /\ t.arch = arch /\ t \in Entries(manifest)
      BY <1>3, <2>1, <2>2
    <3> QED BY <2>3, <3>1 DEF Offered
  <2> QED BY <2>1, <2>2, <2>4, <2>5 DEF FetchTargets
<1>6. ASSUME NEW t \in released
      PROVE  /\ DownloadAssetName(t) \in DOMAIN Published(released)
             /\ Published(released)[DownloadAssetName(t)] = Stub(t)
  <2>1. PICK r \in Roles, p \in OsArch : t = [role |-> r, os |-> p[1], arch |-> p[2]]
    BY DEF Target
  <2>2. PICK n : n = DownloadAssetName(t)
    OBVIOUS
  <2>3. n[1] = t.role /\ n[3] = t.os /\ n[5] = t.arch
    BY <2>2 DEF DownloadAssetName
  <2>4. n \in DOMAIN Published(released)
    BY <2>2 DEF DownloadAssetName, Published
  <2>5. Published(released)[n] = Stub([role |-> n[1], os |-> n[3], arch |-> n[5]])
    BY <2>4 DEF Published
  <2>6. [role |-> n[1], os |-> n[3], arch |-> n[5]] = t
    BY <2>1, <2>3
  <2> QED BY <2>2, <2>4, <2>5, <2>6
<1> QED BY <1>1, <1>2, <1>4, <1>5, <1>6 DEF ReleaseIsFetched


-----------------------------------------------------------------------------
(* Formats: an input is one of those that the constants allow. *)

\* What a step may take.
IsInput ==
    \/ input = None
    \/ input.kind = "phrase" /\ input.entropy \in Entropies
    \/ input.kind = "sealing" /\ input.stub \in Stubs /\ input.payload \in Payloads
    \/ input.kind = "file" /\ input.bytes \in Binaries
    \/ input.kind = "vault" /\ input.payload \in Vaults
    \/ input.kind = "warden" /\ input.payload \in Wardens
    \/ input.kind = "request" /\ input.tree \in Trees
    \/ input.kind = "release" /\ input.released \in Releases

\* The inputs are what they are said to be, in every step.
LEMMA Inputs == Spec => []IsInput
<1>1. Init => IsInput
  BY DEF Init, IsInput
<1>2. IsInput /\ [Next]_input => IsInput'
  <2> SUFFICES ASSUME IsInput, [Next]_input PROVE IsInput'
    OBVIOUS
  <2>1. CASE Phrase
    BY <2>1 DEF Phrase, IsInput
  <2>2. CASE Sealing
    BY <2>2 DEF Sealing, IsInput
  <2>3. CASE File
    BY <2>3 DEF File, IsInput
  <2>4. CASE Fields
    BY <2>4 DEF Fields, IsInput
  <2>5. CASE Request
    BY <2>5 DEF Request, IsInput
  <2>6. CASE Release
    BY <2>6 DEF Release, IsInput
  <2>7. CASE UNCHANGED input
    BY <2>7 DEF IsInput
  <2> QED BY <2>1, <2>2, <2>3, <2>4, <2>5, <2>6, <2>7 DEF Next
<1> QED BY <1>1, <1>2, PTL DEF Spec

\* Every phrase of the program is decoded to the bytes it was made of, as it is
\* shown and as it is abbreviated.
THEOREM PhrasesKept == Spec => []SpokenPhraseIsDecoded
<1>1. IsInput => SpokenPhraseIsDecoded
  <2> SUFFICES ASSUME IsInput PROVE SpokenPhraseIsDecoded
    OBVIOUS
  <2> QED BY SpokenPhrase, EntropiesAssumption DEF IsInput, None, SpokenPhraseIsDecoded
<1> QED BY <1>1, Inputs, PTL

\* Every sealed binary is read back as its payload.
THEOREM PayloadsReadBack == Spec => []SealedIsReadBack
<1>1. IsInput => SealedIsReadBack
  <2> SUFFICES ASSUME IsInput PROVE SealedIsReadBack
    OBVIOUS
  <2> QED BY SealedBinaryIsReadBack, BinariesAssumption DEF IsInput, None, SealedIsReadBack
<1> QED BY <1>1, Inputs, PTL

\* Nothing is read as a payload that was not written as one.
THEOREM OnlySealed == Spec => []OnlySealedIsRead
<1>1. IsInput => OnlySealedIsRead
  <2> SUFFICES ASSUME IsInput PROVE OnlySealedIsRead
    OBVIOUS
  <2> QED BY OnlyTheSealedIsRead, BinariesAssumption DEF IsInput, None, OnlySealedIsRead
<1> QED BY <1>1, Inputs, PTL

\* The payloads are parsed into the fields they were made of.
THEOREM FieldsKept == Spec => []FieldsAreKept
<1>1. IsInput => FieldsAreKept
  <2> SUFFICES ASSUME IsInput PROVE FieldsAreKept
    OBVIOUS
  <2> QED BY VaultPayloadIsParsed, WardenPayloadIsParsed, FieldsAssumption DEF IsInput, None, FieldsAreKept
<1> QED BY <1>1, Inputs, PTL

\* The regular files of a directory are sealed, and nothing else.
THEOREM DirectoriesSealed == Spec => []DirectoriesAreSealed
<1>1. IsInput => DirectoriesAreSealed
  <2> SUFFICES ASSUME IsInput PROVE DirectoriesAreSealed
    OBVIOUS
  <2> QED BY DirectorySealed DEF IsInput, None, DirectoriesAreSealed
<1> QED BY <1>1, Inputs, PTL

\* Every file that was sealed has its address on the server.
THEOREM FilesAddressed == Spec => []FilesHaveAddresses
<1>1. IsInput => FilesHaveAddresses
  <2> SUFFICES ASSUME IsInput PROVE FilesHaveAddresses
    OBVIOUS
  <2> QED BY FilesHaveTheirAddress DEF IsInput, None, FilesHaveAddresses
<1> QED BY <1>1, Inputs, PTL

\* The server sends nothing that was not asked for.
THEOREM AnswersAskedFor == Spec => []AnswersWereAskedFor
<1>1. IsInput => AnswersWereAskedFor
  <2> SUFFICES ASSUME IsInput PROVE AnswersWereAskedFor
    OBVIOUS
  <2> QED BY AskedFor DEF IsInput, None, AnswersWereAskedFor
<1> QED BY <1>1, Inputs, PTL

\* Any release can be fetched by its manifest.
THEOREM ReleasesFetched == Spec => []ReleasesAreFetched
<1>1. IsInput => ReleasesAreFetched
  <2> SUFFICES ASSUME IsInput PROVE ReleasesAreFetched
    OBVIOUS
  <2> QED BY ReleaseFetched, ReleasesAssumption DEF IsInput, None, ReleasesAreFetched
<1> QED BY <1>1, Inputs, PTL
=============================================================================
