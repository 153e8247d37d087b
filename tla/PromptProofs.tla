---------------------------- MODULE PromptProofs ----------------------------
(***************************************************************************)
(* Proofs about Prompt, and the editor in it, for every list of words and  *)
(* every hash, whatever is typed or written, in whatever pieces.           *)
(***************************************************************************)
EXTENDS Prompt, WordsProofs

-----------------------------------------------------------------------------
(* The inductive invariant. *)

\* There is a terminal or a pipe.
OneInput == (keys => written = <<>>) /\ (~keys => inbuf = <<>>)

\* Whoever writes does not wait for a prompt while another line is unread.
WrittenEarly == \A i \in next + 1..Len(written) : i \in early

\* A line that was waited for is read only when there are words to come.
ReadForWords == next <= ahead /\ next \notin early => Collecting

\* The password reader reads no further than the line it returns.
NothingAhead == pc = "password" => next = ahead + 1

IInv ==
    /\ TypeOK /\ OneInput
    /\ WrittenEarly /\ ReadForWords /\ NothingAhead /\ LinesReachTheirPrompt
    /\ EditorInStep
    /\ PhraseIsCanonical

-----------------------------------------------------------------------------
(* The bytes of the terminal. *)

\* The first byte and the others.
LEMMA FirstByte ==
    ASSUME NEW s \in Seq(Byte), s # <<>>
    PROVE  Head(s) \in Byte /\ Tail(s) \in Seq(Byte)
BY HeadTailProperties

\* What is left behind the first byte that ends an escape sequence.
LEMMA BehindEscape ==
    ASSUME NEW rest \in Seq(Byte)
    PROVE  \/ AfterEscape(rest) = <<>> /\ \A i \in 1..Len(rest) : rest[i] \notin Upper \cup {"~"}
           \/ \E e \in 1..Len(rest) :
                  /\ rest[e] \in Upper \cup {"~"}
                  /\ \A i \in 1..Len(rest) : rest[i] \in Upper \cup {"~"} => e <= i
                  /\ AfterEscape(rest) = SubSeq(rest, e + 1, Len(rest))
<1> DEFINE Ends == {i \in 1..Len(rest) : rest[i] \in Upper \cup {"~"}}
           end == IF Ends # {} THEN Min(Ends) ELSE 0
<1>1. AfterEscape(rest) = IF end = 0 THEN <<>> ELSE SubSeq(rest, end + 1, Len(rest))
  BY DEF AfterEscape, SelectInSeq
<1>2. CASE Ends = {}
  <2>1. end = 0
    BY <1>2
  <2> QED BY <1>1, <1>2, <2>1
<1>3. CASE Ends # {}
  <2>1. Ends \subseteq Nat
    OBVIOUS
  <2>2. end = Min(Ends)
    BY <1>3
  <2>3. end \in Ends /\ \A i \in Ends : end <= i
    <3>1. \E m \in Ends : \A i \in Ends : m <= i
      <4> HIDE DEF Ends
      <4> QED BY <1>3, <2>1, Least
    <3> HIDE DEF Ends, end
    <3> QED BY <2>2, <3>1 DEF Min
  <2>4. end # 0
    BY <2>3
  <2> HIDE DEF end
  <2> QED BY <1>1, <2>3, <2>4
<1> QED BY <1>2, <1>3

\* The buffer stays a sequence of bytes.
LEMMA EscapeType ==
    ASSUME NEW rest \in Seq(Byte)
    PROVE  AfterEscape(rest) \in Seq(Byte)
<1>1. CASE AfterEscape(rest) = <<>>
  BY <1>1
<1>2. ASSUME NEW e \in 1..Len(rest), AfterEscape(rest) = SubSeq(rest, e + 1, Len(rest))
      PROVE  AfterEscape(rest) \in Seq(Byte)
  <2> HIDE DEF Byte
  <2> QED BY <1>2
<1> QED BY <1>1, <1>2, BehindEscape

\* The matches are words of the list.
LEMMA MatchesType ==
    ASSUME NEW letters
    PROVE  /\ Complete(letters) \in Seq(Word) /\ Len(Complete(letters)) \in Nat
           /\ \A i \in 1..Len(Complete(letters)) :
                  Complete(letters)[i] \in Word /\ Valid(Complete(letters)[i])
<1>1. Complete(letters) \in Seq(Beginning(letters))
  BY Completions
<1>2. \A word \in Beginning(letters) : word \in Word /\ Valid(word)
  BY DEF Beginning
<1> HIDE DEF Beginning, Word
<1> QED BY <1>1, <1>2

-----------------------------------------------------------------------------
(* The editor. *)

\* The word of a slot, as far as it is typed.
SlotOK ==
    /\ typed \in Seq(Letters) /\ Len(typed) <= MaxTyped
    /\ matches \in Seq(Word) /\ cycle \in -1..Len(matches) - 1
    /\ EditorInStep

\* The words accepted so far.
WordsOK ==
    /\ words \in Seq(Word) /\ Len(words) <= WantWords
    /\ \A i \in 1..Len(words) : Valid(words[i])

\* The invariants of the editor, by these parts.
LEMMA EditorParts == EditorTypeOK /\ EditorInStep <=> WordsOK /\ SlotOK /\ inbuf \in Seq(Byte)
BY DEF EditorTypeOK, WordsOK, SlotOK

\* A slot is in order when it is new, and after its letters have changed.
LEMMA SlotStep ==
    /\ FreshSlot => SlotOK'
    /\ \A letters \in Seq(Letters) : Len(letters) <= MaxTyped /\ Retype(letters) => SlotOK'
    /\ SlotOK /\ UNCHANGED slotVars => SlotOK'
<1>1. ASSUME FreshSlot PROVE SlotOK'
  <2>1. Complete(<<>>) = <<>>
    BY DEF Complete
  <2>2. /\ typed' = <<>> /\ matches' = <<>> /\ cycle' = -1 /\ shown' = <<>>
        /\ typed' \in Seq(Letters) /\ matches' \in Seq(Word) /\ Len(typed') = 0 /\ Len(matches') = 0
    BY <1>1 DEF FreshSlot
  <2>3. Len(typed') <= MaxTyped /\ cycle' \in -1..Len(matches') - 1 /\ ~(cycle' >= 0)
    BY <2>2, EditorAssumption
  <2> QED BY <2>1, <2>2, <2>3 DEF SlotOK, EditorInStep
<1>2. ASSUME NEW letters \in Seq(Letters), Len(letters) <= MaxTyped, Retype(letters)
      PROVE  SlotOK'
  <2>1. /\ typed' = letters /\ matches' = Complete(letters) /\ cycle' = -1 /\ shown' = letters
    BY <1>2 DEF Retype
  <2>2. matches' \in Seq(Word) /\ Len(matches') \in Nat
    BY <2>1, MatchesType
  <2>3. cycle' \in -1..Len(matches') - 1 /\ ~(cycle' >= 0)
    BY <2>1, <2>2
  <2> QED BY <1>2, <2>1, <2>2, <2>3 DEF SlotOK, EditorInStep
<1>3. SlotOK /\ UNCHANGED slotVars => SlotOK'
  BY DEF SlotOK, EditorInStep, slotVars
<1> QED BY <1>1, <1>2, <1>3

\* What Enter accepts is a word of the list: what the screen shows, or the only
\* completion of that.
LEMMA ResolvedWord ==
    ASSUME SlotOK, NEW word \in Resolved
    PROVE  word \in Word /\ Valid(word) /\ (word = shown \/ Complete(shown) = <<word>>)
<1>1. /\ matches = Complete(typed)
      /\ Len(matches) \in Nat /\ \A i \in 1..Len(matches) : matches[i] \in Word /\ Valid(matches[i])
  BY MatchesType DEF SlotOK, EditorInStep
<1>2. CASE cycle >= 0
  <2>1. cycle + 1 \in 1..Len(matches)
    BY <1>1, <1>2 DEF SlotOK
  <2>2. word = matches[cycle + 1] /\ word = shown
    BY <1>2 DEF Resolved, SlotOK, EditorInStep
  <2> QED BY <1>1, <2>1, <2>2
<1>3. CASE ~(cycle >= 0) /\ Valid(typed)
  <2>1. word = typed /\ shown = typed
    BY <1>3 DEF Resolved, SlotOK, EditorInStep
  <2> QED BY <1>3, <2>1, Lookup
<1>4. CASE ~(cycle >= 0) /\ ~Valid(typed)
  <2>1. Len(matches) = 1 /\ word = matches[1] /\ shown = typed
    BY <1>4 DEF Resolved, SlotOK, EditorInStep
  <2>2. matches = <<word>>
    BY <2>1 DEF SlotOK
  <2> QED BY <1>1, <2>1, <2>2
<1> QED BY <1>2, <1>3, <1>4

\* Every key keeps the editor in order.
LEMMA EditorStepKeeps ==
    ASSUME EditorTypeOK, EditorInStep, EditorStep
    PROVE  EditorTypeOK' /\ EditorInStep'
<1>1. WordsOK /\ SlotOK /\ inbuf \in Seq(Byte)
  BY EditorParts
<1>2. UNCHANGED words => WordsOK'
  BY <1>1 DEF WordsOK
<1>3. ASSUME NEW bytes, Key(bytes)
      PROVE  inbuf' \in Seq(Byte) /\ Head(inbuf) \in Byte \cap bytes
  BY <1>1, <1>3, FirstByte DEF Key
<1> SUFFICES WordsOK' /\ SlotOK' /\ inbuf' \in Seq(Byte)
  BY DEF EditorTypeOK, WordsOK, SlotOK
<1>4. CASE ReadChunk
  <2>1. inbuf' \in Seq(Byte)
    BY <1>4, KeysAssumption DEF ReadChunk
  <2> QED BY <1>1, <1>2, <1>4, <2>1, SlotStep DEF ReadChunk
<1>5. CASE Accept
  <2>1. inbuf' \in Seq(Byte) /\ Len(words) < WantWords
    BY <1>3, <1>5 DEF Accept, Key, Collecting
  <2>2. CASE Resolved = {}
    BY <1>1, <1>2, <1>5, <2>1, <2>2, SlotStep DEF Accept
  <2>3. CASE Resolved # {}
    <3>1. PICK word \in Resolved : words' = Append(words, word)
      BY <1>5, <2>3 DEF Accept
    <3>2. word \in Word /\ Valid(word)
      BY <1>1, ResolvedWord
    <3>3. /\ words \in Seq(Word) /\ Len(words) \in Nat
          /\ \A i \in 1..Len(words) : Valid(words[i])
      BY <1>1 DEF WordsOK
    <3>4. words' \in Seq(Word) /\ Len(words') = Len(words) + 1
      BY <3>1, <3>2, <3>3
    <3>5. \A i \in 1..Len(words') : Valid(words'[i])
      BY <3>1, <3>2, <3>3, <3>4
    <3>6. Len(words') <= WantWords
      BY <2>1, <3>3, <3>4, EditorAssumption
    <3>7. SlotOK'
      BY <1>5, <2>3, SlotStep DEF Accept
    <3> QED BY <2>1, <3>4, <3>5, <3>6, <3>7 DEF WordsOK
  <2> QED BY <2>2, <2>3
<1>6. CASE Tab
  <2>1. inbuf' \in Seq(Byte) /\ WordsOK'
    BY <1>2, <1>3, <1>6 DEF Tab
  <2>2. CASE matches = <<>>
    BY <1>1, <1>6, <2>1, <2>2, SlotStep DEF Tab
  <2>3. CASE matches # <<>>
    <3>1. /\ cycle' = (cycle + 1) % Len(matches) /\ shown' = matches[cycle' + 1]
          /\ typed' = typed /\ matches' = matches
      BY <1>6, <2>3 DEF Tab
    <3>2. Len(matches) \in Nat \ {0} /\ cycle + 1 \in Nat
      BY <1>1, <2>3 DEF SlotOK
    <3>3. cycle' \in 0..Len(matches) - 1
      BY <3>1, <3>2, Division
    <3>4. cycle' \in -1..Len(matches) - 1 /\ cycle' >= 0
      BY <3>2, <3>3
    <3>5. SlotOK'
      BY <1>1, <3>1, <3>4 DEF SlotOK, EditorInStep
    <3> QED BY <2>1, <3>5
  <2> QED BY <2>2, <2>3
<1>7. CASE Backspace
  <2>1. inbuf' \in Seq(Byte) /\ WordsOK'
    BY <1>2, <1>3, <1>7 DEF Backspace
  <2>2. CASE cycle' = -1 /\ shown' = typed /\ UNCHANGED <<typed, matches>>
    <3>1. cycle' \in -1..Len(matches) - 1 /\ ~(cycle' >= 0)
      BY <1>1, <2>2 DEF SlotOK
    <3>2. SlotOK'
      BY <1>1, <2>2, <3>1 DEF SlotOK, EditorInStep
    <3> QED BY <2>1, <3>2
  <2>3. CASE typed # <<>> /\ Retype(Front(typed))
    <3>1. Front(typed) \in Seq(Letters) /\ Len(Front(typed)) <= MaxTyped
      BY <1>1, <2>3, EditorAssumption DEF SlotOK, Front
    <3> QED BY <2>1, <2>3, <3>1, SlotStep
  <2>4. CASE UNCHANGED slotVars
    BY <1>1, <2>1, <2>4, SlotStep
  <2> QED BY <1>7, <2>2, <2>3, <2>4 DEF Backspace
<1>8. CASE Letter
  <2> DEFINE c == Head(inbuf)
             letter == IF c \in Upper THEN Lower[c] ELSE c
  <2>1. inbuf' \in Seq(Byte) /\ WordsOK' /\ c \in Letters \cup Upper
    BY <1>2, <1>3, <1>8 DEF Letter
  <2>2. letter \in Letters
    BY <2>1, KeysAssumption
  <2>3. Len(typed) < MaxTyped /\ Retype(Append(typed, letter))
    BY <1>8 DEF Letter
  <2> HIDE DEF letter
  <2>4. typed \in Seq(Letters) /\ Len(typed) \in Nat
    BY <1>1 DEF SlotOK
  <2>5. Append(typed, letter) \in Seq(Letters) /\ Len(Append(typed, letter)) = Len(typed) + 1
    BY <2>2, <2>4
  <2>6. Len(Append(typed, letter)) <= MaxTyped
    BY <2>3, <2>4, <2>5, EditorAssumption
  <2> QED BY <2>1, <2>3, <2>5, <2>6, SlotStep
<1>9. CASE Escape
  <2>1. inbuf' \in Seq(Byte)
    BY <1>1, <1>9, FirstByte, EscapeType DEF Escape
  <2> QED BY <1>1, <1>2, <1>9, <2>1, SlotStep DEF Escape
<1>10. CASE Beep
  BY <1>1, <1>2, <1>3, <1>10, SlotStep DEF Beep
<1> QED BY <1>4, <1>5, <1>6, <1>7, <1>8, <1>9, <1>10 DEF EditorStep

-----------------------------------------------------------------------------
(* The steps, by what they do to each part of the state. *)

\* Every step of the program.
LEMMA Steps ==
    ASSUME [Next]_vars
    PROVE  \/ \E line \in Lines : Write(line)
           \/ Close \/ TypePassword \/ ReadLine \/ ReadLineAtEnd
           \/ Fill \/ TakeLine \/ EndOfInput
           \/ EditorKey \/ Abort \/ DecodePhrase
           \/ UNCHANGED vars
BY DEF Next, PipeStep

\* A sequence is one over any set that has its elements.
LEMMA ElementsOf ==
    ASSUME NEW S, NEW T, NEW s \in Seq(S), \A i \in 1..Len(s) : s[i] \in T
    PROVE  s \in Seq(T)
OBVIOUS

\* A line fits when its words are known and there is room for them.
LEMMA TakenWords ==
    ASSUME WordsOK, NEW line \in Lines, Fits(line)
    PROVE  /\ words \o Normalize(line) \in Seq(Word)
           /\ Len(words \o Normalize(line)) <= WantWords
           /\ \A i \in 1..Len(words \o Normalize(line)) : Valid((words \o Normalize(line))[i])
<1> DEFINE norm == Normalize(line)
           n == Len(line)
           Known == {word \in Word : Valid(word)}
<1>1. n \in Nat /\ Normalizes(line) /\ n <= WantWords - Len(words)
  BY PromptAssumption DEF Fits
<1>2. ASSUME NEW i \in 1..n PROVE Expansions(line[i])[1] \in Known
  <2>1. Len(Expansions(line[i])) = 1
    BY <1>1 DEF Normalizes
  <2>2. CASE Valid(line[i])
    <3>1. Expansions(line[i])[1] = line[i]
      BY <2>2 DEF Expansions
    <3> QED BY <2>2, <3>1, Lookup
  <2>3. CASE ~Valid(line[i])
    <3>1. Expansions(line[i]) = Complete(line[i])
      BY <2>3 DEF Expansions
    <3> QED BY <2>1, <3>1, MatchesType
  <2> QED BY <2>2, <2>3
<1>3. norm \in Seq(Known) /\ Len(norm) = n
  <2> HIDE DEF Known, n
  <2>1. norm = [i \in 1..n |-> Expansions(line[i])[1]]
    BY DEF Normalize, n
  <2> QED BY <1>1, <1>2, <2>1
<1>4. words \in Seq(Known) /\ Len(words) \in Nat
  <2>1. words \in Seq(Word) /\ Len(words) \in Nat /\ \A i \in 1..Len(words) : words[i] \in Known
    BY DEF WordsOK
  <2> HIDE DEF Known, n
  <2> QED BY <2>1
<1> HIDE DEF norm, n, Known
<1>5. words \o norm \in Seq(Known) /\ Len(words \o norm) = Len(words) + n
  BY <1>3, <1>4
<1>6. Len(words \o norm) <= WantWords
  BY <1>1, <1>4, <1>5, EditorAssumption
<1>7. \A i \in 1..Len(words \o norm) : (words \o norm)[i] \in Known
  BY <1>5
<1>8. words \o norm \in Seq(Word)
  <2>1. \A i \in 1..Len(words \o norm) : (words \o norm)[i] \in Word
    BY <1>7 DEF Known
  <2> QED BY <1>5, <2>1, ElementsOf
<1> QED BY <1>6, <1>7, <1>8 DEF Known, norm

\* The editor is in order whatever the program does.
LEMMA EditorKept ==
    ASSUME IInv, [Next]_vars
    PROVE  EditorTypeOK' /\ EditorInStep'
<1>1. EditorTypeOK /\ EditorInStep /\ WordsOK /\ SlotOK /\ inbuf \in Seq(Byte)
  BY EditorParts DEF IInv, TypeOK
<1>2. UNCHANGED words => WordsOK'
  BY <1>1 DEF WordsOK
<1>3. words' = <<>> => WordsOK'
  <2>1. <<>> \in Seq(Word) /\ Len(<<>>) = 0 /\ 0 <= WantWords /\ 1..0 = {}
    BY EditorAssumption
  <2> QED BY <2>1 DEF WordsOK
<1>4. ASSUME WordsOK', SlotOK', inbuf' \in Seq(Byte)
      PROVE  EditorTypeOK' /\ EditorInStep'
  BY <1>4 DEF EditorTypeOK, WordsOK, SlotOK
<1>5. ASSUME UNCHANGED editorVars PROVE EditorTypeOK' /\ EditorInStep'
  <2>1. UNCHANGED <<words, slotVars, inbuf>>
    BY <1>5 DEF editorVars
  <2> QED BY <1>1, <1>2, <1>4, <2>1, SlotStep
<1>6. ASSUME NEW line \in Lines, Write(line) PROVE EditorTypeOK' /\ EditorInStep'
  BY <1>5, <1>6 DEF Write
<1>7. CASE Close \/ Fill \/ EndOfInput
  BY <1>5, <1>7 DEF Close, Fill, EndOfInput
<1>8. CASE TypePassword \/ ReadLine \/ ReadLineAtEnd
  BY <1>5, <1>8 DEF TypePassword, ReadLine, ReadLineAtEnd, Password
<1>9. CASE TakeLine
  <2>1. UNCHANGED <<slotVars, inbuf>> /\ next \in 1..Len(written) /\ written \in Seq(Lines)
    BY <1>9 DEF TakeLine, IInv, TypeOK
  <2>2. written[next] \in Lines
    BY <2>1
  <2>3. WordsOK'
    <3>1. CASE Fits(written[next])
      <4>1. words' = words \o Normalize(written[next])
        BY <1>9, <3>1 DEF TakeLine
      <4> QED BY <1>1, <2>2, <3>1, <4>1, TakenWords DEF WordsOK
    <3>2. CASE ~Fits(written[next])
      BY <1>2, <1>9, <3>2 DEF TakeLine
    <3> QED BY <3>1, <3>2
  <2> QED BY <1>1, <1>4, <2>1, <2>3, SlotStep
<1>10. CASE EditorKey
  BY <1>1, <1>10, EditorStepKeeps DEF EditorKey
<1>11. CASE Abort
  <2>1. inbuf' \in Seq(Byte)
    BY <1>1, <1>11, FirstByte DEF Abort, Key
  <2> QED BY <1>1, <1>2, <1>4, <1>11, <2>1, SlotStep DEF Abort
<1>12. CASE DecodePhrase
  <2>1. CASE ~Decodes(words)
    BY <1>1, <1>3, <1>4, <1>12, <2>1, SlotStep DEF DecodePhrase
  <2>2. CASE Decodes(words)
    <3>1. words' = <<>> /\ FreshSlot /\ inbuf' = <<>> /\ <<>> \in Seq(Byte)
      BY <1>12, <2>2 DEF DecodePhrase, FreshEditor
    <3> QED BY <1>3, <1>4, <3>1, SlotStep
  <2> QED BY <2>1, <2>2
<1>13. CASE UNCHANGED vars
  BY <1>5, <1>13 DEF vars
<1> QED BY <1>6, <1>7, <1>8, <1>9, <1>10, <1>11, <1>12, <1>13, Steps

-----------------------------------------------------------------------------
(* The loops of the programs, and the pipe. *)

\* The state of the loops.
LoopOK ==
    /\ program \in {"vault", "warden"} /\ keys \in BOOLEAN
    /\ pc \in {"password", "phrase", "accepted", "gaveup", "failed"}
    /\ tries \in 0..Attempts - 1

\* The state of the pipe.
PipeOK ==
    /\ written \in Seq(Lines) /\ closed \in BOOLEAN
    /\ ahead \in 0..Len(written) /\ next \in 1..ahead + 1
    /\ given \subseteq 1..ahead /\ early \subseteq 1..Len(written)

\* One more wrong guess is counted, and there are no more than Attempts.
LEMMA GuessCounted ==
    ASSUME LoopOK, Wrong, UNCHANGED <<program, keys>>
    PROVE  LoopOK'
<1>1. CASE tries + 1 < Attempts
  <2>1. tries' = tries + 1 /\ pc' = pc
    BY <1>1 DEF Wrong
  <2>2. tries' \in 0..Attempts - 1
    BY <1>1, <2>1, PromptAssumption DEF LoopOK
  <2> QED BY <2>1, <2>2 DEF LoopOK
<1>2. CASE ~(tries + 1 < Attempts)
  BY <1>2 DEF LoopOK, Wrong
<1> QED BY <1>1, <1>2

\* The loops keep their types.
LEMMA LoopKept ==
    ASSUME LoopOK, [Next]_vars
    PROVE  LoopOK'
<1>1. UNCHANGED loopVars => LoopOK'
  BY DEF LoopOK, loopVars
<1>2. 0 \in 0..Attempts - 1
  BY PromptAssumption
<1>3. ASSUME NEW right, Password(right) PROVE LoopOK'
  <2>1. CASE right
    BY <1>2, <1>3, <2>1 DEF Password, LoopOK
  <2>2. CASE ~right
    BY <1>3, <2>2, GuessCounted DEF Password
  <2> QED BY <2>1, <2>2
<1>4. ASSUME NEW line \in Lines, Write(line) PROVE LoopOK'
  BY <1>1, <1>4 DEF Write
<1>5. CASE Close \/ Fill \/ TakeLine \/ EditorKey
  BY <1>1, <1>5 DEF Close, Fill, TakeLine, EditorKey
<1>6. CASE TypePassword
  <2>1. CASE pc' = "failed" /\ UNCHANGED <<program, keys, tries, value, phrase, editorVars>>
    BY <2>1 DEF LoopOK
  <2> QED BY <1>3, <1>6, <2>1 DEF TypePassword
<1>7. CASE ReadLine \/ ReadLineAtEnd
  BY <1>3, <1>7 DEF ReadLine, ReadLineAtEnd
<1>8. CASE EndOfInput \/ Abort
  BY <1>8 DEF EndOfInput, Abort, LoopOK
<1>9. CASE DecodePhrase
  <2>1. CASE ~Decodes(words)
    BY <1>1, <1>9, <2>1 DEF DecodePhrase
  <2>2. CASE Decodes(words) /\ (program = "warden" \/ value' = Right)
    BY <1>9, <2>2 DEF DecodePhrase, LoopOK
  <2>3. CASE Decodes(words) /\ ~(program = "warden" \/ value' = Right)
    BY <1>9, <2>3, GuessCounted DEF DecodePhrase
  <2> QED BY <2>1, <2>2, <2>3
<1>10. CASE UNCHANGED vars
  BY <1>1, <1>10 DEF vars
<1> QED BY <1>4, <1>5, <1>6, <1>7, <1>8, <1>9, <1>10, Steps

\* What the invariant says of lines, with the loops and the editor as they are.
LinesInv ==
    PipeOK /\ OneInput /\ WrittenEarly /\ ReadForWords /\ NothingAhead /\ LinesReachTheirPrompt

\* A terminal keeps it, as it has no lines.
LEMMA TerminalKeepsLines ==
    ASSUME LinesInv, keys, UNCHANGED <<keys, pipeVars>>,
           pc' = "password" => pc = "password", phrase' = None => phrase = None
    PROVE  LinesInv'
<1>1. UNCHANGED <<keys, written, closed, next, ahead, given, early>>
  BY DEF pipeVars
<1>2. written = <<>> /\ Len(written) = 0 /\ ahead = 0 /\ next = 1
  BY DEF LinesInv, OneInput, PipeOK
<1>3. PipeOK'
  BY <1>1 DEF LinesInv, PipeOK
<1>4. OneInput'
  BY <1>1, <1>2 DEF OneInput
<1>5. WrittenEarly' /\ NothingAhead'
  BY <1>1 DEF LinesInv, WrittenEarly, NothingAhead
<1>6. ReadForWords'
  <2>1. ~(next' <= ahead')
    BY <1>1, <1>2
  <2> QED BY <2>1 DEF ReadForWords
<1>7. LinesReachTheirPrompt'
  <2>1. 1..next' - 1 = {}
    BY <1>1, <1>2
  <2> QED BY <2>1 DEF LinesReachTheirPrompt
<1> QED BY <1>3, <1>4, <1>5, <1>6, <1>7 DEF LinesInv

\* A step that leaves the lines alone keeps it, too.
LEMMA LinesLeftAlone ==
    ASSUME LinesInv, UNCHANGED <<keys, pipeVars, inbuf, phrase>>,
           pc' = "password" => pc = "password", Collecting => Collecting'
    PROVE  LinesInv'
<1>1. UNCHANGED <<written, closed, next, ahead, given, early>>
  BY DEF pipeVars
<1>2. PipeOK' /\ WrittenEarly' /\ LinesReachTheirPrompt'
  BY <1>1 DEF LinesInv, PipeOK, WrittenEarly, LinesReachTheirPrompt
<1>3. OneInput' /\ NothingAhead'
  BY <1>1 DEF LinesInv, OneInput, NothingAhead
<1>4. ReadForWords'
  BY <1>1 DEF LinesInv, ReadForWords
<1> QED BY <1>2, <1>3, <1>4 DEF LinesInv

\* A line that is written is early unless the next prompt is to see it.
LEMMA WriteKeepsLines ==
    ASSUME LinesInv, NEW line \in Lines, Write(line)
    PROVE  LinesInv'
<1> DEFINE n == Len(written) + 1
<1>1. /\ ~keys /\ written' = Append(written, line)
      /\ early' = IF next = n THEN early ELSE early \cup {n}
      /\ UNCHANGED <<closed, next, ahead, given>>
      /\ UNCHANGED <<keys, pc, phrase, inbuf, words>>
  BY DEF Write, loopVars, editorVars
<1>2. /\ written \in Seq(Lines) /\ Len(written) \in Nat /\ ahead \in 0..Len(written)
      /\ next \in 1..ahead + 1 /\ closed \in BOOLEAN
      /\ given \subseteq 1..ahead /\ early \subseteq 1..Len(written)
  BY DEF LinesInv, PipeOK
<1>3. written' \in Seq(Lines) /\ Len(written') = n
  BY <1>1, <1>2
<1>4. early \subseteq early' /\ early' \subseteq 1..n /\ (next # n => n \in early')
  <2>1. n \in 1..n /\ early \subseteq 1..n
    BY <1>2
  <2> HIDE DEF n
  <2>2. CASE next = n
    BY <1>1, <2>1, <2>2
  <2>3. CASE next # n
    BY <1>1, <2>1, <2>3
  <2> QED BY <2>2, <2>3
<1>5. PipeOK'
  BY <1>1, <1>2, <1>3, <1>4 DEF PipeOK
<1>6. WrittenEarly'
  <2> SUFFICES ASSUME NEW i \in next + 1..n PROVE i \in early'
    BY <1>1, <1>3 DEF WrittenEarly
  <2>1. CASE i = n
    BY <1>2, <1>4, <2>1
  <2>2. CASE i # n
    <3>1. i \in next + 1..Len(written)
      BY <1>2, <2>2
    <3> QED BY <1>4, <3>1 DEF LinesInv, WrittenEarly
  <2> QED BY <2>1, <2>2
<1>7. OneInput' /\ NothingAhead'
  BY <1>1 DEF LinesInv, OneInput, NothingAhead
<1>8. ReadForWords'
  BY <1>1, <1>4 DEF LinesInv, ReadForWords, Collecting
<1>9. LinesReachTheirPrompt'
  BY <1>1, <1>4 DEF LinesInv, LinesReachTheirPrompt
<1> QED BY <1>5, <1>6, <1>7, <1>8, <1>9 DEF LinesInv

\* The password prompt is given the next line and has read no other.
LEMMA ReadLineKeepsLines ==
    ASSUME LinesInv, ReadLine
    PROVE  LinesInv'
<1>1. /\ ~keys /\ pc = "password" /\ next <= Len(written)
      /\ ahead' = next /\ next' = ahead' + 1 /\ given' = given \cup {next}
      /\ UNCHANGED <<written, closed, early>> /\ UNCHANGED <<keys, phrase, inbuf>>
  BY DEF ReadLine, ReadSoFar, Password, editorVars
<1>2. /\ Len(written) \in Nat /\ ahead \in 0..Len(written) /\ next = ahead + 1
      /\ given \subseteq 1..ahead /\ written \in Seq(Lines) /\ closed \in BOOLEAN
      /\ early \subseteq 1..Len(written)
  BY <1>1 DEF LinesInv, PipeOK, NothingAhead
<1>3. ahead' \in 0..Len(written) /\ next' = next + 1 /\ next' \in 1..ahead' + 1 /\ ~(next' <= ahead')
  BY <1>1, <1>2
<1>4. given' \subseteq 1..ahead'
  BY <1>1, <1>2
<1>5. PipeOK'
  BY <1>1, <1>2, <1>3, <1>4 DEF PipeOK
<1>6. OneInput' /\ NothingAhead' /\ ReadForWords'
  BY <1>1, <1>3 DEF LinesInv, OneInput, NothingAhead, ReadForWords
<1>7. WrittenEarly'
  <2>1. \A i \in next' + 1..Len(written') : i \in next + 1..Len(written)
    BY <1>1, <1>2, <1>3
  <2> QED BY <1>1, <2>1 DEF LinesInv, WrittenEarly
<1>8. LinesReachTheirPrompt'
  <2> SUFFICES ASSUME NEW i \in 1..next
               PROVE  i \in given' \/ (phrase' # None /\ i \in early')
    BY <1>2, <1>3 DEF LinesReachTheirPrompt
  <2>1. i = next \/ i \in 1..next - 1
    BY <1>2
  <2> QED BY <1>1, <2>1 DEF LinesInv, LinesReachTheirPrompt
<1> QED BY <1>5, <1>6, <1>7, <1>8 DEF LinesInv

\* The reader of lines takes in all there is, while it needs words.
LEMMA FillKeepsLines ==
    ASSUME LinesInv, Fill
    PROVE  LinesInv'
<1>1. /\ ~keys /\ pc = "phrase" /\ Collecting /\ next > ahead /\ ahead' = Len(written)
      /\ UNCHANGED <<written, closed, next, given, early>>
      /\ UNCHANGED <<keys, pc, phrase, inbuf, words>>
  BY DEF Fill, loopVars, editorVars
<1>2. /\ Len(written) \in Nat /\ ahead \in 0..Len(written) /\ next \in 1..ahead + 1
      /\ given \subseteq 1..ahead /\ written \in Seq(Lines) /\ closed \in BOOLEAN
      /\ early \subseteq 1..Len(written)
  BY DEF LinesInv, PipeOK
<1>3. ahead' \in 0..Len(written) /\ next \in 1..ahead' + 1 /\ given \subseteq 1..ahead'
  BY <1>1, <1>2
<1>4. PipeOK'
  BY <1>1, <1>2, <1>3 DEF PipeOK
<1>5. OneInput' /\ NothingAhead' /\ ReadForWords' /\ WrittenEarly' /\ LinesReachTheirPrompt'
  BY <1>1 DEF LinesInv, OneInput, NothingAhead, ReadForWords, WrittenEarly,
              LinesReachTheirPrompt, Collecting
<1> QED BY <1>4, <1>5 DEF LinesInv

\* A line is taken; those behind it were not waited for.
LEMMA TakeLineKeepsLines ==
    ASSUME LinesInv, TakeLine
    PROVE  LinesInv'
<1>1. /\ ~keys /\ pc = "phrase" /\ next <= ahead
      /\ next' = next + 1 /\ given' = given \cup {next}
      /\ UNCHANGED <<written, closed, ahead, early>> /\ UNCHANGED <<keys, pc, phrase, inbuf>>
  BY DEF TakeLine, loopVars
<1>2. /\ Len(written) \in Nat /\ ahead \in 0..Len(written) /\ next \in 1..ahead + 1
      /\ given \subseteq 1..ahead /\ written \in Seq(Lines) /\ closed \in BOOLEAN
      /\ early \subseteq 1..Len(written)
  BY DEF LinesInv, PipeOK
<1>3. next' \in 1..ahead + 1 /\ given' \subseteq 1..ahead
  BY <1>1, <1>2
<1>4. PipeOK'
  BY <1>1, <1>2, <1>3 DEF PipeOK
<1>5. OneInput' /\ NothingAhead'
  BY <1>1 DEF LinesInv, OneInput, NothingAhead
<1>6. next' <= ahead => next' \in early
  <2>1. next' <= ahead => next' \in next + 1..Len(written)
    BY <1>1, <1>2
  <2> QED BY <2>1 DEF LinesInv, WrittenEarly
<1>7. ReadForWords'
  BY <1>1, <1>6 DEF ReadForWords
<1>8. WrittenEarly'
  <2>1. \A i \in next' + 1..Len(written') : i \in next + 1..Len(written)
    BY <1>1, <1>2
  <2> QED BY <1>1, <2>1 DEF LinesInv, WrittenEarly
<1>9. LinesReachTheirPrompt'
  <2> SUFFICES ASSUME NEW i \in 1..next
               PROVE  i \in given' \/ (phrase' # None /\ i \in early')
    BY <1>1, <1>2 DEF LinesReachTheirPrompt
  <2>1. i = next \/ i \in 1..next - 1
    BY <1>2
  <2> QED BY <1>1, <2>1 DEF LinesInv, LinesReachTheirPrompt
<1> QED BY <1>4, <1>5, <1>7, <1>8, <1>9 DEF LinesInv

\* When a phrase is returned the lines its reader holds are lost; all of them
\* are early, for the last one that was waited for has been taken.
LEMMA DecodeKeepsLines ==
    ASSUME LinesInv, WordsOK, DecodePhrase
    PROVE  LinesInv'
<1>1. /\ pc = "phrase" /\ ~Collecting
      /\ UNCHANGED <<written, closed, ahead, given, early, keys>>
  BY DEF DecodePhrase, loopVars
<1>2. /\ Len(written) \in Nat /\ ahead \in 0..Len(written) /\ next \in 1..ahead + 1
      /\ given \subseteq 1..ahead /\ written \in Seq(Lines) /\ closed \in BOOLEAN
      /\ early \subseteq 1..Len(written)
  BY DEF LinesInv, PipeOK
<1>3. CASE ~Decodes(words)
  <2>1. words' = <<>> /\ UNCHANGED <<inbuf, pc, phrase, next>>
    BY <1>3 DEF DecodePhrase, loopVars
  <2>2. UNCHANGED pipeVars
    BY <1>1, <2>1 DEF pipeVars
  <2> QED BY <1>1, <2>1, <2>2, LinesLeftAlone
<1>4. CASE Decodes(words)
  <2>1. phrase' = words /\ inbuf' = <<>> /\ next' = ahead + 1
    BY <1>4 DEF DecodePhrase, FreshEditor
  <2>2. pc' # "password"
    BY <1>1, <1>4 DEF DecodePhrase, Wrong
  <2>3. phrase' # None
    BY <2>1, PromptAssumption DEF WordsOK
  <2>4. PipeOK' /\ OneInput' /\ NothingAhead'
    <3>1. next' \in 1..ahead + 1
      BY <1>2, <2>1
    <3> QED BY <1>1, <1>2, <2>1, <2>2, <3>1 DEF LinesInv, PipeOK, OneInput, NothingAhead
  <2>5. ReadForWords'
    <3>1. ~(next' <= ahead')
      BY <1>1, <1>2, <2>1
    <3> QED BY <3>1 DEF ReadForWords
  <2>6. WrittenEarly'
    <3>1. \A i \in next' + 1..Len(written') : i \in next + 1..Len(written)
      BY <1>1, <1>2, <2>1
    <3> QED BY <1>1, <3>1 DEF LinesInv, WrittenEarly
  <2>7. LinesReachTheirPrompt'
    <3> SUFFICES ASSUME NEW i \in 1..ahead PROVE i \in given \/ i \in early
      BY <1>1, <1>2, <2>1, <2>3 DEF LinesReachTheirPrompt
    <3>1. CASE i \in 1..next - 1
      BY <3>1 DEF LinesInv, LinesReachTheirPrompt
    <3>2. CASE i = next
      <4>1. next <= ahead
        BY <3>2
      <4> QED BY <1>1, <3>2, <4>1 DEF LinesInv, ReadForWords
    <3>3. CASE i \in next + 1..Len(written)
      BY <3>3 DEF LinesInv, WrittenEarly
    <3>4. i \in 1..next - 1 \/ i = next \/ i \in next + 1..Len(written)
      BY <1>2
    <3> QED BY <3>1, <3>2, <3>3, <3>4
  <2> QED BY <2>4, <2>5, <2>6, <2>7 DEF LinesInv
<1> QED BY <1>3, <1>4

\* No step loses a line that was waited for.
LEMMA LinesKept ==
    ASSUME LinesInv, WordsOK, [Next]_vars
    PROVE  LinesInv'
<1>1. ASSUME NEW line \in Lines, Write(line) PROVE LinesInv'
  BY <1>1, WriteKeepsLines
<1>2. CASE Close
  <2>1. /\ closed' \in BOOLEAN
        /\ UNCHANGED <<written, next, ahead, given, early, keys, pc, phrase, inbuf, words>>
    BY <1>2 DEF Close, loopVars, editorVars
  <2> QED BY <2>1 DEF LinesInv, PipeOK, OneInput, WrittenEarly, ReadForWords, NothingAhead,
                      LinesReachTheirPrompt, Collecting
<1>3. CASE TypePassword
  <2>1. keys /\ pc = "password" /\ UNCHANGED <<keys, pipeVars, phrase>>
    BY <1>3 DEF TypePassword, Password
  <2> QED BY <2>1, TerminalKeepsLines
<1>4. CASE ReadLine
  BY <1>4, ReadLineKeepsLines
<1>5. CASE ReadLineAtEnd
  <2>1. pc = "password" /\ UNCHANGED <<keys, pipeVars, phrase, inbuf, words>>
    BY <1>5 DEF ReadLineAtEnd, Password, editorVars
  <2> QED BY <2>1, LinesLeftAlone DEF Collecting
<1>6. CASE Fill
  BY <1>6, FillKeepsLines
<1>7. CASE TakeLine
  BY <1>7, TakeLineKeepsLines
<1>8. CASE EndOfInput
  <2>1. pc' = "failed" /\ UNCHANGED <<keys, pipeVars, phrase, inbuf, words>>
    BY <1>8 DEF EndOfInput, editorVars
  <2> QED BY <2>1, LinesLeftAlone DEF Collecting
<1>9. CASE EditorKey
  <2>1. keys /\ UNCHANGED <<keys, pc, pipeVars, phrase>>
    BY <1>9 DEF EditorKey, loopVars
  <2> QED BY <2>1, TerminalKeepsLines
<1>10. CASE Abort
  <2>1. keys /\ pc' = "failed" /\ UNCHANGED <<keys, pipeVars, phrase>>
    BY <1>10 DEF Abort
  <2> QED BY <2>1, TerminalKeepsLines
<1>11. CASE DecodePhrase
  BY <1>11, DecodeKeepsLines
<1>12. CASE UNCHANGED vars
  <2>1. UNCHANGED <<keys, pc, pipeVars, phrase, inbuf, words>>
    BY <1>12 DEF vars, loopVars, editorVars
  <2> QED BY <2>1, LinesLeftAlone DEF Collecting
<1> QED BY <1>1, <1>2, <1>3, <1>4, <1>5, <1>6, <1>7, <1>8, <1>9, <1>10, <1>11, <1>12, Steps

\* A phrase is recorded only when it was decoded, and then it is as long as it
\* was to be.
LEMMA CanonicalKept ==
    ASSUME WordsOK, PhraseIsCanonical, [Next]_vars
    PROVE  PhraseIsCanonical'
<1>1. ASSUME UNCHANGED <<value, phrase>> PROVE PhraseIsCanonical'
  BY <1>1 DEF PhraseIsCanonical
<1>2. ASSUME NEW line \in Lines, Write(line) PROVE PhraseIsCanonical'
  BY <1>1, <1>2 DEF Write, loopVars
<1>3. CASE Close \/ Fill \/ TakeLine \/ EndOfInput
  BY <1>1, <1>3 DEF Close, Fill, TakeLine, EndOfInput, loopVars
<1>4. CASE TypePassword \/ ReadLine \/ ReadLineAtEnd
  BY <1>1, <1>4 DEF TypePassword, ReadLine, ReadLineAtEnd, Password
<1>5. CASE EditorKey \/ Abort
  BY <1>1, <1>5 DEF EditorKey, Abort, loopVars
<1>6. CASE DecodePhrase
  <2>1. CASE ~Decodes(words)
    BY <1>1, <1>6, <2>1 DEF DecodePhrase, loopVars
  <2>2. CASE Decodes(words)
    <3>1. value' = Decode(words) /\ phrase' = words /\ ~Collecting
      BY <1>6, <2>2 DEF DecodePhrase
    <3>2. Len(words) = WantWords /\ words \in Seq(Word)
      BY <3>1, EditorAssumption DEF WordsOK, Collecting
    <3>3. EntropyBits(words) \in MinBits..MaxBits
      BY <3>2, EditorAssumption DEF EntropyBits
    <3> QED BY <2>2, <3>1, <3>2, <3>3, EncodeUndoesDecode DEF PhraseIsCanonical
  <2> QED BY <2>1, <2>2
<1>7. CASE UNCHANGED vars
  BY <1>1, <1>7 DEF vars, loopVars
<1> QED BY <1>2, <1>3, <1>4, <1>5, <1>6, <1>7, Steps

-----------------------------------------------------------------------------
(* The theorems. *)

\* The invariant, by the parts that the lemmas above are about.
LEMMA IInvParts ==
    IInv <=> /\ EditorTypeOK /\ EditorInStep /\ LoopOK /\ LinesInv /\ PhraseIsCanonical
BY DEF IInv, TypeOK, LoopOK, PipeOK, LinesInv

\* The initial states satisfy the invariant.
LEMMA IInvInit == Init => IInv
<1> SUFFICES ASSUME Init PROVE IInv
  OBVIOUS
<1>1. EditorTypeOK /\ EditorInStep
  <2>1. Complete(<<>>) = <<>>
    BY DEF Complete
  <2>2. /\ words = <<>> /\ typed = <<>> /\ matches = <<>> /\ cycle = -1
        /\ shown = <<>> /\ inbuf = <<>>
    BY DEF Init, InitEditor
  <2>3. EditorInStep
    BY <2>1, <2>2 DEF EditorInStep
  <2>4. /\ words \in Seq(Word) /\ typed \in Seq(Letters) /\ matches \in Seq(Word) /\ inbuf \in Seq(Byte)
        /\ Len(words) = 0 /\ Len(typed) = 0 /\ Len(matches) = 0
    BY <2>2
  <2>5. Len(words) <= WantWords /\ Len(typed) <= MaxTyped /\ cycle \in -1..Len(matches) - 1
    BY <2>2, <2>4, EditorAssumption
  <2>6. \A i \in 1..Len(words) : Valid(words[i])
    BY <2>4
  <2> QED BY <2>3, <2>4, <2>5, <2>6 DEF EditorTypeOK
<1>2. LoopOK
  BY PromptAssumption DEF Init, LoopOK
<1>3. LinesInv
  <2>1. /\ written = <<>> /\ Len(written) = 0 /\ written \in Seq(Lines)
        /\ next = 1 /\ ahead = 0 /\ given = {} /\ early = {} /\ closed = FALSE /\ inbuf = <<>>
    BY DEF Init, InitEditor
  <2>2. PipeOK
    <3>1. ahead \in 0..Len(written) /\ next \in 1..ahead + 1
      BY <2>1
    <3>2. closed \in BOOLEAN /\ given \subseteq 1..ahead /\ early \subseteq 1..Len(written)
      BY <2>1
    <3> QED BY <2>1, <3>1, <3>2 DEF PipeOK
  <2>3. OneInput /\ WrittenEarly /\ ReadForWords /\ NothingAhead /\ LinesReachTheirPrompt
    BY <2>1 DEF OneInput, WrittenEarly, ReadForWords, NothingAhead, LinesReachTheirPrompt
  <2> QED BY <2>2, <2>3 DEF LinesInv
<1>4. PhraseIsCanonical
  BY DEF Init, PhraseIsCanonical
<1> QED BY <1>1, <1>2, <1>3, <1>4, IInvParts

\* Every step keeps the invariant.
LEMMA IInvStep == IInv /\ [Next]_vars => IInv'
<1> SUFFICES ASSUME IInv, [Next]_vars PROVE IInv'
  OBVIOUS
<1>1. EditorTypeOK /\ EditorInStep /\ LoopOK /\ LinesInv /\ PhraseIsCanonical /\ WordsOK
  BY IInvParts DEF EditorTypeOK, WordsOK
<1>2. EditorTypeOK' /\ EditorInStep'
  BY EditorKept
<1>3. LoopOK' /\ LinesInv' /\ PhraseIsCanonical'
  BY <1>1, LoopKept, LinesKept, CanonicalKept
<1> QED BY <1>2, <1>3 DEF IInv, TypeOK, LoopOK, PipeOK, LinesInv

\* The inductive invariant holds in every state the prompts reach.
THEOREM Invariance == Spec => []IInv
BY IInvInit, IInvStep, PTL DEF Spec

\* The variables have their types: no reader takes in more than there is, no
\* phrase grows longer than it is to be, and no guess is one too many.
THEOREM TypeCorrect == Spec => []TypeOK
<1>1. IInv => TypeOK
  BY DEF IInv
<1> QED BY <1>1, Invariance, PTL

\* A line is lost between two prompts only behind a phrase that was returned,
\* and only if it was written before it was asked for.
THEOREM LinesAreKept == Spec => []LinesReachTheirPrompt
<1>1. IInv => LinesReachTheirPrompt
  BY DEF IInv
<1> QED BY <1>1, Invariance, PTL

\* What was decoded encodes to the words that were given.
THEOREM PhrasesAreCanonical == Spec => []PhraseIsCanonical
<1>1. IInv => PhraseIsCanonical
  BY DEF IInv
<1> QED BY <1>1, Invariance, PTL

\* The matches are those of the letters, and the screen shows what they say.
THEOREM EditorKeepsStep == Spec => []EditorInStep
<1>1. IInv => EditorInStep
  BY DEF IInv
<1> QED BY <1>1, Invariance, PTL

-----------------------------------------------------------------------------
(* What one step does. *)

\* Whatever adds a word while bytes are waiting is the editor's Enter.
LEMMA AcceptedIsShown ==
    ASSUME IInv, [Next]_vars, inbuf # <<>>, Len(words') > Len(words)
    PROVE  Last(words') = shown \/ Complete(shown) = <<Last(words')>>
<1>1. SlotOK /\ words \in Seq(Word) /\ Len(words) \in Nat /\ keys
  BY EditorParts DEF IInv, TypeOK, WordsOK, OneInput
<1>2. words' # words /\ words' # <<>>
  BY <1>1
<1>3. EditorKey
  <2>1. \A line \in Lines : ~Write(line)
    BY <1>2 DEF Write, editorVars
  <2>2. ~Close /\ ~Fill /\ ~EndOfInput
    BY <1>2 DEF Close, Fill, EndOfInput, editorVars
  <2>3. ~TypePassword /\ ~ReadLine /\ ~ReadLineAtEnd
    BY <1>2 DEF TypePassword, ReadLine, ReadLineAtEnd, Password, editorVars
  <2>4. ~TakeLine /\ ~Abort
    BY <1>1, <1>2 DEF TakeLine, Abort
  <2>5. ~DecodePhrase
    BY <1>2 DEF DecodePhrase, FreshEditor
  <2>6. ~UNCHANGED vars
    BY <1>2 DEF vars, editorVars
  <2> QED BY <2>1, <2>2, <2>3, <2>4, <2>5, <2>6, Steps
<1>4. Accept /\ Resolved # {}
  <2>1. ~ReadChunk /\ ~Tab /\ ~Backspace /\ ~Letter /\ ~Escape /\ ~Beep
    BY <1>2 DEF ReadChunk, Tab, Backspace, Letter, Escape, Beep
  <2>2. Accept
    BY <1>3, <2>1 DEF EditorKey, EditorStep
  <2> QED BY <1>2, <2>2 DEF Accept
<1>5. PICK word \in Resolved : words' = Append(words, word)
  BY <1>4 DEF Accept
<1>6. word \in Word /\ (word = shown \/ Complete(shown) = <<word>>)
  BY <1>1, <1>5, ResolvedWord
<1>7. Last(words') = word
  <2> HIDE DEF Word
  <2>1. Len(words') = Len(words) + 1 /\ words'[Len(words) + 1] = word
    BY <1>1, <1>5, <1>6
  <2> QED BY <2>1 DEF Last
<1> QED BY <1>6, <1>7

\* A cursor key at the head of the buffer is what an escape sequence takes.
LEMMA CursorKeyAhead ==
    ASSUME inbuf \in Seq(Byte), NEW key \in CursorKeys, IsPrefix(key, inbuf)
    PROVE  /\ inbuf # <<>> /\ Head(inbuf) = "ESC"
           /\ AfterEscape(Tail(inbuf)) = SubSeq(inbuf, Len(key) + 1, Len(inbuf))
<1> DEFINE rest == Tail(inbuf)
           Ends == Upper \cup {"~"}
<1>1. "[" \notin Ends /\ "3" \notin Ends /\ "~" \in Ends /\ "A" \in Ends
  BY KeysAssumption DEF Control
<1>2. /\ Len(key) \in 3..4 /\ key[1] = "ESC"
      /\ key[Len(key)] \in Ends /\ \A i \in 2..Len(key) - 1 : key[i] \notin Ends
  <2>1. CASE key = <<"ESC", "[", "A">>
    <3>1. Len(key) = 3 /\ key[1] = "ESC" /\ key[2] = "[" /\ key[3] = "A"
      BY <2>1
    <3>2. \A i \in 2..3 - 1 : i = 2
      OBVIOUS
    <3> HIDE DEF Ends
    <3> QED BY <1>1, <3>1, <3>2
  <2>2. CASE key = <<"ESC", "[", "3", "~">>
    <3>1. Len(key) = 4 /\ key[1] = "ESC" /\ key[2] = "[" /\ key[3] = "3" /\ key[4] = "~"
      BY <2>2
    <3>2. \A i \in 2..4 - 1 : i = 2 \/ i = 3
      OBVIOUS
    <3> HIDE DEF Ends
    <3> QED BY <1>1, <3>1, <3>2
  <2> QED BY <2>1, <2>2 DEF CursorKeys
<1>3. Len(key) <= Len(inbuf) /\ \A i \in 1..Len(key) : inbuf[i] = key[i]
  <2>1. Len(key) \in Nat /\ Len(key) <= Len(inbuf)
        /\ SubSeq(key, 1, Len(key)) = SubSeq(inbuf, 1, Len(key))
    BY <1>2 DEF IsPrefix
  <2>2. key \in Seq({"ESC", "[", "A", "3", "~"})
    <3>1. <<"ESC", "[", "A">> \in Seq({"ESC", "[", "A", "3", "~"})
      OBVIOUS
    <3>2. <<"ESC", "[", "3", "~">> \in Seq({"ESC", "[", "A", "3", "~"})
      OBVIOUS
    <3> QED BY <3>1, <3>2 DEF CursorKeys
  <2>3. SubSeq(key, 1, Len(key)) = key
    BY <2>2, SubSeqFull
  <2>4. \A i \in 1..Len(key) : SubSeq(inbuf, 1, Len(key))[i] = inbuf[i]
    <3> HIDE DEF CursorKeys, Byte
    <3> QED BY <1>2, <2>1
  <2> QED BY <2>1, <2>3, <2>4
<1>4. /\ inbuf # <<>> /\ Head(inbuf) = inbuf[1] /\ rest \in Seq(Byte)
      /\ Len(inbuf) \in Nat /\ Len(rest) = Len(inbuf) - 1
      /\ \A i \in 1..Len(rest) : rest[i] = inbuf[i + 1]
  <2>1. inbuf # <<>>
    BY <1>2, <1>3
  <2> HIDE DEF Byte
  <2> QED BY <2>1, HeadTailProperties
<1>5. Head(inbuf) = "ESC"
  BY <1>2, <1>3, <1>4
<1> DEFINE k == Len(key) - 1
<1>6. k \in 1..Len(rest) /\ k + 1 = Len(key) /\ rest[k] = key[Len(key)]
  <2> HIDE DEF Ends, rest
  <2>1. k \in 1..Len(rest) /\ k + 1 = Len(key) /\ Len(key) \in 1..Len(key)
    <3>1. /\ Len(key) \in 3..4 /\ Len(key) <= Len(inbuf)
          /\ Len(inbuf) \in Nat /\ Len(rest) = Len(inbuf) - 1
      BY <1>2, <1>3, <1>4, Zenon
    <3>2. \A a \in 3..4, b \in Nat :
              a <= b => a - 1 \in 1..b - 1 /\ (a - 1) + 1 = a /\ a \in 1..a
      OBVIOUS
    <3> HIDE DEF CursorKeys
    <3> QED BY <3>1, <3>2
  <2> HIDE DEF k
  <2>2. rest[k] = inbuf[k + 1]
    BY <1>4, <2>1
  <2> QED BY <1>3, <2>1, <2>2
<1>7. \A i \in 1..Len(rest) : i < k => rest[i] \notin Ends
  <2> SUFFICES ASSUME NEW i \in 1..Len(rest), i < k PROVE rest[i] \notin Ends
    OBVIOUS
  <2>1. i + 1 \in 2..Len(key) - 1 /\ i + 1 \in 1..Len(key)
    BY <1>2, <1>4
  <2>2. rest[i] = key[i + 1]
    BY <1>3, <1>4, <2>1
  <2> HIDE DEF Ends
  <2> QED BY <1>2, <2>1, <2>2
<1> HIDE DEF k
<1>8. AfterEscape(rest) = SubSeq(rest, k + 1, Len(rest))
  <2>1. rest[k] \in Ends
    BY <1>2, <1>6
  <2>2. PICK e \in 1..Len(rest) :
            /\ rest[e] \in Ends /\ \A i \in 1..Len(rest) : rest[i] \in Ends => e <= i
            /\ AfterEscape(rest) = SubSeq(rest, e + 1, Len(rest))
    BY <1>4, <1>6, <2>1, BehindEscape
  <2>3. e = k
    <3>1. e <= k /\ ~(e < k)
      BY <1>6, <1>7, <2>1, <2>2
    <3> QED BY <1>6, <3>1
  <2> QED BY <2>2, <2>3
<1>9. SubSeq(rest, k + 1, Len(rest)) = SubSeq(inbuf, Len(key) + 1, Len(inbuf))
  <2>1. rest = SubSeq(inbuf, 2, Len(inbuf))
    BY <1>4, TailIsSubSeq
  <2>2. SubSeq(inbuf, Len(key) + 1, Len(inbuf))
            = [i \in 1..Len(inbuf) - Len(key) |-> inbuf[Len(key) + i]]
    <3> HIDE DEF Byte, CursorKeys
    <3> QED BY <1>2, <1>3, <1>4
  <2>3. SubSeq(rest, k + 1, Len(rest)) = [i \in 1..Len(rest) - k |-> rest[k + i]]
    <3> HIDE DEF Byte, CursorKeys, rest
    <3> QED BY <1>4, <1>6
  <2>4. Len(rest) - k = Len(inbuf) - Len(key)
    BY <1>2, <1>4, <1>6
  <2>5. \A i \in 1..Len(rest) - k : rest[k + i] = inbuf[Len(key) + i]
    <3> SUFFICES ASSUME NEW i \in 1..Len(rest) - k PROVE rest[k + i] = inbuf[Len(key) + i]
      OBVIOUS
    <3>1. k + i \in 1..Len(rest) /\ (k + i) + 1 = Len(key) + i
      BY <1>2, <1>4, <1>6
    <3> QED BY <1>4, <3>1
  <2> QED BY <2>2, <2>3, <2>4, <2>5
<1> QED BY <1>4, <1>5, <1>8, <1>9

\* While words are collected and a cursor key is at the head of the buffer only
\* Escape uses a byte.
LEMMA CursorKeySwallowed ==
    ASSUME IInv, [Next]_vars, ~UNCHANGED editorVars,
           NEW key \in CursorKeys, Collecting, IsPrefix(key, inbuf)
    PROVE  inbuf' = SubSeq(inbuf, Len(key) + 1, Len(inbuf)) /\ UNCHANGED <<words, slotVars>>
<1>1. /\ inbuf # <<>> /\ Head(inbuf) = "ESC"
      /\ AfterEscape(Tail(inbuf)) = SubSeq(inbuf, Len(key) + 1, Len(inbuf))
  BY CursorKeyAhead DEF IInv, TypeOK, EditorTypeOK
<1>2. "ESC" \notin Letters \cup Upper /\ keys
  BY <1>1, KeysAssumption DEF Control, IInv, OneInput
<1>3. EditorKey
  <2>1. \A line \in Lines : ~Write(line)
    BY DEF Write
  <2>2. ~Close /\ ~Fill /\ ~EndOfInput
    BY DEF Close, Fill, EndOfInput
  <2>3. ~TypePassword /\ ~ReadLine /\ ~ReadLineAtEnd
    BY DEF TypePassword, ReadLine, ReadLineAtEnd, Password
  <2>4. ~TakeLine /\ ~DecodePhrase
    BY <1>2 DEF TakeLine, DecodePhrase
  <2>5. ~Abort
    BY <1>1 DEF Abort, Key
  <2>6. ~UNCHANGED vars
    BY DEF vars
  <2> QED BY <2>1, <2>2, <2>3, <2>4, <2>5, <2>6, Steps
<1>4. Escape
  <2>1. ~ReadChunk
    BY <1>1 DEF ReadChunk
  <2>2. ~Accept /\ ~Tab /\ ~Backspace /\ ~Beep
    BY <1>1 DEF Accept, Tab, Backspace, Beep, Key
  <2>3. ~Letter
    BY <1>1, <1>2 DEF Letter, Key
  <2> QED BY <1>3, <2>1, <2>2, <2>3 DEF EditorKey, EditorStep
<1> QED BY <1>1, <1>4 DEF Escape

\* The word Enter accepts is what the screen shows, or the only one that begins
\* with it.
THEOREM ShownIsAccepted == Spec => AcceptsWhatIsShown
<1>1. IInv /\ [Next]_vars =>
          [inbuf # <<>> /\ Len(words') > Len(words) =>
              Last(words') = shown \/ Complete(shown) = <<Last(words')>>]_editorVars
  BY AcceptedIsShown
<1> QED BY <1>1, Invariance, PTL DEF Spec, AcceptsWhatIsShown

\* A cursor key that arrives in one piece does nothing, and nothing behind it is
\* lost.
THEOREM CursorKeysSwallowed == Spec => CursorKeysDoNothing
<1>1. IInv /\ [Next]_vars =>
          [\A key \in CursorKeys : Collecting /\ IsPrefix(key, inbuf) =>
              /\ inbuf' = SubSeq(inbuf, Len(key) + 1, Len(inbuf))
              /\ UNCHANGED <<words, slotVars>>]_editorVars
  BY CursorKeySwallowed
<1> QED BY <1>1, Invariance, PTL DEF Spec, CursorKeysDoNothing
=============================================================================
