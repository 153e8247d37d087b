------------------------------ MODULE Editor -------------------------------
(***************************************************************************)
(* internal/prompt, collectWords: the editor that takes a phrase word by   *)
(* word from a terminal in raw mode.  Bytes come in chunks, as read(2)     *)
(* returns them, into a buffer; one action uses the first byte of it.      *)
(***************************************************************************)
EXTENDS Words, Integers

CONSTANTS
    WantWords, \* how long the phrase is to be
    Chunks,    \* what one read of the terminal may return
    Lower,     \* the lower-case letter of each upper-case one
    MaxTyped   \* bound: letters typed for one word

Upper == DOMAIN Lower

\* The bytes that are no letters, by the names of their keys.
Control == {"CR", "LF", " ", "TAB", "BS", "DEL", "ESC", "[", "~", "3", "^C"}
Byte == Letters \cup Upper \cup Control

\* A phrase stands for bytes that Encode takes.
ASSUME EditorAssumption ==
    /\ WantWords \in Nat \ {0} /\ MaxTyped \in Nat
    /\ (WantWords * WordBits * BlockBits) \div (BlockBits + 1) \in MinBits..MaxBits
ASSUME KeysAssumption ==
    /\ Chunks \subseteq Seq(Byte)
    /\ Control \cap (Letters \cup Upper) = {}
    /\ "A" \in Upper /\ \A c \in Upper : Lower[c] \in Letters

VARIABLES
    words,   \* the words accepted so far
    typed,   \* the letters of the next one
    matches, \* the words that begin with them, as last computed
    cycle,   \* which of them Tab has put in their place, -1 if none
    shown,   \* the word on the screen, as last drawn
    inbuf    \* bytes read and not used yet

slotVars == <<typed, matches, cycle, shown>>
editorVars == <<words, slotVars, inbuf>>

Collecting == Len(words) < WantWords

EditorTypeOK ==
    /\ words \in Seq(Word) /\ Len(words) <= WantWords
    /\ \A i \in 1..Len(words) : Valid(words[i])
    /\ typed \in Seq(Letters) /\ Len(typed) <= MaxTyped
    /\ matches \in Seq(Word) /\ inbuf \in Seq(Byte)
    /\ cycle \in -1..Len(matches) - 1

\* The state at the beginning of a word, and of the phrase.
FreshSlot == typed' = <<>> /\ matches' = <<>> /\ cycle' = -1 /\ shown' = <<>>
InitEditor ==
    words = <<>> /\ typed = <<>> /\ matches = <<>> /\ cycle = -1 /\ shown = <<>> /\ inbuf = <<>>
FreshEditor == words' = <<>> /\ FreshSlot /\ inbuf' = <<>>

-----------------------------------------------------------------------------
ReadChunk ==
    /\ Collecting /\ inbuf = <<>>
    /\ \E chunk \in Chunks : inbuf' = chunk
    /\ UNCHANGED <<words, slotVars>>

\* The next byte is one of these.
Key(bytes) ==
    Collecting /\ inbuf # <<>> /\ Head(inbuf) \in bytes /\ inbuf' = Tail(inbuf)

\* typed changes: recompute, then draw.
Retype(letters) ==
    /\ typed' = letters
    /\ matches' = Complete(letters)
    /\ cycle' = -1
    /\ shown' = letters

\* FAULT: Enter takes the first match, whatever Tab has come to.
FaultFirstMatch ==
    IF matches # <<>> THEN {matches[1]} ELSE {}

\* resolve: the word Enter accepts, if there is one.
Resolved ==
    IF cycle >= 0 THEN {matches[cycle + 1]}
    ELSE IF Valid(typed) THEN {typed}
    ELSE IF Len(matches) = 1 THEN {matches[1]} ELSE {}

Accept ==
    /\ Key({"CR", "LF", " "})
    /\ IF Resolved = {}
       THEN UNCHANGED <<words, slotVars>>
       ELSE /\ \E word \in Resolved : words' = Append(words, word)
            /\ FreshSlot

Tab ==
    /\ Key({"TAB"})
    /\ IF matches = <<>>
       THEN UNCHANGED slotVars
       ELSE /\ cycle' = (cycle + 1) % Len(matches)
            /\ shown' = matches[cycle' + 1]
            /\ UNCHANGED <<typed, matches>>
    /\ UNCHANGED words

\* FAULT: the matches are not computed anew.
FaultStaleMatches ==
    /\ Key({"BS", "DEL"})
    /\ \/ cycle >= 0 /\ cycle' = -1 /\ shown' = typed /\ UNCHANGED <<typed, matches>>
       \/ cycle < 0 /\ typed # <<>> /\ typed' = Front(typed) /\ shown' = typed'
          /\ UNCHANGED <<matches, cycle>>
       \/ cycle < 0 /\ typed = <<>> /\ UNCHANGED slotVars
    /\ UNCHANGED words

\* The first one only drops the word that Tab has put there.
Backspace ==
    /\ Key({"BS", "DEL"})
    /\ \/ cycle >= 0 /\ cycle' = -1 /\ shown' = typed /\ UNCHANGED <<typed, matches>>
       \/ cycle < 0 /\ typed # <<>> /\ Retype(Front(typed))
       \/ cycle < 0 /\ typed = <<>> /\ UNCHANGED slotVars
    /\ UNCHANGED words

\* Letters are added to typed even after Tab.
Letter ==
    /\ Len(typed) < MaxTyped
    /\ Key(Letters \cup Upper)
    /\ Retype(Append(typed, IF Head(inbuf) \in Upper THEN Lower[Head(inbuf)] ELSE Head(inbuf)))
    /\ UNCHANGED words

\* FAULT: only letters end a sequence.
FaultNoTilde(rest) ==
    LET end == SelectInSeq(rest, LAMBDA c : c \in Upper)
    IN  IF end = 0 THEN <<>> ELSE SubSeq(rest, end + 1, Len(rest))

\* What is left of the buffer after the first byte that ends an escape
\* sequence; nothing if there is none in it.
AfterEscape(rest) ==
    LET end == SelectInSeq(rest, LAMBDA c : c \in Upper \cup {"~"})
    IN  IF end = 0 THEN <<>> ELSE SubSeq(rest, end + 1, Len(rest))

Escape ==
    /\ Collecting /\ inbuf # <<>> /\ Head(inbuf) = "ESC"
    /\ inbuf' = AfterEscape(Tail(inbuf))
    /\ UNCHANGED <<words, slotVars>>

\* Any other byte is a beep.
Beep ==
    /\ Key({"[", "~", "3"})
    /\ UNCHANGED <<words, slotVars>>

EditorStep ==
    ReadChunk \/ Accept \/ Tab \/ Backspace \/ Letter \/ Escape \/ Beep

-----------------------------------------------------------------------------
(* Properties. *)

\* resolve looks at matches and cycle, which earlier keys have set, and not at
\* the list: whatever was typed, completed and deleted, they are those of the
\* letters typed now, and the screen shows what they say.
EditorInStep ==
    /\ matches = Complete(typed)
    /\ shown = IF cycle >= 0 THEN matches[cycle + 1] ELSE typed

\* The word Enter accepts is what the screen shows, or the only one that begins
\* with it.
AcceptsWhatIsShown ==
    [][inbuf # <<>> /\ Len(words') > Len(words) =>
        \/ Last(words') = shown
        \/ Complete(shown) = <<Last(words')>>]_editorVars

\* "swallow escape sequences (arrow keys etc.)": the sequence of a cursor key
\* that arrives in one piece does nothing, and nothing behind it is lost.
CursorKeys == {<<"ESC", "[", "A">>, <<"ESC", "[", "3", "~">>}
CursorKeysDoNothing ==
    [][\A key \in CursorKeys : Collecting /\ IsPrefix(key, inbuf) =>
        /\ inbuf' = SubSeq(inbuf, Len(key) + 1, Len(inbuf))
        /\ UNCHANGED <<words, slotVars>>]_editorVars
=============================================================================
