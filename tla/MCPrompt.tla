------------------------------ MODULE MCPrompt ------------------------------
(* A list of four words with two bits each, and phrases of three. *)
EXTENDS Prompt

a == "a"
b == "b"
MCList == <<<<a, a>>, <<a, b>>, <<a, b, b>>, <<b, a>>>>
MCSha256(bits) == <<(Number(bits) \div 3) % 2, Number(bits) % 2>>

MCLetters == {a, b, "o"}
MCLower == [A |-> a, B |-> b, O |-> "o"]

\* Letters and keys one by one; cursor keys in one piece, in the other mode of
\* the terminal, and in two pieces; a type-ahead behind one.
MCChunks ==
    {<<c>> : c \in {a, b, "B", "CR", "TAB", "DEL", "^C"}}
    \cup {<<"ESC", "[", "A">>, <<"ESC", "O", "B">>, <<"ESC">>, <<"[", "A">>,
          <<"ESC", "[", "3", "~", b>>}

MCRight == <<0, 1, 1, 0, 1>>
RightPhrase == Encode(MCRight)
OtherPhrase == Encode(<<1, 0, 0, 1, 0>>)
MCPassword == <<<<b, b>>>>

\* The password, which is no word; an empty line; the right phrase, whole and in
\* two lines with a prefix; another one; and words that are no phrase.
MCLines ==
    {MCPassword, <<>>, RightPhrase, OtherPhrase,
     <<RightPhrase[1], RightPhrase[2]>>, <<<<b>>>>,
     <<RightPhrase[1], RightPhrase[2], OtherPhrase[3]>>}
=============================================================================
