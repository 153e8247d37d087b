------------------------------- MODULE Prompt -------------------------------
(***************************************************************************)
(* internal/prompt under the loops of cmd/vault and cmd/warden: the        *)
(* password, tried Attempts times, then a phrase: the response, tried      *)
(* Attempts times, or the challenge, tried once.  The vault is one that     *)
(* wants two factors; a warden without a passphrase asks for none.         *)
(*                                                                         *)
(* On a terminal phrases come from the editor.  Otherwise standard input is *)
(* a pipe, into which somebody writes lines and then closes it.  The       *)
(* password reader takes a line byte by byte.  Each call for a phrase has a *)
(* bufio.Scanner of its own, which reads what is in the pipe and, when the *)
(* call returns, is dropped with the lines in it.                          *)
(***************************************************************************)
EXTENDS Editor, FiniteSets

CONSTANTS
    Attempts,     \* guesses at the password, and at the response
    Lines,        \* what may be written: sequences of tokens
    MaxLines,     \* bound: lines written
    PasswordLine, \* the right password
    Right,        \* the bytes of the right response
    None          \* no phrase yet

ASSUME PromptAssumption ==
    /\ Attempts \in Nat \ {0} /\ PasswordLine \in Lines
    /\ \A line \in Lines : Len(line) \in Nat
    /\ None \notin Seq(Word)

VARIABLES
    program, \* "vault" or "warden"
    keys,    \* standard input is a terminal
    pc, tries,
    written, \* the lines written to standard input
    closed,  \* and no more will be
    next,    \* the number of the line the next prompt will see
    ahead,   \* how many lines the process has read
    value,   \* the bytes of the last phrase, and its words
    phrase,
    given,   \* history: the lines that came to a prompt
    early    \* history: the lines written before all others had come to one

loopVars == <<program, keys, pc, tries, value, phrase>>
pipeVars == <<written, closed, next, ahead, given, early>>
vars == <<editorVars, loopVars, pipeVars>>

TypeOK ==
    /\ EditorTypeOK
    /\ program \in {"vault", "warden"} /\ keys \in BOOLEAN
    /\ pc \in {"password", "phrase", "accepted", "gaveup", "failed"}
    /\ tries \in 0..Attempts - 1
    /\ written \in Seq(Lines) /\ closed \in BOOLEAN
    /\ ahead \in 0..Len(written) /\ next \in 1..ahead + 1
    /\ given \subseteq 1..ahead /\ early \subseteq 1..Len(written)

Init ==
    /\ InitEditor
    /\ program \in {"vault", "warden"} /\ keys \in BOOLEAN
    /\ pc = "password" \/ (pc = "phrase" /\ program = "warden")
    /\ tries = 0
    /\ written = <<>> /\ closed = FALSE /\ next = 1 /\ ahead = 0
    /\ value = None /\ phrase = None
    /\ given = {} /\ early = {}

-----------------------------------------------------------------------------
(* Whoever writes to the pipe. *)

Write(line) ==
    /\ ~keys /\ ~closed /\ Len(written) < MaxLines
    /\ written' = Append(written, line)
    /\ early' = IF next = Len(written) + 1 THEN early ELSE early \cup {Len(written) + 1}
    /\ UNCHANGED <<closed, next, ahead, given, loopVars, editorVars>>

Close ==
    /\ ~keys /\ ~closed
    /\ closed' = TRUE
    /\ UNCHANGED <<written, next, ahead, given, early, loopVars, editorVars>>

-----------------------------------------------------------------------------
(* The loops of unlockMeta, handshake and unlockWarden. *)

\* One more wrong guess, after which there may be no other.
Wrong ==
    IF tries + 1 < Attempts
    THEN tries' = tries + 1 /\ pc' = pc
    ELSE pc' = "gaveup" /\ tries' = tries

Password(right) ==
    /\ IF right THEN pc' = "phrase" /\ tries' = 0 ELSE Wrong
    /\ UNCHANGED <<program, keys, value, phrase, editorVars>>

\* A password typed at a terminal; the end of the terminal's input is an error.
TypePassword ==
    /\ keys /\ pc = "password"
    /\ \/ \E right \in BOOLEAN : Password(right)
       \/ pc' = "failed" /\ UNCHANGED <<program, keys, tries, value, phrase, editorVars>>
    /\ UNCHANGED pipeVars

\* FAULT: a buffer, dropped after the line.
FaultBufferedLine == Len(written)

\* readLine has read as far as the end of the line it returns.
ReadSoFar == next

ReadLine ==
    /\ ~keys /\ pc = "password" /\ next <= Len(written)
    /\ Password(written[next] = PasswordLine)
    /\ ahead' = ReadSoFar /\ next' = ahead' + 1
    /\ given' = given \cup {next}
    /\ UNCHANGED <<written, closed, early>>

\* At the end of input readLine returns what it has: an empty password.
ReadLineAtEnd ==
    /\ ~keys /\ pc = "password" /\ next > Len(written) /\ closed
    /\ Password(PasswordLine = <<>>)
    /\ UNCHANGED pipeVars

-----------------------------------------------------------------------------
(* linePhrase. *)

\* The Scanner has no line left and reads what there is.
Fill ==
    /\ ~keys /\ pc = "phrase" /\ Collecting
    /\ next > ahead /\ ahead < Len(written)
    /\ ahead' = Len(written)
    /\ UNCHANGED <<written, closed, next, given, early, loopVars, editorVars>>

\* FAULT: the number of words is not looked at.
FaultAnyNumber(line) == Normalizes(line)

\* A line with words that are unknown or ambiguous, or too many, is refused whole.
Fits(line) == Normalizes(line) /\ Len(line) <= WantWords - Len(words)

TakeLine ==
    /\ ~keys /\ pc = "phrase" /\ Collecting
    /\ next <= ahead
    /\ words' = IF Fits(written[next]) THEN words \o Normalize(written[next]) ELSE words
    /\ next' = next + 1
    /\ given' = given \cup {next}
    /\ UNCHANGED <<written, closed, ahead, early, loopVars, slotVars, inbuf>>

\* FAULT: the end of input is taken for an empty line.
FaultEndIsEmptyLine ==
    /\ ~keys /\ pc = "phrase" /\ Collecting
    /\ next > Len(written) /\ closed
    /\ UNCHANGED vars

\* The end of input is an error, and the program's.
EndOfInput ==
    /\ ~keys /\ pc = "phrase" /\ Collecting
    /\ next > Len(written) /\ closed
    /\ pc' = "failed"
    /\ UNCHANGED <<program, keys, tries, value, phrase, pipeVars, editorVars>>

-----------------------------------------------------------------------------
(* interactivePhrase. *)

EditorKey ==
    /\ keys /\ pc = "phrase"
    /\ EditorStep
    /\ UNCHANGED <<loopVars, pipeVars>>

\* Ctrl-C, or the terminal is gone.
Abort ==
    /\ keys /\ pc = "phrase"
    /\ \/ Key({"^C"})
       \/ inbuf = <<>> /\ Collecting /\ UNCHANGED inbuf
    /\ pc' = "failed"
    /\ UNCHANGED <<program, keys, tries, value, phrase, pipeVars, words, slotVars>>

-----------------------------------------------------------------------------
\* All the words are there.  If they are no phrase, the same reader starts over.
\* If they are, the call returns, and what its reader holds is lost.  The warden
\* answers any challenge; the vault tries the response.
DecodePhrase ==
    /\ pc = "phrase" /\ ~Collecting
    /\ IF ~Decodes(words)
       THEN /\ words' = <<>>
            /\ UNCHANGED <<slotVars, inbuf, loopVars, next>>
       ELSE /\ value' = Decode(words) /\ phrase' = words
            /\ FreshEditor /\ next' = ahead + 1
            /\ IF program = "warden" \/ value' = Right
               THEN pc' = "accepted" /\ tries' = tries
               ELSE Wrong
            /\ UNCHANGED <<program, keys>>
    /\ UNCHANGED <<written, closed, ahead, given, early>>

\* What the process does with a pipe.
PipeStep ==
    \/ ReadLine \/ ReadLineAtEnd
    \/ Fill \/ TakeLine \/ EndOfInput
    \/ ~keys /\ DecodePhrase

Next ==
    \/ PipeStep
    \/ \E line \in Lines : Write(line)
    \/ Close
    \/ TypePassword \/ EditorKey \/ Abort
    \/ keys /\ DecodePhrase

Spec == Init /\ [][Next]_vars

\* The process goes on as long as it has something to read.
FairSpec == Spec /\ WF_vars(PipeStep)

-----------------------------------------------------------------------------
(* Properties. *)

\* The password prompt, which reads through no buffer, leaves every later line
\* to the prompts behind it; a line is lost only behind a phrase that was
\* returned, and only if it was written before it was asked for.  (So one pipe
\* may feed a password and a phrase, but a second guess at the response gets
\* lost unless its writer waits for the prompt.)
LinesReachTheirPrompt ==
    \A i \in 1..next - 1 : i \in given \/ (phrase # None /\ i \in early)

\* No phrase stands for bytes that another phrase stands for: what was decoded,
\* from a pipe or a terminal, encodes to the words that were given.
PhraseIsCanonical ==
    phrase # None => Encodes(value) /\ Encode(value) = phrase

\* A pipe that is closed, at whatever point, ends the program: a password prompt
\* that reads empty lines at its end does so Attempts times only, and a phrase
\* prompt does not ask for ever.
EndOfInputEnds ==
    closed ~> pc \in {"accepted", "gaveup", "failed"}
=============================================================================
