-------------------------------- MODULE Yenc --------------------------------
(***************************************************************************)
(* The yEnc encoder of src/src/yenc/yenc.{hpp,cc}: encode_block turns the  *)
(* bytes of one part of a file into lines.  A step encodes one byte or     *)
(* ends a line.  Definitions whose comment begins with "Defect" are not    *)
(* part of the model: they are the same code with one mistake.             *)
(***************************************************************************)
EXTENDS Integers, Sequences

CONSTANT LineLength   \* linelength; fileset.cc passes 128

ASSUME LineAssumption == LineLength \in Nat \ {0}

VARIABLES
  input,   \* first..last: the bytes still to be encoded
  line,    \* what is written of the current line; linepos is its length
  lines    \* the lines written before it, without their CRLF

encoder == <<input, line, lines>>

Byte == 0..255

NUL == 0
TAB == 9
LF == 10
CR == 13
SPACE == 32
DOT == 46
ESCAPE == 61     \* '='
KEYWORD == 121   \* 'y': a line that begins with "=y" is not data

\* Defect: SPACE and TAB are not looked at where the line ends.
NeedsEscapingAtStart(c, linepos) ==
  \/ c \in {NUL, CR, LF, ESCAPE}
  \/ c \in {SPACE, TAB, DOT} /\ linepos = 0

\* Defect: a dot at the start of a line is like any other.
NeedsEscapingButDot(c, linepos) ==
  \/ c \in {NUL, CR, LF, ESCAPE}
  \/ c \in {SPACE, TAB} /\ linepos \in {0, LineLength - 1}

NeedsEscaping(c, linepos) ==
  \/ c \in {NUL, CR, LF, ESCAPE}
  \/ c \in {SPACE, TAB} /\ linepos \in {0, LineLength - 1}
  \/ c = DOT /\ linepos = 0

Shifted(b) == (b + 42) % 256

\* Defect: the escaped byte is not shifted a second time.
EscapedOnly(b, linepos) ==
  LET c == Shifted(b)
  IN IF NeedsEscaping(c, linepos) THEN <<ESCAPE, c>> ELSE <<c>>

Encoded(b, linepos) ==
  LET c == Shifted(b)
  IN IF NeedsEscaping(c, linepos) THEN <<ESCAPE, (c + 64) % 256>> ELSE <<c>>

EncodeByte ==
  /\ input # <<>>
  /\ Len(line) < LineLength
  /\ line' = line \o Encoded(Head(input), Len(line))
  /\ input' = Tail(input)
  /\ UNCHANGED lines

EndLine ==
  /\ line # <<>>
  /\ Len(line) >= LineLength \/ input = <<>>
  /\ lines' = Append(lines, line)
  /\ line' = <<>>
  /\ UNCHANGED input

BlockEncoded == input = <<>> /\ line = <<>>

-----------------------------------------------------------------------------
(* What a reader of the lines relies on.                                    *)

\* Nothing in a line means something to a server or to a transport: no NUL, no end of
\* line, nothing before which a dot would have to be doubled, no blank that is
\* cut off at the start, and no keyword line.
Harmless(l) ==
  /\ l # <<>>
  /\ \A i \in 1..Len(l) : l[i] \notin {NUL, LF, CR}
  /\ l[1] \notin {DOT, SPACE, TAB}
  /\ l[1] = ESCAPE /\ Len(l) > 1 => l[2] # KEYWORD

\* A line that is not the last of its part: it has the full length, or one more
\* for an escape that begins in its last column, and no blank at its end.
Full(l) ==
  /\ Len(l) \in {LineLength, LineLength + 1}
  /\ l[Len(l)] \notin {SPACE, TAB}

\* A decoder, from the description of the format: '=' marks a byte to be moved
\* back by 64 more.
Decoded(l) ==
  LET from[i \in 1..(Len(l) + 2)] ==
        IF i > Len(l) THEN <<>>
        ELSE IF l[i] = ESCAPE /\ i < Len(l) THEN <<(l[i + 1] - 64 - 42) % 256>> \o from[i + 2]
        ELSE <<(l[i] - 42) % 256>> \o from[i + 1]
  IN from[1]
=============================================================================
