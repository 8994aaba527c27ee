------------------------------- MODULE Lexer -------------------------------
(***************************************************************************)
(* The token stream under the parser (core/parser.c): lexer_getc and       *)
(* lexer_next, called until they give no token.  A file is a sequence of   *)
(* character classes, and a token is told by where it is in the file.      *)
(***************************************************************************)
EXTENDS Integers, Sequences, FiniteSets

CONSTANTS
    TokenMax,   \* TOKEN_MAX, the size of the token buffer
    MaxLength   \* bound on the length of the file

ASSUME TokenAssumption == TokenMax \in Nat \ {0}
ASSUME LengthAssumption == MaxLength \in Nat

\* A line break, any other white space, '#', and every other character.
Classes == {"newline", "blank", "hash", "other"}
EOF == "eof"
Space == {"newline", "blank"}

VARIABLES
    file,       \* what fgetc will return, position by position
    pos,        \* characters read so far
    lineNo,     \* lexer->line
    c,          \* the local "c" of lexer_next
    len,        \* the local "len"
    tokens,     \* the tokens returned: first and last position of each
    lexerPc     \* "skip", "comment", "token", "returned", "too long", "end"

lexerVars == <<file, pos, lineNo, c, len, tokens, lexerPc>>

LexerInit ==
    /\ \E n \in 0 .. MaxLength : file \in [1 .. n -> Classes]
    /\ pos = 0
    /\ lineNo = 1
    /\ c = EOF
    /\ len = 0
    /\ tokens = <<>>
    /\ lexerPc = "skip"

Char(p) == IF p \in DOMAIN file THEN file[p] ELSE EOF

\* lexer_getc: the line is counted when its line break is read.
Getc ==
    /\ c' = Char(pos + 1)
    /\ pos' = IF pos < Len(file) THEN pos + 1 ELSE pos
    /\ lineNo' = IF c' = "newline" THEN lineNo + 1 ELSE lineNo

\* Where a character leads that starts neither white space nor a comment:
\* the token buffer takes it and the next one is read.
SkipSpace ==
    /\ lexerPc = "skip"
    /\ Getc
    /\ lexerPc' = IF c' = EOF THEN "end"
                  ELSE IF c' = "hash" THEN "comment"
                  ELSE IF c' \in Space THEN "skip" ELSE "token"
    /\ len' = 0
    /\ UNCHANGED <<file, tokens>>

\* Defect: a comment runs to the next white space.
CommentToSpace == c' \in Space
CommentOver == c' = "newline"

SkipComment ==
    /\ lexerPc = "comment"
    /\ Getc
    /\ lexerPc' = IF c' = EOF THEN "end" ELSE IF CommentOver THEN "skip" ELSE "comment"
    /\ UNCHANGED <<file, len, tokens>>

BufferFull == len + 1 >= TokenMax

AppendChar ==
    /\ lexerPc = "token" /\ c # EOF /\ c \notin Space
    /\ IF BufferFull
         THEN lexerPc' = "too long" /\ UNCHANGED <<c, pos, lineNo, len>>
         ELSE len' = len + 1 /\ Getc /\ UNCHANGED lexerPc
    /\ UNCHANGED <<file, tokens>>

LastOfToken == IF c = EOF THEN pos ELSE pos - 1

LineOfToken == IF c = "newline" THEN lineNo - 1 ELSE lineNo

\* A line break that ends a token is taken back from the count.
EndToken ==
    /\ lexerPc = "token" /\ (c = EOF \/ c \in Space)
    /\ lineNo' = LineOfToken
    /\ tokens' = Append(tokens, [first |-> LastOfToken - len + 1, last |-> LastOfToken])
    /\ lexerPc' = "returned"
    /\ UNCHANGED <<file, pos, c, len>>

\* The parser asks for the next token.
NextToken ==
    /\ lexerPc = "returned"
    /\ lexerPc' = "skip"
    /\ UNCHANGED <<file, pos, lineNo, c, len, tokens>>

NoToken == lexerPc \in {"too long", "end"} /\ UNCHANGED lexerVars

Read == SkipSpace \/ SkipComment \/ AppendChar \/ EndToken \/ NextToken
LexerNext == Read \/ NoToken

LexerSpec == LexerInit /\ [][LexerNext]_lexerVars

-----------------------------------------------------------------------------
(* Correctness *)

\* What the format says of a file, without a lexer: where an item starts, what
\* lies in a comment, and which stretches are tokens.
Starts(p) == file[p] \notin Space /\ (p = 1 \/ file[p - 1] \in Space)
InComment(p) ==
    \E q \in 1 .. p :
        Starts(q) /\ file[q] = "hash" /\ \A x \in q .. p - 1 : file[x] # "newline"
IsToken(t) ==
    /\ Starts(t.first) /\ ~InComment(t.first)
    /\ \A x \in t.first .. t.last : file[x] \notin Space
    /\ t.last = Len(file) \/ file[t.last + 1] \in Space
Stretches == [first : 1 .. Len(file), last : 1 .. Len(file)]
TokensOfFile == {t \in Stretches : t.first <= t.last /\ IsToken(t)}

\* The lexer finds the tokens of the file, all of them up to where it is, and
\* in their order, with comments and white space in any arrangement;
\* and it refuses a token only when the buffer cannot hold it.
FindsAllTokens ==
    /\ \A n, k \in DOMAIN tokens : n < k => tokens[n].last < tokens[k].first
    /\ {tokens[n] : n \in DOMAIN tokens} \subseteq TokensOfFile
    /\ lexerPc = "end" => TokensOfFile \subseteq {tokens[n] : n \in DOMAIN tokens}
    /\ \A n \in DOMAIN tokens : tokens[n].last - tokens[n].first + 1 < TokenMax
    /\ lexerPc = "too long" =>
           \E t \in TokensOfFile : t.last >= pos /\ t.last - t.first + 1 >= TokenMax

\* The line a position is on.
LineOf(p) ==
    1 + Cardinality({q \in 1 .. p - 1 : file[q] = "newline"})

\* The diagnostic about a token, "path:line: message", names the line the token is
\* on.  It does until a line break first ends a token: that break is taken back
\* from the count for good.
MessageNamesLine ==
    lexerPc = "returned" => lineNo = LineOf(tokens[Len(tokens)].first)

=============================================================================
