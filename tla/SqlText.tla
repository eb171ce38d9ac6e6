------------------------------- MODULE SqlText -------------------------------
(***************************************************************************)
(* splitSQL of templates.go: a rendered template is cut into statements by *)
(* looking at lines and semicolons only, never at quotes.  Text is a       *)
(* sequence of tokens; white space between them is left out, as            *)
(* strings.Fields brings it back to one blank.                             *)
(***************************************************************************)
EXTENDS Naturals, SequencesExt

\* "quote" is ', "dashes" is --.
Tokens == {"word", "quote", "dashes", "semicolon", "newline"}

NonEmpty(parts) == SelectSeq(parts, LAMBDA part : part # <<>>)

\* strings.Split, token by token.
CutAt(separator, parts, token) ==
    IF token = separator THEN Append(parts, <<>>)
    ELSE [parts EXCEPT ![Len(parts)] = Append(@, token)]

Split(text, separator) ==
    LET parts[k \in 0..Len(text)] ==
            IF k = 0 THEN << <<>> >> ELSE CutAt(separator, parts[k - 1], text[k])
    IN  parts[Len(text)]

\* sqlComment, on a line that is not empty.
IsComment(line) == line[1] = "dashes"

\* Variant: a line is dropped when a comment is anywhere in it.
KeptUncommented(line) == line # <<>> /\ \A k \in DOMAIN line : line[k] # "dashes"

Kept(line) == line # <<>> /\ ~IsComment(line)

\* The loop over the lines, clean[k] after k of them.
KeepLine(clean, line) == IF Kept(line) THEN clean \o line ELSE clean

Cleaned(lines) ==
    LET clean[k \in 0..Len(lines)] ==
            IF k = 0 THEN <<>> ELSE KeepLine(clean[k - 1], lines[k])
    IN  clean[Len(lines)]

\* Lines are cleaned of comments first, then the rest is cut at semicolons.
SplitSQL(text) == NonEmpty(Split(Cleaned(Split(text, "newline")), "semicolon"))

-----------------------------------------------------------------------------
\* What the server's lexer would make of the same text.

LexStep(lexer, token) ==
    LET goto(mode) == [lexer EXCEPT !.mode = mode]
        take == [lexer EXCEPT !.statements[Len(lexer.statements)] = Append(@, token)] IN
    CASE lexer.mode = "comment" -> IF token = "newline" THEN goto("code") ELSE lexer
      [] lexer.mode = "literal" -> IF token = "quote" THEN [take EXCEPT !.mode = "code"] ELSE take
      [] lexer.mode = "code" ->
         CASE token = "dashes"    -> goto("comment")
           [] token = "quote"     -> [take EXCEPT !.mode = "literal"]
           [] token = "semicolon" -> [lexer EXCEPT !.statements = Append(@, <<>>)]
           [] token = "newline"   -> lexer
           [] OTHER               -> take

Scanned(text) ==
    LET lexer[k \in 0..Len(text)] ==
            IF k = 0 THEN [mode |-> "code", statements |-> << <<>> >>]
            ELSE LexStep(lexer[k - 1], text[k])
    IN  lexer[Len(text)]

Lexed(text) == NonEmpty(Scanned(text).statements)

\* The quote is open in front of the token at k.
Quoted(line, k) == Cardinality({j \in 1..k - 1 : line[j] = "quote"}) % 2 = 1

(***************************************************************************)
(* How the templates are written and what randomPassword and quoteIdent    *)
(* put into them: a comment has a line of its own, a literal ends on its   *)
(* line, and no literal contains a semicolon.  It may contain "--": the    *)
(* password alphabet of names.go has the hyphen.                           *)
(***************************************************************************)
WellLaidOut(line) ==
    \/ line # <<>> /\ IsComment(line)
    \/ /\ ~Quoted(line, Len(line) + 1)
       /\ \A k \in DOMAIN line : /\ line[k] = "dashes"    => Quoted(line, k)
                                 /\ line[k] = "semicolon" => ~Quoted(line, k)

IsTemplate(text) == LET lines == Split(text, "newline") IN
                    \A k \in DOMAIN lines : WellLaidOut(lines[k])
=============================================================================
