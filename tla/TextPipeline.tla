---------------------------- MODULE TextPipeline ----------------------------
(***************************************************************************)
(* A module's way through its textual form: a tree, as a producer or an    *)
(* earlier parse made it, is formatted, and the text is lexed, parsed one  *)
(* statement at a time and converted to values, as `axiom fmt`, `check`    *)
(* and `run` do one after the other.  A text may also have been written by *)
(* hand.                                                                   *)
(***************************************************************************)
EXTENDS Grammar

CONSTANTS Modules, \* the trees: [name, version, stmts]
          Texts    \* texts that the formatter did not write

VARIABLES
  source, \* the tree that is formatted, or Nameless
  phase,  \* what is to be done next, or how it ended
  text,   \* the canonical text, as atoms
  tokens, \* what the lexer made of it
  at,     \* the parser's position
  parsed  \* the tree so far

textVars == <<source, phase, text, tokens, at, parsed>>

Phases == {"format", "lex", "header", "stmts", "convert",
           "converted", "refused", "rejected", "panicked"}

Nameless == [name |-> <<>>, version |-> <<>>, stmts |-> <<>>]

TextInit ==
  /\ \/ source \in Modules /\ phase = "format" /\ text = <<>>
     \/ source = Nameless /\ phase = "lex" /\ text \in Texts
  /\ tokens = <<>>
  /\ at = 1
  /\ parsed = Nameless

\* format_module
Format ==
  /\ phase = "format"
  /\ text' = FormatModule(source)
  /\ phase' = "lex"
  /\ UNCHANGED <<source, tokens, at, parsed>>

\* Lexer::lex: refused when any character is unexpected.
Lex ==
  /\ phase = "lex"
  /\ tokens' = LexAll(text)
  /\ phase' = IF \E i \in DOMAIN tokens' : tokens'[i].k = "unexpected"
              THEN "refused" ELSE "header"
  /\ UNCHANGED <<source, text, at, parsed>>

\* A diagnostic ends the call.
Diagnosed(results) ==
  /\ results = {}
  /\ phase' = "refused"
  /\ UNCHANGED <<source, text, tokens, at, parsed>>

\* Parser::parse up to its loop.
Header ==
  LET results == ParseHeader(tokens, SkipNewlines(tokens, at))
  IN /\ phase = "header"
     /\ \/ Diagnosed(results)
        \/ \E r \in results :
             /\ phase' = "stmts"
             /\ at' = SkipNewlines(tokens, r.at)
             /\ parsed' = [Nameless EXCEPT !.name = r.out.name,
                                           !.version = r.out.version]
             /\ UNCHANGED <<source, text, tokens>>

\* One iteration of the loop.  Nothing demands a line end after a statement.
Statement ==
  LET results == ParseStmt(tokens, at)
  IN /\ phase = "stmts"
     /\ tokens[at].k # "eof"
     /\ \/ Diagnosed(results)
        \/ \E r \in results :
             /\ at' = SkipNewlines(tokens, r.at)
             /\ parsed' = [parsed EXCEPT !.stmts = Append(@, r.out)]
             /\ UNCHANGED <<source, phase, text, tokens>>

\* A plausible bug: the loop ends after any statement.
ParsedEarly ==
  /\ phase = "stmts"
  /\ phase' = "convert"
  /\ UNCHANGED <<source, text, tokens, at, parsed>>

Parsed ==
  /\ phase = "stmts"
  /\ tokens[at].k = "eof"
  /\ phase' = "convert"
  /\ UNCHANGED <<source, text, tokens, at, parsed>>

\* Execution converts the statements and ends with the first that has no value,
\* in a build with overflow checks or in one without.
Convert ==
  \E checked \in BOOLEAN :
    LET outcome == ConvertModule(parsed.stmts, checked)
    IN /\ phase = "convert"
       /\ phase' = CASE outcome = "error" -> "rejected"
                     [] outcome = "panic" -> "panicked"
                     [] OTHER -> "converted"
       /\ UNCHANGED <<source, text, tokens, at, parsed>>

TextNext == Format \/ Lex \/ Header \/ Statement \/ Parsed \/ Convert

TextSpec == TextInit /\ [][TextNext]_textVars

=============================================================================
