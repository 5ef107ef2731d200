-------------------------------- MODULE Lexer --------------------------------
(***************************************************************************)
(* lexer::Lexer (parsers/lexer.cpp): tokenize turns the text of a source   *)
(* into the types of its tokens.                                           *)
(*                                                                         *)
(* A text is a sequence of characters, a pattern a token type with the     *)
(* texts that its regular expression matches, none of them empty.  All     *)
(* patterns are joined with bars into one expression that ends with a bar: *)
(* its last, empty alternative matches where no pattern does.              *)
(***************************************************************************)
EXTENDS Naturals, Sequences, FiniteSets, SequencesExt

\* The lengths of the pattern's matches at a place of the text.
MatchLengths(pattern, text, place) ==
  {len \in 1..(Len(text) - place + 1) :
     SubSeq(text, place, place + len - 1) \in pattern.texts}

\* The alternatives are tried in the order of the grammar file.
FirstMatching(patterns, text, place) ==
  SelectInSeq(patterns, LAMBDA pattern : MatchLengths(pattern, text, place) # {})

\* A regular expression takes as much as it can.
LongestMatch(pattern, text, place) ==
  CHOOSE len \in MatchLengths(pattern, text, place) :
    \A other \in MatchLengths(pattern, text, place) : other <= len

\* A match becomes a token and is read over; a character that no pattern matches
\* is passed by without a word.
Tokenize(patterns, text) ==
  LET from[place \in 1..(Len(text) + 1)] ==
        IF place > Len(text) THEN <<>>
        ELSE LET first == FirstMatching(patterns, text, place)
             IN  IF first = 0 THEN from[place + 1]
                 ELSE <<patterns[first].type>>
                        \o from[place + LongestMatch(patterns[first], text, place)]
  IN  from[1]

=============================================================================
