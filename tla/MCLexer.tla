----------------------------- MODULE MCLexer -----------------------------
(***************************************************************************)
(* Model-checking instance of Lexer: every source text of up to three      *)
(* characters over an alphabet that reaches every branch of               *)
(* next_token_inner the alphabet names (one-, two- and three-character     *)
(* operators, "<<=", "...", "_" alone, digits inside and at the start of   *)
(* an identifier, whitespace runs), and every text of four characters     *)
(* over the ones that build the longer cases: "<<=" or "..." next to       *)
(* another token, "a::a", whitespace between tokens.  The texts of the     *)
(* module's unit tests, up to nine characters, are added, and words at the *)
(* ends of the strict and reserved keyword sections, a weak keyword and a  *)
(* keyword next to a new identifier.                                       *)
(***************************************************************************)
EXTENDS Lexer

MCWords == {<<"a", "s">>, <<"w", "h", "i", "l", "e">>, <<"d", "o">>,
            <<"a", "b", "s", "t", "r", "a", "c", "t">>, <<"y", "i", "e", "l", "d">>,
            <<"u", "n", "i", "o", "n">>, <<"S", "e", "l", "f">>, <<"a", " ", "a", "s">>}

MCAlphabet == {"<", "=", ">", "-", ".", ":", "!", "a", "_", "1", " "}
MCInputs   == SeqOf(MCAlphabet, 3) \cup SeqOf({"<", "=", ".", ":", "a", " "}, 4)
              \cup {t[1] : t \in UnitTests} \cup MCWords

(* Texts over the Pound token #, an identifier character and a blank.     *)
MCTokenInputs == SeqOf({"#", "a", " "}, 2)

=============================================================================
