------------------------------- MODULE Lexer -------------------------------
(***************************************************************************)
(* StringReader (src/src/parser2/lexer.rs): StringReader::new scans the    *)
(* first token into peek_tok/peek_span, every next_token() returns the     *)
(* peeked token and scans the next one.  The caller (assert_tokens, or a   *)
(* parser) calls next_token() or real_token() in any order and stops once  *)
(* it has received Eof; real_token() calls next_token() until the token is *)
(* not Whitespace.                                                         *)
(*                                                                         *)
(* Characters are one-character strings and ASCII, so a byte offset is a   *)
(* character index.  The reader's cursor is last_pos, the offset of curr;  *)
(* curr is the character there (EOF past the end) and pos, the offset of   *)
(* the next character, is last_pos + 1 or, at the end, last_pos.  A bump   *)
(* moves last_pos one character on.  A scan that bumps k times is          *)
(* modelled by its token and k.  An unimplemented!() or expect() on a path *)
(* ends the run with status "panicked".                                    *)
(***************************************************************************)
EXTENDS Naturals, Sequences, SequencesExt, FiniteSets

CONSTANTS
  Inputs   \* the source texts, sequences of one-character strings

VARIABLES
  src,        \* source_text
  last_pos,   \* offset of curr
  peek_tok,   \* the token next_token() returns next
  peek_span,  \* its span <<lo, hi>>
  toks,       \* what next_token() has returned: [tok, sp] records
  got,        \* what the caller received: [tok, sp, via] records
  status,     \* "lexing", "done" (Eof returned), "panicked"
  interner,   \* the strings the thread's IdentInterner holds after its prefill
  expected    \* auxiliary, not program state: the reference tokens of src

vars == <<src, last_pos, peek_tok, peek_span, toks, got, status, interner, expected>>

(* Tokens are triples of strings: kind, argument, identifier style.        *)
T(k)        == <<k, "", "">>
BinOp(op)   == <<"BinOp", op, "">>
BinOpEq(op) == <<"BinOpEq", op, "">>
Panicked    == T("panic")

(* curr / nextch at an offset: the character there, or EOF.                *)
At(o) == IF o < Len(src) THEN src[o + 1] ELSE "EOF"

(* The text of k characters from offset o.                                 *)
Text(o, k) == FoldLeft(LAMBDA x, y : x \o y, "", SubSeq(src, o + 1, o + k))

(* ident_start / ident_continue / is_whitespace over ASCII.                *)
Letters     == {"a", "b", "c", "d", "e", "f", "g", "h", "i", "j", "k", "l", "m",
                "n", "o", "p", "q", "r", "s", "t", "u", "v", "w", "x", "y", "z",
                "A", "B", "C", "D", "E", "F", "G", "H", "I", "J", "K", "L", "M",
                "N", "O", "P", "Q", "R", "S", "T", "U", "V", "W", "X", "Y", "Z"}
IdentStart(c)    == c \in Letters \cup {"_"}
IdentContinue(c) == c \in Letters \cup {"_", "0", "1", "9"}
IsWhitespace(c)  == c \in {" ", "\n", "\t", "\r"}
InClass(c, cls)  == IF cls = "ident" THEN IdentContinue(c) ELSE IsWhitespace(c)

(* The first offset at or after o whose character is not in class cls      *)
(* ("ident" or "ws"): where a "while is_<cls>(curr) { bump() }" loop stops. *)
RECURSIVE RunEnd(_, _)
RunEnd(o, cls) == IF InClass(At(o), cls) THEN RunEnd(o + 1, cls) ELSE o

(* Mutant: the whitespace loop bumps once more than it should.             *)
MutWsOverrun(lp) == RunEnd(lp, "ws") + 1

(* Whitespace scan, lines 390-392: bump while is_whitespace(curr).         *)
WsEnd(lp) == RunEnd(lp, "ws")

(* Identifier scan, lines 179-184: bump, then bump while ident_continue.   *)
IdentEnd(lp) == RunEnd(lp + 1, "ident")

Tok(t, k) == [tok |-> t, len |-> k]

(* Mutant: binop() does not look for the '=' of an op= token.             *)
MutBinopNoEq(lp, op, k) == [tok |-> BinOp(op), len |-> k]

(* binop(op), lines 151-159: a following '=' makes it the op= token.       *)
Binop(lp, op, k) ==
  IF At(lp + k) = "=" THEN [tok |-> BinOpEq(op), len |-> k + 1]
  ELSE [tok |-> BinOp(op), len |-> k]

Singles == [c \in {"@", ";", ",", "$", "#", "?", "(", ")", "{", "}", "[", "]"} |->
              CASE c = "@" -> T("At") [] c = ";" -> T("SemiColon")
                [] c = "," -> T("Comma") [] c = "$" -> T("Dollar")
                [] c = "#" -> T("Pound") [] c = "?" -> T("Question")
                [] c = "(" -> <<"OpenDelim", "Paren", "">>
                [] c = ")" -> <<"CloseDelim", "Paren", "">>
                [] c = "{" -> <<"OpenDelim", "Brace", "">>
                [] c = "}" -> <<"CloseDelim", "Brace", "">>
                [] c = "[" -> <<"OpenDelim", "Bracket", "">>
                [] c = "]" -> <<"CloseDelim", "Bracket", "">>]

(* The branches of next_token_inner on curr, lines 200-348.                *)
Punct(lp) ==
  LET c == At(lp)  c1 == At(lp + 1)  c2 == At(lp + 2)
  IN CASE c \in DOMAIN Singles -> Tok(Singles[c], 1)
       [] c = ":" -> IF c1 = ":" THEN Tok(T("ModSep"), 2) ELSE Tok(T("Colon"), 1)
       [] c = "." -> CASE c1 = "." /\ c2 = "." -> Tok(T("DotDotDot"), 3)
                       [] c1 = "."             -> Tok(T("DotDot"), 2)
                       [] OTHER                -> Tok(T("Dot"), 1)
       [] c = "=" -> CASE c1 = "=" -> Tok(T("EqEq"), 2)
                       [] c1 = ">" -> Tok(T("FatArrow"), 2)
                       [] OTHER    -> Tok(T("Eq"), 1)
       [] c = "!" -> IF c1 = "=" THEN Tok(T("Ne"), 2) ELSE Tok(T("Not"), 1)
       [] c = "<" -> CASE c1 = "=" -> Tok(T("Le"), 2)
                       [] c1 = "<" -> Binop(lp, "LShift", 2)
                       [] c1 = ">" -> Tok(T("Ne"), 2)
                       [] c1 = "-" -> Tok(T("LArrow"), 2)
                       [] OTHER    -> Tok(T("Lt"), 1)
       [] c = ">" -> CASE c1 = "=" -> Tok(T("Ge"), 2)
                       [] c1 = ">" -> Binop(lp, "RShift", 2)
                       [] OTHER    -> Tok(T("Gt"), 1)
       [] c = "-" -> IF c1 = ">" THEN Tok(T("RArrow"), 2)
                     ELSE Binop(lp, "Minus", 1)
       [] OTHER   -> Tok(Panicked, 0)

(* next_token_inner, lines 176-349: an identifier ("_" alone is            *)
(* Underscore; one followed by "::" is a ModName ident), else Punct.       *)
InnerToken(lp) ==
  IF IdentStart(At(lp))
  THEN LET e    == IdentEnd(lp)
           name == Text(lp, e - lp)
       IN  Tok(CASE name = "_" -> T("Underscore")
                 [] At(e) = ":" /\ At(e + 1) = ":" -> <<"Ident", name, "ModName">>
                 [] OTHER -> <<"Ident", name, "Plain">>, e - lp)
  ELSE Punct(lp)

(* advance_token, lines 351-368, with scan_whitespace_or_comment           *)
(* (385-401): '/' and '#' are unimplemented!(); a whitespace run is one    *)
(* Whitespace token; at EOF the token is Eof with an empty span at         *)
(* last_pos; else next_token_inner from last_pos.                          *)
Advance(lp) ==
  LET c == At(lp)
  IN  CASE c \in {"/", "#"} -> [tok |-> Panicked, sp |-> <<lp, lp>>, lp |-> lp]
        [] IsWhitespace(c) ->
             LET e == WsEnd(lp)
             IN  [tok |-> T("Whitespace"), sp |-> <<lp, e>>, lp |-> e]
        [] c = "EOF" -> [tok |-> T("Eof"), sp |-> <<lp, lp>>, lp |-> lp]
        [] OTHER ->
             LET r == InnerToken(lp)
             IN  [tok |-> r.tok, sp |-> <<lp, lp + r.len>>, lp |-> lp + r.len]

(* declare_keywords!, token.rs lines 249-314: the <<$index, $string>> rows *)
(* of each section; row 0 is the Invalid identifier "".                    *)
StrictKeywords ==
  << <<1, "as">>, <<2, "box">>, <<3, "break">>, <<4, "const">>, <<5, "continue">>,
     <<6, "crate">>, <<7, "else">>, <<8, "enum">>, <<9, "extern">>, <<10, "false">>,
     <<11, "fn">>, <<12, "for">>, <<13, "if">>, <<14, "impl">>, <<15, "import">>,
     <<16, "in">>, <<17, "let">>, <<18, "loop">>, <<19, "match">>, <<20, "mod">>,
     <<21, "move">>, <<22, "mut">>, <<23, "pub">>, <<24, "ref">>, <<25, "return">>,
     <<26, "self">>, <<27, "Self">>, <<28, "static">>, <<29, "struct">>,
     <<30, "super">>, <<31, "trait">>, <<32, "true">>, <<33, "type">>,
     <<34, "unsafe">>, <<35, "var">>, <<36, "where">>, <<37, "while">> >>
ReservedKeywords ==
  << <<38, "abstract">>, <<39, "alignof">>, <<40, "become">>, <<41, "do">>,
     <<42, "final">>, <<43, "macro">>, <<44, "offsetof">>, <<45, "override">>,
     <<46, "priv">>, <<47, "proc">>, <<48, "pure">>, <<49, "sizeof">>,
     <<50, "typeof">>, <<51, "unsized">>, <<52, "virtual">>, <<53, "yield">> >>
WeakKeywords == << <<54, "default">>, <<55, "'static">>, <<56, "union">> >>
KeywordTable ==
  << <<0, "">> >> \o StrictKeywords \o ReservedKeywords \o WeakKeywords

(* mk_fresh_ident_interner, lines 239-241: StrInterner::prefill with the   *)
(* strings in declaration order, so a prefilled string's Name is its row's *)
(* position.                                                               *)
Prefill == [i \in DOMAIN KeywordTable |-> KeywordTable[i][2]]

(* keywords::<Kw>.name(), lines 221-236: the Name($index) of the row.       *)
KwNames == [kw \in Range(Prefill) |-> (CHOOSE r \in Range(KeywordTable) : r[2] = kw)[1]]
KwName(kw) == KwNames[kw]

(* ast::Name (ast.rs 25-35): the index of a string in the interner table,  *)
(* which is Prefill followed by the strings interned since, fresh.         *)
PrefillNames == [w \in Range(Prefill) |-> SelectInSeq(Prefill, LAMBDA x : x = w) - 1]
NameOf(fresh, str) ==
  IF str \in DOMAIN PrefillNames THEN PrefillNames[str]
  ELSE Len(Prefill) - 1 + SelectInSeq(fresh, LAMBDA x : x = str)

(* A token the caller receives, with the Name an Ident token carries (-1   *)
(* for other tokens), read from the interner after the prefill, fresh.     *)
Received(t, sp, via, fresh) ==
  [tok |-> t, sp |-> sp, via |-> via,
   name |-> IF t[1] = "Ident" THEN NameOf(fresh, t[2]) ELSE -1]

(* str_to_ident (token.rs 452-456), which next_token_inner calls on an     *)
(* identifier's text (lexer.rs 186-196): intern returns the Name of a      *)
(* string already in the table and appends a new one.                     *)
Interned(fresh, tok) ==
  IF tok[1] = "Ident" /\ tok[2] \notin DOMAIN PrefillNames /\ ~Contains(fresh, tok[2])
  THEN Append(fresh, tok[2]) ELSE fresh

(* Token::is_keyword, token.rs lines 184-189.                              *)
IsKeyword(r, kw) == r.tok[1] = "Ident" /\ r.name = KwName(kw)

(* Mutant: the upper bound of the strict range is exclusive.               *)
MutStrictBelowWhile(r) ==
  r.tok[1] = "Ident" /\ r.name \in KwName("as")..(KwName("while") - 1)

(* Token::is_strict_keyword, lines 197-204: a Name from As to While.       *)
IsStrictKeyword(r) ==
  r.tok[1] = "Ident" /\ r.name \in KwName("as")..KwName("while")

(* Token::is_reserved_keyword, lines 206-212: from Abstract to Yield.      *)
IsReservedKeyword(r) ==
  r.tok[1] = "Ident" /\ r.name \in KwName("abstract")..KwName("yield")

(* Reference: longest match over the token set.  A lexeme is the text      *)
(* token_to_string (src/src/parser2/token.rs) gives a token, plus "<>" for *)
(* Ne, which test_tokens expects; identifiers and whitespace runs as the   *)
(* comments of ident_start/ident_continue/is_whitespace describe.          *)

BinOps == [o \in {"Plus", "Minus", "Star", "Slash", "Percent", "Caret",
                  "And", "Or", "LShift", "RShift"} |->
             CASE o = "Plus" -> "+" [] o = "Minus" -> "-" [] o = "Star" -> "*"
               [] o = "Slash" -> "/" [] o = "Percent" -> "%" [] o = "Caret" -> "^"
               [] o = "And" -> "&" [] o = "Or" -> "|" [] o = "LShift" -> "<<"
               [] o = "RShift" -> ">>"]

Lexemes ==
  {<<"=", T("Eq")>>, <<"<", T("Lt")>>, <<"<=", T("Le")>>, <<"==", T("EqEq")>>,
   <<"!=", T("Ne")>>, <<"<>", T("Ne")>>, <<">=", T("Ge")>>, <<">", T("Gt")>>,
   <<"!", T("Not")>>, <<"~", T("Tilde")>>, <<"||", T("OrOr")>>, <<"&&", T("AndAnd")>>,
   <<".", T("Dot")>>, <<"..", T("DotDot")>>, <<"...", T("DotDotDot")>>,
   <<":", T("Colon")>>, <<"::", T("ModSep")>>, <<"->", T("RArrow")>>,
   <<"<-", T("LArrow")>>, <<"=>", T("FatArrow")>>}
  \cup {<<c, Singles[c]>> : c \in DOMAIN Singles}
  \cup {<<BinOps[o], BinOp(o)>> : o \in DOMAIN BinOps}
  \cup {<<BinOps[o] \o "=", BinOpEq(o)>> : o \in DOMAIN BinOps}

LexemeTexts == {l[1] : l \in Lexemes}

(* The reference reads a text s directly, with helpers of its own.        *)
RAt(s, o) == IF o < Len(s) THEN s[o + 1] ELSE "EOF"
RText(s, o, k) == FoldLeft(LAMBDA x, y : x \o y, "", SubSeq(s, o + 1, o + k))
RECURSIVE RRunEnd(_, _, _)
RRunEnd(s, o, cls) == IF InClass(RAt(s, o), cls) THEN RRunEnd(s, o + 1, cls) ELSE o

(* The longest lexeme at offset o (at most 3 characters), 0 if none.       *)
LongestAt(s, o) ==
  LET ks == {k \in 1..3 : o + k <= Len(s) /\ RText(s, o, k) \in LexemeTexts}
  IN  IF ks = {} THEN 0 ELSE Max(ks)

RefTok(s, o, k) == CHOOSE t \in {l[2] : l \in Lexemes} : <<RText(s, o, k), t>> \in Lexemes

(* The token stream of s from offset o up to Eof, or ending in T("error"). *)
RECURSIVE RefLex(_, _)
RefLex(s, o) ==
  LET c == RAt(s, o)
      Emit(t, e) == <<[tok |-> t, sp |-> <<o, e>>]>> \o RefLex(s, e)
  IN  CASE o >= Len(s) -> <<[tok |-> T("Eof"), sp |-> <<o, o>>]>>
        [] IsWhitespace(c) -> Emit(T("Whitespace"), RRunEnd(s, o, "ws"))
        [] IdentStart(c) ->
             LET e == RRunEnd(s, o, "ident")
                 name == RText(s, o, e - o)
             IN  Emit(CASE name = "_" -> T("Underscore")
                        [] RAt(s, e) = ":" /\ RAt(s, e + 1) = ":" -> <<"Ident", name, "ModName">>
                        [] OTHER -> <<"Ident", name, "Plain">>, e)
        [] LongestAt(s, o) > 0 -> Emit(RefTok(s, o, LongestAt(s, o)), o + LongestAt(s, o))
        [] OTHER -> <<[tok |-> T("error"), sp |-> <<o, o>>]>>

(* Each call consumes at least one character or returns Eof, so the loop   *)
(* of assert_tokens makes at most this many calls.                         *)
TokenBound == Len(src) + 1

(* StringReader::new, lines 99-111: curr = '\n', one bump (last_pos = 0,   *)
(* curr = the first character), then advance_token.                        *)
Init ==
  /\ src \in Inputs
  /\ expected = RefLex(src, 0)
  /\ toks = << >>
  /\ got = << >>
  /\ LET a == Advance(0)
     IN  /\ last_pos = a.lp
         /\ peek_tok = a.tok
         /\ peek_span = a.sp
         /\ status = IF a.tok = Panicked THEN "panicked" ELSE "lexing"
         /\ interner = Interned(<< >>, a.tok)

(* One next_token() call, lines 57-64: return the peeked token and scan   *)
(* the next one; lp, peek and sp are the reader after it.                  *)
Scan(lp, peek, sp) ==
  LET a == Advance(lp) IN [ret |-> [tok |-> peek, sp |-> sp], lp |-> a.lp, tok |-> a.tok, sp |-> a.sp]

(* Mutant: next_token returns the peeked token without advancing.          *)
MutNextTokenNoAdvance ==
  /\ status = "lexing"
  /\ Len(toks) < TokenBound
  /\ toks' = Append(toks, [tok |-> peek_tok, sp |-> peek_span])
  /\ got' = Append(got, Received(peek_tok, peek_span, "next", interner))
  /\ status' = IF peek_tok = T("Eof") THEN "done" ELSE "lexing"
  /\ UNCHANGED <<src, last_pos, peek_tok, peek_span, interner, expected>>

(* The caller's next_token() call: an advance that panics ends the run.   *)
NextToken ==
  /\ status = "lexing"
  /\ Len(toks) < TokenBound
  /\ LET s1 == Scan(last_pos, peek_tok, peek_span)
     IN  /\ interner' = Interned(interner, s1.tok)
         /\ IF s1.tok = Panicked
            THEN /\ status' = "panicked"
                 /\ UNCHANGED <<last_pos, peek_tok, peek_span, toks, got>>
            ELSE /\ toks' = Append(toks, s1.ret)
                 /\ got' = Append(got, Received(s1.ret.tok, s1.ret.sp, "next", interner'))
                 /\ last_pos' = s1.lp
                 /\ peek_tok' = s1.tok
                 /\ peek_span' = s1.sp
                 /\ status' = IF s1.ret.tok = T("Eof") THEN "done" ELSE "lexing"
  /\ UNCHANGED <<src, expected>>

(* Mutant: real_token returns the first token, Whitespace included.        *)
MutRealTokenNoSkip ==
  /\ status = "lexing"
  /\ Len(toks) < TokenBound
  /\ LET s1 == Scan(last_pos, peek_tok, peek_span)
     IN  /\ interner' = Interned(interner, s1.tok)
         /\ IF s1.tok = Panicked
            THEN /\ status' = "panicked"
                 /\ UNCHANGED <<last_pos, peek_tok, peek_span, toks, got>>
            ELSE /\ toks' = Append(toks, s1.ret)
                 /\ got' = Append(got, Received(s1.ret.tok, s1.ret.sp, "real", interner'))
                 /\ last_pos' = s1.lp
                 /\ peek_tok' = s1.tok
                 /\ peek_span' = s1.sp
                 /\ status' = IF s1.ret.tok = T("Eof") THEN "done" ELSE "lexing"
  /\ UNCHANGED <<src, expected>>

(* real_token, lines 79-90 (and the trait default, 25-36), given the      *)
(* first next_token() call s1 and the one after it, s2: while the token is *)
(* Whitespace, next_token() again.  A whitespace scan stops at a character *)
(* that is not whitespace, so the loop runs at most twice.  Either advance *)
(* may panic.                                                              *)
RealTokenFrom(s1, s2) ==
  LET ws  == s1.ret.tok = T("Whitespace")
      fin == IF ws THEN s2 ELSE s1
  IN  /\ interner' = IF ws THEN Interned(Interned(interner, s1.tok), s2.tok)
                     ELSE Interned(interner, s1.tok)
      /\ IF s1.tok = Panicked \/ (ws /\ s2.tok = Panicked)
         THEN /\ status' = "panicked"
              /\ UNCHANGED <<last_pos, peek_tok, peek_span, toks, got>>
         ELSE /\ toks' = toks \o (IF ws THEN <<s1.ret, s2.ret>> ELSE <<s1.ret>>)
              /\ got' = Append(got, Received(fin.ret.tok, fin.ret.sp, "real", interner'))
              /\ last_pos' = fin.lp
              /\ peek_tok' = fin.tok
              /\ peek_span' = fin.sp
              /\ status' = IF fin.ret.tok = T("Eof") THEN "done" ELSE "lexing"

(* The two calls real_token may make, the second from the reader the first *)
(* leaves.                                                                 *)
RealTokenAfter(s1) == RealTokenFrom(s1, Scan(s1.lp, s1.tok, s1.sp))

RealToken ==
  /\ status = "lexing"
  /\ Len(toks) < TokenBound
  /\ RealTokenAfter(Scan(last_pos, peek_tok, peek_span))
  /\ UNCHANGED <<src, expected>>

Next == NextToken \/ RealToken

Spec == Init /\ [][Next]_vars /\ WF_vars(Next)

(* test_tokens and test_idents, lines 452-497: the source texts with the *)
(* tokens assert_tokens expects next_token() to return before Eof.        *)
Delim(k, d) == <<k, d, "">>
UnitTests ==
  {<<<<"@", ":", ";", ",", ".", "$", "?">>,
     <<T("At"), T("Colon"), T("SemiColon"), T("Comma"), T("Dot"), T("Dollar"), T("Question")>>>>,
   <<<<".", ".", ".", ".">>, <<T("DotDotDot"), T("Dot")>>>>,
   <<<<"{", "(", "[", "]", ")", "}">>,
     <<Delim("OpenDelim", "Brace"), Delim("OpenDelim", "Paren"), Delim("OpenDelim", "Bracket"),
       Delim("CloseDelim", "Bracket"), Delim("CloseDelim", "Paren"), Delim("CloseDelim", "Brace")>>>>,
   <<<<"=", ">", "=", "=", "=">>, <<T("FatArrow"), T("EqEq"), T("Eq")>>>>,
   <<<<"!", "=", "!">>, <<T("Ne"), T("Not")>>>>,
   <<<<"<", "=", "<", "<", "<", ">", "<", "-", "<">>,
     <<T("Le"), BinOp("LShift"), T("Ne"), T("LArrow"), T("Lt")>>>>,
   <<<<"=", ">", ">", ">", ">">>, <<T("FatArrow"), BinOp("RShift"), T("Gt")>>>>,
   <<<<"-", ">", "-">>, <<T("RArrow"), BinOp("Minus")>>>>,
   <<<<"l", "e", "t">>, <<<<"Ident", "let", "Plain">>>>>>}

-----------------------------------------------------------------------------
(* Properties *)

TypeOK ==
  /\ src \in Inputs
  /\ last_pos \in 0..Len(src)
  /\ peek_span \in (0..Len(src)) \X (0..Len(src))
  /\ toks \in Seq([tok : Seq(STRING), sp : (0..Len(src)) \X (0..Len(src))])
  /\ got \in Seq([tok : Seq(STRING), sp : (0..Len(src)) \X (0..Len(src)), via : {"next", "real"},
                  name : Int])
  /\ status \in {"lexing", "done", "panicked"}
  /\ interner \in Seq(STRING)

(* Maximal munch: the tokens next_token() has returned are, spans          *)
(* included, a prefix of the longest-match tokenisation of the source, and *)
(* all of it once Eof is returned.  The spans of consecutive tokens tile   *)
(* the text because the reference's do.                                   *)
MatchesReference ==
  /\ IsPrefix(toks, expected)
  /\ status = "done" => toks = expected

NoWhitespace(s) == SelectSeq(s, LAMBDA r : r.tok # T("Whitespace"))

(* Whichever of next_token() and real_token() the caller uses, in any      *)
(* order, it receives every token that is not Whitespace, in order, none   *)
(* skipped or repeated, and real_token() never hands it a Whitespace.     *)
CallerSeesEveryToken ==
  /\ NoWhitespace([i \in DOMAIN got |-> [tok |-> got[i].tok, sp |-> got[i].sp]])
       = NoWhitespace(toks)
  /\ \A i \in DOMAIN got : got[i].via = "real" => got[i].tok # T("Whitespace")

(* The identifiers the caller receives are classified by their text:      *)
(* interning gives a keyword's string the Name its declare_keywords row    *)
(* declares (no hole between the rows and the prefill), so is_keyword      *)
(* holds for exactly its own word, and is_strict_keyword and               *)
(* is_reserved_keyword, whose Name ranges are maintained by hand, hold for *)
(* exactly the words of their section and never for a new identifier.     *)
KeywordsRecognised ==
  \A i \in DOMAIN got : got[i].tok[1] = "Ident" =>
    LET r == got[i]
        InSection(sec) == \E j \in DOMAIN sec : sec[j][2] = r.tok[2]
    IN  /\ \A kw \in DOMAIN KwNames : IsKeyword(r, kw) <=> r.tok[2] = kw
        /\ IsStrictKeyword(r) <=> InSection(StrictKeywords)
        /\ IsReservedKeyword(r) <=> InSection(ReservedKeywords)

(* The loop of assert_tokens terminates: every next_token() consumes text  *)
(* or returns Eof, so the reader eventually returns Eof (or panics).       *)
ReachesEof == <>(status \in {"done", "panicked"})

(* Text that is a sequence of tokens of the token set (token.rs) lexes     *)
(* without a panic: every such token has its branch in next_token_inner.   *)
NoPanicOnTokenText ==
  status = "panicked" => Last(expected).tok = T("error")

=============================================================================
