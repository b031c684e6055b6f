---------------------------- MODULE CommandLines ----------------------------
(***************************************************************************)
(* How an entry that starts the program at login says which program, with  *)
(* which arguments: autostart/xdg.rs, windows.rs and launch_agent.rs, and  *)
(* the readers of the three systems, which must find the same words again. *)
(* A word is a sequence of characters.  Operators only.                    *)
(***************************************************************************)
EXTENDS Naturals, Sequences, SequencesExt

Space == " "
DoubleQuote == "\""
Each(word, Sub(_)) == FlattenSeq([i \in DOMAIN word |-> Sub(word[i])])
Copies(c, n) == [i \in 1 .. n |-> c]
Spaced(words) == FlattenSeq([i \in DOMAIN words |-> IF i = 1 THEN words[i] ELSE <<Space>> \o words[i]])

---------------------------------------------------------------------------
\* Linux: a desktop entry is a text with escapes, in it is a line with quotes, and in that are field codes.
Special == {Space, "\t", "\n", DoubleQuote, "'", "\\", ">", "<", "~", "|", "&", ";", "$", "*", "?", "#", "(", ")", "backtick"}
needs_quotes(word) == word = <<>> \/ ToSet(word) \cap Special # {}

percent(c) == IF c = "%" THEN <<c, c>> ELSE <<c>>
escaped(c) == IF c \in {DoubleQuote, "backtick", "$", "\\"} THEN <<"\\", c>> ELSE <<c>>
doubled(c) == IF c = "\\" THEN <<c, c>> ELSE <<c>>
quote(word) ==
    LET plain == Each(word, percent)
    IN IF needs_quotes(word) THEN Each(<<DoubleQuote>> \o Each(plain, escaped) \o <<DoubleQuote>>, doubled) ELSE plain
Exec(words) == Spaced([i \in DOMAIN words |-> quote(words[i])])

\* macOS: the words of the agent, each an element of XML.
xml(c) == CASE c = "&" -> "&amp;"
            [] c = "<" -> "&lt;"
            [] c = ">" -> "&gt;"
            [] c = DoubleQuote -> "&quot;"
            [] c = "'" -> "&apos;"
            [] OTHER -> c
plist(words) == [i \in DOMAIN words |-> [j \in DOMAIN words[i] |-> xml(words[i][j])]]

\* Windows: backslashes are doubled where a quote follows, and the quote gets one more.
\* "\f" stands for the vertical tab here.
has_space(arg) == ToSet(arg) \cap {Space, "\t", "\n", DoubleQuote, "\f"} # {}
Quoting(s, c) ==
    CASE c = "\\" -> [run |-> s.run + 1, out |-> s.out]
      [] c = DoubleQuote -> [run |-> 0, out |-> s.out \o Copies("\\", 2 * s.run + 1) \o <<c>>]
      [] OTHER -> [run |-> 0, out |-> s.out \o Copies("\\", s.run) \o <<c>>]
quote_argument(arg) ==
    LET s[i \in 0 .. Len(arg)] == IF i = 0 THEN [run |-> 0, out |-> <<DoubleQuote>>] ELSE Quoting(s[i - 1], arg[i])
        last == s[Len(arg)]
    IN IF arg # <<>> /\ ~has_space(arg) THEN arg ELSE last.out \o Copies("\\", 2 * last.run) \o <<DoubleQuote>>
command_line(words) ==
    Spaced([i \in DOMAIN words |-> IF i = 1 THEN <<DoubleQuote>> \o words[i] \o <<DoubleQuote>> ELSE quote_argument(words[i])])

---------------------------------------------------------------------------
(* The readers, character by character: the words found, the word being    *)
(* read, whether between words, in one or within quotes, and the marks     *)
(* held back until it is seen what follows.                                *)
Found(words, word, at, held) == [words |-> words, word |-> word, at |-> at, held |-> held]
NoWords == Found(<<>>, <<>>, "between", 0)
Within(at) == IF at = "between" THEN "word" ELSE at
With(s, c) == Found(s.words, Append(s.word, c), Within(s.at), 0)
HoldsBack(s, n) == Found(s.words, s.word, Within(s.at), n)
Turned(s) == Found(s.words, s.word, IF s.at = "quotes" THEN "word" ELSE "quotes", s.held)
AllWords(s) == IF s.at = "between" THEN s.words ELSE Append(s.words, s.word)
NextWord(s) == Found(AllWords(s), <<>>, "between", 0)

\* A mark stands for the character after it.
Escapes(s, c, mark) == IF s.held = 0 /\ c = mark THEN HoldsBack(s, 1) ELSE With(s, c)
ReadsExec(s, c) ==
    IF s.at = "quotes"
    THEN IF s.held = 0 /\ c = DoubleQuote THEN Turned(s) ELSE Escapes(s, c, "\\")
    ELSE CASE c = DoubleQuote -> Turned(s)
           [] c \in {Space, "\t"} -> NextWord(s)
           [] OTHER -> With(s, c)
\* Of the backslashes before a quote, each two make one, and one left over makes the quote a character.
PutBack(s, n) == Found(s.words, s.word \o Copies("\\", n), s.at, 0)
ReadsCommandLine(s, c) ==
    CASE c = "\\" -> HoldsBack(s, s.held + 1)
      [] c = DoubleQuote -> IF s.held % 2 = 1 THEN With(PutBack(s, s.held \div 2), c) ELSE Turned(PutBack(s, s.held \div 2))
      [] c \in {Space, "\t"} /\ s.at # "quotes" -> NextWord(PutBack(s, s.held))
      [] OTHER -> With(PutBack(s, s.held), c)

Reads(reader, s, c) ==
    CASE reader = "string" -> Escapes(s, c, "\\")
      [] reader = "codes" -> Escapes(s, c, "%")
      [] reader = "Exec" -> ReadsExec(s, c)
      [] reader = "Windows" -> ReadsCommandLine(s, c)
Read(reader, start, text) ==
    LET s[i \in 0 .. Len(text)] == IF i = 0 THEN start ELSE Reads(reader, s[i - 1], text[i])
    IN s[Len(text)]

ReadExec(text) ==
    LET line == Read("string", NoWords, text).word
        words == AllWords(Read("Exec", NoWords, line))
    IN [i \in DOMAIN words |-> Read("codes", NoWords, words[i]).word]
ReadCommandLine(text) ==
    LET last == Read("Windows", NoWords, text)
    IN AllWords(PutBack(last, last.held))
=============================================================================
