---------------------------- MODULE ChapterNumbers ----------------------------
(***************************************************************************)
(* The number of a chapter that declares none, read from its name          *)
(* (internal/chapterrecog/number.go).  Numbers are hundredths, so that the *)
(* suffixes of an extra (.99) and of a letter (.1 to .9) are integers.     *)
(*                                                                         *)
(* A name is a sequence of parts, as the regular expressions see them once *)
(* the case is lowered and commas and hyphens are points:                  *)
(*   "number"  digits, with a decimal or a suffix                          *)
(*   "chapter" the same after "ch."                                        *)
(*   "volume"  the same after v, ver, vol, version, volume, season or s,   *)
(*             at most one character (tight) or more (loose) between them  *)
(*   "title"   the title of the series, which may hold digits of its own   *)
(*   "word"    anything without digits                                     *)
(***************************************************************************)
EXTENDS Integers, SequencesExt

CONSTANT Nothing   \* no number declared or derived

\* A decimal of -1 is none; a suffix is "none", a letter or the word of an extra chapter.
Part(kind, whole, decimal, suffix) ==
    [kind |-> kind, whole |-> whole, decimal |-> decimal, suffix |-> suffix, tight |-> TRUE]

Letters == <<"a", "b", "c", "d", "e", "f", "g", "h", "i">>
ExtraWords == [extra |-> 99, omake |-> 98, special |-> 97]

\* suffix: a decimal wins, then the words, then a single letter up to i.
SuffixValue(decimal, suffix) ==
    CASE decimal >= 0 -> decimal
      [] decimal < 0 /\ suffix \in DOMAIN ExtraWords -> ExtraWords[suffix]
      [] decimal < 0 /\ suffix \in Range(Letters) -> 10 * (CHOOSE i \in DOMAIN Letters : Letters[i] = suffix)
      [] OTHER -> 0

NumberFromMatch(part) == 100 * part.whole + SuffixValue(part.decimal, part.suffix)

\* Declared, a number is used from zero on, and so is -2, the mark of an unnumbered one.
Usable(declared) == declared # Nothing /\ (declared = -200 \/ declared > -100)

\* Mutant of Stripped: a volume between two numbers stays.
StrippedFirst(parts) ==
    IF parts # <<>> /\ Head(parts).kind = "volume" THEN Tail(parts) ELSE parts

\* A decimal of tenths is written with one digit.
DigitsOf(decimal) == IF decimal % 10 = 0 THEN decimal \div 10 ELSE decimal

\* What is left of a name without its volume, version and season marks: of a decimal
\* one the digits after the point, and a loose one whole.
Stripped(parts) ==
    FlattenSeq([i \in DOMAIN parts |->
        LET part == parts[i] IN
        IF part.kind # "volume" \/ ~part.tight THEN <<part>>
        ELSE IF part.decimal >= 0 THEN <<Part("number", DigitsOf(part.decimal), -1, part.suffix)>>
        ELSE <<>>])

HasDigits(part) == part.kind \in {"number", "chapter", "volume", "title"}
IsChapter(part) == part.kind = "chapter"

\* Parse: the number after "ch." before any other, once there are several; the title of
\* the series is taken out first, when the caller knows it.
Parse(known, parts, declared) ==
    LET clean == SelectSeq(parts, LAMBDA part : part.kind # "title" \/ ~known)
        matches == SelectSeq(clean, HasDigits)
        left == SelectSeq(Stripped(clean), HasDigits)
        marked == SelectSeq(left, IsChapter)
    IN  CASE Usable(declared) -> declared
          [] matches = <<>> -> declared
          [] Len(matches) > 1 /\ marked # <<>> -> NumberFromMatch(Head(marked))
          [] Len(matches) > 1 /\ left # <<>> -> NumberFromMatch(Head(left))
          [] OTHER -> NumberFromMatch(Head(matches))

-----------------------------------------------------------------------------
(* The rules of the package, for the names that keep them: the title is    *)
(* known and the marks of volumes are tight and whole.                     *)

Plain(known, parts) ==
    \A i \in DOMAIN parts :
        /\ parts[i].kind = "title" => known
        /\ parts[i].kind = "volume" => parts[i].tight /\ parts[i].decimal < 0

FirstOf(parts, kind) == NumberFromMatch(parts[CHOOSE i \in DOMAIN parts :
    parts[i].kind = kind /\ \A j \in DOMAIN parts : parts[j].kind = kind => i <= j])

\* "A number introduced by a ch. marker wins over a bare number; volume, version and
\* season markers are ignored": unless they are all the name has.
Expected(parts, declared) ==
    LET kinds == {parts[i].kind : i \in DOMAIN parts} IN
    CASE Usable(declared) -> declared
      [] ~Usable(declared) /\ "chapter" \in kinds -> FirstOf(parts, "chapter")
      [] ~Usable(declared) /\ kinds \cap {"chapter", "number"} = {"number"} -> FirstOf(parts, "number")
      [] ~Usable(declared) /\ kinds \cap {"chapter", "number", "volume"} = {"volume"} -> FirstOf(parts, "volume")
      [] OTHER -> declared

=============================================================================
