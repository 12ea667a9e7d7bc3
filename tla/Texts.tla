-------------------------------- MODULE Texts --------------------------------
(***************************************************************************)
(* The functions on texts of src/string/String.cpp that the packets and    *)
(* the settings are read and written with, and class "text", a caller of   *)
(* them.  A text is a sequence of characters; those that matter differ.    *)
(***************************************************************************)
EXTENDS Monitor, SequencesExt

CONSTANT MaxText \* bound: characters of a text that is searched

Blanks == {" ", "\n"}
tolower(c) == CASE c = "A" -> "a" [] c = "B" -> "b" [] OTHER -> c
ToLower(s) == [i \in DOMAIN s |-> tolower(s[i])]
Folded(s, ignoreCase) == IF ignoreCase THEN ToLower(s) ELSE s

(* The first place from `from' on where P holds, or behind the end.         *)
FirstPlace(s, from, P(_)) ==
  CHOOSE i \in from..Len(s) + 1 :
    (i = Len(s) + 1 \/ P(s[i])) /\ \A j \in from..i - 1 : ~P(s[j])
TrimLeft(s) == SubSeq(s, FirstPlace(s, 1, LAMBDA c : c \notin Blanks), Len(s))
TrimRight(s) == Reverse(TrimLeft(Reverse(s)))
TrimCopy(s) == TrimRight(TrimLeft(s))

(* Where s.find(f, from) finds f, from 1; 0 is npos.                        *)
Found(s, f, from) ==
  LET places == {i \in from..Len(s) - Len(f) + 1 : SubSeq(s, i, i + Len(f) - 1) = f}
  IN IF places = {} THEN 0 ELSE CHOOSE i \in places : \A j \in places : i <= j
Put(s, pos, length, by) == SubSeq(s, 1, pos - 1) \o by \o SubSeq(s, pos + length, Len(s))

Replace(src, f, by, ignoreCase) ==
  LET pos == Found(Folded(src, ignoreCase), Folded(f, ignoreCase), 1)
  IN IF pos = 0 THEN src ELSE Put(src, pos, Len(f), by)
(* s is what is searched: what was put in is not searched again.            *)
ReplaceAllOf(src, f, by, ignoreCase) ==
  LET needle == Folded(f, ignoreCase)
      loop[n \in 0..Len(src) + 1] ==
        IF n = 0 THEN [src |-> src, s |-> Folded(src, ignoreCase), pos |-> 1, done |-> FALSE]
        ELSE LET l == loop[n - 1]
                 at == Found(l.s, needle, l.pos)
             IN IF l.done \/ at = 0 THEN [l EXCEPT !.done = TRUE]
                ELSE [src |-> Put(l.src, at, Len(f), by), s |-> Put(l.s, at, Len(f), by),
                      pos |-> at + Len(by), done |-> FALSE]
  IN loop[Len(src) + 1].src
(* Places count from 0, and -1 is none.                                     *)
IndexOf(src, f, ignoreCase) == Found(Folded(src, ignoreCase), Folded(f, ignoreCase), 1) - 1
StartsWith(src, f, ignoreCase) == IsPrefix(Folded(f, ignoreCase), Folded(src, ignoreCase))
EndsWith(src, f, ignoreCase) == IsSuffix(Folded(f, ignoreCase), Folded(src, ignoreCase))

(* A delimiter is any character of a text, or the whole text.               *)
DelimiterSize(d) == IF d.any THEN 1 ELSE Len(d.text)
Find(d, s, from) ==
  IF ~d.any THEN Found(s, d.text, from)
  ELSE LET at == FirstPlace(s, from, LAMBDA c : c \in {d.text[i] : i \in DOMAIN d.text})
       IN IF at > Len(s) THEN 0 ELSE at
(* What is behind the last delimiter is not trimmed, and not looked at if   *)
(* there is nothing.                                                        *)
SplitEagerly(text, d, withEmpty) ==
  LET rest[p \in 1..Len(text) + 1] ==
        IF p > Len(text) THEN <<>>
        ELSE LET at == Find(d, text, p) IN
             IF at = 0 THEN <<SubSeq(text, p, Len(text))>>
             ELSE <<SubSeq(text, p, at - 1)>> \o rest[at + 1]
  IN rest[1]
Split(text, d, withEmpty) ==
  LET rest[p \in 1..Len(text) + 1] ==
        LET at == Find(d, text, p)
            found == SubSeq(text, p, at - 1)
            others == rest[at + DelimiterSize(d)]
        IN IF p > Len(text) THEN <<>>
           ELSE IF at = 0 THEN <<SubSeq(text, p, Len(text))>>
           ELSE IF withEmpty THEN <<found>> \o others
           ELSE IF TrimCopy(found) = <<>> THEN others
           ELSE <<TrimCopy(found)>> \o others
  IN rest[1]
listIndexOf(list, s, ignoreCase) ==
  LET places == {i \in DOMAIN list : Folded(list[i], ignoreCase) = Folded(s, ignoreCase)}
  IN IF places = {} THEN -1 ELSE (CHOOSE i \in places : \A j \in places : i <= j) - 1
join(list, separator) ==
  FoldLeft(LAMBDA text, i : text \o (IF i = 1 THEN <<>> ELSE separator) \o list[i],
           <<>>, [i \in DOMAIN list |-> i])

-----------------------------------------------------------------------------
(* A caller with a text and what is searched in it.  An empty text would be *)
(* found everywhere: ReplaceAll() and Split() would not return.             *)
TextsOf(chars, n) == UNION {[1..k -> chars] : k \in 0..n}
Needles == {<<",">>, <<"a">>, <<"a", ",">>, <<",", ",">>, <<"A", "a">>}
TextInit ==
  /\ class = "text" /\ pc = <<>>
  /\ \E src \in TextsOf({"a", "A", ",", " "}, MaxText), f \in Needles :
       obj = [src |-> src, f |-> f, call |-> "none", arg |-> FALSE, by |-> <<>>,
              result |-> <<>>, pieces |-> <<>>, at |-> -1, first |-> FALSE, last |-> FALSE]
Called(call, arg, by, result, pieces) ==
  /\ obj' = [obj EXCEPT !.call = call, !.arg = arg, !.by = by, !.result = result, !.pieces = pieces]
  /\ Stay
textReplace ==
  /\ class = "text" /\ obj.call = "none"
  /\ \E ignoreCase \in BOOLEAN, by \in {<<>>, <<"a">>, <<",", ",">>} :
       \/ Called("Replace", ignoreCase, by, Replace(obj.src, obj.f, by, ignoreCase), <<>>)
       \/ Called("ReplaceAll", ignoreCase, by, ReplaceAllOf(obj.src, obj.f, by, ignoreCase), <<>>)
textSplit ==
  /\ class = "text" /\ obj.call = "none"
  /\ \E any, withEmpty \in BOOLEAN :
       Called(IF any THEN "SplitAny" ELSE "SplitString", withEmpty, <<>>, <<>>,
              Split(obj.src, [any |-> any, text |-> obj.f], withEmpty))
textJoin ==
  /\ class = "text" /\ obj.call = "SplitString" /\ obj.arg
  /\ Called("join", TRUE, <<>>, join(obj.pieces, obj.f), obj.pieces)
textSearch ==
  /\ class = "text" /\ obj.call = "none"
  /\ \E ignoreCase \in BOOLEAN :
       obj' = [obj EXCEPT !.call = "search", !.arg = ignoreCase,
                          !.at = IndexOf(obj.src, obj.f, ignoreCase),
                          !.first = StartsWith(obj.src, obj.f, ignoreCase),
                          !.last = EndsWith(obj.src, obj.f, ignoreCase)]
  /\ Stay
(* A text is looked for among the pieces.                                   *)
textListSearch ==
  /\ class = "text" /\ obj.call \in {"SplitAny", "SplitString"}
  /\ \E ignoreCase \in BOOLEAN, i \in DOMAIN obj.pieces :
       obj' = [obj EXCEPT !.call = "list", !.arg = ignoreCase, !.result = obj.pieces[i],
                          !.at = listIndexOf(obj.pieces, obj.pieces[i], ignoreCase)]
  /\ Stay
TextNext == textReplace \/ textSplit \/ textJoin \/ textSearch \/ textListSearch

-----------------------------------------------------------------------------
(* Where f is, from the left and not overlapping, as positions.             *)
Occurrences(s, f) ==
  LET o[i \in 0..Len(s)] ==
        IF i = 0 THEN {}
        ELSE IF i + Len(f) - 1 <= Len(s) /\ SubSeq(s, i, i + Len(f) - 1) = f /\ \A j \in o[i - 1] : j + Len(f) <= i
        THEN o[i - 1] \union {i} ELSE o[i - 1]
  IN o[Len(s)]
FirstAndLast(s) == {s[1], s[Len(s)]}

(* Every occurrence is replaced, and what is put in is not looked at; only  *)
(* the first by Replace().  Pieces joined again are the text, but for a     *)
(* delimiter at its end.  Without empty ones no piece but the last begins   *)
(* or ends with a blank, and nothing but blanks and delimiters is gone.     *)
(* What is searched is where it is found first, and nowhere else if it is   *)
(* not found.                                                               *)
TextsExact ==
  class = "text" =>
    LET s == Folded(obj.src, obj.arg)
        all == Occurrences(s, Folded(obj.f, obj.arg))
        at == IF obj.call = "ReplaceAll" THEN all ELSE {i \in all : \A j \in all : i <= j}
        Inside(i) == \E j \in at : j < i /\ i < j + Len(obj.f)
        delimiters == {obj.f[i] : i \in DOMAIN obj.f}
        Left(t) == SelectSeq(t, LAMBDA c : c \notin delimiters /\ c # " ")
    IN /\ obj.call \in {"Replace", "ReplaceAll"} =>
            obj.result = FlattenSeq([i \in DOMAIN s |->
              IF i \in at THEN obj.by ELSE IF Inside(i) THEN <<>> ELSE <<obj.src[i]>>])
       /\ obj.call = "join" => obj.result = obj.src \/ obj.result \o obj.f = obj.src
       /\ obj.call \in {"SplitAny", "SplitString"} /\ ~obj.arg =>
            \A i \in 1..Len(obj.pieces) - 1 :
              obj.pieces[i] # <<>> /\ " " \notin FirstAndLast(obj.pieces[i])
       /\ obj.call = "search" =>
            /\ all = {} <=> obj.at = -1
            /\ obj.at >= 0 => obj.at + 1 \in Occurrences(s, Folded(obj.f, obj.arg))
            /\ obj.first <=> obj.at = 0
            /\ obj.last => obj.at >= 0
            /\ obj.last <=> IsPrefix(Reverse(Folded(obj.f, obj.arg)), Reverse(s))
       /\ obj.call = "list" =>
            obj.at >= 0 /\ Folded(obj.pieces[obj.at + 1], obj.arg) = Folded(obj.result, obj.arg)
       /\ obj.call = "SplitAny" => Left(FlattenSeq(obj.pieces)) = Left(obj.src)
=============================================================================
