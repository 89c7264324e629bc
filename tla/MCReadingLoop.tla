--------------------------- MODULE MCReadingLoop ---------------------------
EXTENDS ReadingLoop

(* Two chapters around an item that is not linear *)
MCLinear == {0, 2}
MCTextLength == [c \in Chapters |-> <<3, 1, 2>>[c + 1]]
MCBreaks == [c \in Chapters |-> {}]
(* The last chapter's last line fills its page and ends a paragraph. *)
LastBreaks == [c \in Chapters |-> IF c = 2 THEN {TextLength[c]} ELSE {}]
NoSaved == {}
MCLines == << [f \in Families |-> 2], [f \in Families |-> 1] >>

(* One chapter: two pages *)
ShortLinear == {0}
ShortTextLength == [c \in Chapters |-> 2]
ShortLines == << [f \in Families |-> 1] >>
ShortSaved == {[anchor |-> [spine |-> 0, parserCheckpoint |-> 1], size |-> 1, family |-> 2,
                history |-> <<StartOf(0)>>]}
=============================================================================
