------------------------------- MODULE Dialogs -------------------------------
(***************************************************************************)
(* The modal dialogs of the builder (ui/dialogs.c), as functions on one     *)
(* record: what a key does to it and what the window shows.  stop_requested *)
(* and a resize close every dialog without an answer, as Esc does.          *)
(***************************************************************************)
EXTENDS Integers, SequencesExt, FiniteSetsExt

CONSTANTS
    DialogWidth,   \* columns of text in a dialog
    DialogLines,   \* LINES, what a dialog may be high
    ListPage,      \* height - 6 of packages_dialog, height - 5 of choose_dialog
    TextSize       \* size of the edited buffer, with its terminating NUL

ASSUME DialogsAssumption ==
    DialogWidth \in Nat \ {0} /\ DialogLines \in Nat /\ ListPage \in Nat \ {0} /\ TextSize \in Nat \ {0}

NoDialog == [kind |-> "none"]

Clipped(a) == Max({a, 0})

-----------------------------------------------------------------------------
(* packages_dialog: a read-only list of `count` lines that scrolls so far   *)
(* that its last page is full.                                              *)
ListDialog(count) == [kind |-> "list", count |-> count, offset |-> 0]
ListKeys == {"up", "down", "page_up", "page_down", "home", "end"}
LastPage(d) == Clipped(d.count - ListPage)

ScrollPastEnd(d, key) ==
    IF key = "page_down" THEN [d EXCEPT !.offset = @ + ListPage] ELSE d

ListKey(d, key) ==
    CASE key = "up" /\ d.offset > 0 -> [d EXCEPT !.offset = @ - 1]
      [] key = "down" /\ d.offset + ListPage < d.count -> [d EXCEPT !.offset = @ + 1]
      [] key = "page_up" -> [d EXCEPT !.offset = Clipped(@ - ListPage)]
      [] key = "page_down" /\ d.count > ListPage ->
            [d EXCEPT !.offset = Min({@ + ListPage, LastPage(d)})]
      [] key = "home" -> [d EXCEPT !.offset = 0]
      [] key = "end" /\ d.count > ListPage -> [d EXCEPT !.offset = LastPage(d)]
      [] OTHER -> d

(* Nothing but the bottom of the list leaves lines of the window empty.     *)
ListInView(d) == d.offset \in 0 .. LastPage(d)

-----------------------------------------------------------------------------
(* choose_dialog and choose_table_dialog: the window follows the selection. *)
ChoiceDialog(count, current) ==
    [kind |-> "choice", count |-> count,
     selected |-> IF current \in 0 .. count - 1 THEN current ELSE 0]

ChoiceKey(d, key) ==
    CASE key = "up" /\ d.selected > 0 -> [d EXCEPT !.selected = @ - 1]
      [] key = "down" /\ d.selected + 1 < d.count -> [d EXCEPT !.selected = @ + 1]
      [] OTHER -> d

ChoiceOffset(d) == Clipped(d.selected - ListPage + 1)
ChoiceInView(d) ==
    /\ d.selected \in 0 .. d.count - 1
    /\ d.selected \in ChoiceOffset(d) .. ChoiceOffset(d) + ListPage - 1

-----------------------------------------------------------------------------
(* text_dialog: the buffer starts as the value, the cursor at its end.      *)
TextDialog(field, length) ==
    [kind |-> "text", field |-> field, length |-> length, cursor |-> length, edited |-> FALSE]
TextKeys == {"char", "backspace", "delete", "left", "right", "clear"}

TextKey(d, key) ==
    CASE key = "backspace" /\ d.cursor > 0 ->
            [d EXCEPT !.cursor = @ - 1, !.length = @ - 1, !.edited = TRUE]
      [] key = "delete" /\ d.cursor < d.length -> [d EXCEPT !.length = @ - 1, !.edited = TRUE]
      [] key = "left" /\ d.cursor > 0 -> [d EXCEPT !.cursor = @ - 1]
      [] key = "right" /\ d.cursor < d.length -> [d EXCEPT !.cursor = @ + 1]
      [] key = "clear" -> [d EXCEPT !.cursor = 0, !.length = 0, !.edited = TRUE]
      [] key = "char" /\ d.length + 1 < TextSize ->
            [d EXCEPT !.cursor = @ + 1, !.length = @ + 1, !.edited = TRUE]
      [] OTHER -> d

(* An accepted empty buffer counts as a cancel. *)
Applies(d) == d.length > 0

TextViewStart(d) == IF d.cursor >= DialogWidth THEN d.cursor - DialogWidth + 1 ELSE 0
TextInView(d) ==
    /\ d.length < TextSize /\ d.cursor \in 0 .. d.length
    /\ d.cursor \in TextViewStart(d) .. TextViewStart(d) + DialogWidth - 1

-----------------------------------------------------------------------------
(* confirm_dialog: No is selected first; the message is wrapped.  A message *)
(* is a sequence of "letter", "blank" and "feed", its NUL comes after it.   *)
Nul(message) == Len(message) + 1

SkipBlanks(message, k) ==
    Min({j \in k .. Nul(message) : j = Nul(message) \/ message[j] # "blank"})
ParagraphEnd(message, k) ==
    Min({j \in k .. Nul(message) : j = Nul(message) \/ message[j] = "feed"})

(* Where a paragraph wider than the window is cut: at the last blank that   *)
(* leaves it within the width, or through a word that is longer than that.  *)
Split(message, first) ==
    LET blanks == {s \in 1 .. DialogWidth : message[first + s] = "blank"}
    IN  IF blanks = {} THEN DialogWidth ELSE Max(blanks)

(* The length of a line without the blanks at its end. *)
Stripped(message, first, length) ==
    Max({n \in 1 .. length : message[first + n - 1] # "blank"})

(* next_wrapped_line: the line it makes of what is at k, and where it       *)
(* leaves the pointer into the message.                                     *)
NextWrappedLine(message, k) ==
    LET first == SkipBlanks(message, k)
        feed  == ParagraphEnd(message, first)
        cut   == Split(message, first)
    IN  IF feed - first <= DialogWidth
        THEN [first |-> first, length |-> feed - first, next |-> Min({feed + 1, Nul(message)})]
        ELSE [first |-> first, length |-> Stripped(message, first, cut),
              next |-> SkipBlanks(message, first + cut)]

(* It is called until it returns false. *)
WrappedLinesFrom(message) ==
    LET from[k \in 1 .. Nul(message)] ==
            IF SkipBlanks(message, k) = Nul(message) THEN <<>>
            ELSE <<NextWrappedLine(message, k)>> \o from[NextWrappedLine(message, k).next]
    IN  from
WrappedLines(message) == WrappedLinesFrom(message)[1]

ConfirmDialog(question, message) ==
    [kind |-> "confirm", question |-> question, message |-> message, yes |-> FALSE]
ConfirmKey(d) == [d EXCEPT !.yes = ~@]

(* newwin fails, and the answer is No, when the screen is too low.          *)
ConfirmOpens(message) == Max({Len(WrappedLines(message)), 1}) + 8 <= DialogLines

(* The words of a text: its longest runs of letters, as pairs of bounds.    *)
Words(text) ==
    LET Letter(k) == k \in DOMAIN text /\ text[k] = "letter"
        begins == {k \in DOMAIN text : Letter(k) /\ ~Letter(k - 1)}
        ends   == {k \in DOMAIN text : Letter(k) /\ ~Letter(k + 1)}
    IN  {w \in begins \X ends : w[1] <= w[2] /\ \A k \in w[1] .. w[2] : text[k] = "letter"}

(* What a line shows of the message. *)
Span(line) == line.first .. line.first + line.length - 1

(* No line is wider than the window or holds a feed, they show the message  *)
(* in its order and every letter of it, and no word that fits a line is cut *)
(* in two.                                                                  *)
ConfirmInView(d) ==
    LET lines == WrappedLines(d.message)
    IN  /\ \A k \in DOMAIN lines :
              /\ lines[k].length <= DialogWidth
              /\ \A p \in Span(lines[k]) : p \in DOMAIN d.message /\ d.message[p] # "feed"
        /\ \A i, j \in DOMAIN lines : i < j => lines[i].first + lines[i].length <= lines[j].first
        /\ \A p \in DOMAIN d.message : d.message[p] = "letter" =>
              \E k \in DOMAIN lines : p \in Span(lines[k])
        /\ \A w \in Words(d.message) : w[2] - w[1] < DialogWidth =>
              \E k \in DOMAIN lines : w[1] .. w[2] \subseteq Span(lines[k])

-----------------------------------------------------------------------------
DialogInView(d) ==
    CASE d.kind = "list"    -> ListInView(d)
      [] d.kind = "choice"  -> ChoiceInView(d)
      [] d.kind = "text"    -> TextInView(d)
      [] d.kind = "confirm" -> ConfirmInView(d)
      [] OTHER -> TRUE
=============================================================================
