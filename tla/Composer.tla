------------------------------ MODULE Composer ------------------------------
(***************************************************************************)
(* The message field of the terminal surface.  Its text is a sequence of    *)
(* pieces: letters, "sp" (white space), a command word, a chip that stands  *)
(* for a paste, the wreck of a chip, a paste in full ("lit") or what is     *)
(* left of one ("cut").  A chip is found again by the text it was given,    *)
(* its number and the size of the paste, so it can only be told from        *)
(* another chip by these two.                                               *)
(***************************************************************************)
EXTENDS Integers, Sequences, SequencesExt

CONSTANTS
    Letters,        \* keys that type one letter
    Commands,       \* slash commands and "!": typed as the first word
    Bodies,         \* pastes
    Size(_),        \* lines of a paste: 0 for one that is put in literally
    Words           \* words in the text of a chip

(* k: its kind; n: a chip's number, or what a wreck has left; size: of its paste *)
Atom(k, n, b) == [k |-> k, n |-> n, size |-> 0, b |-> b]
Letter == Atom("c", 0, "c")
Space == Atom("sp", 0, "sp")
Chip(i, b) == [Atom("chip", i, "") EXCEPT !.size = Size(b)]
Lit(b) == Atom("lit", 0, b)

Blank == [input |-> <<>>, pastes |-> <<>>, all |-> FALSE]

-----------------------------------------------------------------------------
(* Ctrl-A holds the whole text until the next edit *)
SelectAll(f) == [f EXCEPT !.all = f.input # <<>>]

Insert(f, a) ==
    IF f.all THEN [Blank EXCEPT !.input = <<a>>] ELSE [f EXCEPT !.input = Append(@, a)]

(* A paste is an edit that leaves a selection standing *)
Paste(f, b) ==
    IF Size(b) = 0 THEN [f EXCEPT !.input = Append(@, Lit(b))]
    ELSE [f EXCEPT !.input = Append(@, Chip(Len(f.pastes) + 1, b)), !.pastes = Append(@, b)]

IsChip(f, a, i) == i \in DOMAIN f.pastes /\ a = Chip(i, f.pastes[i])

(* What is sent: every chip minted in this draft is put back *)
Expand(f, text) ==
    LET Full(a) == IF \E i \in DOMAIN f.pastes : IsChip(f, a, i) THEN Lit(f.pastes[a.n]) ELSE a
    IN  [j \in DOMAIN text |-> Full(text[j])]

TrailingPaste(f) ==
    IF f.input = <<>> THEN 0
    ELSE LET a == Last(f.input) IN IF \E i \in DOMAIN f.pastes : IsChip(f, a, i) THEN a.n ELSE 0

(* Popped, never removed: a later chip keeps its number *)
DropChip(f, i) ==
    [f EXCEPT !.input = Front(@), !.pastes = IF i = Len(f.pastes) THEN Front(@) ELSE @]

(* One key on the last piece: a long piece loses a word *)
Shorten(text) ==
    LET a == Last(text)
    IN  CASE a.k = "chip" -> Append(Front(text), [a EXCEPT !.k = "wreck", !.n = Words - 1])
          [] a.k = "wreck" /\ a.n > 1 -> Append(Front(text), [a EXCEPT !.n = @ - 1])
          [] a.k = "lit" -> Append(Front(text), [a EXCEPT !.k = "cut"])
          [] OTHER -> Front(text)

EndsIn(text, k) == text # <<>> /\ Last(text).k = k

(* What is left of a text without the pieces of these kinds at its end *)
Without(kinds, text) ==
    LET keep == {j \in DOMAIN text : text[j].k \notin kinds}
    IN  IF keep = {} THEN <<>> ELSE SubSeq(text, 1, Max(keep))

(* White space first, then the word: letters back to the space before them,
   or into whatever stands there with no space between *)
DeleteWordBack(text) ==
    LET bare == Without({"sp"}, text)
        word == Without({"c", "cmd"}, bare)
    IN  IF word = <<>> \/ EndsIn(word, "sp") \/ (EndsIn(word, "wreck") /\ word # bare) THEN word
        ELSE Shorten(word)

(* mutant: a chip loses its last character *)
BackspaceChar(f) ==
    IF f.all THEN Blank ELSE IF f.input = <<>> THEN f ELSE [f EXCEPT !.input = Shorten(@)]

Backspace(f) ==
    IF f.all THEN Blank
    ELSE IF f.input = <<>> THEN f
    ELSE IF TrailingPaste(f) # 0 THEN DropChip(f, TrailingPaste(f))
    ELSE [f EXCEPT !.input = Shorten(@)]

CtrlBackspace(f) ==
    IF f.all THEN Blank
    ELSE IF TrailingPaste(f) # 0 THEN DropChip(f, TrailingPaste(f))
    ELSE [f EXCEPT !.input = DeleteWordBack(@)]

(* ^c on a selection copies it and leaves the full text in the field *)
CopySelection(f) == [Blank EXCEPT !.input = Expand(f, f.input)]

(* ^n: the text goes, the pastes stay *)
ClearInput(f) == [f EXCEPT !.input = <<>>]

Trim(text) ==
    LET solid == {j \in DOMAIN text : text[j] # Space}
    IN  IF solid = {} THEN <<>> ELSE SubSeq(text, Min(solid), Max(solid))

Submitted(f) == Expand(f, Trim(f.input))

-----------------------------------------------------------------------------
(* What the person means to send: a chip is the paste it stands for, and one
   key erases it whole *)

Means(f, m, k, b) ==
    CASE k = "insert" -> IF f.all THEN <<b>> ELSE Append(m, b)
      [] k = "paste" -> Append(m, Lit(b))
      [] k \in {"bs", "cbs"} ->
            IF f.all \/ m = <<>> THEN <<>>
            ELSE IF TrailingPaste(f) # 0 THEN Front(m)
            ELSE IF k = "bs" THEN Shorten(m) ELSE DeleteWordBack(m)
      [] k = "clear" -> <<>>
      [] OTHER -> m
=============================================================================
