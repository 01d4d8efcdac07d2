------------------------------ MODULE HtmlText ------------------------------
(***************************************************************************)
(* The streaming HTML pass of marlowe-extract: no tree, one stack of names  *)
(* and three depth counters.  A page is a sequence of tokens (a tag, or a   *)
(* run of text that is one unit long); what is kept of it is the places of  *)
(* the runs of text that survive, block by block.  Titles, languages,       *)
(* headings and the list of links are read on the way and are not modelled. *)
(***************************************************************************)
EXTENDS Naturals, SequencesExt

CONSTANTS
    MaxStack,     \* MAX_STACK
    MaxText,      \* MAX_TEXT_CHARS, in runs of text
    MinMarked,    \* 200 characters of article or main
    MinKept,      \* 120 characters that are not chrome
    MinFarm       \* 40 characters: shorter blocks are never link farms

ASSUME HtmlAssumption == {MaxStack, MaxText, MinMarked, MinKept, MinFarm} \subseteq Nat

Tag(name)  == [kind |-> "open", name |-> name]
End(name)  == [kind |-> "close", name |-> name]
Words      == [kind |-> "text", name |-> ""]

(* The sets of the code, by one or two members each *)
RawText     == {"script"}                 \* scanned for its literal closing tag
SkipContent == {"script", "svg", "embed"}
Void        == {"embed"}                  \* never pushed: it has no closing tag
Boilerplate == {"nav"}
Content     == {"main"}
IsBlock(name) == name \in {"p"} \cup Boilerplate \cup Content

-----------------------------------------------------------------------------
(* Parser: `raw` is the raw-text element whose closing tag is searched, `anchor` one more *)
(* than the place in the current block where the open link began.                         *)

NewParser == [blocks |-> <<>>, chars |-> 0, cur |-> <<>>, links |-> 0, stack |-> <<>>,
              boiler |-> 0, content |-> 0, skip |-> 0, anchor |-> 0, raw |-> ""]

Less(n) == IF n = 0 THEN 0 ELSE n - 1      \* saturating_sub

(* The buffer of blocks is bounded: what comes after is dropped *)
FlushBlock(p) ==
    LET block == [text |-> p.cur, boilerplate |-> p.boiler > 0, content |-> p.content > 0,
                  links |-> p.links]
        empty == [p EXCEPT !.cur = <<>>, !.links = 0]
    IN IF p.cur = <<>> \/ p.chars >= MaxText THEN empty
       ELSE [empty EXCEPT !.blocks = Append(@, block), !.chars = @ + Len(p.cur)]

Flushed(p, name) == IF IsBlock(name) THEN FlushBlock(p) ELSE p

Counted(n, name, set) == IF name \in set THEN n + 1 ELSE n

OpenTag(p0, name) ==
    LET q == IF name = "a" THEN [p0 EXCEPT !.anchor = Len(p0.cur) + 1] ELSE p0
        p == Flushed(q, name)
    IN IF name \in RawText THEN [p EXCEPT !.raw = name]
       ELSE [p EXCEPT !.skip = Counted(@, name, SkipContent),
                      !.boiler = Counted(@, name, Boilerplate),
                      !.content = Counted(@, name, Content),
                      !.stack = IF name \notin Void /\ Len(@) < MaxStack
                                THEN Append(@, name) ELSE @]

(* the text of a link: what the current block holds since the link opened *)
LinkChars(p) == LET from == IF p.anchor - 1 < Len(p.cur) THEN p.anchor - 1 ELSE Len(p.cur)
                IN Len(p.cur) - from

Linked(p, name) ==
    IF name = "a" /\ p.anchor > 0 THEN [p EXCEPT !.links = @ + LinkChars(p), !.anchor = 0] ELSE p

OnStack(p, name) == \E i \in DOMAIN p.stack : p.stack[i] = name

(* mutant: any closing tag of a skipped element lowers the counter *)
SkipClosedByName(p, name) == name \in SkipContent

(* only for a skipped element this parser opened: raw-text elements never reach the stack *)
SkipCloses(p, name) == name \in SkipContent /\ OnStack(p, name)

(* unwind to the last open element of that name; a stray closing tag unwinds nothing *)
Unwound(stack, name) ==
    LET at == {i \in DOMAIN stack : stack[i] = name}
    IN IF at = {} THEN stack
       ELSE SubSeq(stack, 1, (CHOOSE i \in at : \A j \in at : j <= i) - 1)

CloseTag(p0, name) ==
    LET p == Flushed(Linked(p0, name), name)
    IN [p EXCEPT !.skip = IF SkipCloses(p, name) THEN Less(@) ELSE @,
                 !.boiler = IF name \in Boilerplate THEN Less(@) ELSE @,
                 !.content = IF name \in Content THEN Less(@) ELSE @,
                 !.stack = Unwound(@, name)]

PushText(p, i) == IF p.skip > 0 THEN p ELSE [p EXCEPT !.cur = Append(@, i)]

(* one turn of `run`: inside a raw-text element only its closing tag counts *)
Consume(page, p, i) ==
    LET t == page[i]
    IN IF p.raw # "" THEN IF t = End(p.raw) THEN [p EXCEPT !.raw = ""] ELSE p
       ELSE IF t.kind = "open" THEN OpenTag(p, t.name)
       ELSE IF t.kind = "close" THEN CloseTag(p, t.name)
       ELSE PushText(p, i)

Parsed(page) ==
    FlushBlock(FoldLeft(LAMBDA p, i : Consume(page, p, i), NewParser, [i \in DOMAIN page |-> i]))

-----------------------------------------------------------------------------
(* select_content *)

(* more than 65 % of a block of some length is the text of links *)
IsLinkFarm(b) == Len(b.text) >= MinFarm /\ b.links * 100 > Len(b.text) * 65

Chars(blocks) == FoldLeft(LAMBDA n, b : n + Len(b.text), 0, blocks)
Joined(blocks) == FoldLeft(LAMBDA s, b : s \o b.text, <<>>, blocks)

Prose(blocks) == SelectSeq(blocks, LAMBDA b : ~b.boilerplate /\ ~IsLinkFarm(b))
Marked(blocks) == SelectSeq(blocks, LAMBDA b : b.content)

(* An article that is a real share of the page, else all that is not chrome, else all *)
SelectContent(blocks) ==
    LET total  == Chars(blocks)
        marked == Chars(Marked(blocks))
        kept   == Joined(Prose(blocks))
    IN IF marked >= MinMarked /\ marked * 100 >= total * 15
       THEN Joined(SelectSeq(blocks, LAMBDA b : b.content /\ ~IsLinkFarm(b)))
       ELSE IF Len(kept) * 100 >= total * 10 /\ Len(kept) >= MinKept THEN kept
       ELSE Joined(blocks)

(* the whole page was returned for want of an article *)
Recovered(blocks) == SelectContent(blocks) = Joined(blocks) /\ Chars(blocks) >= MinKept

HtmlExtract(page) == SelectContent(Parsed(page).blocks)

-----------------------------------------------------------------------------
(* What a reader of the page is not shown *)

Unclosed(page, k, i) == /\ k < i /\ page[k].kind = "open"
                        /\ \A j \in k + 1..i - 1 : page[j] # End(page[k].name)

(* what looks like a tag in a raw-text element is not one *)
InRaw(page, i) == \E k \in 1..i - 1 : page[k].name \in RawText /\ Unclosed(page, k, i)

HiddenAt(page, i) ==
    \/ InRaw(page, i)
    \/ \E k \in 1..i - 1 : /\ page[k].name \in SkipContent \ Void /\ ~InRaw(page, k)
                           /\ Unclosed(page, k, i)

(* every marked block is a link farm: the one way the first tier leaves nothing *)
AllFarm(blocks) == \A n \in DOMAIN Marked(blocks) : IsLinkFarm(Marked(blocks)[n])
=============================================================================
