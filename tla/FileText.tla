------------------------------ MODULE FileText ------------------------------
(***************************************************************************)
(* What the file tools answer about a workspace: `read`'s window and the   *)
(* range it tells the caller to ask for next, line numbers put on and      *)
(* taken off again, the one snippet `edit` replaces, the names `glob`      *)
(* matches, the walk `glob` and `grep` share, and the lines `grep` keeps.  *)
(*                                                                         *)
(* `read` sees a file as the lengths of its lines, `edit` as the lines     *)
(* themselves (the numbers in front of one, and what it says), the walk as *)
(* entries in the order the system lists them.                             *)
(***************************************************************************)
EXTENDS Integers, Sequences, FiniteSets, SequencesExt, FiniteSetsExt

CONSTANTS
    WindowLines,   \* READ_WINDOW_LINES
    WindowBytes,   \* READ_WINDOW_BYTES
    Prefix,        \* LINE_NUMBER_WIDTH and the tab
    MaxReadBytes,  \* MAX_READ_BYTES
    WalkCap,       \* WALK_FILE_CAP
    MaxMatchLines, \* MAX_MATCH_LINES
    MaxFileLines   \* bound: lines of a file

SumOf(ns) == FoldLeft(LAMBDA a, n : a + n, 0, ns)
Least(a, b) == IF a < b THEN a ELSE b

(* How many lines fit in so many bytes, from the first *)
Fitting(ns, cap) == Max({0} \cup {k \in 1..Len(ns) : SumOf(SubSeq(ns, 1, k)) <= cap})

-----------------------------------------------------------------------------
(* read *)

(* clone_and_read: the prefix under the cap, the last line of it perhaps in part *)
Held(file) ==
    LET k    == Fitting(file, MaxReadBytes)
        rest == MaxReadBytes - SumOf(SubSeq(file, 1, k))
    IN  IF k = Len(file) THEN file
        ELSE SubSeq(file, 1, k) \o (IF rest > 0 THEN <<rest>> ELSE <<>>)

(* slice_lines; an absent range is the whole file *)
NoRange == <<>>
Malformed(range) == range # NoRange /\ (range[1] = 0 \/ range[2] < range[1])
Slice(lines, range) ==
    IF range = NoRange THEN lines ELSE SubSeq(lines, range[1], Least(range[2], Len(lines)))

(* cut_to_whole_lines: a fragment when not even one line fits *)
CutToWholeLines(ns, cap) == LET k == Fitting(ns, cap) IN IF k = 0 THEN 1 ELSE k

(* What is selected from a first line on, numbered: as much of it as fits, and where to go on *)
Shown_(lines, sliced, first, numbered) ==
    LET kept == IF SumOf(numbered) > WindowBytes THEN CutToWholeLines(numbered, WindowBytes)
                ELSE Len(numbered)
    IN  [refused |-> sliced = <<>> /\ lines # <<>>, of |-> Len(lines),
         first |-> first, last |-> first + kept - 1,
         whole |-> SumOf(SubSeq(numbered, 1, kept)) <= WindowBytes,
         next |-> IF kept = Len(sliced) THEN NoRange
                  ELSE <<first + kept, Least(first + kept - 1 + WindowLines, Len(lines))>>]

Selected(lines, sliced, range) ==
    Shown_(lines, sliced, IF range = NoRange THEN 1 ELSE range[1],
           [i \in 1..Least(Len(sliced), WindowLines) |-> sliced[i] + Prefix])

(* FileSystemTools::read, of a path *)
ReadWindow(lines, range) ==
    [Selected(lines, Slice(lines, range), range) EXCEPT !.refused = @ \/ Malformed(range)]

(* Following the notices from the beginning *)
RECURSIVE WindowsOf(_, _)
WindowsOf(lines, range) ==
    LET w == ReadWindow(lines, range)
    IN  <<w>> \o (IF w.refused \/ w.next = NoRange THEN <<>> ELSE WindowsOf(lines, w.next))

(* Each window begins where the last one ended and shows its lines whole, unless it is a
   single one that does not fit; the first that stops short of the end says so. *)
Follows(w, last, file) ==
    /\ ~w.refused /\ w.first = last + 1 /\ w.last <= w.of
    /\ file # <<>> => w.last >= w.first
    /\ w.whole \/ w.first = w.last
PagedInOrder(file) ==
    \E ps \in {WindowsOf(Held(file), NoRange)} :
        /\ \A i \in DOMAIN ps : Follows(ps[i], IF i = 1 THEN 0 ELSE ps[i - 1].last, file)
        /\ Last(ps).last < Last(ps).of => Len(ps) > 1
        /\ Last(ps).of = Len(file) \/ SumOf(file) > MaxReadBytes

-----------------------------------------------------------------------------
(* edit *)

Line_(pre, says) == [pre |-> pre, says |-> says]

(* number_lines *)
NumberLines(ls, first) == [i \in DOMAIN ls |-> [ls[i] EXCEPT !.pre = <<first + i - 1>> \o @]]

(* strip_line_numbers: every line numbered, and the numbers in a row *)
Numbered(ls) == /\ ls # <<>>
                /\ \A i \in DOMAIN ls : ls[i].pre # <<>> /\ ls[i].pre[1] = ls[1].pre[1] + i - 1
Strip(ls) == [i \in DOMAIN ls |-> [ls[i] EXCEPT !.pre = Tail(@)]]

(* str::find and str::match_indices, which does not count overlapping matches *)
At(ls, sub, i) == i + Len(sub) - 1 <= Len(ls) /\ SubSeq(ls, i, i + Len(sub) - 1) = sub
Places(ls, sub) == {i \in DOMAIN ls : At(ls, sub, i)}
PlacesApart(ls, sub) ==
    FoldLeft(LAMBDA seen, i : IF At(ls, sub, i) /\ \A j \in seen : j + Len(sub) <= i
                              THEN seen \cup {i} ELSE seen, {}, [i \in DOMAIN ls |-> i])

(* replacing_miss; why a text is nearly there (line ends, spacing) is wording *)
Miss(ls, replacing) ==
    IF Numbered(replacing) /\ Places(ls, Strip(replacing)) # {}
    THEN [why |-> "numbered", line |-> Min(Places(ls, Strip(replacing)))]
    ELSE [why |-> "absent", line |-> 0]

OneSite(sites) == Cardinality(sites) = 1

(* FileSystemTools::edit *)
Edit(ls, replacing, content) ==
    LET sites == PlacesApart(ls, replacing)
        at    == Min(sites)
        Refused(why) == [why |-> why, line |-> 0, text |-> ls]
    IN  IF replacing = <<>> THEN Refused("empty")
        ELSE IF ls = <<>> THEN Refused("nothing to patch")
        ELSE IF sites = {} THEN Miss(ls, replacing) @@ [text |-> ls]
        ELSE IF ~OneSite(sites) THEN Refused("ambiguous")
        ELSE IF Len(content) >= 2 /\ Numbered(content) THEN Refused("numbered content")
        ELSE [why |-> "", line |-> at,
              text |-> SubSeq(ls, 1, at - 1) \o content \o SubSeq(ls, at + Len(replacing), Len(ls))]

(* What a window printed comes back as the file's own lines; what is pasted with its
   numbers changes nothing and is found for the caller; and an edit that is made is made
   at the only place, or at the first of places that overlap. *)
EditsAsRead(ls, snippet, content) ==
    LET e == Edit(ls, snippet, content)
        pasted == NumberLines(snippet, 3)
        p == Edit(ls, pasted, content)
    IN  /\ snippet # <<>> => Numbered(pasted) /\ Strip(pasted) = snippet
        /\ e.why = "" => \A i \in Places(ls, snippet) : e.line <= i /\ i < e.line + Len(snippet)
        /\ e.why # "" => e.text = ls
        /\ Places(ls, snippet) # {} /\ Places(ls, pasted) = {} /\ snippet # <<>> =>
              p.text = ls /\ p.why = "numbered" /\ At(ls, snippet, p.line)

-----------------------------------------------------------------------------
(* glob *)

(* glob_match *)
GlobMatch(pattern, subject) ==
    LET go[i \in 1..Len(pattern) + 1, j \in 1..Len(subject) + 1] ==
            LET more == j <= Len(subject)
            IN  IF i > Len(pattern) THEN ~more
                ELSE IF pattern[i] = "*" THEN go[i + 1, j] \/ (more /\ subject[j] # "/" /\ go[i, j + 1])
                ELSE more /\ pattern[i] \in {"?", subject[j]} /\ go[i + 1, j + 1]
    IN  go[1, 1]

(* A pattern matches when the subject can be cut so that each piece is one of its signs' *)
Piece(sign, subject, from, to) ==
    IF sign = "*" THEN from <= to /\ \A k \in from + 1..to : subject[k] # "/"
    ELSE to = from + 1 /\ sign \in {"?", subject[to]}
MatchedWhole(pattern, subject) ==
    \E cut \in [0..Len(pattern) -> 0..Len(subject)] :
        /\ cut[0] = 0 /\ cut[Len(pattern)] = Len(subject)
        /\ \A i \in DOMAIN pattern : Piece(pattern[i], subject, cut[i - 1], cut[i])

-----------------------------------------------------------------------------
(* collect *)

Entry_(kind, name, keep) == [kind |-> kind, name |-> name, keep |-> keep]
Skips == {"target"}    \* WALK_SKIP

Stops(walk) == [walk EXCEPT !.truncated = TRUE, !.queue = <<>>, !.on = FALSE]

Visit(walk, e) ==
    IF ~walk.on THEN walk
    ELSE IF Cardinality(walk.files) >= WalkCap THEN Stops(walk)
    ELSE IF e.kind = "link" THEN walk
    ELSE IF e.kind = "dir" /\ e.name \in Skips THEN [walk EXCEPT !.skipped = @ \cup {e.name}]
    ELSE IF e.kind = "dir" THEN [walk EXCEPT !.queue = Append(@, e.name)]
    ELSE [walk EXCEPT !.seen = @ + 1, !.files = IF e.keep THEN @ \cup {e.name} ELSE @]

RECURSIVE WalkOn(_, _)
WalkOn(walk, tree) ==
    IF walk.queue = <<>> THEN walk
    ELSE WalkOn(FoldLeft(Visit, [walk EXCEPT !.queue = Front(@), !.on = TRUE], tree[Last(walk.queue)]),
                tree)

Collect_(tree) == WalkOn([queue |-> <<"base">>, on |-> TRUE, files |-> {}, seen |-> 0, skipped |-> {},
                          truncated |-> FALSE], tree)

EntriesOf(tree, dir) == ToSet(tree[dir])
KeptIn(tree, dir) == {e.name : e \in {x \in EntriesOf(tree, dir) : x.kind = "file" /\ x.keep}}
Under(tree) == KeptIn(tree, "base") \cup (IF \E e \in EntriesOf(tree, "base") : e.name = "sub"
                                        THEN KeptIn(tree, "sub") ELSE {})

(* A walk lists what is under its base and nothing a link or a skipped directory leads to;
   one that is not complete says so. *)
WalkAccounts(tree) ==
    LET w == Collect_(tree)
    IN  /\ w.files \subseteq Under(tree)
        /\ w.truncated \/ w.files = Under(tree)
        /\ w.truncated => Cardinality(w.files) = WalkCap

-----------------------------------------------------------------------------
(* grep, over files given by how many lines they have and which of them match *)

(* The lines around each match, none twice *)
Wanted(n, matched, context) ==
    LET Around(acc, m) ==
            LET from == Max({1, m - context, acc.next})
                to   == Least(m + context, n)
            IN  [next |-> to + 1, lines |-> acc.lines \o [k \in 1..(to - from + 1) |-> from + k - 1]]
    IN  FoldLeft(Around, [next |-> 1, lines |-> <<>>], SetToSortSeq(matched, <)).lines

(* Emission stops at the cap; matches go on being counted *)
Grep(files, context) ==
    FoldLeft(LAMBDA r, f :
        LET wanted == Wanted(f.lines, f.matched, context)
            room   == IF r.spent THEN 0 ELSE MaxMatchLines - Len(r.emitted)
        IN  IF f.matched = {} THEN r
            ELSE [found |-> r.found + Cardinality(f.matched),
                  spent |-> r.spent \/ Len(wanted) > room,
                  emitted |-> r.emitted \o [i \in 1..Least(Len(wanted), room) |-> <<f.name, wanted[i]>>]],
        [found |-> 0, spent |-> FALSE, emitted |-> <<>>], files)

(* Every match is counted, no line is shown twice, and unless the result says lines were
   only counted, each match is shown with all its surroundings. *)
GrepAccounts(files, context) ==
    LET r == Grep(files, context)
        Near(f) == {l \in 1..f.lines : \E m \in f.matched : l - m \in -context..context}
        near == UNION {{<<f.name, l>> : l \in Near(f)} : f \in ToSet(files)}
    IN  /\ r.found = SumOf([i \in DOMAIN files |-> Cardinality(files[i].matched)])
        /\ IsInjective(r.emitted)
        /\ ToSet(r.emitted) \subseteq near
        /\ r.spent \/ ToSet(r.emitted) = near

-----------------------------------------------------------------------------
(* The instances checked *)
Sizes == BoundedSeq({1, 3, WindowBytes}, MaxFileLines)
Texts(n) == BoundedSeq({Line_(<<>>, "a"), Line_(<<>>, "b"), Line_(<<3>>, "a")}, n)
Signs(n, set) == BoundedSeq(set, n)
Listings(n, set) == {s \in BoundedSeq(set, n) : IsInjective(s)}
Trees == {[base |-> b, sub |-> s, target |-> <<Entry_("file", "built", TRUE)>>] :
            b \in Listings(4, {Entry_("file", "f", TRUE), Entry_("file", "g", FALSE), Entry_("link", "l", TRUE),
                               Entry_("dir", "sub", FALSE), Entry_("dir", "target", FALSE)}),
            s \in Listings(2, {Entry_("file", "h", TRUE), Entry_("file", "i", TRUE)})}
Searched == {<<[name |-> "f", lines |-> MaxFileLines, matched |-> m], [name |-> "g", lines |-> 2, matched |-> k]>> :
               m \in SUBSET (1..MaxFileLines), k \in SUBSET (1..2)}

FilesAsShown ==
    /\ \A file \in Sizes : PagedInOrder(file)
    /\ \A ls \in Texts(3), snippet \in Texts(2), content \in Texts(1) : EditsAsRead(ls, snippet, content)
    /\ \A p \in Signs(3, {"a", "*", "?", "/"}), s \in Signs(3, {"a", "b", "/"}) :
          GlobMatch(p, s) <=> MatchedWhole(p, s)
    /\ \A tree \in Trees : WalkAccounts(tree)
    /\ \A files \in Searched, context \in 0..2 : GrepAccounts(files, context)
=============================================================================
