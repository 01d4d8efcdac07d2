------------------------------- MODULE Skills -------------------------------
(***************************************************************************)
(* The installed skills: the strict subset of YAML a SKILL.md header is    *)
(* read in (frontmatter.rs), what a header must declare before its skill   *)
(* is loaded and what the skill then gets (skill.rs), the scan of the      *)
(* profile's skills directory, and the `use` tool that ranks the skills it *)
(* found and reads the body of one (daemon/skills.rs).  The scan runs once *)
(* at startup; a body is read from disk each time it is asked for.         *)
(*                                                                         *)
(* A header line is its indentation, its shape and its key; its number is  *)
(* the value it holds.  `blank` is a blank or comment line and `refused`   *)
(* any construct outside the subset: an anchor, a tag, a flow map, a block *)
(* scalar, a bare scalar, an item that is itself a block, a tab in the     *)
(* indentation, a second document marker.                                  *)
(***************************************************************************)
EXTENDS Naturals, Sequences, FiniteSets, SequencesExt, FiniteSetsExt, TLC

CONSTANTS
    MaxHeader,      \* bound: lines of a header
    MaxPhrases,     \* MAX_TRIGGER_PHRASES
    MaxBody,        \* MAX_BODY_BYTES
    DiscoveryLimit  \* DISCOVERY_LIMIT

Leaf(kind, items) == [kind |-> kind, items |-> items]

(* A parsed header: every key by its path, with what stands there *)
ReadTo(at, out) == [ok |-> TRUE, at |-> at, out |-> out]
Unreadable        == [ok |-> FALSE, at |-> 0, out |-> <<>>]

-----------------------------------------------------------------------------
(* parse_block_seq, from line `at`: the items of one list *)
RECURSIVE ItemsFrom(_, _, _)
ItemsFrom(ls, at, indent) ==
    IF at > Len(ls) \/ ls[at].in < indent \/ (ls[at].in = indent /\ ls[at].shape \notin {"item", "refused"})
    THEN [ok |-> TRUE, at |-> at, items |-> <<>>]
    ELSE IF ls[at].in > indent \/ ls[at].shape = "refused"
    THEN [ok |-> FALSE, at |-> at, items |-> <<>>]
    ELSE LET after == ItemsFrom(ls, at + 1, indent)
         IN  [after EXCEPT !.items = <<ls[at].no>> \o @]

(* parse_map, from line `at`: the keys of the block at `path` *)
RECURSIVE ParseMap(_, _, _, _, _)
RECURSIVE ParseUnder(_, _, _, _, _)

ParseMap(ls, at, indent, path, out) ==
    IF at > Len(ls) \/ ls[at].in < indent THEN ReadTo(at, out)
    ELSE IF \/ ls[at].in > indent
            \/ ls[at].shape \in {"item", "refused"}
            \/ Append(path, ls[at].key) \in DOMAIN out
    THEN Unreadable
    ELSE IF ls[at].shape # "block"
    THEN ParseMap(ls, at + 1, indent, path,
                  out @@ (Append(path, ls[at].key) :> Leaf(ls[at].shape, <<ls[at].no>>)))
    ELSE ParseUnder(ls, at, indent, path, out)

(* `key:` with nothing after it: an empty block, a list, or a block further in *)
ParseUnder(ls, at, indent, path, out) ==
    LET under == Append(path, ls[at].key)
        next  == at + 1
    IN  IF next > Len(ls) \/ ls[next].in <= indent
        THEN ParseMap(ls, next, indent, path, out @@ (under :> Leaf("block", <<>>)))
        ELSE IF ls[next].shape = "item"
        THEN LET got == ItemsFrom(ls, next, ls[next].in)
             IN  IF got.ok THEN ParseMap(ls, got.at, indent, path, out @@ (under :> Leaf("list", got.items)))
                 ELSE Unreadable
        ELSE LET got == ParseMap(ls, next, ls[next].in, under, out @@ (under :> Leaf("block", <<>>)))
             IN  IF got.ok THEN ParseMap(ls, got.at, indent, path, got.out) ELSE Unreadable

(* parse: blank lines aside, one block from column 0 to the last line *)
Numbered_(header) == [i \in DOMAIN header |-> header[i] @@ [no |-> i]]

ParseHeader(header) ==
    LET ls  == SelectSeq(Numbered_(header), LAMBDA l : l.shape # "blank")
        got == ParseMap(ls, 1, 0, <<>>, <<>>)
    IN  IF got.ok /\ got.at = Len(ls) + 1 THEN got ELSE Unreadable

(* What the header means: a line belongs to the nearest line above it that is further out;
   the lines of one block stand at one column and are its keys, each declared once, or
   its items. *)
Above(ls, i) == Max({0} \cup {j \in 1..(i - 1) : ls[j].in < ls[i].in})

PathOf(ls, i) ==
    LET up[j \in 0..Len(ls)] == IF j = 0 THEN <<>> ELSE Append(up[Above(ls, j)], ls[j].key)
    IN  up[i]

MeansSomething(ls) ==
    \A i \in DOMAIN ls :
        /\ ls[i].shape # "refused"
        /\ IF Above(ls, i) = 0 THEN ls[i].in = 0 /\ ls[i].shape # "item"
           ELSE ls[Above(ls, i)].shape = "block"
        /\ \A j \in 1..(i - 1) : Above(ls, j) = Above(ls, i) =>
              /\ ls[j].in = ls[i].in
              /\ (ls[j].shape = "item") = (ls[i].shape = "item")
              /\ ls[i].shape = "item" \/ ls[j].key # ls[i].key

MeaningOf(ls, i) ==
    LET items == {j \in DOMAIN ls : Above(ls, j) = i /\ ls[j].shape = "item"}
    IN  IF ls[i].shape # "block" THEN Leaf(ls[i].shape, <<ls[i].no>>)
        ELSE IF items = {} THEN Leaf("block", <<>>)
        ELSE Leaf("list", [n \in 1..Cardinality(items) |->
                        ls[CHOOSE j \in items : Cardinality({k \in items : k <= j}) = n].no])

Meaning(ls) ==
    LET keys == {i \in DOMAIN ls : ls[i].shape # "item"}
    IN  [path \in {PathOf(ls, i) : i \in keys} |->
            MeaningOf(ls, CHOOSE i \in keys : PathOf(ls, i) = path)]

HeaderShapes == {<<"block", "a">>, <<"scalar", "a">>, <<"scalar", "b">>, <<"item", "">>}
HeaderLines == {[in |-> n, shape |-> s[1], key |-> s[2]] : n \in 0..2, s \in HeaderShapes}
                 \cup {[in |-> 0, shape |-> "refused", key |-> "a"], [in |-> 1, shape |-> "blank", key |-> ""]}

(* A header loads exactly when every line of it has one place, and then means what its
   lines say. *)
HeadersReadTruly ==
    \A header \in BoundedSeq(HeaderLines, MaxHeader) :
        \E ls \in {SelectSeq(Numbered_(header), LAMBDA l : l.shape # "blank")} :
            \E got \in {ParseHeader(header)} :
                /\ got.ok = MeansSomething(ls)
                /\ got.ok => got.out = Meaning(ls)

-----------------------------------------------------------------------------
(* A value on its line: words, spaces, quotes, commas and the sign of a comment *)

(* strip_comment: `#` after a space, outside quotes *)
CommentStarts(s) ==
    LET quoted[i \in 0..Len(s)] == IF i = 0 THEN FALSE
                                   ELSE IF s[i] = "'" THEN ~quoted[i - 1] ELSE quoted[i - 1]
    IN  {i \in DOMAIN s : s[i] = "#" /\ ~quoted[i - 1] /\ (i = 1 \/ s[i - 1] = "_")}

StripComment(s) == IF CommentStarts(s) = {} THEN s ELSE SubSeq(s, 1, Min(CommentStarts(s)) - 1)

TrimSpaces(s) ==
    LET kept == {i \in DOMAIN s : s[i] # "_"}
    IN  IF kept = {} THEN <<>> ELSE SubSeq(s, Min(kept), Max(kept))

(* scalar: what a pair of quotes holds, or the text itself *)
ScalarOf(s) == IF s # <<>> /\ s[1] = "'" THEN SubSeq(s, 2, Len(s) - 1) ELSE s

(* parse_flow_seq of `[...]`: commas outside quotes part the items, an empty last one
   is none *)
FlowItems(s) ==
    LET cut == FoldLeft(LAMBDA acc, c :
                 IF c = "," /\ ~acc.quoted
                 THEN [acc EXCEPT !.out = Append(@, ScalarOf(TrimSpaces(acc.item))), !.item = <<>>]
                 ELSE [acc EXCEPT !.item = Append(@, c), !.quoted = IF c = "'" THEN ~@ ELSE @],
                 [out |-> <<>>, item |-> <<>>, quoted |-> FALSE], s)
        rest == TrimSpaces(cut.item)
    IN  IF rest = <<>> THEN cut.out ELSE Append(cut.out, ScalarOf(rest))

ListItems == {<<"w">>, <<"w", "_", "w">>, <<"w", "#">>, <<"w", ",", "_", "w">>, <<"_", "#", "w">>, <<>>}

(* An author quotes what is empty, has a comma or could be taken for a comment or a margin *)
Spelled(item) ==
    IF item = <<>> \/ "," \in ToSet(item) \/ item[1] = "_" THEN <<"'">> \o item \o <<"'">> ELSE item

SpelledList(items) == FlattenSeq([i \in DOMAIN items |->
    (IF i = 1 THEN <<>> ELSE <<",", "_">>) \o Spelled(items[i])])

(* A list reads back as it was written, with a comment behind it or without. *)
ListsReadBack ==
    \A items \in BoundedSeq(ListItems, 3) : \E text \in {SpelledList(items)} :
        \A note \in {<<>>, <<"_", "#", "w">>, <<"_", "#", "'", ",">>} :
            FlowItems(TrimSpaces(StripComment(text \o note))) = items

-----------------------------------------------------------------------------
(* load_skill, of a header read as paths and their values *)
KindAt(front, path) == IF path \in DOMAIN front THEN front[path].kind ELSE "absent"

Extension  == <<"x-marlowe">>
Vocabulary == {"capability", "consequence", "trigger_phrases", "signature"}
ScopeLists == {"paths", "hosts", "creds"}
Severity   == [inert |-> 0, reversible |-> 1, consequential |-> 2, irreversible |-> 3]

(* as_seq: a list, or one scalar; nothing when the key is absent *)
ListAt(front, path) == IF path \in DOMAIN front THEN front[path].items ELSE <<>>

Phrases(front) == SelectSeq(ListAt(front, Extension \o <<"trigger_phrases">>), LAMBDA p : p # "")

Loads(front, bytes) ==
    /\ KindAt(front, <<"name">>) = "scalar" /\ front[<<"name">>].items # <<"">>
    /\ KindAt(front, <<"description">>) = "scalar"
    /\ KindAt(front, Extension) \in {"absent", "block"}
    /\ \A path \in DOMAIN front : Len(path) = 2 /\ path[1] = "x-marlowe" => path[2] \in Vocabulary
    /\ KindAt(front, Extension \o <<"capability">>) \in {"absent", "block"}
    /\ \A l \in ScopeLists : KindAt(front, Extension \o <<"capability", l>>) # "block"
    /\ LET path == Extension \o <<"consequence">>
       IN  path \in DOMAIN front =>
              front[path].kind = "scalar" /\ front[path].items[1] \in DOMAIN Severity
    /\ KindAt(front, Extension \o <<"trigger_phrases">>) # "block"
    /\ Len(Phrases(front)) <= MaxPhrases
    /\ LET path == Extension \o <<"signature">>      \* well formed, and checked against nothing
       IN  path \in DOMAIN front => front[path] = Leaf("scalar", <<"alg:value">>)
    /\ bytes <= MaxBody

(* The manifest it is loaded with: an absent consequence is the greatest *)
SkillOf(front, bytes) ==
    [id      |-> front[<<"name">>].items[1],
     level   |-> LET path == Extension \o <<"consequence">>
                 IN  IF path \in DOMAIN front THEN Severity[front[path].items[1]] ELSE 3,
     scope   |-> [l \in ScopeLists |-> ListAt(front, Extension \o <<"capability", l>>)],
     phrases |-> Phrases(front),
     bytes   |-> bytes]

(* Headers whose keys are all there; those checked leave keys out and change one *)
FullHeader ==
    (<<"name">> :> Leaf("scalar", <<"n">>)) @@ (<<"description">> :> Leaf("scalar", <<"d">>))
      @@ (Extension :> Leaf("block", <<>>))
      @@ (Extension \o <<"consequence">> :> Leaf("scalar", <<"inert">>))
      @@ (Extension \o <<"capability">> :> Leaf("block", <<>>))
      @@ (Extension \o <<"capability", "paths">> :> Leaf("list", <<"p">>))
      @@ (Extension \o <<"capability", "hosts">> :> Leaf("scalar", <<"h">>))
      @@ (Extension \o <<"trigger_phrases">> :> Leaf("list", <<"w", "", "w">>))
      @@ (Extension \o <<"signature">> :> Leaf("scalar", <<"alg:value">>))

Values_ == {Leaf("scalar", <<"">>), Leaf("scalar", <<"reversible">>), Leaf("scalar", <<"harmless">>),
            Leaf("list", <<"w", "w", "w">>), Leaf("block", <<>>)}

Beneath(path, p) == Len(p) >= Len(path) /\ SubSeq(p, 1, Len(path)) = path

Without(front, path) == [p \in {q \in DOMAIN front : ~Beneath(path, q)} |-> front[p]]

Headers == LET fewer == {FullHeader} \cup {Without(FullHeader, p) : p \in DOMAIN FullHeader}
           IN  fewer \cup {(p :> v) @@ Without(f, p) : f \in fewer, p \in DOMAIN FullHeader, v \in Values_}

Misspelt(front, path) == (Append(Front(path), "mispelt") :> front[path]) @@ Without(front, path)

(* Leaving a declaration out of a header never frees its skill of a constraint: the skill is
   refused, or is taken to be at least as consequential and to reach no further.  And a
   key of the extension that is spelt wrong is refused, not dropped. *)
OmissionNeverFrees ==
    \A front \in Headers : Loads(front, 1) => \A path \in DOMAIN front :
        /\ Loads(Without(front, path), 1) =>
              \E was \in {SkillOf(front, 1)}, is \in {SkillOf(Without(front, path), 1)} :
                  /\ is.level >= was.level
                  /\ \A l \in ScopeLists : ToSet(is.scope[l]) \subseteq ToSet(was.scope[l])
        /\ Len(path) = 2 => ~Loads(Misspelt(front, path), 1)

-----------------------------------------------------------------------------
(* A directory of the profile's skills: its SKILL.md is missing, cannot be read, is never
   closed, does not load, or is a skill of that name with a body of that size *)
Files == {[state |-> s, id |-> "", bytes |-> 0] : s \in {"missing", "unreadable", "unclosed", "invalid"}}
           \cup {[state |-> "skill", id |-> i, bytes |-> b] : i \in {"n", "m"}, b \in {1, MaxBody, MaxBody + 1}}

LoadsFile(file) == file.state = "skill" /\ file.bytes <= MaxBody

(* scan, and SkillRegistry::insert: directories in order, the first of a name is kept,
   every other SKILL.md is reported *)
Scan(files) ==
    FoldLeft(LAMBDA acc, d :
        CASE files[d].state = "missing" -> acc
          [] LoadsFile(files[d]) /\ files[d].id \notin DOMAIN acc.skills ->
                [acc EXCEPT !.skills = @ @@ (files[d].id :> [dir |-> d, bytes |-> files[d].bytes])]
          [] OTHER -> [acc EXCEPT !.errors = Append(@, d)],
        [skills |-> <<>>, errors |-> <<>>], [d \in DOMAIN files |-> d])

(* BodyRef::read: the file as it is now, what follows its header; nothing else of it is
   looked at again *)
ReadBody(file) == IF file.state \in {"invalid", "skill"} THEN {file.bytes} ELSE {}

SkillAnswer(kind, trust, dir, bytes) == [kind |-> kind, trust |-> trust, dir |-> dir, bytes |-> bytes]

(* SkillTools::disclose *)
Disclose(skills, files, name) ==
    IF name \notin DOMAIN skills \/ ReadBody(files[skills[name].dir]) = {}
    THEN SkillAnswer("failed", "AgentObserved", 0, 0)
    ELSE SkillAnswer("body", "UserAsserted", skills[name].dir, skills[name].bytes)

(* rank: best score first, then by id; no skill that shares no word with the query *)
RankSkills(ids, score) ==
    LET hits == SetToSortSeq({i \in ids : score[i] > 0},
                             LAMBDA i, j : score[i] > score[j] \/ (score[i] = score[j] /\ i < j))
    IN  SubSeq(hits, 1, Min({Len(hits), DiscoveryLimit}))

(* SkillTools::discover *)
Discover(skills, matches) ==
    IF {i \in DOMAIN skills : i \in matches} = {} THEN SkillAnswer("none", "AgentObserved", 0, 0)
    ELSE SkillAnswer("list", "UserAsserted", 0, 0)

(* use_tool: a name given decides, whatever else is asked *)
UseTool(skills, files, args) ==
    IF args.name # "" THEN Disclose(skills, files, args.name)
    ELSE IF args.query # {} THEN Discover(skills, args.query)
    ELSE SkillAnswer("failed", "AgentObserved", 0, 0)

(* hits_for: what a turn is told unasked *)
HitsFor(skills, matches) == DOMAIN skills \cap matches

(* Every SKILL.md is a skill or a reported refusal, never both, never neither; and of two of
   one name the earlier directory's is the skill. *)
ScanAccounts(files) ==
    \E got \in {Scan(files)} : \A d \in DOMAIN files :
        \E kept \in {{i \in DOMAIN got.skills : got.skills[i].dir = d}} :
            /\ Cardinality(kept) + Cardinality({e \in DOMAIN got.errors : got.errors[e] = d})
                 = (IF files[d].state = "missing" THEN 0 ELSE 1)
            /\ kept \subseteq {files[d].id}
            /\ kept = {} /\ LoadsFile(files[d]) =>
                  \E c \in 1..(d - 1) : LoadsFile(files[c]) /\ files[c].id = files[d].id

(* A body is told only to who named its skill, and it is the body of the directory that
   name was found in at startup.  As long as the file stays as it was, it is within the
   cap and of the size that was told. *)
BodiesByName(files, later) ==
    \E skills \in {Scan(files).skills} :
        \A args \in [name : {"", "n", "m"}, query : SUBSET {"n", "m"}] :
            \E told \in {UseTool(skills, later, args)} :
                /\ told.kind = "body" =>
                      /\ args.name \in DOMAIN skills /\ files[told.dir].id = args.name
                      /\ later[told.dir] = files[told.dir] =>
                            ReadBody(later[told.dir]) = {told.bytes} /\ told.bytes <= MaxBody
                /\ args.name \in DOMAIN skills /\ later = files => told.kind = "body"
                /\ told.kind = "list" => args.name = "" /\ HitsFor(skills, args.query) # {}
                /\ told.kind # "failed" /\ args.name = "" => told.dir = 0

(* A skill is listed exactly when fewer than the limit come before it. *)
RankedFairly ==
    \A score \in [1..3 -> 0..2] : \E hits \in {ToSet(RankSkills(1..3, score))} : \A i \in 1..3 :
        i \in hits <=> /\ score[i] > 0
                       /\ Cardinality({j \in 1..3 : score[j] > score[i] \/ (score[j] = score[i] /\ j < i)})
                             < DiscoveryLimit

SkillsStand ==
    /\ HeadersReadTruly /\ ListsReadBack /\ OmissionNeverFrees /\ RankedFairly
    /\ \A files \in BoundedSeq(Files, 3) : ScanAccounts(files)
    /\ \A files, later \in BoundedSeq(Files, 2) : Len(files) = Len(later) => BodiesByName(files, later)
=============================================================================
