------------------------------ MODULE Contract ------------------------------
(***************************************************************************)
(* What a child run may return (`OutputContract`, `CondensedResult`): its  *)
(* reply read back into the fields it was asked for (`parse_fields`, and   *)
(* what the loop does with the fields it finds missing), held to the       *)
(* contract (`validate`) and written out for its parent (`render`).  It is *)
(* the one place where words shaped by a document from outside cross into  *)
(* a window that acts.                                                     *)
(*                                                                         *)
(* A text is a sequence of lines.  A line keeps how far it is indented,    *)
(* the names before its colons and what follows them: nothing, a word, a   *)
(* control character, or a word with a line break in it that               *)
(* `str::lines` does not see (U+2028).                                     *)
(***************************************************************************)
EXTENDS Naturals, Sequences, FiniteSets, SequencesExt, FiniteSetsExt

CONSTANTS
    FieldCap,  \* FieldSpec.max_chars of the contracts checked
    MaxReply   \* bound: lines of a reply

Labels == <<"about", "source_1", "source_2">>     \* in the order a BTreeMap has them
Marks  == {"", "x", "esc", "brk"}

LineOf(in, names, text) == [in |-> in, names |-> names, text |-> text]
Lines == {LineOf(i, n, t) : i \in 0..1, n \in {<<>>, <<"source_1">>, <<"source_2">>}, t \in Marks}
           \cup {LineOf(0, <<"about">>, ""), LineOf(0, <<"source_1", "source_2">>, "x")}

Vacant(l) == l.names = <<>> /\ l.text = ""

(* str::trim of the joined lines *)
TrimLines(ls) ==
    LET full == {i \in DOMAIN ls : ~Vacant(ls[i])}
    IN  IF full = {} THEN <<>>
        ELSE <<[ls[Min(full)] EXCEPT !.in = 0]>> \o SubSeq(ls, Min(full) + 1, Max(full))

-----------------------------------------------------------------------------
(* CondensedResult::parse_fields *)

(* A declared name at column 0, before a colon *)
Opens(l, fields) == l.in = 0 /\ l.names # <<>> /\ l.names[1] \in fields

AfterName(l) == LET after == LineOf(0, Tail(l.names), l.text) IN IF Vacant(after) THEN <<>> ELSE <<after>>

Found(ls, fields) == {ls[i].names[1] : i \in {j \in DOMAIN ls : Opens(ls[j], fields)}}

(* A field's first header, and the lines up to the next header of any field *)
FieldValue(ls, fields, f) ==
    LET opens == {i \in DOMAIN ls : Opens(ls[i], fields)}
        first == Min({i \in opens : ls[i].names[1] = f})
        after == {i \in opens : i > first}
        last  == IF after = {} THEN Len(ls) ELSE Min(after) - 1
    IN  TrimLines(AfterName(ls[first]) \o SubSeq(ls, first + 1, last))

ParseFields(ls, fields) == [f \in Found(ls, fields) |-> FieldValue(ls, fields, f)]

-----------------------------------------------------------------------------
(* drive_inner, a finished reply: the whole of it for a contract of one field; otherwise
   what the child labelled, or the first field when it labelled nothing, and the
   harness's own words for a field it left out *)
Undescribed == <<LineOf(0, <<>>, "x")>>

ResultOf(ls, spec) ==
    LET names    == ToSet(spec.fields)
        labelled == IF Found(ls, names) = {} THEN [f \in {spec.fields[1]} |-> ls]
                    ELSE ParseFields(ls, names)
    IN  IF Len(spec.fields) = 1 THEN [f \in names |-> ls]
        ELSE [f \in names |-> IF f \in DOMAIN labelled THEN labelled[f] ELSE Undescribed]

(* is_renderable, of the characters a line may hold *)
Renderable(t) == t \notin {"esc", "brk"}

Width(l) == 2 * l.in + 2 * Len(l.names) + (IF l.text = "" THEN 0 ELSE 1)
Size(v) == FoldFunction(+, 0, [i \in DOMAIN v |-> Width(v[i])])
             + (IF v = <<>> THEN 0 ELSE Len(v) - 1)

(* FieldSpec::validate_value: the cap, and a line break only in a Text *)
ValueHolds(v, spec) == /\ Size(v) <= spec.cap
                       /\ spec.line => Len(v) <= 1
                       /\ \A i \in DOMAIN v : Renderable(v[i].text)

(* OutputContract::validate *)
Validates(result, spec) ==
    /\ DOMAIN result = ToSet(spec.fields)
    /\ \A f \in DOMAIN result : ValueHolds(result[f], spec)
    /\ FoldFunction(+, 0, [f \in DOMAIN result |-> Size(result[f])]) <= spec.max

(* mutant: `{k}: {v}` joined by newlines *)
IndentedNot(v) == v

Indented(v) == [i \in DOMAIN v |-> [v[i] EXCEPT !.in = @ + 1]]

(* CondensedResult::render: a header at column 0, and every line of a value behind it *)
Rendered(result) ==
    LET names == SelectSeq(Labels, LAMBDA f : f \in DOMAIN result)
    IN  FlattenSeq([n \in DOMAIN names |-> <<LineOf(0, <<names[n]>>, "")>>
                                             \o Indented(result[names[n]])])

(* OutputContract::structured for the reader, and for the one line of a headline *)
ReaderContract(n) == [fields |-> SubSeq(Labels, 1, n + 1), cap |-> FieldCap, line |-> FALSE,
                      max |-> (n + 1) * FieldCap]
LineContract == [fields |-> <<"about">>, cap |-> FieldCap, line |-> TRUE, max |-> FieldCap]

-----------------------------------------------------------------------------
(* What another reader of the same text sees: there the hidden break starts a line *)
Shown(ls) == FlattenSeq([i \in DOMAIN ls |->
    IF ls[i].text = "brk" THEN <<[ls[i] EXCEPT !.text = "x"], LineOf(0, <<"source_2">>, "x")>>
    ELSE <<ls[i]>>])

(* A value up to its indentation *)
Said(v) == LET t == TrimLines(v) IN [i \in DOMAIN t |-> <<t[i].names, t[i].text>>]

(* A note holds the fields it was made of and no other: nothing a value says reads as a
   field of its own, wherever the text is shown. *)
ReadsAsWritten(result) ==
    \E back \in {ParseFields(Shown(Rendered(result)), ToSet(Labels))} :
        /\ DOMAIN back = DOMAIN result
        /\ \A f \in DOMAIN back : Said(back[f]) = Said(result[f])

Replies == BoundedSeq(Lines, MaxReply)

(* condensed_note and compressed_results' answer from the cache: one source's field under
   its label, with what the reader said of them all or alone *)
NoteOf(label, about, body) ==
    [f \in {label} \cup (IF about = <<>> THEN {} ELSE {"about"}) |->
        IF f = label THEN body ELSE about]

NotesReadAsWritten(result) ==
    \A f \in DOMAIN result \ {"about"} :
        /\ ReadsAsWritten(NoteOf(f, result["about"], result[f]))
        /\ \A label \in ToSet(Labels) \ {"about"} : ReadsAsWritten(NoteOf(label, <<>>, result[f]))

(* What passes its contract reads back as it was written, in the note of each source too,
   and a reply that labels nothing speaks for no single source. *)
Faithful(reply, spec) ==
    \E result \in {ResultOf(reply, spec)} :
        /\ Validates(result, spec) => ReadsAsWritten(result) /\ NotesReadAsWritten(result)
        /\ Found(reply, ToSet(Labels)) = {} =>
              \A f \in ToSet(spec.fields) \ {"about"} : result[f] = Undescribed

Specs == {ReaderContract(1), ReaderContract(2), LineContract}

(* Replies a parent could be misled by: there is none. *)
Misread == {reply \in Replies : \E spec \in Specs : ~Faithful(reply, spec)}

-----------------------------------------------------------------------------
(* What a spawned child sends up: its validated result, or a line of the harness's own in
   brackets for every other way it can end (paused, escalated, raised, cancelled, failed
   with an error cut to one line, or a result that breaks its contract) *)
Outcomes == {"Completed", "Paused", "Escalated", "Raised", "Cancelled", "Failed"}

Bracketed == <<LineOf(0, <<>>, "[")>>

Returned_(outcome, result, spec) == outcome = "Completed" /\ Validates(result, spec)

TypedNote(outcome, result, spec) ==
    IF Returned_(outcome, result, spec) THEN Rendered(result) ELSE Bracketed

(* validated_headline: one line a quarantined reader wrote of the child's last words, if
   there was a slot for the reader and its line passes *)
Headline(slot, line) ==
    \E result \in {ResultOf(line, LineContract)} : slot /\ Validates(result, LineContract)

(* spawn's note under UpwardShape::TypedPlusValidatedSentence; without a headline it is
   that of UpwardShape::Typed *)
UpwardNote(outcome, result, spec, slot, line) ==
    TypedNote(outcome, result, spec)
      \o (IF outcome = "Completed" /\ Headline(slot, line)
          THEN Rendered(ResultOf(line, LineContract)) ELSE <<>>)

(* child_failed, and the tool line and wire turn it decides: read from the note's first
   character *)
NoteFailed(note) == note # <<>> /\ note[1].text = "[" /\ note[1].names = <<>>

TaskContracts == {[fields |-> f, cap |-> FieldCap, line |-> FALSE, max |-> Len(f) * FieldCap] :
                    f \in {<<"source_1">>, <<"source_1", "source_2">>}}

(* A parent reads in a child's note the fields of a result that passed its contract, the one
   validated line beside them, and nothing else the child said; and it is told of a
   failure exactly when there is no such result. *)
NoteSaysWhatHappened(outcome, reply, spec, slot, line) ==
    \E result \in {ResultOf(reply, spec)} :
        \E note \in {UpwardNote(outcome, result, spec, slot, line)} :
            \E back \in {ParseFields(Shown(note), ToSet(Labels))} :
                /\ NoteFailed(note) <=> ~Returned_(outcome, result, spec)
                /\ DOMAIN back = (IF Returned_(outcome, result, spec) THEN DOMAIN result ELSE {})
                                   \cup (IF outcome = "Completed" /\ Headline(slot, line) THEN {"about"} ELSE {})
                /\ \A f \in DOMAIN back \ {"about"} : Said(back[f]) = Said(result[f])
                /\ "about" \in DOMAIN back => Said(back["about"]) = Said(line)

ChildrenHeardTruly ==
    \A reply \in BoundedSeq(Lines, 2), line \in BoundedSeq(Lines, 1), spec \in TaskContracts :
        /\ NoteSaysWhatHappened("Completed", reply, spec, TRUE, line)
        /\ line = <<>> => \A outcome \in Outcomes, slot \in BOOLEAN :
                             NoteSaysWhatHappened(outcome, reply, spec, slot, line)
=============================================================================
