------------------------------- MODULE Tokens -------------------------------
(***************************************************************************)
(* The tokenizer of the two encoders: a text becomes ids for the embedder   *)
(* (`encode`), a query and a document one padded row for the cross-encoder  *)
(* (`encode_pair`).                                                         *)
(*                                                                          *)
(* A text is a sequence of characters, each a member of a class that the    *)
(* code tells apart; a special literal such as `[MASK]` is one character.   *)
(* A piece is the sequence of characters it spells, behind `##` when it     *)
(* continues a word.                                                        *)
(***************************************************************************)
EXTENDS Naturals, Sequences, FiniteSets, SequencesExt, FiniteSetsExt

CONSTANTS
    VocabLines,       \* vocab.txt: a token a line, some of them ended by "cr"
    TokenizerJson,    \* tokenizer.json of the cross-encoder: [normalizer, vocab]
    VocabSize,        \* VOCAB_SIZE, and CROSS_ENCODER_VOCAB_SIZE of the same table
    MaxWord,          \* MAX_INPUT_CHARS_PER_WORD
    MaxText, MaxPair  \* MAX_SEQ_LEN of the embedder and of the cross-encoder

Unk == <<"[UNK]">>
Cls == <<"[CLS]">>
Sep == <<"[SEP]">>
Pad == <<"[PAD]">>
SpecialLiterals == {"[MASK]", "[SEP]"}

(* Vocab: a token's id is its line; only the line's own ending is cut off it *)
WithoutCr(line) == IF line # <<>> /\ Last(line) = "cr" THEN Front(line) ELSE line
Vocab ==
    LET lines == [i \in DOMAIN VocabLines |-> WithoutCr(VocabLines[i])]
    IN  [t \in Range(lines) |-> Max({i \in DOMAIN lines : lines[i] = t}) - 1]

(* finish: as many tokens as the model has rows, and every literal `encode` may emit *)
finish(vocab) == /\ Cardinality(DOMAIN vocab) = VocabSize
                 /\ {<<"[MASK]">>, Unk, Cls, Sep, Pad} \subseteq DOMAIN vocab

(* from_tokenizer_json: the normalization it declares is the one of this build *)
Normalizer == [lowercase |-> TRUE, clean_text |-> TRUE, handle_chinese_chars |-> TRUE,
               strip_accents |-> "null"]
from_tokenizer_json(json) == json.normalizer = Normalizer /\ finish(json.vocab)

(* Nothing is tokenized with a vocabulary that was refused *)
ASSUME VocabAssumption == finish(Vocab) /\ from_tokenizer_json(TokenizerJson)

(* The pieces that begin a word, and those that continue one *)
Continues(t) == Len(t) > 1 /\ t[1] = "##"
Heads == {t \in DOMAIN Vocab : ~Continues(t)}
Tails == {Tail(t) : t \in {t \in DOMAIN Vocab : Continues(t)}}

Spaces == {"space", "newline"}
Controls == {"nul", "control"}
Boundaries == {"space", "separator"}   \* of words: a line separator is no white space
Punctuation == {","}
Cjk == {"cjk"}

(* lower_and_strip_accents: one character may fold to none *)
FoldChar(c) == IF c = "mark" THEN <<>> ELSE IF c = "A" THEN <<"a">> ELSE <<c>>

CleanChar(c) ==
    IF c \in Spaces THEN <<"space">>
    ELSE IF c \in Controls THEN <<>>
    ELSE IF c \in Cjk THEN <<"space", c, "space">> ELSE <<c>>
clean_and_space_cjk(text) == FlattenSeq([i \in DOMAIN text |-> CleanChar(text[i])])

Nonempty(parts) == SelectSeq(parts, LAMBDA p : p # <<>>)

(* Cut before and after each character of `cuts`, which are kept or dropped *)
CutAt(text, cuts, keep) ==
    LET add(acc, c) ==
            IF c \notin cuts THEN [acc EXCEPT ![Len(acc)] = Append(@, c)]
            ELSE acc \o (IF keep THEN << <<c>>, <<>> >> ELSE << <<>> >>)
    IN  Nonempty(FoldLeft(add, << <<>> >>, text))

Folded(word) == FlattenSeq([i \in DOMAIN word |-> FoldChar(word[i])])
split_on_punctuation(word) == CutAt(word, Punctuation, TRUE)

basic_tokenize(text) ==
    LET words == CutAt(clean_and_space_cjk(text), Boundaries, FALSE)
    IN  FlattenSeq([i \in DOMAIN words |-> split_on_punctuation(Folded(words[i]))])

(* The longest piece that begins at `start`, over and over; a word that      *)
(* cannot be spelled to its end is unknown as a whole                        *)
wordpiece(word) ==
    LET ends(start) == {e \in start..Len(word) :
                          SubSeq(word, start, e) \in (IF start = 1 THEN Heads ELSE Tails)}
        spell(acc, i) ==
            IF acc.unknown \/ i # acc.start THEN acc
            ELSE IF ends(i) = {} THEN [acc EXCEPT !.unknown = TRUE]
            ELSE [acc EXCEPT !.start = Max(ends(i)) + 1,
                             !.pieces = Append(@, (IF i = 1 THEN <<>> ELSE <<"##">>)
                                                    \o SubSeq(word, i, Max(ends(i))))]
        spelled == FoldLeft(spell, [start |-> 1, pieces |-> <<>>, unknown |-> Len(word) > MaxWord],
                            [i \in DOMAIN word |-> i])
    IN  IF spelled.unknown THEN <<Unk>> ELSE spelled.pieces

split_on_special(text) == CutAt(text, SpecialLiterals, TRUE)

pieces_of(text) ==
    LET segments == split_on_special(text)
        pieces(segment) ==
            IF segment[1] \in SpecialLiterals THEN <<segment>>
            ELSE LET words == basic_tokenize(segment)
                 IN  FlattenSeq([i \in DOMAIN words |-> wordpiece(words[i])])
    IN  FlattenSeq([i \in DOMAIN segments |-> pieces(segments[i])])

Keep(s, n) == SubSeq(s, 1, Min({n, Len(s)}))

encode(text) == <<Cls>> \o Keep(pieces_of(text), MaxText - 2) \o <<Sep>>

(* One turn of encode_pair's loop: the longer side loses its last piece *)
Shrink(lens, i) ==
    IF lens[1] + lens[2] <= MaxPair - 3 THEN lens
    ELSE IF lens[1] >= lens[2] THEN <<lens[1] - 1, lens[2]>> ELSE <<lens[1], lens[2] - 1>>

PadTo(s, x, n) == s \o [i \in 1..(n - Len(s)) |-> x]

encode_pair(query, document) ==
    LET a == pieces_of(query)
        b == pieces_of(document)
        lens == FoldLeft(Shrink, <<Len(a), Len(b)>>, a \o b)
        left == <<Cls>> \o Keep(a, lens[1]) \o <<Sep>>
        row == left \o Keep(b, lens[2]) \o <<Sep>>
    IN  [ids |-> PadTo(row, Pad, MaxPair),
         mask |-> PadTo([i \in DOMAIN row |-> 1], 0, MaxPair),
         types |-> PadTo([i \in DOMAIN row |-> IF i <= Len(left) THEN 0 ELSE 1], 0, MaxPair),
         truncated |-> lens # <<Len(a), Len(b)>>]
=============================================================================
