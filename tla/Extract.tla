------------------------------ MODULE Extract -------------------------------
(***************************************************************************)
(* marlowe-extract: what a body is taken for, and what becomes of its text. *)
(*                                                                          *)
(* A body is what its bytes show at each place the code looks: the magic at *)
(* its start, the declared type, the extension of its URL, the shape of its *)
(* first kilobytes, its declared charset, and its content: tokens for HTML, *)
(* entries for an archive, a number of runs of text otherwise.  A document  *)
(* is its format, its text (places in the content) and the kinds of warning *)
(* it carries; titles and the other metadata are left out.                  *)
(***************************************************************************)
EXTENDS HtmlText

CONSTANTS
    MaxEntry, MaxTotal,    \* MAX_ENTRY_BYTES and MAX_TOTAL_BYTES of an archive, in runs
    MaxChapters,           \* MAX_CHAPTERS of a book
    MaxShared,             \* MAX_SHARED_BYTES of a workbook's strings
    MaxRows,               \* MAX_CSV_ROWS
    PerPage                \* MIN_CHARS_PER_PAGE

ASSUME ExtractAssumption ==
    {MaxEntry, MaxTotal, MaxChapters, MaxShared, MaxRows, PerPage} \subseteq Nat

NoString == 0                 \* the empty string

Archives == {"docx", "xlsx", "pptx", "epub"}
Formats  == {"html", "xml", "pdf", "text", "markdown", "json", "csv", "unsupported"} \cup Archives

(* a body with nothing to recognise it by *)
Bare == [magic |-> "none", mime |-> "none", ext |-> "none", shape |-> "plain", label |-> "none",
         bom |-> FALSE, meta |-> FALSE, valid |-> TRUE, page |-> <<>>, parts |-> <<>>,
         spine |-> <<>>, runs |-> 0, pages |-> 0, deep |-> FALSE, locked |-> FALSE,
         panics |-> FALSE]

-----------------------------------------------------------------------------
(* sniff::detect: the bytes, then the declaration, then the name, then the shape *)

OfShape == [plain |-> "text", md |-> "markdown", csv |-> "csv", binary |-> "unsupported",
            json |-> "json", markup |-> "html", xhtml |-> "html", xml |-> "xml"]

Detect(b) ==
    CASE b.magic # "none" -> b.magic                \* %PDF-, PK (and what is in it), <html
      [] b.magic = "none" /\ b.mime # "none" ->
           IF b.mime = "xml" /\ b.shape = "xhtml" THEN "html" ELSE b.mime
      [] b.magic = "none" /\ b.mime = "none" /\ b.ext # "none" -> b.ext
      [] OTHER -> OfShape[b.shape]

(* charset::decode: the mark at the start, the header, the page's own declaration, UTF-8 when *)
(* it fits, and else windows-1252 for a page (which decodes anything) and UTF-8 for the rest   *)
DecodeWarnings(b, html) ==
    LET unknown == ~b.bom /\ b.label = "unknown"
        named   == b.bom \/ b.label = "known" \/ (b.label = "none" /\ html /\ b.meta)
    IN (IF unknown THEN {"unknown-charset"} ELSE {})
       \cup (IF ~b.valid /\ (named \/ ~html) THEN {"lossy-decode"} ELSE {})

(* normalize: the text is cut at the limit and the cut is reported *)
FirstOf(s, n) == SubSeq(s, 1, IF Len(s) < n THEN Len(s) ELSE n)
Normalize(text) == FirstOf(text, MaxText)
CutWarning(text) == IF Len(text) > MaxText THEN {"truncated"} ELSE {}

Doc(format, raw, notes) ==
    [ok |-> TRUE, format |-> format, text |-> Normalize(raw), notes |-> notes \cup CutWarning(raw),
     spent |-> 0]
NoDocument(kind) == [ok |-> FALSE, format |-> kind, text |-> <<>>, notes |-> {}, spent |-> 0]

Runs(n) == [i \in 1..n |-> i]

-----------------------------------------------------------------------------
(* zip::Archive::read: the size an entry declares is checked before it is inflated, the   *)
(* total only before the next entry is                                                    *)

(* what comes out, whatever the header said: the decoder stops at the ceiling *)
Inflated(e) == IF e.is < MaxEntry THEN e.is ELSE MaxEntry

Readable(e, spent) == e.sound /\ e.says <= MaxEntry /\ spent <= MaxTotal

(* One part of an office document: its text is added, or it is skipped; `told` parts are *)
(* announced when they are                                                               *)
ReadPart(a, e, told) ==
    IF Readable(e, a.spent)
    THEN [a EXCEPT !.spent = @ + Inflated(e), !.text = @ \o Runs(Inflated(e))]
    ELSE [a EXCEPT !.notes = IF told THEN @ \cup {"part-skipped"} ELSE @]

NothingRead == [text |-> <<>>, notes |-> {}, spent |-> 0]
PartsOf(b, kinds) == SelectSeq(b.parts, LAMBDA e : e.kind \in kinds)
ReadAll(a, parts, told) == FoldLeft(LAMBDA s, e : ReadPart(s, e, told), a, parts)

(* the body text, then the notes at the foot and at the end *)
Docx(b) == ReadAll(NothingRead, PartsOf(b, {"main"}) \o PartsOf(b, {"note"}), TRUE)

(* A string over the budget leaves a blank in its place: the cells count from the start *)
Kept(table, size) ==
    IF table.bytes + size > MaxShared THEN [table EXCEPT !.list = Append(@, NoString), !.next = @ + 1]
    ELSE [list |-> Append(table.list, table.next), bytes |-> table.bytes + size,
          next |-> table.next + 1]

(* shared_strings: the strings in order, each known by its place *)
SharedStrings(e) ==
    FoldLeft(Kept, [list |-> <<>>, bytes |-> 0, next |-> 1], e.strings).list

(* sheet_text: a cell holds the number of its string; one that is not there shows nothing *)
SheetText(e, shared) ==
    LET shown == SelectSeq(e.cells, LAMBDA c : c \in DOMAIN shared)
    IN [n \in DOMAIN shown |-> shared[shown[n]]]

(* the cells of a workbook whose string its table has *)
Cells(b) ==
    LET strings == PartsOf(b, {"shared"})[1].strings
        sheets  == PartsOf(b, {"main"})
    IN SelectSeq(FoldLeft(LAMBDA s, e : s \o e.cells, <<>>, sheets), LAMBDA c : c \in DOMAIN strings)

(* the table of strings, without which cells are numbers, then sheets while there is room *)
Xlsx(b) ==
    LET tables == PartsOf(b, {"shared"})
        begun  == ReadAll(NothingRead, tables, TRUE)
        shared == IF tables # <<>> /\ begun.notes = {} THEN SharedStrings(tables[1]) ELSE <<>>
        sheet(a, e) ==
            IF Len(a.text) >= MaxText THEN a
            ELSE [ReadPart(a, e, TRUE) EXCEPT !.text = IF Readable(e, a.spent)
                                                       THEN a.text \o SheetText(e, shared) ELSE a.text]
    IN FoldLeft(sheet, [begun EXCEPT !.text = <<>>], PartsOf(b, {"main"}))

(* a slide that cannot be read is announced, the speaker's notes are not *)
Pptx(b) == ReadAll(ReadAll(NothingRead, PartsOf(b, {"main"}), TRUE), PartsOf(b, {"note"}), FALSE)

(* the chapters the spine names, in its order; every page of the archive when there is none *)
Epub(b) ==
    LET index  == FoldLeft(LAMBDA a, e : ReadPart(a, e, FALSE), NothingRead, PartsOf(b, {"index"}))
        spine  == IF index.text = <<>> THEN <<>> ELSE b.spine
        pages  == PartsOf(b, {"main"})
        found  == SelectSeq(FirstOf(spine, MaxChapters), LAMBDA c : c \in DOMAIN pages)
        named  == [n \in DOMAIN found |-> pages[found[n]]]
        begun  == [index EXCEPT !.text = <<>>]
    IN IF spine = <<>>
       THEN ReadAll([begun EXCEPT !.notes = {"recovered"}], FirstOf(pages, MaxChapters), TRUE)
       ELSE ReadAll(begun, named, TRUE)

OfficeExtract(b, format) ==
    IF b.parts = <<>> THEN NoDocument("malformed")
    ELSE LET a == CASE format = "docx" -> Docx(b)
                    [] format = "xlsx" -> Xlsx(b)
                    [] format = "pptx" -> Pptx(b)
                    [] format = "epub" -> Epub(b)
         IN [Doc(format, a.text, a.notes) EXCEPT !.spent = a.spent]

-----------------------------------------------------------------------------
(* The other formats *)

(* A page of script with next to no text was assembled in a browser: `deep` stands for that *)
HtmlDoc(b) ==
    LET kept == HtmlExtract(b.page)
    IN Doc("html", kept, DecodeWarnings(b, TRUE)
                         \cup (IF Recovered(Parsed(b.page).blocks) THEN {"recovered"} ELSE {})
                         \cup (IF b.deep /\ Len(kept) < MinKept THEN {"likely-client-rendered"}
                               ELSE {}))

(* an encrypted file is tried all the same; too little text for the pages there are is a scan *)
PdfDoc(b) ==
    IF b.panics THEN NoDocument("backend-error")
    ELSE LET pages == IF b.pages = 0 THEN 1 ELSE b.pages
         IN Doc("pdf", Runs(b.runs),
                (IF b.locked THEN {"encrypted"} ELSE {})
                \cup (IF b.runs < pages * PerPage THEN {"no-text-layer"} ELSE {}))

(* rows past the limit are counted and the count is written into the text *)
CsvDoc(b) ==
    LET kept == IF b.runs > MaxRows THEN MaxRows ELSE b.runs
    IN Doc("csv", Runs(kept), DecodeWarnings(b, FALSE)
                              \cup (IF b.runs > MaxRows THEN {"truncated"} ELSE {}))

(* JSON below the depth limit is flattened and XML is kept up to its first error: both say so *)
PlainDoc(b, format) ==
    Doc(format, Runs(b.runs),
        DecodeWarnings(b, FALSE)
        \cup (IF b.deep /\ format \in {"json", "xml"} THEN {"recovered"} ELSE {}))

(* extract: one guard around detection and parsing, so a parser that panics fails alone *)
ExtractBody(b) ==
    LET format == Detect(b)
    IN CASE b.panics -> NoDocument("backend-error")
         [] ~b.panics /\ format = "unsupported" -> NoDocument("unsupported-format")
         [] ~b.panics /\ format = "html" -> HtmlDoc(b)
         [] ~b.panics /\ format = "pdf" -> PdfDoc(b)
         [] ~b.panics /\ format = "csv" -> CsvDoc(b)
         [] ~b.panics /\ format \in Archives -> OfficeExtract(b, format)
         [] OTHER -> PlainDoc(b, format)
=============================================================================
