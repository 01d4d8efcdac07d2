---------------------------- MODULE MCToolBatch -----------------------------
(* Small instance of ToolBatch: the built-in tools the rules tell apart, an
   installed server its user declared inert, and replies that put them side by side;
   beside it, what the tools themselves do with what they are given. *)
EXTENDS ToolBatch, Contract, FileText, Skills, Toolset

CONSTANTS d1, d2

M(level, target, type, to) ==
    [level |-> level, target |-> target, type |-> type, hosts |-> to]

MCManifests ==
    [t \in {"page", "web", "read", "glob", "grep", "write", "edit", "bash", "recall", "srv"} |->
       CASE t = "web"            -> M(0, TRUE, "url", {"h", "w"})
         [] t = "read"           -> M(0, TRUE, "path", {})
         [] t \in {"glob", "grep"} -> M(0, TRUE, "dir", {})
         [] t \in {"write", "edit"} -> M(1, TRUE, "write", {})
         [] t = "bash"           -> M(3, TRUE, "text", {})
         [] t = "recall"         -> M(0, FALSE, "text", {})
         [] OTHER                -> M(0, TRUE, "text", {})]

MCLayer == [t \in DOMAIN MCManifests |->
              CASE t = "recall" -> 1 [] t = "srv" -> 2 [] OTHER -> 0]

C(tool, said) == [tool |-> tool, said |-> said, host |-> NoHost, extra |-> FALSE]
Web(host) == [C("web", FALSE) EXCEPT !.host = host]

Page == C("page", FALSE)
Srv  == C("srv", FALSE)

MCScripts ==
    {<<<<Srv>>, <<Srv>>>>,
     <<<<Page>>, <<Page, Page>>>>,
     <<<<Srv, C("recall", FALSE), Page>>>>,
     <<<<Web("h"), C("write", FALSE)>>, <<Web("h")>>>>,
     <<<<Web("h"), Web("h")>>, <<Web("h")>>>>,
     <<<<Web("w")>>>>,
     <<<<C("bash", TRUE)>>, <<C("bash", FALSE)>>>>,
     <<<<C("read", FALSE), C("grep", FALSE)>>, <<C("edit", FALSE)>>>>,
     <<<<C("glob", FALSE), C("edit", TRUE)>>>>,
     <<<<C("ghost", FALSE), [C("write", TRUE) EXCEPT !.extra = TRUE], Web(BadUrl), Web(NoHost)>>>>}

(* What is served: "h" answers with a short text however it frames it, "w" with pages *)
R(body) == [status |-> "ok", framing |-> "length", keep |-> TRUE, over |-> FALSE,
            coding |-> "none", location |-> "plain", body |-> body]
Short == [Bare EXCEPT !.runs = 1]

AnswersOfH ==
    {R(Short), [R(Short) EXCEPT !.keep = FALSE], [R(Short) EXCEPT !.framing = "eof", !.over = TRUE]}

Tokens == {Words} \cup {Tag(n) : n \in {"p", "a", "svg", "nav", "main", "script", "embed"}}
                  \cup {End(n) : n \in {"p", "a", "svg", "nav", "main", "script"}}
Pages == UNION {[1..n -> Tokens] : n \in 0..3}
         \cup {<<Tag("main"), Tag("a"), Words, End("a")>>,
               <<Tag("main"), Words, End("main"), Tag("nav"), Words>>,
               <<Tag("nav"), Words, End("nav"), Words, Tag("p"), Words>>}

Part(kind, says, is, sound) == [kind |-> kind, says |-> says, is |-> is, sound |-> sound,
                                strings |-> <<>>, cells |-> <<>>]
Entries == UNION {{Part(k, 1, 1, TRUE), Part(k, 1, 4, TRUE), Part(k, 3, 4, TRUE),
                   Part(k, 1, 1, FALSE)} : k \in {"main", "note", "index"}}
Table == [Part("shared", 1, 1, TRUE) EXCEPT !.strings = <<1, 2, 1>>]
Sheet == [Part("main", 1, 1, TRUE) EXCEPT !.cells = <<3, 2, 4>>]
Kind(f, parts) == [Bare EXCEPT !.magic = f, !.parts = parts, !.spine = <<1, 3>>]

Office == {Kind(f, parts) : f \in Archives \ {"xlsx"},
                            parts \in {<<>>} \cup {<<Part("index", 1, 1, TRUE), e, f>> : e, f \in Entries}}
          \cup {Kind("xlsx", <<Table, Sheet, Sheet>>), Kind("xlsx", <<Sheet, Sheet>>),
                Kind("xlsx", <<[Table EXCEPT !.sound = FALSE], Sheet>>)}

Declared ==
    {[Bare EXCEPT !.mime = mime, !.ext = ext, !.shape = shape, !.runs = runs, !.label = label,
                  !.valid = valid] :
       mime \in {"none", "xml", "csv"}, ext \in {"none", "json"}, shape \in DOMAIN OfShape,
       runs \in {3}, label \in {"none", "known", "unknown"}, valid \in BOOLEAN}
Pdfs == {[Bare EXCEPT !.magic = "pdf", !.runs = runs, !.pages = pages, !.locked = locked,
                      !.panics = panics] :
           runs \in {0, 3}, pages \in {0, 2}, locked \in BOOLEAN, panics \in BOOLEAN}

AnswersOfW ==
    {R([Bare EXCEPT !.magic = "html", !.page = page, !.bom = FALSE]) : page \in Pages}
    \cup {R(b) : b \in Office \cup Declared \cup Pdfs}
    \cup {[R(Short) EXCEPT !.status = "redirect", !.location = l] :
             l \in {"plain", "odd path", "odd host"}}
    \cup {[R(Short) EXCEPT !.status = "refused"], [R(Short) EXCEPT !.coding = "other"],
          [R(Short) EXCEPT !.over = TRUE]}

MCAnswers == [h \in {"h", "w"} |-> IF h = "h" THEN AnswersOfH ELSE AnswersOfW]

MCEgress == [mode |-> "ask", hosts |-> {"w"}]

-----------------------------------------------------------------------------
(* Where what holds in every state alike is asked: in one initial state *)
AtStart == /\ pc = "idle" /\ blocks = <<>> /\ fs.file = "none" /\ floor = Min(FirstFloors)
           /\ left.replies = CHOOSE replies \in Scripts : TRUE

(* What is read is what was there.  Pages and archives: PageAsShown.  A file is read in      *)
(* windows that leave no line out between them, edited only where it was quoted, and        *)
(* searched so that what was not looked at or not shown is said.  A skill is read as its      *)
(* header says, is bound by what it leaves unsaid, and its body is told only to who names     *)
(* it.  A tool that a server brought is asked of that server, and one whose description is    *)
(* not what it was is announced, over any starts.  A reader's note, fresh or remembered,      *)
(* reads as the fields it was made of, whatever the reader was talked into saying, and what  *)
(* a child says reaches its parent only in the fields of a result that passed its contract.  *)
ReadAsWritten ==
    /\ PageAsShown
    /\ AtStart => /\ FilesAsShown /\ SkillsStand /\ ToolsetStands
                  /\ Misread = {} /\ ChildrenHeardTruly
=============================================================================
