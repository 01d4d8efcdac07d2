------------------------------ MODULE Toolset -------------------------------
(***************************************************************************)
(* How a daemon that starts gets the tools it serves: the manifest of a    *)
(* tool somebody installed (manifest.rs `load`), the servers of mcp.json   *)
(* connected one after the other, what they call their tools now against   *)
(* what they called them when last seen (pin.rs), the tools joined to the  *)
(* builtin ones under a budget (exposure.rs), and a call routed back to    *)
(* the server that offered the tool (daemon/mcp.rs).                       *)
(*                                                                         *)
(* A name is the sequence of its parts around `__`, a description the      *)
(* sequence of its characters.                                             *)
(***************************************************************************)
EXTENDS Integers, Sequences, FiniteSets, SequencesExt, TLC

CONSTANTS Budget,         \* MAX_EXPOSED_TOOLS: room for two tools beside the builtin ones
          MaxDescription  \* MAX_DESCRIPTION_CHARS

(* CapabilityProfile::interactive, of which two stand for all *)
Builtin == <<<<"read">>, <<"use">>>>

Absent == -1   \* a consequence nobody declared

(* manifest::load: no declared consequence is the greatest; a tool nobody reviewed may not
   declare itself below consequential; every parameter named once *)
LevelOf(declared) == IF declared = Absent THEN 3 ELSE declared

ManifestLoads(declared, provenance, params) ==
    /\ provenance = "ThirdParty" => LevelOf(declared) >= 2
    /\ \A i \in DOMAIN params : params[i] # "" /\ \A j \in 1..(i - 1) : params[j] # params[i]

(* Description::new: a character that does not show is marked, not dropped; trimmed, cut *)
Displayed(c) == IF c = "bidi" THEN "<U+202E>" ELSE c

Trimmed(s) == LET inked == {i \in DOMAIN s : s[i] # "space"}
              IN  {SubSeq(s, i, j) : i \in {m \in inked : \A n \in inked : m <= n},
                                     j \in {m \in inked : \A n \in inked : n <= m}}

Describe(raw) ==
    LET cleaned == Trimmed([i \in DOMAIN raw |-> Displayed(raw[i])])
    IN  IF cleaned = {} THEN <<>>
        ELSE LET text == CHOOSE s \in cleaned : TRUE
             IN  IF Len(text) > MaxDescription THEN SubSeq(text, 1, MaxDescription) ELSE text

(* McpClient::registrations: all of a server's tools under its name, or none *)
Registers(server) == \A i \in DOMAIN server.tools :
                        ManifestLoads(server.level, "UserReviewed", server.tools[i].params)

Registrations(server) ==
    [i \in DOMAIN server.tools |-> [id    |-> server.id \o server.tools[i].name,
                                    text  |-> Describe(server.tools[i].text),
                                    level |-> LevelOf(server.level)]]

(* PinnedDescriptions::verdict, as the tools it names: those that changed, or, when none
   did, those that are new *)
Verdict(pins, regs) ==
    LET changed == {i \in DOMAIN regs : regs[i].id \in DOMAIN pins /\ pins[regs[i].id] # regs[i].text}
        new     == {i \in DOMAIN regs : regs[i].id \notin DOMAIN pins}
    IN  {regs[i].id : i \in IF changed # {} THEN changed ELSE new}

Pinned(pins, regs) ==
    FoldLeft(LAMBDA acc, r : (r.id :> r.text) @@ acc, pins, regs)

(* McpFleet::connect: a server that does not start or cannot list its tools is an error of
   its own; what the others offer is judged against the pins and then pinned *)
ConnectOne(fleet, server) ==
    IF ~server.up \/ ~Registers(server)
    THEN [fleet EXCEPT !.errors = Append(@, server.id)]
    ELSE LET regs == Registrations(server)
         IN  [fleet EXCEPT !.clients   = Append(@, server.id),
                           !.regs      = @ \o regs,
                           !.reconsent = @ \cup Verdict(fleet.pins, regs),
                           !.pins      = Pinned(@, regs)]

ConnectFleet(servers, pins) ==
    FoldLeft(ConnectOne, [clients |-> <<>>, regs |-> <<>>, reconsent |-> {}, errors |-> <<>>,
                          pins |-> pins], servers)

(* McpFleet::tool_ids, and CapabilityProfile::interactive_with: the builtin tools and then
   the servers', within the budget and each once (ExposedSet::new), or no start *)
Offered(fleet) == Builtin \o [i \in DOMAIN fleet.regs |-> fleet.regs[i].id]

Exposes(tools) == /\ Len(tools) <= Budget
                  /\ \A i \in DOMAIN tools : \A j \in 1..(i - 1) : tools[i] # tools[j]

(* verify_every_exposed_tool_is_runnable, of the host the turn will use *)
Executes(fleet) == ToSet(Builtin) \cup {fleet.regs[i].id : i \in DOMAIN fleet.regs}

(* Daemon::open: the pins are written, and then the tools fit or the daemon does not start *)
Starts(fleet) == Exposes(Offered(fleet)) /\ ToSet(Offered(fleet)) \subseteq Executes(fleet)

(* tool_registry, built anew for every turn: a name that is taken refuses the turn *)
RegisterOne(registry, id) ==
    IF registry.refused \/ id \in registry.ids THEN [registry EXCEPT !.refused = TRUE]
    ELSE [registry EXCEPT !.ids = @ \cup {id}]
Registry(fleet) == FoldLeft(RegisterOne, [ids |-> {}, refused |-> FALSE], Offered(fleet))

(* The route of McpTools::call: the first part names the server, the first client of that
   name is asked for the rest *)
RouteOf(fleet, tool) ==
    LET clients == {i \in DOMAIN fleet.clients : fleet.clients[i] = <<Head(tool)>>}
    IN  IF Len(tool) < 2 \/ clients = {} THEN {}
        ELSE {[server |-> fleet.clients[CHOOSE i \in clients : \A j \in clients : i <= j],
               tool   |-> Tail(tool)]}

(* read_pins and write_pins: the file may not be there, and a failed write leaves what was *)
NextPins(pins, fleet, written) == IF written THEN fleet.pins ELSE pins

-----------------------------------------------------------------------------
ToolOf(name, text, params) == [name |-> name, text |-> text, params |-> params]
T1 == <<"t", "space">>
T2 == <<"bidi", "t", "u">>
ToolLists == {<<>>, <<ToolOf(<<"x">>, T1, <<>>)>>, <<ToolOf(<<"x">>, T2, <<"p">>)>>,
              <<ToolOf(<<"y">>, T1, <<"p">>)>>,
              <<ToolOf(<<"x">>, T1, <<>>), ToolOf(<<"y">>, T1, <<>>)>>,
              <<ToolOf(<<"x">>, T2, <<>>), ToolOf(<<"y">>, T2, <<>>)>>,
              <<ToolOf(<<"y">>, T1, <<"p", "">>)>>, <<ToolOf(<<"b", "x">>, T1, <<>>)>>}
ServersOf(ids) == [id : ids, up : BOOLEAN, level : {Absent, 0}, tools : ToolLists]

Distinct(servers) == \A i, j \in DOMAIN servers : servers[i].id = servers[j].id => i = j

(* A call of a tool the model is shown reaches the server that offered it, by the name that
   server gave it and under that server's declared consequence, whatever the tool is
   called; as long as no two servers have one name and no server's name has `__` in it.
   A daemon that starts never refuses a turn over its registry (`expect("the registry
   loaded a moment ago")`), which knows every tool that is shown. *)
CallsReachTheirServer ==
    \A servers \in BoundedSeq({s \in ServersOf({<<"a">>, <<"b">>}) : s.up}, 2) :
        \E fleet \in {ConnectFleet(servers, <<>>)} :
            /\ Starts(fleet) => Registry(fleet) = [ids |-> ToSet(Offered(fleet)), refused |-> FALSE]
            /\ Distinct(servers) /\ Starts(fleet) =>
                \A i \in DOMAIN fleet.regs : \E to \in RouteOf(fleet, fleet.regs[i].id) :
                    \E s \in DOMAIN servers : \E t \in DOMAIN servers[s].tools :
                        /\ to = [server |-> servers[s].id, tool |-> servers[s].tools[t].name]
                        /\ servers[s].id \o servers[s].tools[t].name = fleet.regs[i].id
                        /\ Describe(servers[s].tools[t].text) = fleet.regs[i].text
                        /\ LevelOf(servers[s].level) = fleet.regs[i].level

(* Over any starts of a profile, with its server up or down and its pins written or not, a
   description that is not the one last seen is announced; a tool never seen is announced
   unless another of the server changed.  A refused server takes nothing from the others. *)
ChangesAreAnnounced ==
    \A starts \in [1..3 -> {s \in ServersOf({<<"a">>}) : s.level = 0}], kept \in [1..3 -> BOOLEAN] :
        LET pins[n \in 0..3] == IF n = 0 THEN <<>>
                                ELSE NextPins(pins[n - 1], ConnectFleet(<<starts[n]>>, pins[n - 1]), kept[n])
            Listed(n) == IF starts[n].up /\ Registers(starts[n]) THEN Registrations(starts[n]) ELSE <<>>
            TextAt(n, id) == {Listed(n)[i].text : i \in {j \in DOMAIN Listed(n) : Listed(n)[j].id = id}}
            Earlier(n, id) == {m \in 1..(n - 1) : kept[m] /\ TextAt(m, id) # {}}
        IN  \A i \in DOMAIN Listed(3) : \E id \in {Listed(3)[i].id} :
                \E told \in {ConnectFleet(<<starts[3]>>, pins[2]).reconsent} :
                    IF Earlier(3, id) # {}
                    THEN id \in told <=> Listed(3)[i].text
                                           \notin TextAt(CHOOSE m \in Earlier(3, id) : \A o \in Earlier(3, id) : o <= m, id)
                    ELSE told # {} /\ (id \in told \/ \E other \in told : other \in DOMAIN pins[2])

(* The strictest reading of what nobody declared: only a reviewed tool may be below
   consequential, and only by saying so. *)
UndeclaredIsStrictest ==
    \A declared \in {Absent} \cup (0..3), provenance \in {"FirstParty", "ThirdParty", "UserReviewed"} :
        ManifestLoads(declared, provenance, <<>>) /\ LevelOf(declared) < 2 =>
            provenance # "ThirdParty" /\ declared # Absent

(* One server's failure costs its own tools only. *)
OthersKeepTheirTools ==
    \A s1, s2 \in {s \in ServersOf({<<"a">>}) : s.level = 0} :
        LET two == ConnectFleet(<<s1, [s2 EXCEPT !.id = <<"b">>]>>, <<>>)
            one == ConnectFleet(<<[s2 EXCEPT !.id = <<"b">>]>>, <<>>)
        IN  /\ ToSet(one.regs) \subseteq ToSet(two.regs) /\ one.reconsent \subseteq two.reconsent
            /\ Len(two.clients) + Len(two.errors) = 2

(* A description reads as what it is: two that fit, have no blank ends and differ in a
   character that does not show are not shown alike (neither spells a marker out). *)
DescriptionsReadTrue ==
    \A a, b \in BoundedSeq({"t", "space", "bidi"}, MaxDescription) :
        a # b /\ Trimmed(a) = {a} /\ Trimmed(b) = {b} => Describe(a) # Describe(b)

ToolsetStands == DescriptionsReadTrue /\ CallsReachTheirServer /\ ChangesAreAnnounced /\ UndeclaredIsStrictest /\ OthersKeepTheirTools
=============================================================================
