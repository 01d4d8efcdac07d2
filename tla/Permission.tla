----------------------------- MODULE Permission -----------------------------
(***************************************************************************)
(* `marlowe-permission`: what a tool call may do, decided from the tool's   *)
(* manifest, the origin of each argument and the run's egress policy.  The  *)
(* crate holds no state; the one effect of a decision, opening the path it  *)
(* adjudicates, is a step of the module that uses these operators.          *)
(*                                                                          *)
(* A call's arguments are reduced to what the rules ask: whether the target *)
(* is word for word what the user typed, the host of its URL, and whether   *)
(* an argument the manifest does not declare came along.                    *)
(***************************************************************************)
EXTENDS Naturals, FiniteSets

CONSTANTS
    Manifests,    \* ToolRegistry: tool id -> CapabilityManifest
    Hosts,        \* destinations
    Exposed,      \* the run's exposed tools
    Autonomy      \* the engine's tier

(* TrustClass, in the order the propagation rule depends on *)
Untrusted == 0
Inferred  == 1
Observed  == 2
Asserted  == 3
Classes   == 0..3

(* ConsequenceLevel and Tier *)
Inert         == 0
Reversible    == 1
Consequential == 2
Irreversible  == 3
Suggest == 1
Act     == 4
Silent  == 5

NoHost  == "none"
BadUrl  == "bad"
Manifest == [level : 0..3,
             target : BOOLEAN,                          \* some declared parameter is a Target
             type : {"dir", "path", "write", "url", "text"},   \* of its principal parameter
             hosts : SUBSET Hosts]
Call == [tool : STRING, said : BOOLEAN, host : Hosts \cup {NoHost, BadUrl}, extra : BOOLEAN]
Egress == [mode : {"deny", "list", "any", "ask"}, hosts : SUBSET Hosts]

ASSUME PermissionAssumption ==
    /\ Exposed \subseteq DOMAIN Manifests /\ Autonomy \in 0..5
    /\ \A t \in DOMAIN Manifests : Manifests[t] \in Manifest
    /\ NoHost \notin Hosts /\ BadUrl \notin Hosts

Lower(a, b) == IF a < b THEN a ELSE b

Registered(c) == c.tool \in DOMAIN Manifests
Of(c)         == Manifests[c.tool]
IsInert(c)    == Registered(c) /\ Of(c).level = Inert

(* Provenance::taint_for: the user's own words, or the floor they were composed under *)
TargetOrigin(c, floor) == IF c.said THEN Asserted ELSE floor

BlocksComposedTargets(origin) == origin <= Untrusted

(* An argument the manifest never declared is a target, and nobody vouches for it *)
UntrustedTarget(c, floor) ==
    /\ Of(c).level > Inert
    /\ \/ Of(c).target /\ BlocksComposedTargets(TargetOrigin(c, floor))
       \/ c.extra /\ BlocksComposedTargets(floor)

(* EgressPolicy *)
Grants(e, h)  == e.mode = "any" \/ (e.mode \in {"list", "ask"} /\ h \in e.hosts)
Permits(e, c) == Grants(e, c.host) /\ c.host \in Of(c).hosts
MayAsk(e)     == e.mode = "ask"
Granted(e, h) == IF MayAsk(e) THEN [e EXCEPT !.hosts = @ \cup {h}] ELSE e

NeedsHost(c) == Of(c).type = "url" /\ c.host # NoHost

EgressBlocked(e, c) ==
    /\ NeedsHost(c)
    /\ \/ c.host = BadUrl
       \/ ~Permits(e, c) /\ ~(MayAsk(e) /\ c.host \in Of(c).hosts)

EgressAsks(e, c) == NeedsHost(c) /\ ~EgressBlocked(e, c) /\ ~Permits(e, c)

RequiredTier(level) == CASE level = Inert -> Suggest
                         [] level \in {Reversible, Consequential} -> Act
                         [] OTHER -> Silent

NeedsApproval(e, c) == \/ Of(c).level = Irreversible
                       \/ EgressAsks(e, c)
                       \/ Autonomy < RequiredTier(Of(c).level)

(* The checks before the path is opened: exposure, then provenance *)
BlockedFirst(c, floor) == c.tool \notin Exposed \/ UntrustedTarget(c, floor)
=============================================================================
