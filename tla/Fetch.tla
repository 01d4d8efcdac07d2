------------------------------- MODULE Fetch --------------------------------
(***************************************************************************)
(* marlowe-net under the `web` tool: one client with a pool of kept-alive   *)
(* connections, shared by the fetches of a batch, and the document store.   *)
(*                                                                          *)
(* A connection is held by one fetch or lies in the pool, so an exchange on *)
(* it is one step; what two fetches share is the pool and the store.        *)
(* Servers answer as `Answers` says, or not at all; they close what they    *)
(* like while it lies idle, and may leave on it what nobody asked for: more *)
(* than the body they announced, or a parting line about the time it lay    *)
(* there.  The cache of addresses and the name lookup are part of a         *)
(* connection attempt that may fail.                                        *)
(***************************************************************************)
EXTENDS Extract

CONSTANTS
    Answers,      \* host -> the responses it may give
    MaxPooled,    \* MAX_POOLED_PER_HOST
    MaxCloses,    \* bound: connections servers close while they lie in the pool
    MaxStray      \* bound: times a server writes what nobody asked for

ASSUME FetchAssumption == {MaxPooled, MaxCloses, MaxStray} \subseteq Nat

VARIABLE
    net           \* pools, the fetches in progress, and how the finished ones ended

NoCall  == 0        \* nothing
Unasked == 0 - 1    \* a whole response nobody asked for
Garbage == 0 - 2    \* bytes that begin no response

(* a connection: whether the server closed it; what lies unread in its reader or its socket, *)
(* the response to a fetch or one of the above; whether its server ever wrote unasked         *)
Connection == [dead : BOOLEAN, rest : Int, astray : BOOLEAN]
NewConnection == [dead |-> FALSE, rest |-> NoCall, astray |-> FALSE]

Idle == [pool |-> [h \in DOMAIN Answers |-> <<>>], work |-> <<>>, ends |-> {}, closes |-> 0,
         strays |-> 0]

NoAnswer == [status |-> "none"]
Work(h, conn, pooled, again) == [site |-> h, conn |-> conn, pooled |-> pooled, again |-> again,
                                 answer |-> NoAnswer]

Busy(i) == i \in DOMAIN net.work
Rest(f, i) == [j \in DOMAIN f \ {i} |-> f[j]]
With(f, i, v) == [j \in DOMAIN f \cup {i} |-> IF j = i THEN v ELSE f[j]]

-----------------------------------------------------------------------------
(* A server closes a connection that lies in the pool *)
SiteCloses ==
    /\ net.closes < MaxCloses
    /\ \E h \in DOMAIN net.pool : \E k \in DOMAIN net.pool[h] :
         /\ ~net.pool[h][k].dead
         /\ net' = [net EXCEPT !.pool[h][k].dead = TRUE, !.closes = @ + 1]

(* A server writes what nobody asked for on a connection that is kept.  Bytes behind the body *)
(* it announced are given back with the reader that holds them, and are the same to the next  *)
(* fetch as bytes that came later.  It may close the connection with them.                    *)
SiteStrays ==
    /\ net.strays < MaxStray
    /\ \E h \in DOMAIN net.pool : \E k \in DOMAIN net.pool[h] :
         /\ ~net.pool[h][k].dead /\ net.pool[h][k].rest = NoCall
         /\ \E what \in {Unasked, Garbage}, closes \in BOOLEAN :
              net' = [net EXCEPT !.pool[h][k] = [dead |-> closes, rest |-> what, astray |-> TRUE],
                                 !.strays = @ + 1]

(* What is read next on a connection: a response that lies there, or the server's answer to   *)
(* the request it was sent                                                                    *)
SiteAnswers(i) ==
    /\ net.work[i].answer = NoAnswer
    /\ net.work[i].conn.dead => net.work[i].conn.rest # NoCall
    /\ net.work[i].conn.rest # Garbage
    /\ \E r \in Answers[net.work[i].site] : net' = [net EXCEPT !.work[i].answer = r]

-----------------------------------------------------------------------------
(* take_pooled: the last one given back.  Older ones have lain longer, so when that one is *)
(* too old they all are, and all are dropped.                                              *)
TakePooled(i, h) ==
    /\ net.pool[h] # <<>>
    /\ net' = [net EXCEPT !.pool[h] = Front(@),
                          !.work = With(@, i, Work(h, Last(net.pool[h]), TRUE, FALSE))]

(* connect, because the pool has nothing young enough; when there is no address or no  *)
(* socket that was the first attempt                                                    *)
Connect(i, h) ==
    \E failed \in BOOLEAN :
        net' = [net EXCEPT !.pool[h] = <<>>,
                           !.work = With(@, i, Work(h, NewConnection, FALSE, failed))]

(* how a fetch ended: whose response it took for its own, or the fault and the connection *)
Ended(i, from, fault) ==
    LET w == net.work[i]
    IN [net EXCEPT !.work = Rest(@, i),
                   !.ends = @ \cup {[of |-> i, site |-> w.site, from |-> from, fault |-> fault,
                                     pooled |-> w.pooled, astray |-> w.conn.astray]}]

(* the second attempt is made on a connection of its own *)
Again(i) == [net EXCEPT !.work[i] = Work(net.work[i].site, NewConnection, FALSE, TRUE)]

(* is_connection_fault: the exchange failed, timed out or made no sense *)
Retried(i) == ~net.work[i].again /\ net' = Again(i)
GivenUp(i) == net.work[i].again /\ net' = Ended(i, i, TRUE)

-----------------------------------------------------------------------------
(* A response: its framing, whether the server keeps the connection, whether the body is  *)
(* longer than the client takes, its coding, its status and where it points.              *)

(* read_body: unambiguous unless it was read to the end of the stream *)
Complete(r) == r.framing # "eof"

(* mutant: what was read to the limit counts as read to the end *)
PoolableAlways(r) == r.keep

Poolable(r) == Complete(r) /\ r.keep

(* a body announced or sent in chunks past the limit is refused; one without an announced *)
(* end is cut there, and the rest stays on the connection                                 *)
TooLarge(r) == r.over /\ Complete(r)
CutShort(r) == r.over /\ ~Complete(r)

(* what a fetch leaves on its connection: the end of a body that was cut, or its own        *)
(* response when it took one that lay there before and the server still answers            *)
Behind(i, r) == LET conn == net.work[i].conn
                IN IF CutShort(r) \/ (conn.rest # NoCall /\ ~conn.dead) THEN i ELSE NoCall

(* give_back: the reader as it is, with what it holds *)
GivenBack(pool, i, r) ==
    IF Poolable(r) /\ Len(pool) < MaxPooled
    THEN Append(pool, [net.work[i].conn EXCEPT !.rest = Behind(i, r)]) ELSE pool

(* try_fetch from the head to the bytes.  What lies unread on the connection is read first. *)
From(i) == IF net.work[i].conn.rest = NoCall THEN i ELSE net.work[i].conn.rest

Received(i, r) ==
    /\ r # NoAnswer /\ ~TooLarge(r)
    /\ net' = [Ended(i, From(i), FALSE) EXCEPT !.pool[net.work[i].site] = GivenBack(@, i, r)]

(* a handshake that fails, a body over the limit: not worth a second attempt *)
Unfetched(i) == net' = Ended(i, i, FALSE)

(* decode_body: a coding that was not asked for *)
Undecodable(r) == r.coding = "other"

-----------------------------------------------------------------------------
(* corpus::read and web_outcome: a redirect is reported and never followed.  Of the location *)
(* the site chose, only a plain URL is repeated; of one with odd characters the host alone.   *)
RedirectTo(location) ==
    CASE location = "plain"    -> "url"
      [] location = "odd path" -> "host"
      [] OTHER                 -> "nothing"     \* an odd host, no https URL at all

(* DocumentStore::put: the text is the address.  The same text again replaces what is stored *)
(* with it; another text cannot have the address.                                            *)
PutDocument(store, doc) == With(store, doc.text, [format |-> doc.format, notes |-> doc.notes])

-----------------------------------------------------------------------------
(* What the client keeps, no fetch can see.  No fetch fails on the transport on a kept       *)
(* connection, whatever the server did with it meanwhile.  And the client never puts one     *)
(* fetch's response in another's place by itself: when a fetch takes one that is not its own, *)
(* the server wrote out of turn on that very connection (which give_back does not look for), *)
(* and what is taken is that, or the response to an earlier fetch of the same site.          *)
PoolInvisible ==
    \A e \in net.ends :
        /\ ~(e.fault /\ e.pooled)
        /\ e.from # e.of => /\ e.astray
                           /\ \/ e.from = Unasked
                              \/ \E f \in net.ends : f.of = e.from /\ f.site = e.site
=============================================================================
