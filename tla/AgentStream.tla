----------------------------- MODULE AgentStream -----------------------------
(* How an agent reads a hook's streams through the MCP server: the stdio,  *)
(* SSE and HTTP transports (internal/mcp/server.go, sse.go, http.go), the  *)
(* tools hook_drain and hook_wait with their long polls                    *)
(* (traffic_tools.go), and mcp.start / mcp.stop of ipc_bridge.go.          *)
(*                                                                         *)
(* The page's rings are the ones of PageStream, seen by one more reader in *)
(* one realm.  The agent sends a request at a time, but gives up when it   *)
(* likes; a request it gave up goes on at the server.                      *)
EXTENDS Naturals, Sequences, FiniteSets

CONSTANTS
    RingSize,     \* records, and updates, the page keeps
    InboxSize,    \* 16: answers an SSE stream holds
    PageLimit,    \* rows of a page (limit, updateLimit, their defaults)
    UpdateLimits, \* what the agent sends as updateLimit; 0: it sends none
    MaxCaptures,  \* bound: records captured, and calls settled
    MaxStreams,   \* bound: SSE connections
    MaxPosts      \* bound: requests

ASSUME AgentStreamSizes ==
    /\ {RingSize, InboxSize, PageLimit} \subseteq Nat \ {0}
    /\ UpdateLimits \subseteq Nat
    /\ {MaxCaptures, MaxStreams, MaxPosts} \subseteq Nat

VARIABLES
    rings,    \* the page: how far records and updates were captured
    server,   \* [up, streams]: whether it listens; its SSE connections
    post,     \* the requests, in the order they were sent
    agent     \* what the agent awaits, its cursors and what it has seen

readsVars == <<rings, server, post, agent>>

Posts == 1..Len(post)
Streams == 1..Len(server.streams)
NotAnswered == [ok |-> FALSE, recs |-> {}, ups |-> {}, next |-> 0, unext |-> 0, held |-> 0]

ReadsInit ==
    /\ rings = [seq |-> 0, useq |-> 0]
    /\ server = [up |-> FALSE, streams |-> <<>>]
    /\ post = <<>>
    /\ agent = [awaits |-> 0, at |-> 0, uat |-> 0, seen |-> {}, useen |-> {}, starved |-> FALSE]

-----------------------------------------------------------------------------
(* The page (drainRecords, drainUpdates) *)

Evicted(seq) == IF seq > RingSize THEN seq - RingSize ELSE 0
Least(a, b) == IF a < b THEN a ELSE b

\* Mutant: the newest rows, whatever lies between them and the cursor.
NewestRows(at, seq, limit) == {r \in 1..seq : r > at /\ r > seq - limit /\ r > Evicted(seq)}

\* The rows behind a cursor that a page of at most `limit` holds.
RowsAfter(at, seq, limit) ==
    LET lo == IF at > Evicted(seq) THEN at ELSE Evicted(seq)
    IN  lo + 1 .. Least(lo + limit, seq)

LastOf(rows, at) == IF rows = {} THEN at ELSE CHOOSE r \in rows : \A q \in rows : q <= r

Capture ==
    /\ rings.seq < MaxCaptures /\ rings' = [rings EXCEPT !.seq = @ + 1]
    /\ UNCHANGED <<server, post, agent>>

Settle ==
    /\ rings.useq < MaxCaptures /\ rings' = [rings EXCEPT !.useq = @ + 1]
    /\ UNCHANGED <<server, post, agent>>

-----------------------------------------------------------------------------
(* The server and its streams *)

\* Every connection is closed, and the table of sessions is a new one.
CloseStreams == [k \in Streams |-> [server.streams[k] EXCEPT !.live = FALSE]]

\* Closing the server also cancels what its POST connections wait for.
CutPosts == [p \in Posts |-> [post[p] EXCEPT !.cut = @ \/ post[p].via # "stdio"]]

\* Start: a running server is stopped first; the port may be taken.
McpStart(bound) ==
    /\ ~ server.up
    /\ server' = [up |-> bound, streams |-> CloseStreams]
    /\ post' = CutPosts /\ UNCHANGED <<rings, agent>>

McpStop ==
    /\ server.up
    /\ server' = [up |-> FALSE, streams |-> CloseStreams]
    /\ post' = CutPosts /\ UNCHANGED <<rings, agent>>

\* handleSSE: a session of its own, with an inbox.
OpenStream ==
    /\ server.up /\ Len(server.streams) < MaxStreams
    /\ server' = [server EXCEPT !.streams = Append(@, [live |-> TRUE, inbox |-> <<>>])]
    /\ UNCHANGED <<rings, post, agent>>

\* The client goes away, or a write to it fails: the session is deleted.
EndStream(k) ==
    /\ server.streams[k].live
    /\ server' = [server EXCEPT !.streams[k].live = FALSE]
    /\ UNCHANGED <<rings, post, agent>>

-----------------------------------------------------------------------------
(* Requests *)

\* A stdio request waits for the ones before it: Serve reads the next line
\* when it has written the answer.  An SSE request names the newest stream.
NewPost(via, tool, at, uat, ulimit) ==
    [via |-> via, tool |-> tool, at |-> at, uat |-> uat, ulimit |-> ulimit,
     stream |-> IF via = "sse" THEN Len(server.streams) ELSE 0,
     pc |-> "sent", cut |-> FALSE]

\* handleMessages refuses a session that is not in the table; the other two
\* transports take any request.
Accepts(via) ==
    CASE via = "stdio" -> TRUE
      [] via = "http"  -> server.up
      [] via = "sse"   -> server.up /\ server.streams # <<>> /\ server.streams[Len(server.streams)].live

\* The agent asks from the start or from its cursors, and awaits the answer.
SendPost(via, tool, fed, ulimit) ==
    /\ agent.awaits = 0 /\ Len(post) < MaxPosts /\ Accepts(via)
    /\ post' = Append(post, IF fed THEN NewPost(via, tool, agent.at, agent.uat, ulimit)
                                   ELSE NewPost(via, tool, 0, 0, ulimit))
    /\ agent' = [agent EXCEPT !.awaits = Len(post) + 1]
    /\ UNCHANGED <<rings, server>>

\* It gives up: the connection of a POST is closed with it.
GiveUpPost ==
    /\ agent.awaits # 0
    /\ post' = [post EXCEPT ![agent.awaits].cut = @ \/ post[agent.awaits].via # "stdio"]
    /\ agent' = [agent EXCEPT !.awaits = 0]
    /\ UNCHANGED <<rings, server>>

\* What the agent does with an answer: one it no longer awaits is dropped.
Told(p, a) ==
    IF agent.awaits # p THEN agent
    ELSE IF ~ a.ok THEN [agent EXCEPT !.awaits = 0]
    ELSE [agent EXCEPT
            !.awaits = 0,
            !.seen = @ \cup a.recs, !.at = a.next,
            !.useen = @ \cup a.ups,
            !.uat = IF post[p].tool = "drain" THEN a.unext ELSE @,
            !.starved = @ \/ (/\ post[p].tool = "drain" /\ post[p].uat = agent.uat
                              /\ a.ups = {} /\ post[p].uat < a.held)]

\* A full inbox drops the answer instead of making the handler wait.
HasRoom(k) == Len(server.streams[k].inbox) < InboxSize

\* The answer goes the way its request came; that of a POST whose connection
\* is closed goes nowhere, that of an SSE request into the inbox its handler
\* found, whether or not anybody still reads it.
Respond(p, a) ==
    /\ post' = [post EXCEPT ![p].pc = "done"]
    /\ CASE post[p].via = "sse" ->
              LET k == post[p].stream
              IN  /\ server' = IF HasRoom(k)
                               THEN [server EXCEPT !.streams[k].inbox = Append(@, [p |-> p, a |-> a])]
                               ELSE server
                  /\ UNCHANGED agent
         [] post[p].via = "http" /\ post[p].cut -> UNCHANGED <<server, agent>>
         [] OTHER -> agent' = Told(p, a) /\ UNCHANGED server
    /\ UNCHANGED rings

\* handleSSE writes the next answer of its inbox.
WriteAnswer(k) ==
    /\ server.streams[k].live /\ server.streams[k].inbox # <<>>
    /\ server' = [server EXCEPT !.streams[k].inbox = Tail(@)]
    /\ agent' = LET head == Head(server.streams[k].inbox) IN Told(head.p, head.a)
    /\ UNCHANGED <<rings, post>>

-----------------------------------------------------------------------------
(* The tools *)

\* hook_drain: updates are read when the agent asks for some, or sends
\* neither limit nor cursor.
UpdateLimit(r) ==
    IF r.tool = "wait" THEN 0
    ELSE IF r.ulimit = 0 /\ r.uat = 0 THEN PageLimit ELSE Least(r.ulimit, PageLimit)

\* The page a drain for this request answers.
Drain(r) ==
    LET recs == RowsAfter(r.at, rings.seq, PageLimit)
        ups == IF UpdateLimit(r) = 0 THEN {} ELSE RowsAfter(r.uat, rings.useq, UpdateLimit(r))
    IN  [ok |-> TRUE, recs |-> recs, ups |-> ups,
         next |-> LastOf(recs, r.at), unext |-> LastOf(ups, r.uat), held |-> rings.useq]

\* awaitHookRecords answers the last page it read, hookWait an empty one with
\* the agent's own cursor.
TimedOut(r) == Drain(r)

MayRun(p) ==
    post[p].via = "stdio" =>
        \A q \in Posts : q < p /\ post[q].via = "stdio" => post[q].pc = "done"

\* dispatchSafely: a request is answered, with an error when the tool fails
\* or panics; a drain without records may wait (waitMs, hook_wait).
RunTool(p) ==
    /\ post[p].pc = "sent" /\ MayRun(p)
    /\ LET page == Drain(post[p]) IN
       \/ Respond(p, NotAnswered)
       \/ (page.recs # {} \/ post[p].tool = "drain") /\ Respond(p, page)
       \/ /\ page.recs = {}
          /\ post' = [post EXCEPT ![p].pc = "waits"] /\ UNCHANGED <<rings, server, agent>>

\* A poll finds records, or the engine fails.
PollAgain(p) ==
    /\ post[p].pc = "waits"
    /\ \/ Drain(post[p]).recs # {} /\ Respond(p, Drain(post[p]))
       \/ Respond(p, NotAnswered)

\* The time is up, and the last poll found nothing.
WaitIsOver(p) ==
    /\ post[p].pc = "waits" /\ Drain(post[p]).recs = {}
    /\ Respond(p, TimedOut(post[p]))

\* The POST's connection is closed while its request waits (ctx.Done).
WaitIsCut(p) == post[p].pc = "waits" /\ post[p].cut /\ Respond(p, NotAnswered)

ReadsNext ==
    \/ Capture \/ Settle
    \/ \E bound \in BOOLEAN : McpStart(bound)
    \/ McpStop \/ OpenStream \/ GiveUpPost
    \/ \E k \in Streams : EndStream(k) \/ WriteAnswer(k)
    \/ \E via \in {"stdio", "sse", "http"}, fed \in BOOLEAN, n \in UpdateLimits :
          SendPost(via, "drain", fed, n) \/ SendPost(via, "wait", fed, 0)
    \/ \E p \in Posts : RunTool(p) \/ PollAgain(p) \/ WaitIsOver(p) \/ WaitIsCut(p)

(* An agent that pages through a hook, by itself.                           *)
ReadsSpec == ReadsInit /\ [][ReadsNext]_readsVars

-----------------------------------------------------------------------------
(* Properties *)

\* Every variable has its type.
AgentStreamTypeOK ==
    /\ rings \in [seq : 0..MaxCaptures, useq : 0..MaxCaptures]
    /\ Len(post) <= MaxPosts /\ Len(server.streams) <= MaxStreams
    /\ \A k \in Streams : Len(server.streams[k].inbox) <= InboxSize
    /\ \A p \in Posts : post[p].pc \in {"sent", "waits", "done"}
    /\ agent.awaits \in 0..Len(post)

\* An agent that feeds its cursors back skips nothing the page still held:
\* what it has not seen below a cursor was evicted (hookWait,
\* awaitHookRecords: a wait that ends without records leaves the cursor).
FollowingSkipsNothing ==
    /\ \A r \in 1..agent.at : r \in agent.seen \/ r <= Evicted(rings.seq)
    /\ \A u \in 1..agent.uat : u \in agent.useen \/ u <= Evicted(rings.useq)

\* The answer the agent awaits is on its way: it is lost only with its
\* stream, or behind the answers of InboxSize requests the agent gave up
\* (handleMessages).
AwaitedAnswerIsKept ==
    agent.awaits # 0 /\ post[agent.awaits].pc = "done" =>
        LET r == post[agent.awaits]
        IN  \/ r.cut
            \/ /\ r.via = "sse"
               /\ LET s == server.streams[r.stream]
                      givenUp == {q \in Posts : post[q].stream = r.stream /\ post[q].cut}
                  IN  \/ ~ s.live \/ Cardinality(givenUp) >= InboxSize
                      \/ \E i \in 1..Len(s.inbox) : s.inbox[i].p = agent.awaits

AgentReadsWell == FollowingSkipsNothing /\ AwaitedAnswerIsKept

\* A drain that feeds both cursors back brings the updates behind them (the
\* description of hook_drain in server.go).
FedBackUpdatesArrive == ~ agent.starved
=============================================================================
