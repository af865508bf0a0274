------------------------------ MODULE CdpProxy ------------------------------
(***************************************************************************)
(* services/LinkedInBrowser/scripts/cdp_proxy.py: one client connection,   *)
(* the connection to Chromium that handle_client opens for it, and the two *)
(* pipes between them after a websocket upgrade.  Connections do not meet  *)
(* each other, so one is enough.                                           *)
(*                                                                         *)
(* Bytes are counted in chunks: a pipe hands on what it reads, in order.   *)
(* An asyncio transport drops its reader's data when the connection is     *)
(* lost with an error, closes in both directions, and flushes what was     *)
(* written before it has closed.                                           *)
(***************************************************************************)
EXTENDS Naturals

CONSTANTS
  MaxChunks,   \* bound: chunks each peer sends, headers included
  HighWater,   \* chunks a transport buffers before drain waits
  Errors       \* how a connection may be lost: "expected", "unexpected"

\* What the constants have to be.
Sound ==
  MaxChunks \in Nat /\ HighWater \in Nat /\ Errors \subseteq {"expected", "unexpected"}

VARIABLES
  peer,       \* each peer: "absent", "up" or "gone"
  sent,       \* chunks the peer has sent
  inbox,      \* chunks for the proxy to read
  outbox,     \* chunks written and not yet taken by the peer
  delivered,  \* chunks the peer has received
  sock,       \* the proxy's transport: "none", "open", "closing", "closed"
  err,        \* the exception it was lost with, "none" if it was closed
  crossed,    \* was a connection reset or lost, with data under way?
  upgrade,    \* does the request ask for a websocket?
  handler,    \* where handle_client is
  raised,     \* has it met an exception that leaves it?
  pipe        \* where the pipe that reads from each side is

peers == <<peer, sent, delivered, upgrade>>
vars == <<peers, inbox, outbox, sock, err, crossed, handler, raised, pipe>>

----------------------------------------------------------------------------
Sides == {"client", "upstream"}
Other(s) == CHOOSE t \in Sides : t # s

\* Types; a connection that is lost or closed has nothing left to write.
TypeOK ==
  /\ peer \in [Sides -> {"absent", "up", "gone"}]
  /\ sent \in [Sides -> 0..MaxChunks] /\ inbox \in [Sides -> 0..MaxChunks]
  /\ outbox \in [Sides -> 0..MaxChunks] /\ delivered \in [Sides -> 0..MaxChunks]
  /\ sock \in [Sides -> {"none", "open", "closing", "closed"}]
  /\ err \in [Sides -> {"none"} \cup Errors]
  /\ \A s \in Sides : err[s] # "none" => sock[s] = "closed" /\ crossed
  /\ \A s \in Sides : outbox[s] > 0 => sock[s] \in {"open", "closing"}
  /\ crossed \in BOOLEAN /\ upgrade \in BOOLEAN /\ raised \in BOOLEAN
  /\ handler \in {"header", "connect", "ask", "answer", "reply", "pipes",
                  "close", "wait", "closeUp", "waitUp", "done"}
  /\ pipe \in [Sides -> {"none", "read", "drain", "close", "wait", "ended"}]

Both(client, upstream) == [s \in Sides |-> IF s = "client" THEN client ELSE upstream]

Init ==
  /\ peer = Both("up", "absent") /\ sock = Both("open", "none")
  /\ sent = Both(0, 0) /\ inbox = Both(0, 0) /\ outbox = Both(0, 0) /\ delivered = Both(0, 0)
  /\ err = Both("none", "none") /\ crossed = FALSE /\ upgrade \in BOOLEAN
  /\ handler = "header" /\ raised = FALSE /\ pipe = Both("none", "none")

----------------------------------------------------------------------------
(* asyncio streams.                                                        *)

\* read has a chunk, or the end of the stream; with neither it waits, or raises
\* err[s].
Readable(s) == err[s] = "none" /\ inbox[s] > 0
Ended(s) ==
  /\ err[s] = "none" /\ inbox[s] = 0
  /\ \/ sock[s] = "open" /\ peer[s] = "gone"
     \/ sock[s] = "closed"

Take(s) == inbox' = [inbox EXCEPT ![s] = @ - 1]

\* write: a transport that is closing takes nothing more.
Put(s) == outbox' = [outbox EXCEPT ![s] = IF sock[s] = "open" THEN @ + 1 ELSE @]

\* drain returns; it raises ConnectionResetError, or what the reader met, once the
\* connection is lost.
Drained(s) == sock[s] # "closed" /\ outbox[s] <= HighWater

\* writer.close()
CloseSock(s) == sock' = [sock EXCEPT ![s] = IF @ = "open" THEN "closing" ELSE @]

\* wait_closed returns or raises.
Closed(s) == sock[s] = "closed"

\* is_expected_disconnect
Expected(e) == e # "unexpected"

----------------------------------------------------------------------------
(* pipe: from one side to the other.                                       *)

PipeTo(s, point) == pipe' = [pipe EXCEPT ![s] = point]

PipeRead(s) ==
  /\ pipe[s] = "read" /\ Readable(s)
  /\ Take(s) /\ Put(Other(s)) /\ PipeTo(s, "drain")
  /\ UNCHANGED <<peers, sock, err, crossed, handler, raised>>

\* No more data, or an exception, which is raised after the finally clause unless
\* it is an expected one.
PipeReadEnds(s) ==
  /\ pipe[s] = "read" /\ (Ended(s) \/ err[s] # "none")
  /\ PipeTo(s, "close") /\ raised' = (raised \/ ~Expected(err[s]))
  /\ UNCHANGED <<peers, inbox, outbox, sock, err, crossed, handler>>

PipeDrain(s) ==
  /\ pipe[s] = "drain"
  /\ \/ Drained(Other(s)) /\ PipeTo(s, "read") /\ UNCHANGED raised
     \/ /\ Closed(Other(s)) /\ PipeTo(s, "close")
        /\ raised' = (raised \/ ~Expected(err[Other(s)]))
  /\ UNCHANGED <<peers, inbox, outbox, sock, err, crossed, handler>>

\* Mutant: the pipe leaves the other side's connection open.
PipeClosesNot(t) == UNCHANGED sock

\* finally: guarded_close(writer)
PipeCloses(t) == CloseSock(t)

PipeClose(s) ==
  /\ pipe[s] = "close" /\ PipeCloses(Other(s)) /\ PipeTo(s, "wait")
  /\ UNCHANGED <<peers, inbox, outbox, err, crossed, handler, raised>>

PipeWait(s) ==
  /\ pipe[s] = "wait" /\ Closed(Other(s)) /\ PipeTo(s, "ended")
  /\ raised' = (raised \/ ~Expected(err[Other(s)]))
  /\ UNCHANGED <<peers, inbox, outbox, sock, err, crossed, handler>>

----------------------------------------------------------------------------
(* handle_client.                                                          *)

GoTo(point) == handler' = point /\ UNCHANGED raised

\* An exception: on to the finally clause.
Raise == handler' = "close" /\ raised' = TRUE

\* readuntil of the request's header.
ReadHeader ==
  /\ handler = "header"
  /\ \/ Readable("client") /\ Take("client") /\ GoTo("connect")
     \/ (Ended("client") \/ err["client"] # "none") /\ Raise /\ UNCHANGED inbox
  /\ UNCHANGED <<peers, outbox, sock, err, crossed, pipe>>

\* open_connection, and the rewritten request is written.
Connect ==
  /\ handler = "connect"
  /\ \/ /\ GoTo("ask")
        /\ sock' = [sock EXCEPT !["upstream"] = "open"]
        /\ peer' = [peer EXCEPT !["upstream"] = "up"]
        /\ outbox' = [outbox EXCEPT !["upstream"] = @ + 1]
     \/ Raise /\ UNCHANGED <<sock, peer, outbox>>
  /\ UNCHANGED <<sent, delivered, upgrade, inbox, err, crossed, pipe>>

DrainAt(point, s, next) ==
  /\ handler = point
  /\ \/ Drained(s) /\ GoTo(next) /\ pipe' = IF next = "pipes" THEN Both("read", "read") ELSE pipe
     \/ Closed(s) /\ Raise /\ UNCHANGED pipe
  /\ UNCHANGED <<peers, inbox, outbox, sock, err, crossed>>

DrainRequest == DrainAt("ask", "upstream", "answer")

\* The handshake, or a whole response, is read and handed on.
ReadAnswer ==
  /\ handler = "answer"
  /\ \/ Readable("upstream") /\ Take("upstream") /\ Put("client") /\ GoTo("reply")
     \/ (Ended("upstream") \/ err["upstream"] # "none") /\ Raise /\ UNCHANGED <<inbox, outbox>>
  /\ UNCHANGED <<peers, sock, err, crossed, pipe>>

DrainAnswer == DrainAt("reply", "client", IF upgrade THEN "pipes" ELSE "close")

\* gather waits for both.
PipesDone == \A s \in Sides : pipe[s] = "ended"

Gather ==
  /\ handler = "pipes" /\ PipesDone /\ GoTo("close")
  /\ UNCHANGED <<peers, inbox, outbox, sock, err, crossed, pipe>>

\* finally: guarded_close(client_writer) ...
CloseClient ==
  /\ handler = "close" /\ CloseSock("client") /\ GoTo("wait")
  /\ UNCHANGED <<peers, inbox, outbox, err, crossed, pipe>>

\* Mutant: the connection to Chromium is left to close itself.
AfterClientNothing == "done"

\* ... and then, if upstream_writer is not None, the other one.
AfterClient == IF sock["upstream"] = "none" THEN "done" ELSE "closeUp"

\* An exception of the first close that is not an expected one leaves the clause.
WaitClient ==
  /\ handler = "wait" /\ Closed("client")
  /\ IF Expected(err["client"]) THEN GoTo(AfterClient) ELSE handler' = "done" /\ raised' = TRUE
  /\ UNCHANGED <<peers, inbox, outbox, sock, err, crossed, pipe>>

CloseUpstream ==
  /\ handler = "closeUp" /\ CloseSock("upstream") /\ GoTo("waitUp")
  /\ UNCHANGED <<peers, inbox, outbox, err, crossed, pipe>>

WaitUpstream ==
  /\ handler = "waitUp" /\ Closed("upstream")
  /\ handler' = "done" /\ raised' = (raised \/ ~Expected(err["upstream"]))
  /\ UNCHANGED <<peers, inbox, outbox, sock, err, crossed, pipe>>

----------------------------------------------------------------------------
(* The peers and the kernel.                                               *)

PeerSends(s) ==
  /\ peer[s] = "up" /\ sent[s] < MaxChunks /\ sent' = [sent EXCEPT ![s] = @ + 1]
  /\ inbox' = [inbox EXCEPT ![s] = IF sock[s] = "open" THEN @ + 1 ELSE @]
  /\ UNCHANGED <<peer, delivered, upgrade, outbox, sock, err, crossed, handler, raised, pipe>>

PeerCloses(s) ==
  /\ peer[s] = "up" /\ peer' = [peer EXCEPT ![s] = "gone"]
  /\ UNCHANGED <<sent, delivered, upgrade, inbox, outbox, sock, err, crossed, handler, raised,
                 pipe>>

Flush(s) ==
  /\ sock[s] \in {"open", "closing"} /\ outbox[s] > 0 /\ peer[s] = "up"
  /\ outbox' = [outbox EXCEPT ![s] = @ - 1]
  /\ delivered' = [delivered EXCEPT ![s] = @ + 1]
  /\ UNCHANGED <<peer, sent, upgrade, inbox, sock, err, crossed, handler, raised, pipe>>

Lost(s, e) ==
  /\ sock' = [sock EXCEPT ![s] = "closed"] /\ err' = [err EXCEPT ![s] = e]
  /\ inbox' = [inbox EXCEPT ![s] = 0] /\ outbox' = [outbox EXCEPT ![s] = 0]
  /\ crossed' = TRUE
  /\ UNCHANGED <<peers, handler, raised, pipe>>

\* A peer that has closed answers data with a reset.
Reset(s) ==
  /\ "expected" \in Errors /\ sock[s] \in {"open", "closing"} /\ outbox[s] > 0 /\ peer[s] = "gone"
  /\ Lost(s, "expected")

\* The network to the client's container times out.
Vanish == "unexpected" \in Errors /\ sock["client"] \in {"open", "closing"} /\ Lost("client", "unexpected")

\* What the kernel had not handed to the reader yet is dropped.
CloseDone(s) ==
  /\ sock[s] = "closing" /\ outbox[s] = 0 /\ sock' = [sock EXCEPT ![s] = "closed"]
  /\ \E n \in 0..inbox[s] : inbox' = [inbox EXCEPT ![s] = n]
  /\ UNCHANGED <<peers, outbox, err, crossed, handler, raised, pipe>>

----------------------------------------------------------------------------
Handler ==
  \/ ReadHeader \/ Connect \/ DrainRequest \/ ReadAnswer \/ DrainAnswer \/ Gather
  \/ CloseClient \/ WaitClient \/ CloseUpstream \/ WaitUpstream

Pipe(s) == PipeRead(s) \/ PipeReadEnds(s) \/ PipeDrain(s) \/ PipeClose(s) \/ PipeWait(s)

Kernel(s) == Flush(s) \/ Reset(s) \/ CloseDone(s)

Next ==
  \/ Handler \/ Vanish
  \/ \E s \in Sides : Pipe(s) \/ Kernel(s) \/ PeerSends(s) \/ PeerCloses(s)

\* Chromium answers a request or closes.
Answers == handler = "answer" /\ (PeerSends("upstream") \/ PeerCloses("upstream"))

----------------------------------------------------------------------------
(* Properties.                                                             *)

\* When handle_client has ended, normally or not, it has closed both connections
\* (tests/test_cdp_proxy.py:299-300, 336-337), unless the client's was lost with an
\* error that guarded_close raises: then Chromium's stays open.
BothClosed ==
  handler = "done" /\ err["client"] # "unexpected" =>
    \A s \in Sides : sock[s] \notin {"open", "closing"}

\* Through a tunnel that nothing reset, every chunk a peer sent before it closed has
\* reached a peer that was there to the end (lines 46-65).
NothingDropped ==
  handler = "done" /\ upgrade /\ ~crossed =>
    \A s \in Sides : peer[s] = "gone" /\ peer[Other(s)] = "up" => delivered[Other(s)] = sent[s]

\* A connection that either peer has left is given up on both sides (lines 46-81).
GivenUp == \A s \in Sides : peer[s] = "gone" ~> handler = "done"

\* What a handler leaves behind when it ends: no open connection, and nothing
\* that was sent to a peer that was there to receive it.
EndedClean == BothClosed /\ NothingDropped
=============================================================================
