------------------------------ MODULE EventHub ------------------------------
(***************************************************************************)
(* The dashboard: one asyncio loop with the session (or the show) as main  *)
(* task, which publishes events, and a handler task per browser.  Tasks    *)
(* interleave at awaits only.  The hub's lock is held exactly while main   *)
(* publishes: subscribe and unsubscribe do not await inside of it.         *)
(*                                                                         *)
(* drain() returns at once unless the transport's buffer is full, which it *)
(* stays while the browser does not read ("stalled").  Its waiter is woken *)
(* by the read itself, or by the loss of the connection.                   *)
(***************************************************************************)
EXTENDS Naturals, FiniteSets

CONSTANTS
  Browsers,
  MaxEvents,        \* events of a session before its end
  WaitsForClients,  \* Server.wait_closed waits for connections (Python 3.12)
  None

ASSUME HubAssumption ==
  MaxEvents \in Nat /\ WaitsForClients \in BOOLEAN /\ None \notin Browsers

VARIABLES
  clients,      \* EventHub._clients
  handler,      \* [Browsers -> where the handler task of its connection is]
  conn,         \* [Browsers -> "open", "stalled", "lost"]
  upto,         \* [Browsers -> last event it was written, or that it came after]
  kind,         \* paper-dashboard or paper-show
  main,         \* where the main task is
  n,            \* events published
  todo, batch,  \* the writers publish has left, and those it started with
  waiting,      \* the writer it is draining, None otherwise
  dead,         \* the writers it will drop
  sigint,       \* a cancel of the main task not yet delivered
  swallowed,    \* a cancel was delivered to a drain of publish
  cancelled,    \* a cancel ended the session
  bundle        \* the run's bundle is written

vars == <<clients, handler, conn, upto, kind, main, n, todo, batch, waiting,
          dead, sigint, swallowed, cancelled, bundle>>
browserVars == <<handler, conn>>
pubVars     == <<n, todo, batch, waiting, dead>>
ends        == <<kind, sigint, swallowed, cancelled, bundle>>

Handlers == {"none", "reply", "subscribe", "keepalive", "sleep", "unsubscribe", "close"}

Init ==
  /\ clients = {} /\ handler = [b \in Browsers |-> "none"]
  /\ conn = [b \in Browsers |-> "lost"] /\ upto = [b \in Browsers |-> 0]
  /\ kind \in {"dashboard", "show"} /\ main = "run"
  /\ n = 0 /\ todo = {} /\ batch = {} /\ waiting = None /\ dead = {}
  /\ sigint = FALSE /\ swallowed = FALSE /\ cancelled = FALSE /\ bundle = FALSE

Publishing == main \in {"publish", "last"}
Locked     == Publishing
Alive      == main # "over"

-----------------------------------------------------------------------------
(* Browsers and their connections.                                         *)

\* A request is read: /events is answered with a stream, the rest with a page
\* or an error and a close.  A closed server accepts nothing.
Connect(b) ==
  /\ handler[b] = "none" /\ main \notin {"wait", "over"}
  /\ conn' = [conn EXCEPT ![b] = "open"]
  /\ \E h \in {"reply", "close"} : handler' = [handler EXCEPT ![b] = h]
  /\ UNCHANGED <<clients, upto, main, pubVars, ends>>

Stall(b) ==
  /\ conn[b] = "open"
  /\ conn' = [conn EXCEPT ![b] = "stalled"]
  /\ UNCHANGED <<clients, handler, upto, main, pubVars, ends>>

\* The browser reads on; a drain that waits for it returns.
Resume(b) ==
  /\ conn[b] = "stalled"
  /\ conn' = [conn EXCEPT ![b] = "open"]
  /\ waiting' = IF waiting = b THEN None ELSE waiting
  /\ UNCHANGED <<clients, handler, upto, main, n, todo, batch, dead, ends>>

Lose(b) ==
  /\ conn[b] # "lost"
  /\ conn' = [conn EXCEPT ![b] = "lost"]
  /\ UNCHANGED <<clients, handler, upto, main, pubVars, ends>>

-----------------------------------------------------------------------------
(* _handle_http_client, task of browser b.                                 *)

Goes(b, h) ==
  /\ handler' = [handler EXCEPT ![b] = h]
  /\ UNCHANGED <<conn, main, pubVars, ends>>

Reply(b) ==
  /\ handler[b] = "reply" /\ conn[b] # "stalled" /\ Alive
  /\ Goes(b, IF conn[b] = "lost" THEN "close" ELSE "subscribe")
  /\ UNCHANGED <<clients, upto>>

\* Fault: subscribe without the lock.
SubscribeUnlocked(b) ==
  /\ handler[b] = "subscribe" /\ Alive
  /\ clients' = clients \cup {b} /\ upto' = [upto EXCEPT ![b] = n]
  /\ Goes(b, "keepalive")

Subscribe(b) ==
  /\ handler[b] = "subscribe" /\ ~ Locked /\ Alive
  /\ clients' = clients \cup {b} /\ upto' = [upto EXCEPT ![b] = n]
  /\ Goes(b, "keepalive")

\* Fault: a lost connection leaves the loop without the finally block.
KeepaliveLeaves(b) ==
  /\ handler[b] = "keepalive" /\ conn[b] # "stalled" /\ Alive
  /\ Goes(b, IF conn[b] = "lost" THEN "close" ELSE "sleep")
  /\ UNCHANGED <<clients, upto>>

Keepalive(b) ==
  /\ handler[b] = "keepalive" /\ conn[b] # "stalled" /\ Alive
  /\ Goes(b, IF conn[b] = "lost" THEN "unsubscribe" ELSE "sleep")
  /\ UNCHANGED <<clients, upto>>

Wake(b) ==
  /\ handler[b] = "sleep" /\ Alive
  /\ Goes(b, "keepalive")
  /\ UNCHANGED <<clients, upto>>

Unsubscribe(b) ==
  /\ handler[b] = "unsubscribe" /\ ~ Locked /\ Alive
  /\ clients' = clients \ {b}
  /\ Goes(b, "close")
  /\ UNCHANGED upto

\* writer.close() and wait_closed(): the buffer is flushed first.
CloseWriter(b) ==
  /\ handler[b] = "close" /\ conn[b] # "stalled" /\ Alive
  /\ handler' = [handler EXCEPT ![b] = "none"]
  /\ conn' = [conn EXCEPT ![b] = "lost"]
  /\ UNCHANGED <<clients, upto, main, pubVars, ends>>

-----------------------------------------------------------------------------
(* The main task.                                                          *)

StartPublish(next) ==
  /\ main' = next /\ n' = n + 1
  /\ todo' = clients /\ batch' = clients
  /\ UNCHANGED <<clients, upto, waiting, dead, browserVars, ends>>

\* The session event, a tick, a poll, or an event of the show.
Event == main = "run" /\ n < MaxEvents /\ StartPublish("publish")

\* The stream, the ticks or the show are at an end.  Only a session says so.
Finish ==
  /\ main = "run"
  /\ IF kind = "dashboard" THEN StartPublish("last")
     ELSE /\ main' = "close"
          /\ UNCHANGED <<clients, upto, browserVars, pubVars, ends>>

\* Fault: a writer that cannot be drained at once is given up.
WriteImpatient ==
  /\ Publishing /\ waiting = None
  /\ \E b \in todo :
       /\ upto' = [upto EXCEPT ![b] = n]
       /\ todo' = todo \ {b}
       /\ dead' = IF conn[b] # "open" THEN dead \cup {b} ELSE dead
  /\ UNCHANGED <<clients, main, n, batch, waiting, browserVars, ends>>

Write ==
  /\ Publishing /\ waiting = None
  /\ \E b \in todo :
       /\ upto' = [upto EXCEPT ![b] = n]
       /\ todo' = todo \ {b}
       /\ dead' = IF conn[b] = "lost" THEN dead \cup {b} ELSE dead
       /\ waiting' = IF conn[b] = "stalled" THEN b ELSE None
  /\ UNCHANGED <<clients, main, n, batch, browserVars, ends>>

\* Fault: the loss of a connection is not caught, and ends the session.
DrainFailsRaises ==
  /\ waiting # None /\ conn[waiting] = "lost"
  /\ waiting' = None /\ todo' = {} /\ batch' = {} /\ dead' = {}
  /\ main' = "over"
  /\ UNCHANGED <<clients, upto, n, browserVars, ends>>

DrainFails ==
  /\ waiting # None /\ conn[waiting] = "lost"
  /\ dead' = dead \cup {waiting} /\ waiting' = None
  /\ UNCHANGED <<clients, upto, main, n, todo, batch, browserVars, ends>>

\* Fault: the list of dead writers outlives the publish.
EndPublishKeepsDead ==
  /\ Publishing /\ waiting = None /\ todo = {}
  /\ clients' = clients \ dead
  /\ batch' = {}
  /\ main' = IF main = "last" THEN "close" ELSE "run"
  /\ UNCHANGED <<upto, n, todo, waiting, dead, browserVars, ends>>

EndPublish ==
  /\ Publishing /\ waiting = None /\ todo = {}
  /\ clients' = clients \ dead
  /\ dead' = {} /\ batch' = {}
  /\ main' = IF main = "last" THEN "close" ELSE "run"
  /\ UNCHANGED <<upto, n, todo, waiting, browserVars, ends>>

CloseServer ==
  /\ main = "close"
  /\ main' = "wait"
  /\ UNCHANGED <<clients, upto, browserVars, pubVars, ends>>

\* Python 3.11 does not wait for connections, later versions do.
WaitClosed ==
  /\ main = "wait"
  /\ WaitsForClients => \A b \in Browsers : handler[b] = "none"
  /\ main' = "over"
  /\ bundle' = (kind = "dashboard" /\ ~ cancelled)
  /\ UNCHANGED <<clients, upto, browserVars, pubVars, kind, sigint, swallowed, cancelled>>

Interrupt ==
  /\ ~ sigint /\ ~ swallowed /\ ~ cancelled /\ Alive
  /\ sigint' = TRUE
  /\ UNCHANGED <<clients, upto, main, browserVars, pubVars, kind, swallowed, cancelled, bundle>>

\* The cancel arrives while main waits for its feed or for the server.
Cancelled ==
  /\ sigint /\ main \in {"run", "wait"}
  /\ sigint' = FALSE /\ cancelled' = TRUE
  /\ IF main = "run" /\ kind = "dashboard"
     THEN /\ main' = "last" /\ n' = n + 1 /\ todo' = clients /\ batch' = clients
          /\ UNCHANGED <<waiting, dead>>
     ELSE main' = (IF main = "run" THEN "close" ELSE "over") /\ UNCHANGED pubVars
  /\ UNCHANGED <<clients, upto, browserVars, kind, swallowed, bundle>>

\* The cancel arrives in a drain: publish takes it for a client that is gone.
CancelSwallowed ==
  /\ sigint /\ waiting # None
  /\ sigint' = FALSE /\ swallowed' = TRUE
  /\ dead' = dead \cup {waiting} /\ waiting' = None
  /\ UNCHANGED <<clients, upto, main, n, todo, batch, browserVars, kind, cancelled, bundle>>

Done == main = "over" /\ UNCHANGED vars

Handle(b) ==
  \/ Reply(b) \/ Subscribe(b) \/ Keepalive(b) \/ Wake(b)
  \/ Unsubscribe(b) \/ CloseWriter(b)

Main ==
  \/ Write \/ DrainFails \/ EndPublish \/ CloseServer \/ WaitClosed
  \/ Cancelled \/ CancelSwallowed

Next ==
  \/ \E b \in Browsers :
       Connect(b) \/ Stall(b) \/ Resume(b) \/ Lose(b) \/ Handle(b)
  \/ Event \/ Finish \/ Main \/ Interrupt \/ Done

\* The event loop runs every task that is ready, and asyncio.Lock wakes its
\* waiters in turn: a handler that waits for the lock gets it (SF).  The feed
\* of a session with max_ticks comes to its end.  Nothing is assumed of browsers.
Fairness ==
  /\ WF_vars(Main) /\ WF_vars(Event \/ Finish)
  /\ \A b \in Browsers :
       /\ WF_vars(Reply(b)) /\ WF_vars(Keepalive(b)) /\ WF_vars(Wake(b))
       /\ WF_vars(CloseWriter(b))
       /\ SF_vars(Subscribe(b)) /\ SF_vars(Unsubscribe(b))

Spec == Init /\ [][Next]_vars /\ Fairness
-----------------------------------------------------------------------------
(* Properties.                                                             *)

\* Well-typed state; only a publish has writers left, and drops only its own.
TypeOK ==
  /\ clients \subseteq Browsers /\ handler \in [Browsers -> Handlers]
  /\ conn \in [Browsers -> {"open", "stalled", "lost"}]
  /\ upto \in [Browsers -> 0 .. MaxEvents + 1] /\ n \in 0 .. MaxEvents + 1
  /\ kind \in {"dashboard", "show"}
  /\ main \in {"run", "publish", "last", "close", "wait", "over"}
  /\ todo \subseteq batch /\ dead \subseteq batch \ todo
  /\ waiting = None \/ waiting \in batch \ todo
  /\ ~ Publishing => batch = {} /\ waiting = None
  /\ {sigint, swallowed, cancelled, bundle} \subseteq BOOLEAN

\* While an event is published the set that publish iterates over does not
\* change (Python raises when it does), and a subscriber has every event since
\* it subscribed, the current one too as soon as publish has passed it.
NothingMissed ==
  /\ Publishing => clients = batch
  /\ \A b \in clients : upto[b] = IF b \in todo THEN n - 1 ELSE n

\* A browser whose stream is open is subscribed, whatever other browsers do,
\* unless publish took a cancel for the loss of a connection.
ServedUnlessSwallowed ==
  \A b \in Browsers :
    handler[b] \in {"keepalive", "sleep"} /\ conn[b] # "lost" =>
      b \in clients \/ swallowed

\* If no browser stays stalled for ever the session comes to its end, and has
\* its bundle unless it was cancelled: lost, slow and reconnecting browsers do
\* not keep it from that.
SessionEnds ==
  (\A b \in Browsers : []<>(conn[b] # "stalled")) =>
    <>(main = "over" /\ (bundle \/ cancelled \/ kind = "show"))

\* Whoever is written to has a handler that is still to take it out of the set,
\* wherever its task stands: publish drops a writer it cannot reach, but one that
\* was closed without an unsubscribe would be there again for every event.
NoOrphans ==
  \A b \in clients : handler[b] \in {"keepalive", "sleep", "unsubscribe"}

\* "Persist paper (and live-dry-run) sessions under data/runs/" (paper/bundle.py):
\* a dashboard session that ends uninterrupted is written, with browsers that read
\* what they are sent, open or not.
EndedIsPersisted ==
  [](\A b \in Browsers : conn[b] # "stalled") =>
    ((main = "wait" /\ kind = "dashboard" /\ ~ cancelled)
       ~> (bundle \/ sigint \/ cancelled))
=============================================================================
