--------------------------- MODULE EventHub_proofs --------------------------
(***************************************************************************)
(* Safety of EventHub for any set of browsers and any length of a session. *)
(***************************************************************************)
EXTENDS EventHub, TLAPS

\* Events are counted up to the last one, which only the end publishes.
EventsLeft == main \in {"run", "publish"} => n <= MaxEvents

TypeInv == TypeOK /\ EventsLeft

\* Only main publishes, and starts with the clients there are.
LEMMA StartPublishType ==
  ASSUME TypeInv, main = "run", NEW next \in {"publish", "last"},
         next = "publish" => n < MaxEvents, main' = next, n' = n + 1,
         todo' = clients, batch' = clients,
         UNCHANGED <<clients, upto, waiting, dead, browserVars, kind>>,
         {sigint', swallowed', cancelled', bundle'} \subseteq BOOLEAN
  PROVE  TypeInv'
<1>1. n \in Nat /\ n <= MaxEvents /\ MaxEvents \in Nat
  BY HubAssumption DEF TypeInv, TypeOK, EventsLeft
<1>2. n' \in 0 .. MaxEvents + 1 /\ EventsLeft'
  BY <1>1 DEF EventsLeft
<1>3. batch = {} /\ waiting = None /\ dead = {} /\ todo = {}
  BY DEF TypeInv, TypeOK, Publishing
<1> QED
  BY <1>2, <1>3 DEF TypeInv, TypeOK, Publishing, browserVars

LEMMA TypeInvInit == Init => TypeInv
<1> SUFFICES ASSUME Init PROVE TypeInv
  OBVIOUS
<1>1. /\ main = "run" /\ n = 0 /\ todo = {} /\ batch = {} /\ dead = {}
      /\ waiting = None /\ clients = {} /\ kind \in {"dashboard", "show"}
  BY DEF Init
<1>2. upto \in [Browsers -> 0 .. MaxEvents + 1] /\ n \in 0 .. MaxEvents + 1
  BY HubAssumption DEF Init
<1>3. /\ handler \in [Browsers -> Handlers]
      /\ conn \in [Browsers -> {"open", "stalled", "lost"}]
  BY DEF Init, Handlers
<1>4. {sigint, swallowed, cancelled, bundle} \subseteq BOOLEAN
  BY DEF Init
<1>5. EventsLeft
  BY <1>1, HubAssumption DEF EventsLeft
<1> QED
  BY <1>1, <1>2, <1>3, <1>4, <1>5 DEF TypeInv, TypeOK, Publishing

LEMMA TypeInvHandle ==
  ASSUME TypeInv, NEW b \in Browsers, Handle(b)
  PROVE  TypeInv'
<1> USE DEF TypeInv, TypeOK, EventsLeft, Publishing, pubVars, ends, Goes, Handlers
<1>1. CASE Reply(b)
  BY <1>1 DEF Reply
<1>2. CASE Subscribe(b)
  BY <1>2 DEF Subscribe, Locked
<1>3. CASE Keepalive(b)
  BY <1>3 DEF Keepalive
<1>4. CASE Wake(b)
  BY <1>4 DEF Wake
<1>5. CASE Unsubscribe(b)
  BY <1>5 DEF Unsubscribe, Locked
<1>6. CASE CloseWriter(b)
  BY <1>6 DEF CloseWriter
<1> QED
  BY <1>1, <1>2, <1>3, <1>4, <1>5, <1>6 DEF Handle

LEMMA TypeInvNext == TypeInv /\ [Next]_vars => TypeInv'
<1> SUFFICES ASSUME TypeInv, [Next]_vars PROVE TypeInv'
  OBVIOUS
<1> USE DEF Publishing, pubVars, browserVars, ends
<1>1. ASSUME NEW b \in Browsers, Connect(b) PROVE TypeInv'
  BY <1>1 DEF Connect, TypeInv, TypeOK, EventsLeft, Handlers
<1>2. ASSUME NEW b \in Browsers, Stall(b) \/ Resume(b) \/ Lose(b) PROVE TypeInv'
  BY <1>2 DEF Stall, Resume, Lose, TypeInv, TypeOK, EventsLeft
<1>3. CASE Event
  BY <1>3, StartPublishType DEF Event, StartPublish, TypeInv, TypeOK
<1>4. CASE Finish
  <2>1. CASE kind = "dashboard"
    BY <1>4, <2>1, StartPublishType DEF Finish, StartPublish, TypeInv, TypeOK
  <2>2. CASE kind # "dashboard"
    BY <1>4, <2>2 DEF Finish, TypeInv, TypeOK, EventsLeft
  <2> QED
    BY <2>1, <2>2
<1>5. CASE Write
  <2>1. PICK b \in todo :
          /\ upto' = [upto EXCEPT ![b] = n]
          /\ todo' = todo \ {b}
          /\ dead' = IF conn[b] = "lost" THEN dead \cup {b} ELSE dead
          /\ waiting' = IF conn[b] = "stalled" THEN b ELSE None
    BY <1>5 DEF Write
  <2>2. upto' \in [Browsers -> 0 .. MaxEvents + 1]
    BY <2>1 DEF TypeInv, TypeOK
  <2>3. /\ todo' \subseteq batch /\ dead' \subseteq batch \ todo'
        /\ waiting' = None \/ waiting' \in batch \ todo'
    BY <2>1 DEF TypeInv, TypeOK
  <2> QED
    BY <1>5, <2>2, <2>3 DEF Write, TypeInv, TypeOK, EventsLeft
<1>6. CASE DrainFails \/ CancelSwallowed
  BY <1>6 DEF DrainFails, CancelSwallowed, TypeInv, TypeOK, EventsLeft
<1>7. CASE EndPublish
  BY <1>7 DEF EndPublish, TypeInv, TypeOK, EventsLeft
<1>8. CASE CloseServer
  BY <1>8 DEF CloseServer, TypeInv, TypeOK, EventsLeft
<1>9. CASE WaitClosed
  BY <1>9 DEF WaitClosed, TypeInv, TypeOK, EventsLeft
<1>10. CASE Interrupt
  BY <1>10 DEF Interrupt, TypeInv, TypeOK, EventsLeft
<1>11. CASE Cancelled
  <2>1. CASE main = "run" /\ kind = "dashboard"
    BY <1>11, <2>1, StartPublishType DEF Cancelled, TypeInv, TypeOK
  <2>2. CASE ~ (main = "run" /\ kind = "dashboard")
    BY <1>11, <2>2 DEF Cancelled, TypeInv, TypeOK, EventsLeft
  <2> QED
    BY <2>1, <2>2
<1>12. CASE UNCHANGED vars
  BY <1>12 DEF vars, TypeInv, TypeOK, EventsLeft
<1> QED
  BY <1>1, <1>2, <1>3, <1>4, <1>5, <1>6, <1>7, <1>8, <1>9, <1>10, <1>11, <1>12,
     TypeInvHandle DEF Next, Main, Done

\* The state of the hub is well typed: whatever browsers and interrupts do, only
\* a publish has writers left, and it drops only writers it has started with.
THEOREM TypeCorrect == Spec => []TypeOK
<1>1. TypeInv => TypeOK
  BY DEF TypeInv
<1> QED
  BY <1>1, TypeInvInit, TypeInvNext, PTL DEF Spec

-----------------------------------------------------------------------------
(***************************************************************************)
(* Who is written to.  A writer is dropped only if its connection was lost *)
(* or a cancel was taken for that; a connection that was lost comes back   *)
(* through a new handler only, which has to subscribe.                     *)
(***************************************************************************)
Served(b) == handler[b] \in {"keepalive", "sleep"} /\ conn[b] # "lost"

DeadAreLost == \A b \in dead : Served(b) => swallowed

Inv == NothingMissed /\ ServedUnlessSwallowed /\ DeadAreLost

\* What a publish starts with: nobody has the new event yet.
LEMMA StartPublishInv ==
  ASSUME TypeInv, Inv, main = "run", main' \in {"publish", "last"}, n' = n + 1,
         todo' = clients, batch' = clients,
         UNCHANGED <<clients, handler, conn, upto, dead, swallowed>>
  PROVE  Inv'
<1>1. todo = {} /\ dead = {} /\ n \in Nat
  BY HubAssumption DEF TypeInv, TypeOK, Publishing
<1>2. \A b \in clients : upto[b] = n
  BY <1>1 DEF Inv, NothingMissed
<1>3. NothingMissed'
  BY <1>1, <1>2 DEF NothingMissed, Publishing
<1> QED
  BY <1>1, <1>3 DEF Inv, ServedUnlessSwallowed, DeadAreLost, Served

LEMMA InvInit == Init => Inv
  BY DEF Init, Inv, NothingMissed, ServedUnlessSwallowed, DeadAreLost, Served,
         Publishing

LEMMA InvHandle ==
  ASSUME TypeInv, Inv, NEW b \in Browsers, Handle(b)
  PROVE  Inv'
<1> USE DEF Inv, NothingMissed, ServedUnlessSwallowed, DeadAreLost, Served
<1>1. ~ Publishing => todo = {} /\ dead = {}
  BY DEF TypeInv, TypeOK
<1>2. handler \in [Browsers -> Handlers] /\ upto \in [Browsers -> 0 .. MaxEvents + 1]
  BY DEF TypeInv, TypeOK
<1>3. UNCHANGED <<main, n, todo, batch, waiting, dead, swallowed>>
  BY DEF Handle, Reply, Subscribe, Keepalive, Wake, Unsubscribe, CloseWriter, Goes,
         pubVars, ends
<1> USE <1>3 DEF Publishing
<1>4. CASE Reply(b) \/ Keepalive(b) \/ Wake(b)
  <2>1. UNCHANGED <<clients, conn, upto>>
    BY <1>4 DEF Reply, Keepalive, Wake, Goes
  <2>2. \A c \in Browsers : Served(c)' => Served(c)
    BY <1>2, <1>4 DEF Reply, Keepalive, Wake, Goes
  <2>3. dead \subseteq Browsers
    BY DEF TypeInv, TypeOK
  <2> QED
    BY <2>1, <2>2, <2>3
<1>5. CASE Subscribe(b)
  <2>1. /\ ~ Publishing /\ clients' = clients \cup {b} /\ conn' = conn
        /\ upto' = [upto EXCEPT ![b] = n] /\ handler' = [handler EXCEPT ![b] = "keepalive"]
    BY <1>5 DEF Subscribe, Locked, Goes
  <2> QED
    BY <1>1, <1>2, <2>1
<1>6. CASE Unsubscribe(b)
  <2>1. /\ ~ Publishing /\ clients' = clients \ {b} /\ UNCHANGED <<conn, upto>>
        /\ handler' = [handler EXCEPT ![b] = "close"]
    BY <1>6 DEF Unsubscribe, Locked, Goes
  <2> QED
    BY <1>1, <1>2, <2>1
<1>7. CASE CloseWriter(b)
  BY <1>2, <1>7 DEF CloseWriter, TypeInv, TypeOK
<1> QED
  BY <1>4, <1>5, <1>6, <1>7 DEF Handle

LEMMA InvNext == TypeInv /\ Inv /\ [Next]_vars => Inv'
<1> SUFFICES ASSUME TypeInv, Inv, [Next]_vars PROVE Inv'
  OBVIOUS
<1> USE DEF pubVars, browserVars, ends
<1>1. ASSUME NEW b \in Browsers, Connect(b) \/ Stall(b) \/ Resume(b) \/ Lose(b)
      PROVE  Inv'
  <2>1. UNCHANGED <<clients, upto, main, n, todo, batch, dead, swallowed>>
    BY <1>1 DEF Connect, Stall, Resume, Lose
  <2>2. \A c \in Browsers : Served(c)' => Served(c)
    BY <1>1 DEF Connect, Stall, Resume, Lose, Served, TypeInv, TypeOK
  <2>3. dead \subseteq Browsers
    BY <2>1 DEF TypeInv, TypeOK, Inv, NothingMissed
  <2> QED
    BY <2>1, <2>2, <2>3
       DEF Inv, NothingMissed, ServedUnlessSwallowed, DeadAreLost, Publishing, Served
<1>2. CASE Event
  BY <1>2, StartPublishInv DEF Event, StartPublish
<1>3. CASE Finish
  <2>1. CASE kind = "dashboard"
    BY <1>3, <2>1, StartPublishInv DEF Finish, StartPublish
  <2>2. CASE kind # "dashboard"
    BY <1>3, <2>2 DEF Finish, TypeInv, TypeOK, Inv, NothingMissed,
         ServedUnlessSwallowed, DeadAreLost, Served, Publishing
  <2> QED
    BY <2>1, <2>2
<1>4. CASE Write
  <2>1. PICK b \in todo :
          /\ upto' = [upto EXCEPT ![b] = n]
          /\ todo' = todo \ {b}
          /\ dead' = IF conn[b] = "lost" THEN dead \cup {b} ELSE dead
    BY <1>4 DEF Write
  <2>2. Publishing /\ UNCHANGED <<clients, main, n, batch, handler, conn, swallowed>>
    BY <1>4 DEF Write
  <2>3. NothingMissed'
    BY <2>1, <2>2 DEF TypeInv, TypeOK, Inv, NothingMissed, Publishing
  <2>4. ServedUnlessSwallowed' /\ DeadAreLost'
    BY <2>1, <2>2 DEF Inv, ServedUnlessSwallowed, DeadAreLost, Served
  <2> QED
    BY <2>3, <2>4 DEF Inv
<1>5. CASE DrainFails \/ CancelSwallowed
  BY <1>5 DEF DrainFails, CancelSwallowed, TypeInv, TypeOK, Inv, NothingMissed,
              ServedUnlessSwallowed, DeadAreLost, Served, Publishing
<1>6. CASE EndPublish
  <2>1. /\ clients' = clients \ dead /\ todo = {} /\ dead' = {}
        /\ ~ Publishing' /\ UNCHANGED <<upto, n, todo, handler, conn, swallowed>>
    BY <1>6 DEF EndPublish, Publishing
  <2> QED
    BY <2>1 DEF Inv, NothingMissed, ServedUnlessSwallowed, DeadAreLost, Served
<1>7. CASE CloseServer \/ WaitClosed \/ Interrupt
  BY <1>7 DEF CloseServer, WaitClosed, Interrupt, TypeInv, TypeOK, Inv,
         NothingMissed, ServedUnlessSwallowed, DeadAreLost, Served, Publishing
<1>8. CASE Cancelled
  <2>1. CASE main = "run" /\ kind = "dashboard"
    BY <1>8, <2>1, StartPublishInv DEF Cancelled
  <2>2. CASE ~ (main = "run" /\ kind = "dashboard")
    BY <1>8, <2>2 DEF Cancelled, TypeInv, TypeOK, Inv, NothingMissed,
         ServedUnlessSwallowed, DeadAreLost, Served, Publishing
  <2> QED
    BY <2>1, <2>2
<1>9. CASE UNCHANGED vars
  BY <1>9 DEF vars, Inv, NothingMissed, ServedUnlessSwallowed, DeadAreLost, Served,
         Publishing
<1> QED
  BY <1>1, <1>2, <1>3, <1>4, <1>5, <1>6, <1>7, <1>8, <1>9, InvHandle
     DEF Next, Main, Done

\* Nobody is added to or taken from the set that publish iterates over, and a
\* subscriber has been written every event since it subscribed.
THEOREM NothingIsMissed == Spec => []NothingMissed
<1>1. Inv => NothingMissed
  BY DEF Inv
<1> QED
  BY <1>1, TypeInvInit, TypeInvNext, InvInit, InvNext, PTL DEF Spec

\* A browser with an open stream is subscribed, unless a cancel was swallowed:
\* no other browser's stall, loss or return ends its service.
THEOREM OpenStreamsAreServed == Spec => []ServedUnlessSwallowed
<1>1. Inv => ServedUnlessSwallowed
  BY DEF Inv
<1> QED
  BY <1>1, TypeInvInit, TypeInvNext, InvInit, InvNext, PTL DEF Spec

-----------------------------------------------------------------------------
(***************************************************************************)
(* Who is left in the set.  Only a handler adds its browser, and it goes   *)
(* on to the loop that it leaves through unsubscribe alone.                *)
(***************************************************************************)
LEMMA NoOrphansInit == Init => NoOrphans
  BY DEF Init, NoOrphans

LEMMA NoOrphansHandle ==
  ASSUME TypeInv, NoOrphans, NEW b \in Browsers, Handle(b)
  PROVE  NoOrphans'
<1> USE DEF NoOrphans
<1>1. handler \in [Browsers -> Handlers] /\ clients \subseteq Browsers
  BY DEF TypeInv, TypeOK
<1>2. CASE Reply(b)
  BY <1>1, <1>2 DEF Reply, Goes
<1>3. CASE Subscribe(b)
  BY <1>1, <1>3 DEF Subscribe, Goes
<1>4. CASE Keepalive(b) \/ Wake(b)
  BY <1>1, <1>4 DEF Keepalive, Wake, Goes
<1>5. CASE Unsubscribe(b)
  BY <1>1, <1>5 DEF Unsubscribe, Goes
<1>6. CASE CloseWriter(b)
  BY <1>1, <1>6 DEF CloseWriter
<1> QED
  BY <1>2, <1>3, <1>4, <1>5, <1>6 DEF Handle

LEMMA NoOrphansNext == TypeInv /\ NoOrphans /\ [Next]_vars => NoOrphans'
<1> SUFFICES ASSUME TypeInv, NoOrphans, [Next]_vars PROVE NoOrphans'
  OBVIOUS
<1> USE DEF NoOrphans, browserVars
<1>1. handler \in [Browsers -> Handlers] /\ clients \subseteq Browsers
  BY DEF TypeInv, TypeOK
<1>2. ASSUME NEW b \in Browsers, Connect(b) PROVE NoOrphans'
  BY <1>1, <1>2 DEF Connect
<1>3. ASSUME NEW b \in Browsers, Stall(b) \/ Resume(b) \/ Lose(b) PROVE NoOrphans'
  BY <1>3 DEF Stall, Resume, Lose
<1>4. CASE EndPublish
  BY <1>4 DEF EndPublish
<1>5. CASE Event \/ Finish \/ Write \/ DrainFails
  BY <1>5 DEF Event, Finish, StartPublish, Write, DrainFails
<1>6. CASE CloseServer \/ WaitClosed \/ Cancelled \/ CancelSwallowed \/ Interrupt
  BY <1>6 DEF CloseServer, WaitClosed, Cancelled, CancelSwallowed, Interrupt
<1>7. CASE UNCHANGED vars
  BY <1>7 DEF vars
<1> QED
  BY <1>2, <1>3, <1>4, <1>5, <1>6, <1>7, NoOrphansHandle DEF Next, Main, Done

\* Whoever is written to has a handler that is still to take it out of the set,
\* whichever of publish and the handler notices first that the browser is gone.
THEOREM ClientsHaveHandlers == Spec => []NoOrphans
  BY TypeInvInit, TypeInvNext, NoOrphansInit, NoOrphansNext, PTL DEF Spec
=============================================================================
