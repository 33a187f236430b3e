----------------------------- MODULE CdpSession -----------------------------
(***************************************************************************)
(* A WebSocket session of the browser tools with the guest's Chrome.  It   *)
(* runs over two proxies of the same make: the relay (relay.py,            *)
(* make_proxy_handler) and, inside the guest, cdp_hostfix.py.              *)
(*                                                                         *)
(*    client -- link 1 -- relay -- link 2 -- hostfix -- link 3 -- Chrome   *)
(*                        hop 1              hop 2                         *)
(*                                                                         *)
(* Hop h accepts link h, connects link h+1, and pumps messages both ways   *)
(* with two tasks until the first of them ends.  The relay takes the guest *)
(* once, when the session arrives; a reset may retire it and kill it while *)
(* the session runs.  A message is its number in its direction, Close the  *)
(* closing frame, which travels behind what was sent before it.            *)
(***************************************************************************)
EXTENDS Naturals, Sequences

CONSTANT MaxMessages     \* bound: the messages of each end

ASSUME SessionAssumption == MaxMessages \in Nat

Hops == 1..2
Links == 1..3
Close == 0
Directions == {"up", "down"}

VARIABLES
  guest,    \* the session's guest: none, serving (retired or not) or killed
  link,     \* whether a link exists, and whether its connection is lost
  up, down, \* what travels on a link towards Chrome, and towards the client
  hop,      \* how far a proxy's handler is
  ended,    \* the pump tasks of a hop that are over, by direction
  sent,     \* what the client sent up and Chrome sent down
  got,      \* what Chrome was given and the client was given
  left      \* the ends (client, chrome) that have closed their side

sessionVars == <<guest, link, up, down, hop, ended, sent, got, left>>

SessionInit ==
  /\ guest = "none"
  /\ link = [l \in Links |-> "none"]
  /\ up = [l \in Links |-> <<>>] /\ down = [l \in Links |-> <<>>]
  /\ hop = [h \in Hops |-> "idle"]
  /\ ended = [h \in Hops |-> {}]
  /\ sent = [d \in Directions |-> 0]
  /\ got = [d \in Directions |-> <<>>]
  /\ left = {}

-----------------------------------------------------------------------------
(* Channels.                                                               *)

\* What is written to a link: nothing arrives on a lost connection.
Put(channel, l, m) ==
  IF link[l] = "open" THEN [channel EXCEPT ![l] = Append(@, m)] ELSE channel

\* Reading a link yields a message, or its end: a closing frame, or the
\* loss of the connection.
HasMessage(channel, l) ==
  link[l] = "open" /\ channel[l] # <<>> /\ Head(channel[l]) # Close
AtItsEnd(channel, l) ==
  link[l] = "lost" \/ (channel[l] # <<>> /\ Head(channel[l]) = Close)

Take(channel, l) == [channel EXCEPT ![l] = Tail(@)]

-----------------------------------------------------------------------------
(* The two ends.                                                           *)

Arrive ==
  /\ guest = "none"
  /\ guest' = "serving"
  /\ link' = [link EXCEPT ![1] = "open"]
  /\ hop' = [hop EXCEPT ![1] = "connecting"]
  /\ UNCHANGED <<up, down, ended, sent, got, left>>

ClientSends ==
  /\ link[1] = "open" /\ "client" \notin left /\ sent["up"] < MaxMessages
  /\ sent' = [sent EXCEPT !["up"] = @ + 1]
  /\ up' = Put(up, 1, sent["up"] + 1)
  /\ UNCHANGED <<guest, link, down, hop, ended, got, left>>

ClientReceives ==
  /\ "client" \notin left /\ HasMessage(down, 1)
  /\ got' = [got EXCEPT !["down"] = Append(@, Head(down[1]))]
  /\ down' = Take(down, 1)
  /\ UNCHANGED <<guest, link, up, hop, ended, sent, left>>

\* The client closes when it likes, and in answer to a closing frame.
ClientCloses ==
  /\ guest # "none" /\ "client" \notin left
  /\ left' = left \cup {"client"}
  /\ up' = Put(up, 1, Close)
  /\ UNCHANGED <<guest, link, down, hop, ended, sent, got>>

\* The client's process dies.
ClientVanishes ==
  /\ link[1] = "open" /\ "client" \notin left
  /\ left' = left \cup {"client"}
  /\ link' = [link EXCEPT ![1] = "lost"]
  /\ UNCHANGED <<guest, up, down, hop, ended, sent, got>>

ChromeSends ==
  /\ link[3] = "open" /\ "chrome" \notin left /\ sent["down"] < MaxMessages
  /\ sent' = [sent EXCEPT !["down"] = @ + 1]
  /\ down' = Put(down, 3, sent["down"] + 1)
  /\ UNCHANGED <<guest, link, up, hop, ended, got, left>>

ChromeReceives ==
  /\ "chrome" \notin left /\ HasMessage(up, 3)
  /\ got' = [got EXCEPT !["up"] = Append(@, Head(up[3]))]
  /\ up' = Take(up, 3)
  /\ UNCHANGED <<guest, link, down, hop, ended, sent, left>>

ChromeCloses ==
  /\ link[3] = "open" /\ "chrome" \notin left
  /\ left' = left \cup {"chrome"}
  /\ down' = Put(down, 3, Close)
  /\ UNCHANGED <<guest, link, up, hop, ended, sent, got>>

\* A reset retires the guest and kills its sandbox: hop 2 and Chrome are
\* gone, and E2B's ingress closes the relay's connection.
GuestIsKilled ==
  /\ guest = "serving"
  /\ guest' = "killed"
  /\ link' = [l \in Links |-> IF l > 1 /\ link[l] = "open" THEN "lost" ELSE link[l]]
  /\ hop' = [hop EXCEPT ![2] = "over"]
  /\ left' = left \cup {"chrome"}
  /\ UNCHANGED <<up, down, ended, sent, got>>

-----------------------------------------------------------------------------
(* The handler of a hop.                                                   *)

\* The relay's connection reaches hop 2, which accepts it before it has one
\* of its own.
HopConnects(h) ==
  /\ hop[h] = "connecting" /\ guest = "serving"
  /\ link' = [link EXCEPT ![h + 1] = "open"]
  /\ hop' = [g \in Hops |-> IF g = h THEN "pumping"
                            ELSE IF g = h + 1 THEN "connecting" ELSE hop[g]]
  /\ UNCHANGED <<guest, up, down, ended, sent, got, left>>

HopFailsToConnect(h) ==
  /\ hop[h] = "connecting"
  /\ hop' = [hop EXCEPT ![h] = "closing_down"]
  /\ UNCHANGED <<guest, link, up, down, ended, sent, got, left>>

PumpsUp(h) ==
  /\ hop[h] = "pumping" /\ "up" \notin ended[h] /\ HasMessage(up, h)
  /\ up' = Put(Take(up, h), h + 1, Head(up[h]))
  /\ ended' = IF link[h + 1] = "lost" THEN [ended EXCEPT ![h] = @ \cup {"up"}]
                                  ELSE ended
  /\ UNCHANGED <<guest, link, down, hop, sent, got, left>>

PumpsDown(h) ==
  /\ hop[h] = "pumping" /\ "down" \notin ended[h] /\ HasMessage(down, h + 1)
  /\ down' = Put(Take(down, h + 1), h, Head(down[h + 1]))
  /\ ended' = IF link[h] = "lost"
              THEN [ended EXCEPT ![h] = @ \cup {"down"}] ELSE ended
  /\ UNCHANGED <<guest, link, up, hop, sent, got, left>>

\* A variant ends a pump as soon as a closing frame has arrived.
EndsAhead(h) ==
  /\ hop[h] = "pumping"
  /\ \E d \in Directions \ ended[h] :
       /\ LET channel == IF d = "up" THEN up[h] ELSE down[h + 1] IN
            \E i \in DOMAIN channel : channel[i] = Close
       /\ ended' = [ended EXCEPT ![h] = @ \cup {d}]
  /\ UNCHANGED <<guest, link, up, down, hop, sent, got, left>>

\* A pump whose side has closed, or is lost, is over.
PumpEnds(h) ==
  /\ hop[h] = "pumping"
  /\ \E d \in Directions \ ended[h] :
       /\ IF d = "up" THEN AtItsEnd(up, h) ELSE AtItsEnd(down, h + 1)
       /\ ended' = [ended EXCEPT ![h] = @ \cup {d}]
  /\ UNCHANGED <<guest, link, up, down, hop, sent, got, left>>

\* A variant gathers the two pumps.
AllCompleted(h) ==
  /\ hop[h] = "pumping" /\ ended[h] = Directions
  /\ hop' = [hop EXCEPT ![h] = "closing_up"]
  /\ UNCHANGED <<guest, link, up, down, ended, sent, got, left>>

\* asyncio.wait(FIRST_COMPLETED): the other pump is cancelled.
FirstCompleted(h) ==
  /\ hop[h] = "pumping" /\ ended[h] # {}
  /\ hop' = [hop EXCEPT ![h] = "closing_up"]
  /\ ended' = [ended EXCEPT ![h] = Directions]
  /\ UNCHANGED <<guest, link, up, down, sent, got, left>>

ClosesUpstream(h) ==
  /\ hop[h] = "closing_up"
  /\ up' = Put(up, h + 1, Close)
  /\ hop' = [hop EXCEPT ![h] = "closing_down"]
  /\ UNCHANGED <<guest, link, down, ended, sent, got, left>>

ClosesDownstream(h) ==
  /\ hop[h] = "closing_down"
  /\ down' = Put(down, h, Close)
  /\ hop' = [hop EXCEPT ![h] = "over"]
  /\ UNCHANGED <<guest, link, up, ended, sent, got, left>>

Proxy(h) ==
  \/ HopConnects(h) \/ HopFailsToConnect(h)
  \/ PumpsUp(h) \/ PumpsDown(h) \/ PumpEnds(h)
  \/ FirstCompleted(h) \/ ClosesUpstream(h) \/ ClosesDownstream(h)

\* An end that reads the end of its link closes.
ClientSeesTheEnd == AtItsEnd(down, 1) /\ ClientCloses
ChromeSeesTheEnd == AtItsEnd(up, 3) /\ ChromeCloses

Ends ==
  \/ Arrive \/ ClientSends \/ ClientReceives \/ ClientCloses \/ ClientVanishes
  \/ ChromeSends \/ ChromeReceives \/ ChromeCloses \/ GuestIsKilled

SessionNext == Ends \/ \E h \in Hops : Proxy(h)

SessionFairness ==
  /\ \A h \in Hops : WF_sessionVars(Proxy(h))
  /\ WF_sessionVars(ClientReceives) /\ WF_sessionVars(ChromeReceives)
  /\ WF_sessionVars(ClientSeesTheEnd) /\ WF_sessionVars(ChromeSeesTheEnd)

SessionSpec == SessionInit /\ [][SessionNext]_sessionVars /\ SessionFairness

-----------------------------------------------------------------------------
HopStates == {"idle", "connecting", "pumping", "closing_up", "closing_down", "over"}

SessionTypeOK ==
  /\ guest \in {"none", "serving", "killed"}
  /\ link \in [Links -> {"none", "open", "lost"}]
  /\ up \in [Links -> Seq(0..MaxMessages)]
  /\ down \in [Links -> Seq(0..MaxMessages)]
  /\ hop \in [Hops -> HopStates]
  /\ ended \in [Hops -> SUBSET Directions]
  /\ sent \in [Directions -> 0..MaxMessages]
  /\ got \in [Directions -> Seq(1..MaxMessages)]
  /\ left \subseteq {"client", "chrome"}

\* A session ends as a whole: when an end closes or vanishes, or the guest is
\* killed under it, both proxies and both ends are eventually done with it,
\* and no half of it is left waiting for a message that cannot come.
SessionsEndTogether ==
  left # {} ~> /\ "client" \in left
               /\ \A h \in Hops : hop[h] \in {"idle", "over"}
               /\ link[3] = "none" \/ "chrome" \in left

\* Closing loses nothing: as long as the client has closed in order and
\* Chrome and the guest are there, Chrome does not see the end of the session
\* before all that the client sent, in order; and the other way round.
HasAll(d) == got[d] = [i \in 1..sent[d] |-> i]

ClosingLosesNothing ==
  /\ (link[1] = "open" /\ link[3] = "open" /\ "chrome" \notin left
        /\ "client" \in left /\ AtItsEnd(up, 3)) => HasAll("up")
  /\ (link[1] = "open" /\ link[3] = "open" /\ "client" \notin left
        /\ "chrome" \in left /\ AtItsEnd(down, 1)) => HasAll("down")
=============================================================================
