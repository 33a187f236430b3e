-------------------------- MODULE CdpSessionProofs --------------------------
(***************************************************************************)
(* Theorems about CdpSession, for any number of messages.                  *)
(***************************************************************************)
EXTENDS CdpSession, SequenceTheorems, TLAPS

Frames == 0..MaxMessages

-----------------------------------------------------------------------------
(* One direction of a link: messages, and a closing frame behind them.     *)

\* A closing frame travels at its end.
Shut(q) == q # <<>> /\ q[Len(q)] = Close

Queue(q) == q \in Seq(Frames) /\ \A i \in 1..Len(q) : q[i] = Close => i = Len(q)

Messages(q) == IF Shut(q) THEN Len(q) - 1 ELSE Len(q)

\* Its messages are those after the n-th, without a gap.
Follows(q, n) == \A i \in 1..Messages(q) : q[i] = n + i

LEMMA QueueIs ==
  ASSUME NEW q, Queue(q)
  PROVE  /\ Messages(q) \in Nat
         /\ q # <<>> /\ Head(q) = Close => Shut(q) /\ Messages(q) = 0
         /\ q # <<>> /\ Head(q) # Close => Messages(q) > 0
<1>1. q \in Seq(Frames) /\ Len(q) \in Nat /\ \A i \in 1..Len(q) : q[i] = Close => i = Len(q)
  BY DEF Queue
<1>4. Messages(q) \in Nat
  BY DEF Messages, Shut
<1>5. ASSUME q # <<>>, Head(q) = Close
      PROVE  Shut(q) /\ Messages(q) = 0
  <2>1. q[1] = Close /\ 1 \in 1..Len(q)
    BY <1>5
  <2>2. Len(q) = 1
    BY <1>1, <2>1
  <2> QED
    BY <2>1, <2>2 DEF Messages, Shut
<1>6. q # <<>> /\ Head(q) # Close => Messages(q) > 0
  BY DEF Messages, Shut
<1> QED
  BY <1>4, <1>5, <1>6

LEMMA EmptyQueue ==
  /\ Queue(<<>>) /\ ~Shut(<<>>) /\ Messages(<<>>) = 0 /\ \A n \in Nat : Follows(<<>>, n)
<1>1. Queue(<<>>) /\ ~Shut(<<>>) /\ Messages(<<>>) = 0
  BY DEF Queue, Shut, Messages
<1> QED
  BY <1>1 DEF Follows

LEMMA PutMessage ==
  ASSUME NEW q, Queue(q), ~Shut(q), NEW m \in 1..MaxMessages
  PROVE  LET r == Append(q, m)
         IN  /\ Queue(r) /\ ~Shut(r) /\ Messages(r) = Messages(q) + 1
             /\ \A n \in Nat : Follows(q, n) /\ m = n + Messages(q) + 1 => Follows(r, n)
<1> DEFINE r == Append(q, m)
<1>1. q \in Seq(Frames) /\ m \in Frames /\ Len(q) \in Nat
  BY DEF Queue, Frames
<1>2. /\ r \in Seq(Frames) /\ Len(r) = Len(q) + 1 /\ r[Len(q) + 1] = m
      /\ \A i \in 1..Len(q) : r[i] = q[i]
  BY <1>1
<1> HIDE DEF r
<1>4. ~Shut(r) /\ Queue(r)
  BY <1>2 DEF Shut, Queue, Close
<1>5. Messages(q) = Len(q) /\ Messages(r) = Len(q) + 1
  BY <1>2, <1>4 DEF Messages
<1>6. \A n \in Nat : Follows(q, n) /\ m = n + Messages(q) + 1 => Follows(r, n)
  <2> SUFFICES ASSUME NEW n \in Nat, Follows(q, n), m = n + Messages(q) + 1,
                      NEW i \in 1..Messages(r)
      PROVE  r[i] = n + i
    BY DEF Follows
  <2>1. CASE i = Len(q) + 1
    BY <1>2, <1>5, <2>1
  <2>2. CASE i \in 1..Len(q)
    BY <1>2, <1>5 DEF Follows
  <2> QED
    BY <1>5, <2>1, <2>2
<1> QED
  BY <1>4, <1>5, <1>6 DEF r

LEMMA PutClose ==
  ASSUME NEW q, Queue(q), ~Shut(q)
  PROVE  LET r == Append(q, Close)
         IN  /\ Queue(r) /\ Shut(r) /\ Messages(r) = Messages(q)
             /\ \A n \in Nat : Follows(q, n) => Follows(r, n)
<1> DEFINE r == Append(q, Close)
<1>1. q \in Seq(Frames) /\ Close \in Frames /\ Len(q) \in Nat
  BY SessionAssumption DEF Queue, Frames, Close
<1>2. /\ r \in Seq(Frames) /\ Len(r) = Len(q) + 1 /\ r[Len(q) + 1] = Close
      /\ \A i \in 1..Len(q) : r[i] = q[i]
  BY <1>1
<1> HIDE DEF r
<1>4. Shut(r) /\ Queue(r)
  BY <1>2 DEF Shut, Queue
<1>5. Messages(q) = Len(q) /\ Messages(r) = Len(q)
  BY <1>1, <1>2, <1>4 DEF Messages
<1>6. \A n \in Nat : Follows(q, n) => Follows(r, n)
  BY <1>2, <1>5 DEF Follows
<1> QED
  BY <1>4, <1>5, <1>6 DEF r

LEMMA TakeMessage ==
  ASSUME NEW q, Queue(q), q # <<>>, Head(q) # Close
  PROVE  LET r == Tail(q)
         IN  /\ Queue(r) /\ (Shut(r) <=> Shut(q)) /\ Messages(q) = Messages(r) + 1
             /\ Head(q) \in 1..MaxMessages
             /\ \A n \in Nat : Follows(q, n) => Head(q) = n + 1 /\ Follows(r, n + 1)
<1> DEFINE r == Tail(q)
<1>1. /\ q \in Seq(Frames) /\ Len(q) \in Nat /\ Len(q) > 0 /\ Head(q) = q[1] /\ q[1] \in Frames
      /\ \A i \in 1..Len(q) : q[i] = Close => i = Len(q)
  BY DEF Queue
<1>2. /\ r \in Seq(Frames) /\ Len(r) = Len(q) - 1
      /\ \A i \in 1..Len(q) - 1 : r[i] = q[i + 1]
  BY <1>1
<1> HIDE DEF r
<1>4. Shut(r) <=> Shut(q)
  BY <1>2 DEF Shut
<1>5. Queue(r)
  BY <1>2 DEF Queue
<1>6. Messages(q) = Messages(r) + 1
  BY <1>2, <1>4 DEF Messages
<1>7. Head(q) \in 1..MaxMessages
  BY <1>1 DEF Frames, Close
<1>8. ASSUME NEW n \in Nat, Follows(q, n)
      PROVE  Head(q) = n + 1 /\ Follows(r, n + 1)
  <2>1. Messages(r) \in Nat /\ Messages(r) <= Len(q) - 1
    BY <1>2, <1>5, QueueIs DEF Messages
  <2>2. Head(q) = n + 1
    BY <1>6, <1>8, <2>1 DEF Follows
  <2>3. \A i \in 1..Messages(r) : r[i] = n + 1 + i
    <3> SUFFICES ASSUME NEW i \in 1..Messages(r)
        PROVE  r[i] = n + 1 + i
      OBVIOUS
    <3>1. i + 1 \in 1..Messages(q) /\ i \in 1..Len(q) - 1
      BY <1>6, <2>1
    <3>2. q[i + 1] = n + (i + 1)
      BY <1>8, <3>1 DEF Follows
    <3> QED
      BY <1>2, <3>1, <3>2
  <2> QED
    BY <2>2, <2>3 DEF Follows
<1> QED
  BY <1>4, <1>5, <1>6, <1>7, <1>8 DEF r

-----------------------------------------------------------------------------
(* One direction of a session: what was received, and the three links      *)
(* behind it, the nearest first, hold the messages 1..n in this order.     *)

Flow(g, a, b, c, n) ==
  /\ g \in Seq(1..MaxMessages) /\ \A i \in 1..Len(g) : g[i] = i
  /\ Queue(a) /\ Queue(b) /\ Queue(c)
  /\ Follows(a, Len(g)) /\ Follows(b, Len(g) + Messages(a))
  /\ Follows(c, Len(g) + Messages(a) + Messages(b))
  /\ n = Len(g) + Messages(a) + Messages(b) + Messages(c)

LEMMA FlowCounts ==
  ASSUME NEW g, NEW a, NEW b, NEW c, NEW n, Flow(g, a, b, c, n)
  PROVE  /\ Len(g) \in Nat /\ Messages(a) \in Nat /\ Messages(b) \in Nat /\ Messages(c) \in Nat
         /\ n \in Nat
<1>2. Messages(a) \in Nat /\ Messages(b) \in Nat /\ Messages(c) \in Nat
  BY QueueIs DEF Flow
<1> QED
  BY <1>2 DEF Flow

\* The sender puts its next message on the last link.
LEMMA FlowSends ==
  ASSUME NEW g, NEW a, NEW b, NEW c, NEW n, Flow(g, a, b, c, n), n < MaxMessages, ~Shut(c)
  PROVE  Flow(g, a, b, Append(c, n + 1), n + 1) /\ ~Shut(Append(c, n + 1))
<1> DEFINE r == Append(c, n + 1)
<1>1. /\ Len(g) \in Nat /\ Messages(a) \in Nat /\ Messages(b) \in Nat /\ Messages(c) \in Nat
      /\ n \in Nat
  BY FlowCounts
<1>2. n + 1 \in 1..MaxMessages
  BY <1>1, SessionAssumption
<1>3. /\ Queue(r) /\ ~Shut(r) /\ Messages(r) = Messages(c) + 1
      /\ \A k \in Nat : Follows(c, k) /\ n + 1 = k + Messages(c) + 1 => Follows(r, k)
  BY <1>2, PutMessage DEF Flow
<1> HIDE DEF r
<1>5. Flow(g, a, b, r, n + 1)
  BY <1>1, <1>3 DEF Flow
<1> QED
  BY <1>3, <1>5 DEF r

\* The receiver takes the first message from the nearest link.
LEMMA FlowReceives ==
  ASSUME NEW g, NEW a, NEW b, NEW c, NEW n, Flow(g, a, b, c, n), a # <<>>, Head(a) # Close
  PROVE  /\ Flow(Append(g, Head(a)), Tail(a), b, c, n)
         /\ Shut(Tail(a)) <=> Shut(a)
<1> DEFINE r == Tail(a)
           m == Head(a)
           h == Append(g, m)
<1>1. /\ Len(g) \in Nat /\ Messages(a) \in Nat /\ Messages(b) \in Nat /\ Messages(c) \in Nat
      /\ n \in Nat
  BY FlowCounts
<1>2. /\ Queue(r) /\ (Shut(r) <=> Shut(a)) /\ Messages(a) = Messages(r) + 1
      /\ m \in 1..MaxMessages
      /\ \A k \in Nat : Follows(a, k) => m = k + 1 /\ Follows(r, k + 1)
  BY TakeMessage DEF Flow
<1> HIDE DEF r, m
<1>3. m = Len(g) + 1 /\ Follows(r, Len(g) + 1) /\ Messages(r) \in Nat
  BY <1>1, <1>2, QueueIs DEF Flow
<1>4. /\ h \in Seq(1..MaxMessages) /\ Len(h) = Len(g) + 1 /\ h[Len(g) + 1] = m
      /\ \A i \in 1..Len(g) : h[i] = g[i]
  BY <1>2 DEF Flow
<1> HIDE DEF h
<1>6. Len(h) + Messages(r) = Len(g) + Messages(a)
  BY <1>2, <1>3, <1>4
<1>7. Flow(h, r, b, c, n)
  BY <1>2, <1>4, <1>6 DEF Flow
<1> QED
  BY <1>2, <1>7 DEF h, r, m

\* A proxy passes a message on, from the middle to the nearest link.
LEMMA FlowPumpsOut ==
  ASSUME NEW g, NEW a, NEW b, NEW c, NEW n, Flow(g, a, b, c, n),
         b # <<>>, Head(b) # Close, ~Shut(a)
  PROVE  /\ Flow(g, Append(a, Head(b)), Tail(b), c, n)
         /\ ~Shut(Append(a, Head(b))) /\ (Shut(Tail(b)) <=> Shut(b))
<1> DEFINE r == Tail(b)
           m == Head(b)
           s == Append(a, m)
<1>1. /\ Len(g) \in Nat /\ Messages(a) \in Nat /\ Messages(b) \in Nat /\ Messages(c) \in Nat
      /\ n \in Nat
  BY FlowCounts
<1>2. /\ Queue(r) /\ (Shut(r) <=> Shut(b)) /\ Messages(b) = Messages(r) + 1
      /\ m \in 1..MaxMessages
      /\ \A k \in Nat : Follows(b, k) => m = k + 1 /\ Follows(r, k + 1)
  BY TakeMessage DEF Flow
<1> HIDE DEF r, m
<1>3. Messages(r) \in Nat
  BY <1>2, QueueIs
<1>4. m = Len(g) + Messages(a) + 1 /\ Follows(r, Len(g) + Messages(a) + 1)
  <2>1. Follows(b, Len(g) + Messages(a)) /\ Len(g) + Messages(a) \in Nat
    BY <1>1 DEF Flow
  <2> QED
    BY <1>2, <2>1
<1>5. /\ Queue(s) /\ ~Shut(s) /\ Messages(s) = Messages(a) + 1
      /\ \A k \in Nat : Follows(a, k) /\ m = k + Messages(a) + 1 => Follows(s, k)
  BY <1>2, PutMessage DEF Flow
<1> HIDE DEF s
<1>7. /\ Len(g) + Messages(s) = Len(g) + Messages(a) + 1
      /\ Len(g) + Messages(s) + Messages(r) = Len(g) + Messages(a) + Messages(b)
  <2>1. Messages(s) = Messages(a) + 1 /\ Messages(b) = Messages(r) + 1
    BY <1>2, <1>5
  <2>3. ASSUME NEW k \in Nat
        PROVE  /\ k + Messages(s) = k + Messages(a) + 1
               /\ k + Messages(s) + Messages(r) = k + Messages(a) + Messages(b)
    <3> DEFINE moved == Messages(s)
               out == Messages(a)
               in == Messages(b)
               rest == Messages(r)
    <3>1. out \in Nat /\ in \in Nat /\ rest \in Nat /\ moved = out + 1 /\ in = rest + 1
      BY <1>1, <1>3, <2>1
    <3> HIDE DEF moved, out, in, rest
    <3>2. k + moved = k + out + 1 /\ k + moved + rest = k + out + in
      BY <3>1
    <3> QED
      BY <3>2 DEF moved, out, in, rest
  <2> QED
    BY <2>3
<1>8. Flow(g, s, r, c, n)
  BY <1>2, <1>4, <1>5, <1>7 DEF Flow
<1> QED
  BY <1>2, <1>5, <1>8 DEF s, r, m

\* A proxy passes a message on, from the last to the middle link.
LEMMA FlowPumpsIn ==
  ASSUME NEW g, NEW a, NEW b, NEW c, NEW n, Flow(g, a, b, c, n),
         c # <<>>, Head(c) # Close, ~Shut(b)
  PROVE  /\ Flow(g, a, Append(b, Head(c)), Tail(c), n)
         /\ ~Shut(Append(b, Head(c))) /\ (Shut(Tail(c)) <=> Shut(c))
<1> DEFINE r == Tail(c)
           m == Head(c)
           s == Append(b, m)
<1>1. /\ Len(g) \in Nat /\ Messages(a) \in Nat /\ Messages(b) \in Nat /\ Messages(c) \in Nat
      /\ n \in Nat
  BY FlowCounts
<1>2. /\ Queue(r) /\ (Shut(r) <=> Shut(c)) /\ Messages(c) = Messages(r) + 1
      /\ m \in 1..MaxMessages
      /\ \A k \in Nat : Follows(c, k) => m = k + 1 /\ Follows(r, k + 1)
  BY TakeMessage DEF Flow
<1> HIDE DEF r, m
<1>3. Messages(r) \in Nat
  BY <1>2, QueueIs
<1>4. /\ m = Len(g) + Messages(a) + Messages(b) + 1
      /\ Follows(r, Len(g) + Messages(a) + Messages(b) + 1)
  BY <1>1, <1>2 DEF Flow
<1>5. /\ Queue(s) /\ ~Shut(s) /\ Messages(s) = Messages(b) + 1
      /\ \A k \in Nat : Follows(b, k) /\ m = k + Messages(b) + 1 => Follows(s, k)
  BY <1>2, PutMessage DEF Flow
<1> HIDE DEF s
<1>6. Follows(s, Len(g) + Messages(a))
  BY <1>1, <1>4, <1>5 DEF Flow
<1>7. /\ Len(g) + Messages(a) + Messages(s) = Len(g) + Messages(a) + Messages(b) + 1
      /\ Len(g) + Messages(a) + Messages(s) + Messages(r) =
           Len(g) + Messages(a) + Messages(b) + Messages(c)
  <2>1. Messages(s) = Messages(b) + 1 /\ Messages(c) = Messages(r) + 1
    BY <1>2, <1>5
  <2>2. Len(g) + Messages(a) \in Nat
    BY <1>1
  <2>3. ASSUME NEW k \in Nat
        PROVE  /\ k + Messages(s) = k + Messages(b) + 1
               /\ k + Messages(s) + Messages(r) = k + Messages(b) + Messages(c)
    <3> DEFINE moved == Messages(s)
               out == Messages(b)
               in == Messages(c)
               rest == Messages(r)
    <3>1. out \in Nat /\ in \in Nat /\ rest \in Nat /\ moved = out + 1 /\ in = rest + 1
      BY <1>1, <1>3, <2>1
    <3> HIDE DEF moved, out, in, rest
    <3>2. k + moved = k + out + 1 /\ k + moved + rest = k + out + in
      BY <3>1
    <3> QED
      BY <3>2 DEF moved, out, in, rest
  <2> QED
    BY <2>2, <2>3
<1>8. Flow(g, a, s, r, n)
  BY <1>2, <1>4, <1>5, <1>6, <1>7 DEF Flow
<1> QED
  BY <1>2, <1>5, <1>8 DEF s, r, m

\* A closing frame on one of the links disturbs nothing.
LEMMA FlowCloses ==
  ASSUME NEW g, NEW a, NEW b, NEW c, NEW n, Flow(g, a, b, c, n)
  PROVE  /\ ~Shut(a) => Flow(g, Append(a, Close), b, c, n)
         /\ ~Shut(b) => Flow(g, a, Append(b, Close), c, n)
         /\ ~Shut(c) => Flow(g, a, b, Append(c, Close), n)
<1>1. /\ Len(g) \in Nat /\ Messages(a) \in Nat /\ Messages(b) \in Nat
  BY FlowCounts
<1>2. ASSUME NEW q, Queue(q), ~Shut(q)
      PROVE  /\ Queue(Append(q, Close)) /\ Messages(Append(q, Close)) = Messages(q)
             /\ \A k \in Nat : Follows(q, k) => Follows(Append(q, Close), k)
  BY <1>2, PutClose
<1>3. CASE ~Shut(a)
  BY <1>1, <1>2 DEF Flow
<1>4. CASE ~Shut(b)
  BY <1>1, <1>2 DEF Flow
<1>5. CASE ~Shut(c)
  BY <1>1, <1>2 DEF Flow
<1> QED
  BY <1>3, <1>4, <1>5

\* When nothing is left on the links, all was received.
LEMMA FlowIsOver ==
  ASSUME NEW g, NEW a, NEW b, NEW c, NEW n, Flow(g, a, b, c, n),
         Messages(a) = 0, Messages(b) = 0, Messages(c) = 0
  PROVE  n = Len(g) /\ g \in Seq(1..MaxMessages) /\ \A i \in 1..Len(g) : g[i] = i
BY DEF Flow

-----------------------------------------------------------------------------
(* The links.                                                              *)

Channels == [Links -> Seq(Frames)]

LEMMA PutIs ==
  ASSUME NEW c \in Channels, NEW l \in Links, NEW m \in Frames
  PROVE  /\ Put(c, l, m) \in Channels
         /\ \A k \in Links : k # l => Put(c, l, m)[k] = c[k]
         /\ link[l] = "open" => Put(c, l, m)[l] = Append(c[l], m)
<1>1. c[l] \in Seq(Frames) /\ Append(c[l], m) \in Seq(Frames)
  BY DEF Channels
<1> DEFINE longer == Append(c[l], m)
<1>2. Put(c, l, m) = IF link[l] = "open" THEN [c EXCEPT ![l] = longer] ELSE c
  BY DEF Put
<1>3. longer \in Seq(Frames)
  BY <1>1
<1> HIDE DEF longer
<1>4. [c EXCEPT ![l] = longer] \in Channels
  BY <1>3 DEF Channels
<1>5. /\ Put(c, l, m) \in Channels
      /\ \A k \in Links : k # l => Put(c, l, m)[k] = c[k]
      /\ link[l] = "open" => Put(c, l, m)[l] = longer
  BY <1>2, <1>4 DEF Channels
<1> QED
  BY <1>5 DEF longer

LEMMA TakeIs ==
  ASSUME NEW c \in Channels, NEW l \in Links, HasMessage(c, l)
  PROVE  /\ Take(c, l) \in Channels /\ Take(c, l)[l] = Tail(c[l])
         /\ \A k \in Links : k # l => Take(c, l)[k] = c[k]
         /\ c[l] # <<>> /\ Head(c[l]) # Close /\ Head(c[l]) \in 1..MaxMessages
         /\ Head(c[l]) \in Frames
<1> DEFINE rest == Tail(c[l])
<1>1. c[l] \in Seq(Frames) /\ c[l] # <<>> /\ Head(c[l]) # Close
  BY DEF Channels, HasMessage
<1>2. rest \in Seq(Frames) /\ Head(c[l]) \in Frames
  BY <1>1
<1>3. Head(c[l]) \in 1..MaxMessages
  BY <1>1, SessionAssumption DEF Frames, Close
<1>4. Take(c, l) = [c EXCEPT ![l] = rest]
  BY DEF Take
<1> HIDE DEF rest
<1>5. /\ Take(c, l) \in Channels /\ Take(c, l)[l] = rest
      /\ \A k \in Links : k # l => Take(c, l)[k] = c[k]
  BY <1>2, <1>4 DEF Channels
<1> QED
  BY <1>1, <1>3, <1>5 DEF rest

LEMMA SessionInitTypes == SessionInit => SessionTypeOK
<1> SUFFICES ASSUME SessionInit PROVE SessionTypeOK
  OBVIOUS
<1>1. 0 \in 0..MaxMessages
  BY SessionAssumption
<1> QED
  BY <1>1 DEF SessionInit, SessionTypeOK, HopStates

\* What the steps that leave the queues alone do.
LEMMA QuietTypes ==
  ASSUME SessionTypeOK, NEW h \in Hops,
         \/ Arrive \/ ClientVanishes \/ GuestIsKilled \/ HopConnects(h)
         \/ HopFailsToConnect(h) \/ PumpEnds(h) \/ FirstCompleted(h)
         \/ UNCHANGED sessionVars
  PROVE  SessionTypeOK' /\ UNCHANGED <<up, down, sent, got>>
<1>1. UNCHANGED <<up, down, sent, got>>
  BY DEF Arrive, ClientVanishes, GuestIsKilled, HopConnects, HopFailsToConnect, PumpEnds,
     FirstCompleted, sessionVars
<1>2. /\ guest' \in {"none", "serving", "killed"} /\ link' \in [Links -> {"none", "open", "lost"}]
      /\ left' \subseteq {"client", "chrome"} /\ hop' \in [Hops -> HopStates]
  BY DEF Arrive, ClientVanishes, GuestIsKilled, HopConnects, HopFailsToConnect, PumpEnds,
     FirstCompleted, sessionVars, SessionTypeOK, HopStates
<1>3. ended' \in [Hops -> SUBSET Directions]
  <2>1. ended \in [Hops -> SUBSET Directions]
    BY DEF SessionTypeOK
  <2>2. CASE PumpEnds(h)
    <3> PICK d \in Directions : ended' = [ended EXCEPT ![h] = @ \cup {d}]
      BY <2>2 DEF PumpEnds
    <3> QED
      BY <2>1
  <2>3. CASE FirstCompleted(h)
    BY <2>1, <2>3 DEF FirstCompleted
  <2>4. CASE ended' = ended
    BY <2>1, <2>4
  <2> QED
    BY <2>2, <2>3, <2>4 DEF Arrive, ClientVanishes, GuestIsKilled, HopConnects, HopFailsToConnect,
       sessionVars
<1> QED
  BY <1>1, <1>2, <1>3 DEF SessionTypeOK

LEMMA EndTypes ==
  ASSUME SessionTypeOK,
         \/ ClientSends \/ ClientReceives \/ ClientCloses
         \/ ChromeSends \/ ChromeReceives \/ ChromeCloses
  PROVE  SessionTypeOK' /\ UNCHANGED <<guest, link, hop, ended>>
<1>1. UNCHANGED <<guest, link, hop, ended>> /\ left' \subseteq {"client", "chrome"}
  BY DEF ClientSends, ClientReceives, ClientCloses, ChromeSends, ChromeReceives, ChromeCloses,
     SessionTypeOK
<1>2. up \in Channels /\ down \in Channels /\ 1 \in Links /\ 3 \in Links /\ Close \in Frames
  BY SessionAssumption DEF SessionTypeOK, Channels, Frames, Links, Close
<1>3. \A d \in Directions : sent[d] < MaxMessages => sent[d] + 1 \in Frames
  BY SessionAssumption DEF SessionTypeOK, Frames
<1>4. up' \in Channels /\ down' \in Channels /\ sent' \in [Directions -> 0..MaxMessages]
  <2>1. CASE ClientSends \/ ChromeSends
    <3>1. sent' \in [Directions -> 0..MaxMessages]
      BY <2>1, <1>3 DEF ClientSends, ChromeSends, SessionTypeOK, Frames, Directions
    <3> QED
      BY <1>2, <1>3, <2>1, <3>1, PutIs DEF ClientSends, ChromeSends, Directions
  <2>2. CASE ClientCloses \/ ChromeCloses
    BY <1>2, <2>2, PutIs DEF ClientCloses, ChromeCloses, SessionTypeOK
  <2>3. CASE ClientReceives \/ ChromeReceives
    BY <1>2, <2>3, TakeIs DEF ClientReceives, ChromeReceives, SessionTypeOK
  <2> QED
    BY <2>1, <2>2, <2>3
<1>5. got' \in [Directions -> Seq(1..MaxMessages)]
  <2>1. CASE ClientReceives
    <3>1. Head(down[1]) \in 1..MaxMessages /\ got["down"] \in Seq(1..MaxMessages)
      BY <1>2, <2>1, TakeIs DEF ClientReceives, SessionTypeOK, Directions
    <3>2. Append(got["down"], Head(down[1])) \in Seq(1..MaxMessages)
      BY <3>1
    <3> QED
      BY <2>1, <3>2 DEF ClientReceives, SessionTypeOK
  <2>2. CASE ChromeReceives
    <3>1. Head(up[3]) \in 1..MaxMessages /\ got["up"] \in Seq(1..MaxMessages)
      BY <1>2, <2>2, TakeIs DEF ChromeReceives, SessionTypeOK, Directions
    <3>2. Append(got["up"], Head(up[3])) \in Seq(1..MaxMessages)
      BY <3>1
    <3> QED
      BY <2>2, <3>2 DEF ChromeReceives, SessionTypeOK
  <2>3. CASE ClientSends \/ ClientCloses \/ ChromeSends \/ ChromeCloses
    BY <2>3 DEF ClientSends, ClientCloses, ChromeSends, ChromeCloses, SessionTypeOK
  <2> QED
    BY <2>1, <2>2, <2>3
<1> QED
  BY <1>1, <1>4, <1>5 DEF SessionTypeOK, Channels, Frames

LEMMA PumpTypes ==
  ASSUME SessionTypeOK, NEW h \in Hops,
         PumpsUp(h) \/ PumpsDown(h) \/ ClosesUpstream(h) \/ ClosesDownstream(h)
  PROVE  SessionTypeOK' /\ UNCHANGED <<guest, link, sent, got, left>>
<1>1. UNCHANGED <<guest, link, sent, got, left>>
  BY DEF PumpsUp, PumpsDown, ClosesUpstream, ClosesDownstream
<1>2. /\ up \in Channels /\ down \in Channels /\ h \in Links /\ h + 1 \in Links
      /\ Close \in Frames
  BY SessionAssumption DEF SessionTypeOK, Channels, Frames, Links, Hops, Close
<1>3. hop' \in [Hops -> HopStates]
  BY DEF PumpsUp, PumpsDown, ClosesUpstream, ClosesDownstream, SessionTypeOK, HopStates
<1>5. ended' \in [Hops -> SUBSET Directions]
  <2>1. ended \in [Hops -> SUBSET Directions]
    BY DEF SessionTypeOK
  <2>3. \/ ended' = ended
        \/ \E d \in Directions : ended' = [ended EXCEPT ![h] = @ \cup {d}]
    BY DEF PumpsUp, PumpsDown, ClosesUpstream, ClosesDownstream, Directions
  <2> QED
    BY <2>1, <2>3
<1>4. up' \in Channels /\ down' \in Channels
  <2>1. CASE PumpsUp(h)
    <3>1. Take(up, h) \in Channels /\ Head(up[h]) \in Frames
      BY <1>2, <2>1, TakeIs DEF PumpsUp
    <3> QED
      BY <1>2, <2>1, <3>1, PutIs DEF PumpsUp
  <2>2. CASE PumpsDown(h)
    <3>1. Take(down, h + 1) \in Channels /\ Head(down[h + 1]) \in Frames
      BY <1>2, <2>2, TakeIs DEF PumpsDown
    <3> QED
      BY <1>2, <2>2, <3>1, PutIs DEF PumpsDown
  <2>3. CASE ClosesUpstream(h)
    BY <1>2, <2>3, PutIs DEF ClosesUpstream
  <2>4. CASE ClosesDownstream(h)
    BY <1>2, <2>4, PutIs DEF ClosesDownstream
  <2> QED
    BY <2>1, <2>2, <2>3, <2>4
<1> QED
  BY <1>1, <1>3, <1>4, <1>5 DEF SessionTypeOK, Channels, Frames

-----------------------------------------------------------------------------
(* How far the session got.                                                *)

ClosedUp(h) == hop[h] \in {"closing_down", "over"}
Past(h) == ended[h] # {} \/ hop[h] \in {"closing_up", "closing_down", "over"}

\* A link exists when the proxy that connects it did; a proxy's handler is
\* called when its link from the client's side exists.
PathInv ==
  /\ guest = "none" <=> link[1] = "none"
  /\ guest = "none" <=> hop[1] = "idle"
  /\ guest = "none" => left = {}
  /\ guest = "killed" => link[3] # "open"
  /\ hop[1] \in {"idle", "connecting"} => ended[1] = {}
  /\ hop[2] \in {"idle", "connecting"} => ended[2] = {}
  /\ guest # "killed" =>
       /\ link[2] = "open" => hop[1] \notin {"idle", "connecting"}
       /\ link[3] = "open" => hop[2] \notin {"idle", "connecting"}
       /\ hop[1] \in {"pumping", "closing_up"} => link[2] = "open"
       /\ hop[2] \in {"pumping", "closing_up"} => link[3] = "open"
       /\ hop[2] # "idle" <=> link[2] = "open"
       /\ link[2] # "lost" /\ link[3] # "lost"
       /\ "chrome" \in left => link[3] = "open"

\* The client, both proxies and Chrome are there, or may still be.
Alive ==
  /\ link[1] # "lost" /\ guest # "killed"
  /\ link[3] = "open" \/ hop[2] \in {"idle", "connecting"}

LEMMA PathInitially == SessionInit => PathInv
BY DEF SessionInit, PathInv, Hops, Links

PathTypes ==
  /\ guest \in {"none", "serving", "killed"}
  /\ link \in [Links -> {"none", "open", "lost"}]
  /\ hop \in [Hops -> HopStates] /\ ended \in [Hops -> SUBSET Directions]
  /\ left \subseteq {"client", "chrome"}

LEMMA PathTypesAre == SessionTypeOK => PathTypes
BY DEF SessionTypeOK, PathTypes

LEMMA Numbers ==
  /\ 1 \in Links /\ 2 \in Links /\ 3 \in Links /\ \A l \in Links : l \in {1, 2, 3}
  /\ 1 \in Hops /\ 2 \in Hops /\ \A h \in Hops : h \in {1, 2}
  /\ \A l \in Links : l > 1 <=> l # 1
BY DEF Links, Hops

LEMMA ArriveKeepsPath ==
  ASSUME PathTypes, PathInv, Arrive
  PROVE  PathInv' /\ (Alive' => Alive)
<1>1. /\ guest = "none" /\ guest' = "serving"
      /\ link'[1] = "open" /\ link'[2] = link[2] /\ link'[3] = link[3]
      /\ hop'[1] = "connecting" /\ hop'[2] = hop[2]
      /\ ended'[1] = ended[1] /\ ended'[2] = ended[2] /\ left' = left
  BY Numbers DEF Arrive, PathTypes
<1> QED
  BY <1>1 DEF PathInv, Alive

LEMMA VanishKeepsPath ==
  ASSUME PathTypes, PathInv, ClientVanishes
  PROVE  PathInv' /\ (Alive' => Alive)
<1>1. /\ guest' = guest /\ link[1] = "open"
      /\ link'[1] = "lost" /\ link'[2] = link[2] /\ link'[3] = link[3]
      /\ hop' = hop /\ ended' = ended /\ left' = left \cup {"client"}
  BY Numbers DEF ClientVanishes, PathTypes
<1> QED
  BY <1>1 DEF PathInv, Alive

LEMMA KillKeepsPath ==
  ASSUME PathTypes, PathInv, GuestIsKilled
  PROVE  PathInv' /\ ~Alive'
<1>1. /\ guest = "serving" /\ guest' = "killed"
      /\ link'[1] = link[1] /\ link'[3] # "open"
      /\ hop'[1] = hop[1] /\ hop'[2] = "over" /\ ended' = ended
  BY Numbers DEF GuestIsKilled, PathTypes
<1> QED
  BY <1>1 DEF PathInv, Alive

LEMMA ConnectKeepsPath ==
  ASSUME PathTypes, PathInv, NEW h \in Hops, HopConnects(h)
  PROVE  PathInv' /\ (Alive' => Alive)
<1>1. CASE h = 1
  <2>1. /\ guest' = guest /\ guest = "serving" /\ hop[1] = "connecting"
        /\ link'[1] = link[1] /\ link'[2] = "open" /\ link'[3] = link[3]
        /\ hop'[1] = "pumping" /\ hop'[2] = "connecting" /\ ended' = ended /\ left' = left
    BY <1>1, Numbers DEF HopConnects, PathTypes
  <2> QED
    BY <2>1 DEF PathInv, Alive
<1>2. CASE h = 2
  <2>1. /\ guest' = guest /\ guest = "serving" /\ hop[2] = "connecting"
        /\ link'[1] = link[1] /\ link'[2] = link[2] /\ link'[3] = "open"
        /\ hop'[1] = hop[1] /\ hop'[2] = "pumping" /\ ended' = ended /\ left' = left
    BY <1>2, Numbers DEF HopConnects, PathTypes
  <2> QED
    BY <2>1 DEF PathInv, Alive
<1> QED
  BY <1>1, <1>2, Numbers

\* What a proxy's handler does to itself.
Onwards(h) ==
  \/ hop'[h] = hop[h] /\ hop[h] = "pumping"
  \/ hop'[h] = hop[h] /\ ended'[h] = ended[h]
  \/ hop[h] = "connecting" /\ hop'[h] = "closing_down" /\ ended'[h] = ended[h]
  \/ hop[h] = "pumping" /\ hop'[h] = "closing_up"
  \/ hop[h] = "closing_up" /\ hop'[h] = "closing_down" /\ ended'[h] = ended[h]
  \/ hop[h] = "closing_down" /\ hop'[h] = "over" /\ ended'[h] = ended[h]

LEMMA OnwardsKeepsPath ==
  ASSUME PathTypes, PathInv, guest' = guest, link' = link, Onwards(1), Onwards(2),
         \/ left' = left
         \/ guest # "none" /\ left' = left \cup {"client"}
         \/ link[3] = "open" /\ left' = left \cup {"chrome"}
  PROVE  PathInv' /\ (Alive' => Alive)
<1>1. /\ guest' = "none" <=> link'[1] = "none"
      /\ guest' = "none" <=> hop'[1] = "idle"
      /\ guest' = "killed" => link'[3] # "open"
      /\ hop'[1] \in {"idle", "connecting"} => ended'[1] = {}
      /\ hop'[2] \in {"idle", "connecting"} => ended'[2] = {}
  BY DEF PathInv, Onwards
<1>4. guest' # "killed" =>
        /\ link'[2] = "open" => hop'[1] \notin {"idle", "connecting"}
        /\ link'[3] = "open" => hop'[2] \notin {"idle", "connecting"}
        /\ hop'[1] \in {"pumping", "closing_up"} => link'[2] = "open"
        /\ hop'[2] \in {"pumping", "closing_up"} => link'[3] = "open"
        /\ hop'[2] # "idle" <=> link'[2] = "open"
        /\ link'[2] # "lost" /\ link'[3] # "lost"
  BY DEF PathInv, Onwards
<1>5. Alive' => Alive
  BY DEF Alive, Onwards
<1> QED
  BY <1>1, <1>4, <1>5 DEF PathInv

LEMMA EndsKeepPath ==
  ASSUME PathTypes, PathInv,
         \/ ClientSends \/ ClientReceives \/ ClientCloses
         \/ ChromeSends \/ ChromeReceives \/ ChromeCloses \/ UNCHANGED sessionVars
  PROVE  PathInv' /\ (Alive' => Alive)
<1>1. guest' = guest /\ link' = link /\ hop' = hop /\ ended' = ended
  BY DEF ClientSends, ClientReceives, ClientCloses, ChromeSends, ChromeReceives, ChromeCloses,
     sessionVars
<1>2. Onwards(1) /\ Onwards(2)
  BY <1>1 DEF Onwards
<1>3. \/ left' = left
      \/ guest # "none" /\ left' = left \cup {"client"}
      \/ link[3] = "open" /\ left' = left \cup {"chrome"}
  BY DEF ClientSends, ClientReceives, ClientCloses, ChromeSends, ChromeReceives, ChromeCloses,
     sessionVars
<1> QED
  BY <1>1, <1>2, <1>3, OnwardsKeepsPath

LEMMA ProxyKeepsPath ==
  ASSUME PathTypes, PathInv, NEW h \in Hops,
         \/ HopFailsToConnect(h) \/ PumpsUp(h) \/ PumpsDown(h) \/ PumpEnds(h)
         \/ FirstCompleted(h) \/ ClosesUpstream(h) \/ ClosesDownstream(h)
  PROVE  PathInv' /\ (Alive' => Alive)
<1>1. guest' = guest /\ link' = link /\ left' = left
  BY DEF HopFailsToConnect, PumpsUp, PumpsDown, PumpEnds, FirstCompleted, ClosesUpstream,
     ClosesDownstream
<1>2. \A g \in Hops \ {h} : hop'[g] = hop[g] /\ ended'[g] = ended[g]
  BY DEF HopFailsToConnect, PumpsUp, PumpsDown, PumpEnds, FirstCompleted, ClosesUpstream,
     ClosesDownstream, PathTypes
<1>3. Onwards(h)
  BY DEF HopFailsToConnect, PumpsUp, PumpsDown, PumpEnds, FirstCompleted, ClosesUpstream,
     ClosesDownstream, PathTypes, Onwards
<1>4. Onwards(1) /\ Onwards(2)
  BY <1>2, <1>3, Numbers DEF Onwards
<1> QED
  BY <1>1, <1>4, OnwardsKeepsPath

-----------------------------------------------------------------------------
(* What travels, as long as everybody is there.                            *)

\* Towards Chrome: a link is shut by the proxy before it, and a proxy stops
\* reading a link when that link is used up, unless Chrome has left.
UpInv ==
  /\ Flow(got["up"], up[3], up[2], up[1], sent["up"])
  /\ Shut(up[1]) <=> "client" \in left
  /\ Shut(up[2]) <=> ClosedUp(1) /\ link[2] = "open"
  /\ Shut(up[3]) <=> ClosedUp(2)
  /\ "chrome" \notin left =>
       /\ Past(1) /\ link[2] = "open" => Shut(up[1]) /\ Messages(up[1]) = 0
       /\ Past(2) => Shut(up[2]) /\ Messages(up[2]) = 0

\* Towards the client, likewise.
DownInv ==
  /\ Flow(got["down"], down[1], down[2], down[3], sent["down"])
  /\ Shut(down[3]) <=> "chrome" \in left
  /\ Shut(down[2]) <=> hop[2] = "over"
  /\ Shut(down[1]) <=> hop[1] = "over"
  /\ "client" \notin left =>
       /\ Past(1) /\ link[2] = "open" => Shut(down[2]) /\ Messages(down[2]) = 0
       /\ Past(2) => Shut(down[3]) /\ Messages(down[3]) = 0

TravelInv == SessionTypeOK /\ PathInv /\ (Alive => UpInv /\ DownInv)

Travelling ==
  /\ PathTypes /\ up \in Channels /\ down \in Channels
  /\ PathInv /\ Alive /\ UpInv /\ DownInv

LEMMA TravellingIs == TravelInv /\ Alive => Travelling
BY PathTypesAre DEF TravelInv, Travelling, SessionTypeOK, Channels, Frames

LEMMA QueuesOf ==
  ASSUME UpInv, DownInv, NEW l \in Links
  PROVE  Queue(up[l]) /\ Queue(down[l])
BY Numbers DEF UpInv, DownInv, Flow

\* The end of a link that is not lost is its closing frame.
LEMMA EndIsClose ==
  ASSUME Travelling, NEW l \in Links, link[l] # "lost"
  PROVE  /\ AtItsEnd(up, l) => Shut(up[l]) /\ Messages(up[l]) = 0
         /\ AtItsEnd(down, l) => Shut(down[l]) /\ Messages(down[l]) = 0
<1>1. Queue(up[l]) /\ Queue(down[l])
  BY QueuesOf DEF Travelling
<1> QED
  BY <1>1, QueueIs DEF AtItsEnd

LEMMA MessageIsThere ==
  ASSUME Travelling, NEW l \in Links
  PROVE  /\ HasMessage(up, l) => Messages(up[l]) # 0
         /\ HasMessage(down, l) => Messages(down[l]) # 0
<1>1. Queue(up[l]) /\ Queue(down[l])
  BY QueuesOf DEF Travelling
<1>2. \A q : Queue(q) /\ q # <<>> /\ Head(q) # Close => Messages(q) # 0
  BY QueueIs
<1> QED
  BY <1>1, <1>2 DEF HasMessage

\* The links are not lost, and those that proxies and ends use are open.
LEMMA LinksAre ==
  ASSUME Travelling
  PROVE  /\ \A l \in Links : link[l] # "lost"
         /\ guest # "none" => link[1] = "open"
         /\ hop[1] \in {"pumping", "closing_up"} => link[2] = "open"
         /\ hop[2] \in {"connecting", "pumping", "closing_up", "closing_down", "over"} =>
              link[2] = "open"
         /\ hop[2] \in {"pumping", "closing_up", "closing_down", "over"} => link[3] = "open"
BY Numbers DEF Travelling, Alive, PathInv, PathTypes

LEMMA NothingTravels ==
  ASSUME SessionInit
  PROVE  UpInv /\ DownInv
<1>2. Flow(<<>>, <<>>, <<>>, <<>>, 0)
  BY EmptyQueue DEF Flow
<1>3. /\ \A l \in Links : up[l] = <<>> /\ down[l] = <<>> /\ link[l] = "none"
      /\ \A d \in Directions : got[d] = <<>> /\ sent[d] = 0
      /\ \A h \in Hops : hop[h] = "idle" /\ ended[h] = {}
      /\ left = {}
  BY DEF SessionInit
<1>4. "up" \in Directions /\ "down" \in Directions
  BY DEF Directions
<1> QED
  BY <1>2, <1>3, <1>4, Numbers, EmptyQueue DEF UpInv, DownInv, ClosedUp, Past

\* A step that leaves the queues alone.
LEMMA QuietTravel ==
  ASSUME Travelling, Alive', NEW h \in Hops,
         \/ Arrive \/ ClientVanishes \/ GuestIsKilled \/ HopConnects(h)
         \/ HopFailsToConnect(h) \/ PumpEnds(h) \/ FirstCompleted(h)
         \/ UNCHANGED sessionVars,
         UNCHANGED <<up, down, sent, got>>
  PROVE  UpInv' /\ DownInv'
<1> USE DEF Travelling
<1>1. CASE Arrive
  <2>1. /\ link'[2] = link[2] /\ hop[1] = "idle" /\ hop'[1] = "connecting" /\ hop'[2] = hop[2]
        /\ ended'[1] = ended[1] /\ ended'[2] = ended[2] /\ left' = left
    BY <1>1, Numbers DEF Arrive, PathTypes, PathInv
  <2> QED
    BY <2>1 DEF UpInv, DownInv, ClosedUp, Past
<1>2. CASE ClientVanishes \/ GuestIsKilled
  BY <1>2, Numbers DEF ClientVanishes, GuestIsKilled, Alive, PathTypes
<1>4. CASE HopConnects(h)
  <2>1. CASE h = 1
    <3>1. /\ hop[1] = "connecting" /\ link[2] # "open"
          /\ hop'[1] = "pumping" /\ hop'[2] = "connecting" /\ hop[2] # "over"
          /\ ended' = ended /\ left' = left /\ ended[1] = {} /\ ended[2] = {} /\ ~ClosedUp(2)
      BY <1>4, <2>1, Numbers DEF HopConnects, PathInv, ClosedUp
    <3> QED
      BY <3>1 DEF UpInv, DownInv, ClosedUp, Past
  <2>2. CASE h = 2
    <3>1. /\ hop[2] = "connecting" /\ link'[2] = link[2] /\ hop'[1] = hop[1] /\ hop'[2] = "pumping"
          /\ ended' = ended /\ left' = left /\ ended[2] = {}
      BY <1>4, <2>2, Numbers DEF HopConnects, PathInv
    <3> QED
      BY <3>1 DEF UpInv, DownInv, ClosedUp, Past
  <2> QED
    BY <2>1, <2>2, Numbers
<1>5. CASE HopFailsToConnect(h)
  <2>1. CASE h = 1
    <3>1. /\ hop[1] = "connecting" /\ link[2] # "open" /\ link' = link
          /\ hop'[1] = "closing_down" /\ hop'[2] = hop[2]
          /\ ended' = ended /\ left' = left
      BY <1>5, Numbers DEF HopFailsToConnect, PathTypes, PathInv, Alive
    <3> QED
      BY <3>1 DEF UpInv, DownInv, ClosedUp, Past
  <2>2. CASE h = 2
    <3>1. hop[2] = "connecting" /\ link'[3] # "open" /\ hop'[2] = "closing_down"
      BY <1>5, <2>2 DEF HopFailsToConnect, PathTypes, PathInv
    <3> QED
      BY <3>1 DEF Alive
  <2> QED
    BY <2>1, <2>2, Numbers
<1>6. CASE PumpEnds(h)
  <2>1. /\ link' = link /\ hop' = hop /\ left' = left /\ hop[h] = "pumping"
        /\ \A g \in Hops : g # h => ended'[g] = ended[g]
        /\ AtItsEnd(up, h) \/ AtItsEnd(down, h + 1)
    BY <1>6 DEF PumpEnds
  <2>2. CASE h = 1
    <3>1. \/ Shut(up[1]) /\ Messages(up[1]) = 0
          \/ Shut(down[2]) /\ Messages(down[2]) = 0
      BY <2>1, <2>2, EndIsClose, LinksAre, Numbers
    <3>2. ended'[2] = ended[2]
      BY <2>1, <2>2, Numbers
    <3>3. "chrome" \notin left => Shut(up[1]) /\ Messages(up[1]) = 0
      BY <3>1 DEF UpInv, DownInv, ClosedUp, Past
    <3>4. "client" \notin left => Shut(down[2]) /\ Messages(down[2]) = 0
      BY <3>1 DEF UpInv
    <3> QED
      BY <2>1, <3>2, <3>3, <3>4 DEF UpInv, DownInv, ClosedUp, Past
  <2>3. CASE h = 2
    <3>1. \/ Shut(up[2]) /\ Messages(up[2]) = 0
          \/ Shut(down[3]) /\ Messages(down[3]) = 0
      BY <2>1, <2>3, EndIsClose, LinksAre, Numbers
    <3>2. ended'[1] = ended[1]
      BY <2>1, <2>3, Numbers
    <3>3. "chrome" \notin left => Shut(up[2]) /\ Messages(up[2]) = 0
      BY <3>1 DEF DownInv
    <3>4. "client" \notin left => Shut(down[3]) /\ Messages(down[3]) = 0
      BY <3>1 DEF UpInv, DownInv, ClosedUp, Past
    <3> QED
      BY <2>1, <3>2, <3>3, <3>4 DEF UpInv, DownInv, ClosedUp, Past
  <2> QED
    BY <2>2, <2>3, Numbers
<1>7. CASE FirstCompleted(h)
  <2>1. /\ link' = link /\ left' = left /\ hop[h] = "pumping" /\ hop'[h] = "closing_up"
        /\ ended[h] # {}
        /\ \A g \in Hops : g # h => ended'[g] = ended[g] /\ hop'[g] = hop[g]
    BY <1>7 DEF FirstCompleted, PathTypes
  <2>2. CASE h = 1
    BY <2>1, Numbers DEF UpInv, DownInv, ClosedUp, Past
  <2>3. CASE h = 2
    BY <2>1, Numbers DEF UpInv, DownInv, ClosedUp, Past
  <2> QED
    BY <2>2, <2>3, Numbers
<1>8. CASE UNCHANGED sessionVars
  BY <1>8 DEF sessionVars, UpInv, DownInv, ClosedUp, Past
<1> QED
  BY <1>1, <1>2, <1>4, <1>5, <1>6, <1>7, <1>8

\* A step of an end of the session.
LEMMA EndTravel ==
  ASSUME Travelling,
         \/ ClientSends \/ ClientReceives \/ ClientCloses
         \/ ChromeSends \/ ChromeReceives \/ ChromeCloses,
         sent \in [Directions -> 0..MaxMessages], got \in [Directions -> Seq(1..MaxMessages)]
  PROVE  UpInv' /\ DownInv'
<1> USE DEF Travelling
<1>1. /\ UNCHANGED <<guest, link, hop, ended>> /\ "up" \in Directions /\ "down" \in Directions
      /\ Close \in Frames
      /\ guest # "none" => link[1] = "open"
  BY SessionAssumption, LinksAre DEF ClientSends, ClientReceives, ClientCloses, ChromeSends,
     ChromeReceives, ChromeCloses, Directions, Frames, Close
<1>2. CASE ClientSends
  <2>1. /\ link[1] = "open" /\ "client" \notin left /\ UNCHANGED <<left, down, got>>
        /\ sent["up"] < MaxMessages /\ sent["up"] + 1 \in Frames
        /\ sent'["up"] = sent["up"] + 1 /\ sent'["down"] = sent["down"]
    BY <1>1, <1>2, SessionAssumption DEF ClientSends, Frames
  <2>2. /\ up'[1] = Append(up[1], sent["up"] + 1)
        /\ up'[2] = up[2] /\ up'[3] = up[3]
    BY <1>2, <2>1, PutIs, Numbers DEF ClientSends
  <2>3. /\ Flow(got["up"], up[3], up[2], up'[1], sent["up"] + 1) /\ ~Shut(up'[1])
        /\ ~Shut(up[1])
    BY <2>1, <2>2, FlowSends DEF UpInv
  <2> QED
    BY <1>1, <2>1, <2>2, <2>3 DEF UpInv, DownInv, ClosedUp, Past
<1>3. CASE ChromeSends
  <2>1. /\ link[3] = "open" /\ "chrome" \notin left /\ UNCHANGED <<left, up, got>>
        /\ sent["down"] < MaxMessages /\ sent["down"] + 1 \in Frames
        /\ sent'["down"] = sent["down"] + 1 /\ sent'["up"] = sent["up"]
    BY <1>1, <1>3, SessionAssumption DEF ChromeSends, Frames
  <2>2. /\ down'[3] = Append(down[3], sent["down"] + 1)
        /\ down'[2] = down[2] /\ down'[1] = down[1]
    BY <1>3, <2>1, PutIs, Numbers DEF ChromeSends
  <2>3. /\ Flow(got["down"], down[1], down[2], down'[3], sent["down"] + 1) /\ ~Shut(down'[3])
        /\ ~Shut(down[3])
    BY <2>1, <2>2, FlowSends DEF DownInv
  <2> QED
    BY <1>1, <2>1, <2>2, <2>3 DEF UpInv, DownInv, ClosedUp, Past
<1>4. CASE ClientReceives
  <2>1. /\ "client" \notin left /\ UNCHANGED <<left, up, sent>>
        /\ got'["down"] = Append(got["down"], Head(down[1])) /\ got'["up"] = got["up"]
    BY <1>1, <1>4 DEF ClientReceives
  <2>2. /\ down'[1] = Tail(down[1]) /\ down[1] # <<>> /\ Head(down[1]) # Close
        /\ down'[2] = down[2] /\ down'[3] = down[3]
    BY <1>4, TakeIs, Numbers DEF ClientReceives
  <2>3. /\ Flow(Append(got["down"], Head(down[1])), down'[1], down[2], down[3], sent["down"])
        /\ Shut(down'[1]) <=> Shut(down[1])
    BY <2>2, FlowReceives DEF DownInv
  <2> QED
    BY <1>1, <2>1, <2>2, <2>3 DEF UpInv, DownInv, ClosedUp, Past
<1>5. CASE ChromeReceives
  <2>1. /\ "chrome" \notin left /\ UNCHANGED <<left, down, sent>>
        /\ got'["up"] = Append(got["up"], Head(up[3])) /\ got'["down"] = got["down"]
    BY <1>1, <1>5 DEF ChromeReceives
  <2>2. /\ up'[3] = Tail(up[3]) /\ up[3] # <<>> /\ Head(up[3]) # Close
        /\ up'[2] = up[2] /\ up'[1] = up[1]
    BY <1>5, TakeIs, Numbers DEF ChromeReceives
  <2>3. /\ Flow(Append(got["up"], Head(up[3])), up'[3], up[2], up[1], sent["up"])
        /\ Shut(up'[3]) <=> Shut(up[3])
    BY <2>2, FlowReceives DEF UpInv
  <2> QED
    BY <1>1, <2>1, <2>2, <2>3 DEF UpInv, DownInv, ClosedUp, Past
<1>6. CASE ClientCloses
  <2>1. /\ link[1] = "open" /\ "client" \notin left /\ left' = left \cup {"client"}
        /\ UNCHANGED <<down, sent, got>>
    BY <1>1, <1>6 DEF ClientCloses
  <2>2. up'[1] = Append(up[1], Close) /\ up'[2] = up[2] /\ up'[3] = up[3]
    BY <1>1, <1>6, PutIs, Numbers DEF ClientCloses
  <2>3. ~Shut(up[1]) /\ Queue(up[1])
    BY <2>1, QueuesOf, Numbers DEF UpInv
  <2>4. Shut(up'[1]) /\ Flow(got["up"], up[3], up[2], up'[1], sent["up"])
    BY <2>2, <2>3, PutClose, FlowCloses DEF UpInv
  <2> QED
    BY <1>1, <2>1, <2>2, <2>4 DEF UpInv, DownInv, ClosedUp, Past
<1>7. CASE ChromeCloses
  <2>1. /\ link[3] = "open" /\ "chrome" \notin left /\ left' = left \cup {"chrome"}
        /\ UNCHANGED <<up, sent, got>>
    BY <1>7 DEF ChromeCloses
  <2>2. down'[3] = Append(down[3], Close) /\ down'[2] = down[2] /\ down'[1] = down[1]
    BY <1>1, <1>7, PutIs, Numbers DEF ChromeCloses
  <2>3. ~Shut(down[3]) /\ Queue(down[3])
    BY <2>1, QueuesOf, Numbers DEF DownInv
  <2>4. Shut(down'[3]) /\ Flow(got["down"], down[1], down[2], down'[3], sent["down"])
    BY <2>2, <2>3, PutClose, FlowCloses DEF DownInv
  <2> QED
    BY <1>1, <2>1, <2>2, <2>4 DEF UpInv, DownInv, ClosedUp, Past
<1> QED
  BY <1>2, <1>3, <1>4, <1>5, <1>6, <1>7

\* A message passes a proxy.
LEMMA PumpTravel ==
  ASSUME Travelling, NEW h \in Hops, PumpsUp(h) \/ PumpsDown(h)
  PROVE  UpInv' /\ DownInv'
<1> USE DEF Travelling
<1>1. UNCHANGED <<guest, link, hop, sent, got, left>> /\ hop[h] = "pumping"
  BY DEF PumpsUp, PumpsDown
<1>2. link[h] = "open" /\ link[h + 1] = "open" /\ ended' = ended
  <2>1. hop[1] = "pumping" => guest # "none"
    BY DEF PathInv
  <2>2. link[h] = "open" /\ link[h + 1] = "open"
    BY <1>1, <2>1, LinksAre, Numbers
  <2> QED
    BY <2>2 DEF PumpsUp, PumpsDown
<1>3. CASE PumpsUp(h) /\ h = 1
  <2>1. HasMessage(up, 1) /\ up' = Put(Take(up, 1), 2, Head(up[1])) /\ down' = down
    BY <1>3 DEF PumpsUp
  <2>2. /\ up'[2] = Append(up[2], Head(up[1])) /\ up'[1] = Tail(up[1]) /\ up'[3] = up[3]
        /\ up[1] # <<>> /\ Head(up[1]) # Close
    <3>1. /\ Take(up, 1) \in Channels /\ Take(up, 1)[1] = Tail(up[1])
          /\ \A k \in Links : k # 1 => Take(up, 1)[k] = up[k]
          /\ up[1] # <<>> /\ Head(up[1]) # Close /\ Head(up[1]) \in Frames
      BY <2>1, TakeIs, Numbers
    <3>2. link[2] = "open"
      BY <1>2, <1>3
    <3> DEFINE t == Take(up, 1)
               m == Head(up[1])
    <3>3. /\ Put(t, 2, m)[2] = Append(t[2], m)
          /\ \A k \in Links : k # 2 => Put(t, 2, m)[k] = t[k]
      BY <3>1, <3>2, PutIs, Numbers
    <3>4. up' = Put(t, 2, m)
      BY <2>1
    <3> QED
      BY <3>1, <3>3, <3>4, Numbers
  <2>3. ~Shut(up[2]) /\ Messages(up[1]) # 0
    BY <1>1, <1>3, <2>1, MessageIsThere, Numbers DEF UpInv, ClosedUp
  <2>4. /\ Flow(got["up"], up[3], up'[2], up'[1], sent["up"])
        /\ ~Shut(up'[2]) /\ (Shut(up'[1]) <=> Shut(up[1]))
    BY <2>2, <2>3, FlowPumpsIn DEF UpInv
  <2> QED
    BY <1>1, <1>2, <2>1, <2>2, <2>3, <2>4 DEF UpInv, DownInv, ClosedUp, Past
<1>4. CASE PumpsUp(h) /\ h = 2
  <2>1. HasMessage(up, 2) /\ up' = Put(Take(up, 2), 3, Head(up[2])) /\ down' = down
    BY <1>4 DEF PumpsUp
  <2>2. /\ up'[3] = Append(up[3], Head(up[2])) /\ up'[2] = Tail(up[2]) /\ up'[1] = up[1]
        /\ up[2] # <<>> /\ Head(up[2]) # Close
    <3>1. /\ Take(up, 2) \in Channels /\ Take(up, 2)[2] = Tail(up[2])
          /\ \A k \in Links : k # 2 => Take(up, 2)[k] = up[k]
          /\ up[2] # <<>> /\ Head(up[2]) # Close /\ Head(up[2]) \in Frames
      BY <2>1, TakeIs, Numbers
    <3>2. link[3] = "open"
      BY <1>2, <1>4
    <3> DEFINE t == Take(up, 2)
               m == Head(up[2])
    <3>3. /\ Put(t, 3, m)[3] = Append(t[3], m)
          /\ \A k \in Links : k # 3 => Put(t, 3, m)[k] = t[k]
      BY <3>1, <3>2, PutIs, Numbers
    <3>4. up' = Put(t, 3, m)
      BY <2>1
    <3> QED
      BY <3>1, <3>3, <3>4, Numbers
  <2>3. ~Shut(up[3]) /\ Messages(up[2]) # 0
    BY <1>1, <1>4, <2>1, MessageIsThere, Numbers DEF UpInv, ClosedUp
  <2>4. /\ Flow(got["up"], up'[3], up'[2], up[1], sent["up"])
        /\ ~Shut(up'[3]) /\ (Shut(up'[2]) <=> Shut(up[2]))
    BY <2>2, <2>3, FlowPumpsOut DEF UpInv
  <2> QED
    BY <1>1, <1>2, <2>1, <2>2, <2>3, <2>4 DEF UpInv, DownInv, ClosedUp, Past
<1>5. CASE PumpsDown(h) /\ h = 1
  <2>1. HasMessage(down, 2) /\ down' = Put(Take(down, 2), 1, Head(down[2])) /\ up' = up
    BY <1>5 DEF PumpsDown
  <2>2. /\ down'[1] = Append(down[1], Head(down[2])) /\ down'[2] = Tail(down[2])
        /\ down'[3] = down[3] /\ down[2] # <<>> /\ Head(down[2]) # Close
    <3>1. /\ Take(down, 2) \in Channels /\ Take(down, 2)[2] = Tail(down[2])
          /\ \A k \in Links : k # 2 => Take(down, 2)[k] = down[k]
          /\ down[2] # <<>> /\ Head(down[2]) # Close /\ Head(down[2]) \in Frames
      BY <2>1, TakeIs, Numbers
    <3>2. link[1] = "open"
      BY <1>2, <1>5
    <3> DEFINE t == Take(down, 2)
               m == Head(down[2])
    <3>3. /\ Put(t, 1, m)[1] = Append(t[1], m)
          /\ \A k \in Links : k # 1 => Put(t, 1, m)[k] = t[k]
      BY <3>1, <3>2, PutIs, Numbers
    <3>4. down' = Put(t, 1, m)
      BY <2>1
    <3> QED
      BY <3>1, <3>3, <3>4, Numbers
  <2>3. ~Shut(down[1]) /\ Messages(down[2]) # 0
    BY <1>1, <1>5, <2>1, MessageIsThere, Numbers DEF DownInv
  <2>4. /\ Flow(got["down"], down'[1], down'[2], down[3], sent["down"])
        /\ ~Shut(down'[1]) /\ (Shut(down'[2]) <=> Shut(down[2]))
    BY <2>2, <2>3, FlowPumpsOut DEF DownInv
  <2> QED
    BY <1>1, <1>2, <2>1, <2>2, <2>3, <2>4 DEF UpInv, DownInv, ClosedUp, Past
<1>6. CASE PumpsDown(h) /\ h = 2
  <2>1. HasMessage(down, 3) /\ down' = Put(Take(down, 3), 2, Head(down[3])) /\ up' = up
    BY <1>6 DEF PumpsDown
  <2>2. /\ down'[2] = Append(down[2], Head(down[3])) /\ down'[3] = Tail(down[3])
        /\ down'[1] = down[1] /\ down[3] # <<>> /\ Head(down[3]) # Close
    <3>1. /\ Take(down, 3) \in Channels /\ Take(down, 3)[3] = Tail(down[3])
          /\ \A k \in Links : k # 3 => Take(down, 3)[k] = down[k]
          /\ down[3] # <<>> /\ Head(down[3]) # Close /\ Head(down[3]) \in Frames
      BY <2>1, TakeIs, Numbers
    <3>2. link[2] = "open"
      BY <1>2, <1>6
    <3> DEFINE t == Take(down, 3)
               m == Head(down[3])
    <3>3. /\ Put(t, 2, m)[2] = Append(t[2], m)
          /\ \A k \in Links : k # 2 => Put(t, 2, m)[k] = t[k]
      BY <3>1, <3>2, PutIs, Numbers
    <3>4. down' = Put(t, 2, m)
      BY <2>1
    <3> QED
      BY <3>1, <3>3, <3>4, Numbers
  <2>3. ~Shut(down[2]) /\ Messages(down[3]) # 0
    BY <1>1, <1>6, <2>1, MessageIsThere, Numbers DEF DownInv
  <2>4. /\ Flow(got["down"], down[1], down'[2], down'[3], sent["down"])
        /\ ~Shut(down'[2]) /\ (Shut(down'[3]) <=> Shut(down[3]))
    BY <2>2, <2>3, FlowPumpsIn DEF DownInv
  <2> QED
    BY <1>1, <1>2, <2>1, <2>2, <2>3, <2>4 DEF UpInv, DownInv, ClosedUp, Past
<1> QED
  BY <1>3, <1>4, <1>5, <1>6, Numbers

\* A proxy closes one of its links.
LEMMA CloseTravel ==
  ASSUME Travelling, NEW h \in Hops, ClosesUpstream(h) \/ ClosesDownstream(h)
  PROVE  UpInv' /\ DownInv'
<1> USE DEF Travelling
<1>1. /\ UNCHANGED <<guest, link, ended, sent, got, left>> /\ Close \in Frames
      /\ \A g \in Hops : g # h => hop'[g] = hop[g]
      /\ \A l \in Links : Queue(up[l]) /\ Queue(down[l])
  <2>1. Close \in Frames
    BY SessionAssumption DEF Frames, Close
  <2>2. \A g \in Hops : g # h => hop'[g] = hop[g]
    BY DEF ClosesUpstream, ClosesDownstream, PathTypes
  <2> QED
    BY <2>1, <2>2, QueuesOf DEF ClosesUpstream, ClosesDownstream
<1>2. guest # "none"
  BY Numbers DEF ClosesUpstream, ClosesDownstream, PathInv
<1>3. CASE ClosesUpstream(h) /\ h = 1
  <2>1. /\ hop[1] = "closing_up" /\ hop'[1] = "closing_down" /\ hop'[2] = hop[2] /\ down' = down
        /\ link[2] = "open"
    BY <1>3, LinksAre DEF ClosesUpstream, PathTypes
  <2>2. up'[2] = Append(up[2], Close) /\ up'[1] = up[1] /\ up'[3] = up[3]
    BY <1>1, <1>3, <2>1, PutIs, Numbers DEF ClosesUpstream
  <2>3. ~Shut(up[2])
    BY <2>1 DEF UpInv, ClosedUp
  <2>4. Shut(up'[2]) /\ Flow(got["up"], up[3], up'[2], up[1], sent["up"])
    BY <1>1, <2>2, <2>3, PutClose, FlowCloses, Numbers DEF UpInv
  <2> QED
    BY <1>1, <2>1, <2>2, <2>4 DEF UpInv, DownInv, ClosedUp, Past
<1>4. CASE ClosesUpstream(h) /\ h = 2
  <2>1. /\ hop[2] = "closing_up" /\ hop'[2] = "closing_down" /\ hop'[1] = hop[1] /\ down' = down
        /\ link[3] = "open"
    BY <1>4, LinksAre DEF ClosesUpstream, PathTypes
  <2>2. up'[3] = Append(up[3], Close) /\ up'[1] = up[1] /\ up'[2] = up[2]
    BY <1>1, <1>4, <2>1, PutIs, Numbers DEF ClosesUpstream
  <2>3. ~Shut(up[3])
    BY <2>1 DEF UpInv, ClosedUp
  <2>4. Shut(up'[3]) /\ Flow(got["up"], up'[3], up[2], up[1], sent["up"])
    BY <1>1, <2>2, <2>3, PutClose, FlowCloses, Numbers DEF UpInv
  <2> QED
    BY <1>1, <2>1, <2>2, <2>4 DEF UpInv, DownInv, ClosedUp, Past
<1>5. CASE ClosesDownstream(h) /\ h = 1
  <2>1. /\ hop[1] = "closing_down" /\ hop'[1] = "over" /\ hop'[2] = hop[2] /\ up' = up
        /\ link[1] = "open"
    BY <1>2, <1>5, LinksAre DEF ClosesDownstream, PathTypes
  <2>2. down'[1] = Append(down[1], Close) /\ down'[2] = down[2] /\ down'[3] = down[3]
    BY <1>1, <1>5, <2>1, PutIs, Numbers DEF ClosesDownstream
  <2>3. ~Shut(down[1])
    BY <2>1 DEF DownInv
  <2>4. Shut(down'[1]) /\ Flow(got["down"], down'[1], down[2], down[3], sent["down"])
    BY <1>1, <2>2, <2>3, PutClose, FlowCloses, Numbers DEF DownInv
  <2> QED
    BY <1>1, <2>1, <2>2, <2>4 DEF UpInv, DownInv, ClosedUp, Past
<1>6. CASE ClosesDownstream(h) /\ h = 2
  <2>1. /\ hop[2] = "closing_down" /\ hop'[2] = "over" /\ hop'[1] = hop[1] /\ up' = up
        /\ link[2] = "open"
    BY <1>6, LinksAre DEF ClosesDownstream, PathTypes
  <2>2. down'[2] = Append(down[2], Close) /\ down'[1] = down[1] /\ down'[3] = down[3]
    BY <1>1, <1>6, <2>1, PutIs, Numbers DEF ClosesDownstream
  <2>3. ~Shut(down[2])
    BY <2>1 DEF DownInv
  <2>4. Shut(down'[2]) /\ Flow(got["down"], down[1], down'[2], down[3], sent["down"])
    BY <1>1, <2>2, <2>3, PutClose, FlowCloses, Numbers DEF DownInv
  <2> QED
    BY <1>1, <2>1, <2>2, <2>4 DEF UpInv, DownInv, ClosedUp, Past
<1> QED
  BY <1>3, <1>4, <1>5, <1>6, Numbers

-----------------------------------------------------------------------------

\* What each end has received and what is on the links make up what the other
\* end has sent, and no proxy turns away from a link that is not used up
\* (relay.py 291-334, cdp_hostfix.py 42-84).
THEOREM SessionTravel == SessionSpec => []TravelInv
<1>1. SessionInit => TravelInv
  BY SessionInitTypes, PathInitially, NothingTravels DEF TravelInv
<1>2. TravelInv /\ [SessionNext]_sessionVars => TravelInv'
  <2> SUFFICES ASSUME TravelInv, [SessionNext]_sessionVars
      PROVE  TravelInv'
    OBVIOUS
  <2>0. SessionTypeOK /\ PathTypes /\ PathInv /\ (Alive => Travelling)
        /\ sent \in [Directions -> 0..MaxMessages] /\ got \in [Directions -> Seq(1..MaxMessages)]
    BY TravellingIs, PathTypesAre DEF TravelInv, SessionTypeOK
  <2>1. ASSUME NEW h \in Hops,
               \/ Arrive \/ ClientVanishes \/ GuestIsKilled \/ HopConnects(h)
               \/ HopFailsToConnect(h) \/ PumpEnds(h) \/ FirstCompleted(h)
               \/ UNCHANGED sessionVars
        PROVE  TravelInv'
    <3>1. SessionTypeOK' /\ UNCHANGED <<up, down, sent, got>>
      BY <2>0, <2>1, QuietTypes
    <3>2. PathInv' /\ (Alive' => Alive)
      BY <2>0, <2>1, ArriveKeepsPath, VanishKeepsPath, KillKeepsPath, ConnectKeepsPath,
         EndsKeepPath, ProxyKeepsPath
    <3>3. Alive' => UpInv' /\ DownInv'
      BY <2>0, <2>1, <3>1, <3>2, QuietTravel
    <3> QED
      BY <3>1, <3>2, <3>3 DEF TravelInv
  <2>2. ASSUME \/ ClientSends \/ ClientReceives \/ ClientCloses
               \/ ChromeSends \/ ChromeReceives \/ ChromeCloses
        PROVE  TravelInv'
    <3>1. SessionTypeOK'
      BY <2>0, <2>2, EndTypes
    <3>2. PathInv' /\ (Alive' => Alive)
      BY <2>0, <2>2, EndsKeepPath
    <3>3. Alive' => UpInv' /\ DownInv'
      BY <2>0, <2>2, <3>2, EndTravel
    <3> QED
      BY <3>1, <3>2, <3>3 DEF TravelInv
  <2>3. ASSUME NEW h \in Hops,
               PumpsUp(h) \/ PumpsDown(h) \/ ClosesUpstream(h) \/ ClosesDownstream(h)
        PROVE  TravelInv'
    <3>1. SessionTypeOK'
      BY <2>0, <2>3, PumpTypes
    <3>2. PathInv' /\ (Alive' => Alive)
      BY <2>0, <2>3, ProxyKeepsPath
    <3>3. Alive' => UpInv' /\ DownInv'
      BY <2>0, <2>3, <3>2, PumpTravel, CloseTravel
    <3> QED
      BY <3>1, <3>2, <3>3 DEF TravelInv
  <2> QED
    BY <2>1, <2>2, <2>3, Numbers DEF SessionNext, Ends, Proxy
<1> QED
  BY <1>1, <1>2, PTL DEF SessionSpec

\* The values of a session's state are what they should be: what travels and
\* what was received are numbered messages, and on the links closing frames
\* (relay.py 304-334).
THEOREM SessionTypeCorrectness == SessionSpec => []SessionTypeOK
<1>1. TravelInv => SessionTypeOK
  BY DEF TravelInv
<1> QED
  BY <1>1, SessionTravel, PTL

\* An end that sees the session closed by the other end has received all
\* that the other end sent, in order, though a proxy cancels one pump when the
\* other has ended (relay.py 304-334, cdp_hostfix.py 44-84).
THEOREM ClosingIsClean == SessionSpec => []ClosingLosesNothing
<1>1. TravelInv => ClosingLosesNothing
  <2> SUFFICES ASSUME TravelInv, link[1] = "open", link[3] = "open"
      PROVE  /\ "chrome" \notin left /\ "client" \in left /\ AtItsEnd(up, 3) => HasAll("up")
             /\ "client" \notin left /\ "chrome" \in left /\ AtItsEnd(down, 1) => HasAll("down")
    BY DEF ClosingLosesNothing
  <2>1. Travelling
    BY TravellingIs DEF TravelInv, PathInv, Alive
  <2>2. link[2] = "open"
    BY <2>1 DEF Travelling, PathInv
  <2>3. ASSUME "chrome" \notin left, AtItsEnd(up, 3)
        PROVE  HasAll("up")
    <3>1. Shut(up[3]) /\ Messages(up[3]) = 0
      BY <2>1, <2>3, EndIsClose, Numbers
    <3>2. Shut(up[2]) /\ Messages(up[2]) = 0
      BY <2>1, <2>3, <3>1 DEF Travelling, UpInv, ClosedUp, Past
    <3>3. Messages(up[1]) = 0
      BY <2>1, <2>3, <3>2 DEF Travelling, UpInv, ClosedUp, Past
    <3> QED
      <4>1. Flow(got["up"], up[3], up[2], up[1], sent["up"])
        BY <2>1 DEF Travelling, UpInv
      <4> DEFINE g == got["up"]
                 n == sent["up"]
      <4>2. n = Len(g) /\ g \in Seq(1..MaxMessages) /\ \A i \in 1..Len(g) : g[i] = i
        BY <3>1, <3>2, <3>3, <4>1, FlowIsOver
      <4> HIDE DEF g, n
      <4>3. g = [i \in 1..n |-> i]
        BY <4>2
      <4> QED
        BY <4>3 DEF HasAll, g, n
  <2>4. ASSUME "client" \notin left, AtItsEnd(down, 1)
        PROVE  HasAll("down")
    <3>1. Shut(down[1]) /\ Messages(down[1]) = 0
      BY <2>1, <2>4, EndIsClose, Numbers
    <3>2. Shut(down[2]) /\ Messages(down[2]) = 0
      BY <2>1, <2>2, <2>4, <3>1 DEF Travelling, DownInv, Past
    <3>3. Messages(down[3]) = 0
      BY <2>1, <2>4, <3>2 DEF Travelling, DownInv, Past
    <3> QED
      <4>1. Flow(got["down"], down[1], down[2], down[3], sent["down"])
        BY <2>1 DEF Travelling, DownInv
      <4> DEFINE g == got["down"]
                 n == sent["down"]
      <4>2. n = Len(g) /\ g \in Seq(1..MaxMessages) /\ \A i \in 1..Len(g) : g[i] = i
        BY <3>1, <3>2, <3>3, <4>1, FlowIsOver
      <4> HIDE DEF g, n
      <4>3. g = [i \in 1..n |-> i]
        BY <4>2
      <4> QED
        BY <4>3 DEF HasAll, g, n
  <2> QED
    BY <2>3, <2>4
<1> QED
  BY <1>1, SessionTravel, PTL
=============================================================================
