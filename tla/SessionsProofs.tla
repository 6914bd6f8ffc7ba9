--------------------------- MODULE SessionsProofs ---------------------------
(***************************************************************************)
(* Proofs about Sessions, for any devices, tabs and number of sessions.    *)
(***************************************************************************)
EXTENDS Sessions, TLAPS

Carrying == {"sent", "live", "counting", "reusing", "claimed", "leaving"}

\* The tab t is exchanging the token s: its browser has not heard of it yet.
Rotates(t, s) ==
    \/ sesReq[t].at = "claimed" /\ sesReq[t].ses = s
    \/ sesReq[t].at = "answered" /\ sesReq[t].ses # 0 /\ sesParent[sesReq[t].ses] = s

BoundInv ==
    /\ sesCount \in Nat /\ sesCount <= MaxSessions
    /\ sesParent \in [Rows -> 0..MaxSessions]
    /\ \A s \in sesLive : s \in Rows /\ s <= sesCount
    /\ sesCookie \in [Devices -> 0..MaxSessions]
    /\ \A d \in Devices : sesCookie[d] <= sesCount
    /\ sesReq \in [Tabs -> Requests]
    /\ \A t \in Tabs : /\ sesReq[t].ses <= sesCount
                       /\ sesReq[t].at \in Carrying => sesReq[t].ses # 0
                       /\ sesReq[t].at = "left" => sesReq[t].ses = 0

\* A session that was exchanged is older than its successor, revoked, and has
\* one successor; a token being exchanged has none, and one tab exchanges it.
TreeInv ==
    /\ \A s \in Rows : /\ sesParent[s] < s
                       /\ s > sesCount => sesParent[s] = 0
                       /\ sesParent[s] \notin sesLive
    /\ \A a, b \in Rows : a # b /\ sesParent[a] = sesParent[b] => sesParent[a] = 0
    /\ \A t \in Tabs : sesReq[t].at = "claimed" =>
          /\ sesReq[t].ses \notin sesLive
          /\ \A s \in Rows : sesParent[s] # sesReq[t].ses
    /\ \A t, u \in Tabs : sesReq[t].at = "claimed" /\ sesReq[u].at = "claimed"
                             /\ sesReq[t].ses = sesReq[u].ses => t = u

\* What the user was signed out of can only come back by a pending rotation.
MarkInv ==
    /\ sesMark \in Nat /\ sesMark <= sesCount
    /\ SignedOutEverywhere
    /\ \A t \in Tabs : sesReq[t].at = "claimed" /\ sesReq[t].ses <= sesMark
          => sesReq[t].ses \in sesPending

\* A token is known to one device, and a new one to one tab until it is received.
HoldInv ==
    /\ \A d, e \in Devices : sesCookie[d] = sesCookie[e] /\ sesCookie[d] # 0 => d = e
    /\ \A d \in Devices, t \in Tabs :
          sesCookie[d] = sesReq[t].ses /\ sesReq[t].ses # 0 => DeviceOf[t] = d
    /\ \A t, u \in Tabs :
          sesReq[t].ses = sesReq[u].ses /\ sesReq[t].ses # 0 => DeviceOf[t] = DeviceOf[u]
    /\ \A t \in Tabs : sesReq[t].at = "answered" /\ sesReq[t].ses # 0 =>
          /\ \A d \in Devices : sesCookie[d] # sesReq[t].ses
          /\ \A u \in Tabs : sesReq[u].ses = sesReq[t].ses => u = t
          /\ sesReq[t].ses \in sesLive \cup sesExcused

\* A revoked session without an excuse was exchanged, or is being so; where its
\* token may still come from, a tab will replace it, or it is fresh.
ReuseInv ==
    /\ \A t \in Tabs : sesReq[t].at = "reusing" => sesReq[t].ses \in sesExcused
    /\ \A t \in Tabs : sesReq[t].at = "counting" => sesReq[t].ses \notin sesLive
    /\ \A s \in Rows : s <= sesCount /\ s \notin sesLive /\ s \notin sesExcused =>
          Successor(s) \/ \E t \in Tabs : sesReq[t].at = "claimed" /\ sesReq[t].ses = s
    /\ \A d \in Devices, s \in Rows :
          sesCookie[d] = s /\ s \notin sesLive /\ s \notin sesExcused =>
             \E t \in Tabs : DeviceOf[t] = d /\ Rotates(t, s)
    /\ \A t \in Tabs, s \in Rows :
          Unheard(t, s) /\ s \notin sesLive /\ s \notin sesFresh => s \in sesExcused
    /\ \A d \in Devices, s \in Rows :
          sesCookie[d] = s /\ s \notin sesLive /\ s \notin sesFresh => s \in sesExcused

SesInv == BoundInv /\ TreeInv /\ MarkInv /\ HoldInv /\ ReuseInv

LEMMA SesInitInv == SesInit => SesInv
<1> SUFFICES ASSUME SesInit PROVE SesInv
  OBVIOUS
<1>1. NoRequest \in Requests /\ NoRequest.at = "idle" /\ NoRequest.ses = 0
  BY SesAssumption DEF NoRequest, Request, Requests, Steps
<1>2. sesReq \in [Tabs -> Requests] /\ \A t \in Tabs : sesReq[t] = NoRequest
  BY <1>1 DEF SesInit
<1> HIDE DEF NoRequest
<1>3. BoundInv
  BY <1>1, <1>2, SesAssumption DEF SesInit, BoundInv, Carrying
<1>4. TreeInv
  BY <1>1, <1>2, SesAssumption DEF SesInit, TreeInv, Rows
<1>5. MarkInv
  BY <1>1, <1>2 DEF SesInit, MarkInv, SignedOutEverywhere
<1>6. HoldInv
  BY <1>1, <1>2 DEF SesInit, HoldInv
<1>7. ReuseInv
  BY <1>1, <1>2, SesAssumption DEF SesInit, ReuseInv, Rows, Unheard, At
<1> QED
  BY <1>3, <1>4, <1>5, <1>6, <1>7 DEF SesInv

\* The request of one tab changes.
LEMMA OneTab ==
    ASSUME SesInv, NEW t \in Tabs, NEW q \in Requests, sesReq' = [sesReq EXCEPT ![t] = q]
    PROVE  /\ sesReq' \in [Tabs -> Requests] /\ sesReq'[t] = q
           /\ \A u \in Tabs : u # t => sesReq'[u] = sesReq[u]
  BY DEF SesInv, BoundInv

\* Requests end and sessions are revoked, both with an excuse.
LEMMA Loosened ==
    ASSUME SesInv, MarkInv',
           UNCHANGED <<sesCount, sesParent, sesCookie>>,
           sesLive' \subseteq sesLive, sesExcused \subseteq sesExcused', sesFresh \subseteq sesFresh',
           \A s \in sesLive : s \notin sesLive' => s \in sesExcused' /\ s \in sesFresh',
           sesReq' \in [Tabs -> Requests],
           \A u \in Tabs :
              \/ sesReq'[u] = sesReq[u]
              \/ /\ sesReq'[u].at \in {"idle", "left", "answered"} /\ sesReq'[u].ses = 0
                 /\ \A s \in Rows : Rotates(u, s) => s \in sesExcused'
    PROVE  SesInv'
<1>1. BoundInv'
  BY DEF SesInv, BoundInv, Carrying
<1>2. TreeInv'
  BY DEF SesInv, BoundInv, TreeInv
<1>3. HoldInv'
  BY DEF SesInv, HoldInv
<1>4. ReuseInv'
  <2>1. ASSUME NEW u \in Tabs, sesReq'[u].at \notin {"idle", "left"}, sesReq'[u].ses # 0
        PROVE  sesReq'[u] = sesReq[u]
    BY <2>1
  <2>2. ASSUME NEW u \in Tabs, NEW s \in Rows, Unheard(u, s)'
        PROVE  Unheard(u, s)
    BY <2>1, <2>2 DEF Unheard, At, Rows
  <2>3. ASSUME NEW u \in Tabs, NEW s \in Rows, Rotates(u, s), s \notin sesExcused'
        PROVE  Rotates(u, s)' /\ sesReq'[u] = sesReq[u]
    BY <2>3 DEF Rotates
  <2>4. \A u \in Tabs : sesReq'[u].at = "reusing" => sesReq'[u].ses \in sesExcused'
    BY DEF SesInv, ReuseInv
  <2>5. \A u \in Tabs : sesReq'[u].at = "counting" => sesReq'[u].ses \notin sesLive'
    BY DEF SesInv, ReuseInv
  <2>6. ASSUME NEW s \in Rows, s <= sesCount', s \notin sesLive', s \notin sesExcused'
        PROVE  Successor(s)' \/ \E u \in Tabs : sesReq'[u].at = "claimed" /\ sesReq'[u].ses = s
    <3>1. s \notin sesLive /\ s \notin sesExcused
      BY <2>6
    <3>2. CASE Successor(s)
      BY <3>2 DEF Successor
    <3>3. CASE \E u \in Tabs : sesReq[u].at = "claimed" /\ sesReq[u].ses = s
      BY <2>3, <2>6, <3>3 DEF Rotates
    <3> QED
      BY <2>6, <3>1, <3>2, <3>3 DEF SesInv, ReuseInv
  <2>7. ASSUME NEW d \in Devices, NEW s \in Rows,
               sesCookie'[d] = s, s \notin sesLive', s \notin sesExcused'
        PROVE  \E u \in Tabs : DeviceOf[u] = d /\ Rotates(u, s)'
    <3>1. s \notin sesLive /\ s \notin sesExcused
      BY <2>7
    <3>2. PICK u \in Tabs : DeviceOf[u] = d /\ Rotates(u, s)
      BY <2>7, <3>1 DEF SesInv, ReuseInv
    <3> QED
      BY <2>3, <2>7, <3>2
  <2>8. ASSUME NEW u \in Tabs, NEW s \in Rows, Unheard(u, s)', s \notin sesLive', s \notin sesFresh'
        PROVE  s \in sesExcused'
    BY <2>2, <2>8 DEF SesInv, ReuseInv
  <2>9. ASSUME NEW d \in Devices, NEW s \in Rows,
               sesCookie'[d] = s, s \notin sesLive', s \notin sesFresh'
        PROVE  s \in sesExcused'
    BY <2>9 DEF SesInv, ReuseInv
  <2> QED
    BY <2>4, <2>5, <2>6, <2>7, <2>8, <2>9 DEF ReuseInv
<1> QED
  BY <1>1, <1>2, <1>3, <1>4 DEF SesInv

\* A request goes on with its token, or takes that of its cookie.
LEMMA Onward ==
    ASSUME SesInv, NEW t \in Tabs, NEW q \in Requests, sesReq' = [sesReq EXCEPT ![t] = q],
           UNCHANGED <<rows, sesCookie, sesMark, sesPending>>,
           sesExcused \subseteq sesExcused',
           sesReq[t].at \in {"idle", "sent", "counting"},
           q.at \in {"sent", "live", "counting", "reusing", "leaving"}, q.ses # 0,
           \/ q.ses = sesCookie[DeviceOf[t]]
           \/ q.ses = sesReq[t].ses /\ q.at # "sent",
           q.at = "counting" => q.ses \notin sesLive /\ q.ses \in sesFresh,
           q.at = "reusing" => q.ses \in sesExcused'
    PROVE  SesInv'
<1>0. UNCHANGED <<sesCount, sesParent, sesLive, sesFresh>>
  BY DEF rows
<1>1. /\ sesReq' \in [Tabs -> Requests] /\ sesReq'[t] = q
      /\ \A u \in Tabs : u # t => sesReq'[u] = sesReq[u]
  BY OneTab
<1>2. DeviceOf[t] \in Devices
  BY SesAssumption
<1>3. q.at \notin {"claimed", "answered"}
  OBVIOUS
<1>4. BoundInv'
  BY <1>0, <1>1, <1>2 DEF SesInv, BoundInv
<1>5. TreeInv'
  BY <1>0, <1>1, <1>3 DEF SesInv, TreeInv
<1>6. MarkInv'
  BY <1>0, <1>1, <1>3 DEF SesInv, MarkInv, SignedOutEverywhere
<1>7. HoldInv'
  <2>1. \A d \in Devices : sesCookie[d] = q.ses => DeviceOf[t] = d
    BY <1>2 DEF SesInv, HoldInv
  <2>2. \A u \in Tabs : sesReq[u].ses = q.ses => DeviceOf[u] = DeviceOf[t]
    BY <1>2 DEF SesInv, HoldInv
  <2>3. \A u \in Tabs : sesReq[u].at = "answered" /\ sesReq[u].ses # 0 => sesReq[u].ses # q.ses
    BY <1>2 DEF SesInv, HoldInv
  <2>4. \A d, e \in Devices : sesCookie'[d] = sesCookie'[e] /\ sesCookie'[d] # 0 => d = e
    BY DEF SesInv, HoldInv
  <2>5. \A d \in Devices, u \in Tabs :
           sesCookie'[d] = sesReq'[u].ses /\ sesReq'[u].ses # 0 => DeviceOf[u] = d
    BY <1>1, <2>1 DEF SesInv, HoldInv
  <2>6. \A u, v \in Tabs :
           sesReq'[u].ses = sesReq'[v].ses /\ sesReq'[u].ses # 0 => DeviceOf[u] = DeviceOf[v]
    BY <1>1, <2>2 DEF SesInv, HoldInv
  <2>7. ASSUME NEW u \in Tabs, sesReq'[u].at = "answered", sesReq'[u].ses # 0
        PROVE  /\ \A d \in Devices : sesCookie'[d] # sesReq'[u].ses
               /\ \A v \in Tabs : sesReq'[v].ses = sesReq'[u].ses => v = u
               /\ sesReq'[u].ses \in sesLive' \cup sesExcused'
    <3>1. u # t /\ sesReq'[u] = sesReq[u]
      BY <1>1, <1>3, <2>7
    <3> QED
      BY <1>0, <1>1, <2>3, <2>7, <3>1 DEF SesInv, HoldInv
  <2> QED
    BY <2>4, <2>5, <2>6, <2>7 DEF HoldInv
<1>8. ReuseInv'
  <2>1. \A u \in Tabs, s \in Rows : Rotates(u, s) => Rotates(u, s)'
    BY <1>0, <1>1 DEF Rotates
  <2>2. \A s \in Rows : Successor(s) => Successor(s)'
    BY <1>0 DEF Successor
  <2>3. \A u \in Tabs : sesReq'[u].at = "reusing" => sesReq'[u].ses \in sesExcused'
    BY <1>1 DEF SesInv, ReuseInv
  <2>4. \A u \in Tabs : sesReq'[u].at = "counting" => sesReq'[u].ses \notin sesLive'
    BY <1>0, <1>1 DEF SesInv, ReuseInv
  <2>5. ASSUME NEW s \in Rows, s <= sesCount', s \notin sesLive', s \notin sesExcused'
        PROVE  Successor(s)' \/ \E u \in Tabs : sesReq'[u].at = "claimed" /\ sesReq'[u].ses = s
    <3>1. s <= sesCount /\ s \notin sesLive /\ s \notin sesExcused
      BY <1>0, <2>5
    <3>2. CASE Successor(s)
      BY <2>2, <3>2
    <3>3. CASE \E u \in Tabs : sesReq[u].at = "claimed" /\ sesReq[u].ses = s
      BY <1>1, <3>3
    <3> QED
      BY <3>1, <3>2, <3>3 DEF SesInv, ReuseInv
  <2>6. ASSUME NEW d \in Devices, NEW s \in Rows,
               sesCookie'[d] = s, s \notin sesLive', s \notin sesExcused'
        PROVE  \E u \in Tabs : DeviceOf[u] = d /\ Rotates(u, s)'
    <3>1. PICK u \in Tabs : DeviceOf[u] = d /\ Rotates(u, s)
      BY <1>0, <2>6 DEF SesInv, ReuseInv
    <3> QED
      BY <2>1, <3>1
  <2>7. ASSUME NEW u \in Tabs, NEW s \in Rows, Unheard(u, s)', s \notin sesLive', s \notin sesFresh'
        PROVE  s \in sesExcused'
    <3>1. CASE u # t
      <4>1. Unheard(u, s)
        BY <1>0, <1>1, <2>7, <3>1 DEF Unheard, At
      <4> QED
        BY <1>0, <2>7, <4>1 DEF SesInv, ReuseInv
    <3>2. CASE u = t
      <4>1. q.at \in {"sent", "counting"} /\ q.ses = s
        BY <1>1, <2>7, <3>2, <1>3 DEF Unheard, At
      <4>2. q.at = "sent" /\ sesCookie[DeviceOf[t]] = s
        BY <1>0, <2>7, <4>1
      <4> QED
        BY <1>0, <1>2, <2>7, <4>2 DEF SesInv, ReuseInv
    <3> QED
      BY <3>1, <3>2
  <2>8. ASSUME NEW d \in Devices, NEW s \in Rows,
               sesCookie'[d] = s, s \notin sesLive', s \notin sesFresh'
        PROVE  s \in sesExcused'
    BY <1>0, <2>8 DEF SesInv, ReuseInv
  <2> QED
    BY <2>3, <2>4, <2>5, <2>6, <2>7, <2>8 DEF ReuseInv
<1> QED
  BY <1>4, <1>5, <1>6, <1>7, <1>8 DEF SesInv

\* The conditional revocation: the token was live, so that no one exchanged it.
LEMMA ClaimKeeps ==
    ASSUME SesInv, NEW t \in Tabs, ClaimRotation(t), sesReq[t].ses \in sesLive
    PROVE  SesInv'
<1> DEFINE s == sesReq[t].ses
           q == Request("claimed", s)
<1>1. /\ s \in Rows /\ s \in sesLive /\ s <= sesCount /\ s # 0 /\ sesReq[t].at = "live"
  BY DEF ClaimRotation, At, SesInv, BoundInv, Carrying
<1>2. q \in Requests /\ q.at = "claimed" /\ q.ses = s
  BY <1>1, SesAssumption DEF Request, Requests, Steps, Rows
<1>3. /\ sesReq' = [sesReq EXCEPT ![t] = q]
      /\ sesLive' = sesLive \ {s} /\ sesFresh' = sesFresh \cup {s}
      /\ UNCHANGED <<sesCount, sesParent, sesCookie, sesExcused, sesMark, sesPending>>
  BY DEF ClaimRotation, Revoke, Goes, history
<1> HIDE DEF q, s
<1>4. /\ sesReq' \in [Tabs -> Requests] /\ sesReq'[t] = q
      /\ \A u \in Tabs : u # t => sesReq'[u] = sesReq[u]
  BY <1>2, <1>3, OneTab
<1>5. BoundInv'
  BY <1>1, <1>2, <1>3, <1>4 DEF SesInv, BoundInv
<1>6. TreeInv'
  <2>1. /\ \A x \in Rows : sesParent[x] # s
        /\ \A u \in Tabs : sesReq[u].at = "claimed" => sesReq[u].ses # s
    BY <1>1 DEF SesInv, TreeInv
  <2> QED
    BY <1>2, <1>3, <1>4, <2>1 DEF SesInv, TreeInv
<1>7. MarkInv'
  BY <1>1, <1>2, <1>3, <1>4 DEF SesInv, BoundInv, MarkInv, SignedOutEverywhere, Rows
<1>8. HoldInv'
  <2>1. \A u \in Tabs : sesReq'[u].ses = sesReq[u].ses
    BY <1>2, <1>4 DEF s
  <2>2. ASSUME NEW u \in Tabs, sesReq'[u].at = "answered", sesReq'[u].ses # 0
        PROVE  sesReq'[u].ses \in sesLive' \cup sesExcused'
    <3>1. u # t /\ sesReq'[u] = sesReq[u]
      BY <1>2, <1>4, <2>2
    <3>2. sesReq[u].ses # s /\ sesReq[u].ses \in sesLive \cup sesExcused
      BY <2>2, <3>1 DEF SesInv, HoldInv, s
    <3> QED
      BY <1>3, <3>1, <3>2
  <2>3. \A u \in Tabs : sesReq'[u].at = "answered" => sesReq[u].at = "answered"
    BY <1>2, <1>4
  <2> QED
    BY <1>3, <2>1, <2>2, <2>3 DEF SesInv, HoldInv
<1>9. ReuseInv'
  <2>1. \A u \in Tabs, x \in Rows : Rotates(u, x) => Rotates(u, x)'
    BY <1>1, <1>3, <1>4 DEF Rotates
  <2>3. \A u \in Tabs : sesReq'[u].at = "reusing" => sesReq'[u].ses \in sesExcused'
    BY <1>2, <1>3, <1>4 DEF SesInv, ReuseInv
  <2>4. \A u \in Tabs : sesReq'[u].at = "counting" => sesReq'[u].ses \notin sesLive'
    BY <1>2, <1>3, <1>4 DEF SesInv, ReuseInv
  <2>5. ASSUME NEW x \in Rows, x <= sesCount', x \notin sesLive', x \notin sesExcused'
        PROVE  Successor(x)' \/ \E u \in Tabs : sesReq'[u].at = "claimed" /\ sesReq'[u].ses = x
    <3>1. CASE x = s
      BY <1>2, <1>4, <3>1
    <3>2. CASE x # s
      <4>1. Successor(x) \/ \E u \in Tabs : sesReq[u].at = "claimed" /\ sesReq[u].ses = x
        BY <1>3, <2>5, <3>2 DEF SesInv, ReuseInv
      <4>2. Successor(x) => Successor(x)'
        BY <1>3 DEF Successor
      <4>3. \A u \in Tabs : sesReq[u].at = "claimed" => sesReq'[u] = sesReq[u]
        BY <1>1, <1>4
      <4> QED
        BY <4>1, <4>2, <4>3
    <3> QED
      BY <3>1, <3>2
  <2>6. ASSUME NEW d \in Devices, NEW x \in Rows,
               sesCookie'[d] = x, x \notin sesLive', x \notin sesExcused'
        PROVE  \E u \in Tabs : DeviceOf[u] = d /\ Rotates(u, x)'
    <3>1. CASE x = s
      <4>1. DeviceOf[t] = d
        BY <1>1, <1>3, <2>6, <3>1 DEF SesInv, HoldInv, s
      <4>2. Rotates(t, x)'
        BY <1>2, <1>4, <3>1 DEF Rotates
      <4> QED
        BY <4>1, <4>2
    <3>2. CASE x # s
      <4>1. PICK u \in Tabs : DeviceOf[u] = d /\ Rotates(u, x)
        BY <1>3, <2>6, <3>2 DEF SesInv, ReuseInv
      <4> QED
        BY <2>1, <4>1
    <3> QED
      BY <3>1, <3>2
  <2>7. ASSUME NEW u \in Tabs, NEW x \in Rows, Unheard(u, x)', x \notin sesLive', x \notin sesFresh'
        PROVE  x \in sesExcused'
    <3>1. x # s /\ x \notin sesLive /\ x \notin sesFresh
      BY <1>3, <2>7
    <3>2. Unheard(u, x)
      BY <1>2, <1>3, <1>4, <2>7, <3>1 DEF Unheard, At
    <3> QED
      BY <1>3, <3>1, <3>2 DEF SesInv, ReuseInv
  <2>8. ASSUME NEW d \in Devices, NEW x \in Rows,
               sesCookie'[d] = x, x \notin sesLive', x \notin sesFresh'
        PROVE  x \in sesExcused'
    BY <1>3, <2>8 DEF SesInv, ReuseInv
  <2> QED
    BY <2>3, <2>4, <2>5, <2>6, <2>7, <2>8 DEF ReuseInv
<1> QED
  BY <1>5, <1>6, <1>7, <1>8, <1>9 DEF SesInv

\* A new session: of a login, or the successor of the token being exchanged.
LEMMA CreateKeeps ==
    ASSUME SesInv, NEW t \in Tabs, NEW p, CreateSession(p), Goes(t, "answered", sesCount'),
           UNCHANGED <<sesCookie, history>>,
           \/ sesReq[t].at = "idle" /\ p = 0
           \/ sesReq[t].at = "claimed" /\ p = sesReq[t].ses
    PROVE  SesInv'
<1> DEFINE n == sesCount + 1
           q == Request("answered", n)
<1>1. n \in Rows /\ n \in Nat /\ sesCount \in Nat /\ n # 0 /\ n <= MaxSessions
  BY SesAssumption DEF CreateSession, SesInv, BoundInv, Rows
<1>2. q \in Requests /\ q.at = "answered" /\ q.ses = n
  BY <1>1, SesAssumption DEF Request, Requests, Steps
<1>3. /\ sesCount' = n /\ sesParent' = [sesParent EXCEPT ![n] = p]
      /\ sesLive' = sesLive \cup {n} /\ sesFresh' = sesFresh
      /\ sesReq' = [sesReq EXCEPT ![t] = q]
      /\ UNCHANGED <<sesCookie, sesExcused, sesMark, sesPending>>
  BY DEF CreateSession, Goes, history
<1> HIDE DEF q
<1>4. /\ sesReq' \in [Tabs -> Requests] /\ sesReq'[t] = q
      /\ \A u \in Tabs : u # t => sesReq'[u] = sesReq[u]
  BY <1>2, <1>3, OneTab
<1>5. /\ \A u \in Tabs : sesReq[u].ses \in 0..MaxSessions /\ sesReq[u].ses <= sesCount
      /\ \A d \in Devices : sesCookie[d] \in 0..MaxSessions /\ sesCookie[d] <= sesCount
      /\ \A x \in Rows : /\ sesParent[x] \in 0..MaxSessions /\ sesParent[x] < x
                         /\ x > sesCount => sesParent[x] = 0
      /\ \A x \in sesLive : x \in Rows /\ x <= sesCount
  BY DEF SesInv, BoundInv, TreeInv, Requests
<1>6. p \in 0..MaxSessions /\ p <= sesCount /\ p \notin sesLive
  <2>1. 0 \notin sesLive
    BY <1>5, SesAssumption DEF Rows
  <2> QED
    BY <1>1, <1>5, <2>1, SesAssumption DEF SesInv, TreeInv
<1>7. /\ \A u \in Tabs : sesReq[u].ses # n
      /\ \A d \in Devices : sesCookie[d] # n
      /\ \A x \in Rows : sesParent[x] # n
      /\ n \notin sesLive /\ p # n
  <2>1. \A x \in Rows : sesParent[x] # n
    BY <1>1, <1>5, SesAssumption DEF Rows
  <2> QED
    BY <1>1, <1>5, <1>6, <2>1, SesAssumption DEF Rows
<1>8. /\ sesParent' \in [Rows -> 0..MaxSessions] /\ sesParent'[n] = p
      /\ \A x \in Rows : x # n => sesParent'[x] = sesParent[x]
  BY <1>1, <1>3, <1>6 DEF SesInv, BoundInv
<1>9. \A x \in Rows : x <= n <=> x <= sesCount \/ x = n
  BY <1>1, SesAssumption DEF Rows
<1>10. n > sesCount /\ ~(n <= sesCount) /\ sesCount <= n
  BY <1>1
<1>11. BoundInv'
  <2>1. \A u \in Tabs : sesReq[u].ses <= n
    BY <1>1, <1>5, SesAssumption
  <2>2. \A d \in Devices : sesCookie[d] <= n
    BY <1>1, <1>5, SesAssumption
  <2>3. \A x \in sesLive : x <= n
    BY <1>5, <1>9
  <2> HIDE DEF n
  <2> QED
    BY <1>1, <1>2, <1>3, <1>4, <1>5, <1>8, <2>1, <2>2, <2>3 DEF SesInv, BoundInv, Carrying
<1>12. p # 0 => \A x \in Rows : sesParent[x] # p
  BY DEF SesInv, TreeInv
<1>13. TreeInv'
  <2>1. \A x \in Rows : sesParent'[x] < x /\ sesParent'[x] \notin sesLive'
    <3>1. p < n
      BY <1>1, <1>6
    <3> HIDE DEF n
    <3> QED
      BY <1>3, <1>5, <1>6, <1>7, <1>8, <3>1 DEF SesInv, TreeInv
  <2>2. \A x \in Rows : x > n => sesParent'[x] = 0
    <3> SUFFICES ASSUME NEW x \in Rows, x > n PROVE sesParent'[x] = 0
      OBVIOUS
    <3>1. x > sesCount /\ x # n
      BY <1>1, SesAssumption DEF Rows
    <3> QED
      BY <1>5, <1>8, <3>1
  <2> HIDE DEF n
  <2>3. \A a, b \in Rows : a # b /\ sesParent'[a] = sesParent'[b] => sesParent'[a] = 0
    BY <1>8, <1>12 DEF SesInv, TreeInv
  <2>4. ASSUME NEW u \in Tabs, sesReq'[u].at = "claimed"
        PROVE  /\ sesReq'[u].ses \notin sesLive'
               /\ \A x \in Rows : sesParent'[x] # sesReq'[u].ses
    <3>1. u # t /\ sesReq'[u] = sesReq[u]
      BY <1>2, <1>4, <2>4
    <3>2. sesReq[u].ses # p
      BY <2>4, <3>1 DEF SesInv, TreeInv, BoundInv, Carrying
    <3> QED
      BY <1>3, <1>7, <1>8, <2>4, <3>1, <3>2 DEF SesInv, TreeInv
  <2>5. \A u, v \in Tabs : sesReq'[u].at = "claimed" /\ sesReq'[v].at = "claimed"
                             /\ sesReq'[u].ses = sesReq'[v].ses => u = v
    BY <1>2, <1>4 DEF SesInv, TreeInv
  <2> QED
    BY <1>3, <2>1, <2>2, <2>3, <2>4, <2>5 DEF TreeInv
<1>14. MarkInv'
  <2>1. sesMark \in Nat /\ sesMark < n /\ sesMark <= n
    BY <1>1 DEF SesInv, MarkInv
  <2>2. p \in 1..sesMark => p \in sesPending
    BY <2>1 DEF SesInv, MarkInv
  <2>3. ASSUME NEW x \in sesLive'
        PROVE  x > sesMark /\ (sesParent'[x] \in 1..sesMark => sesParent'[x] \in sesPending)
    <3>1. CASE x = n
      BY <1>8, <2>1, <2>2, <3>1
    <3>2. CASE x # n
      BY <1>3, <1>5, <1>8, <2>3, <3>2 DEF SesInv, MarkInv, SignedOutEverywhere
    <3> QED
      BY <3>1, <3>2
  <2> HIDE DEF n
  <2> QED
    BY <1>2, <1>3, <1>4, <2>1, <2>3 DEF SesInv, MarkInv, SignedOutEverywhere
<1> HIDE DEF n
<1>15. HoldInv'
  BY <1>2, <1>3, <1>4, <1>7 DEF SesInv, HoldInv
<1>16. ReuseInv'
  <2>1. \A x \in Rows : Successor(x) => Successor(x)'
    BY <1>3, <1>8, <1>9, <1>10 DEF Successor
  <2>2. p \in Rows => Successor(p)'
    BY <1>1, <1>3, <1>8, <1>9 DEF Successor
  <2>3. ASSUME NEW u \in Tabs, NEW x \in Rows, Rotates(u, x) PROVE Rotates(u, x)'
    <3>1. CASE u = t
      <4>1. x = p
        BY <2>3, <3>1 DEF Rotates
      <4> QED
        BY <1>1, <1>2, <1>4, <1>8, <3>1, <4>1 DEF Rotates
    <3>2. CASE u # t
      <4>1. sesReq[u].ses # 0 => sesReq[u].ses \in Rows /\ sesReq[u].ses # n
        BY <1>5, <1>7, SesAssumption DEF Rows
      <4> QED
        BY <1>4, <1>8, <2>3, <3>2, <4>1 DEF Rotates
    <3> QED
      BY <3>1, <3>2
  <2>4. \A u \in Tabs : sesReq'[u].at = "reusing" => sesReq'[u].ses \in sesExcused'
    BY <1>2, <1>3, <1>4 DEF SesInv, ReuseInv
  <2>5. \A u \in Tabs : sesReq'[u].at = "counting" => sesReq'[u].ses \notin sesLive'
    BY <1>2, <1>3, <1>4, <1>7 DEF SesInv, ReuseInv
  <2>6. ASSUME NEW x \in Rows, x <= sesCount', x \notin sesLive', x \notin sesExcused'
        PROVE  Successor(x)' \/ \E u \in Tabs : sesReq'[u].at = "claimed" /\ sesReq'[u].ses = x
    <3>1. x <= sesCount /\ x \notin sesLive /\ x \notin sesExcused
      BY <1>3, <1>9, <2>6
    <3>2. CASE Successor(x)
      BY <2>1, <3>2
    <3>3. ASSUME NEW u \in Tabs, sesReq[u].at = "claimed", sesReq[u].ses = x
          PROVE  Successor(x)' \/ (sesReq'[u].at = "claimed" /\ sesReq'[u].ses = x)
      BY <1>4, <2>2, <3>3
    <3> QED
      BY <3>1, <3>2, <3>3 DEF SesInv, ReuseInv
  <2>7. ASSUME NEW d \in Devices, NEW x \in Rows,
               sesCookie'[d] = x, x \notin sesLive', x \notin sesExcused'
        PROVE  \E u \in Tabs : DeviceOf[u] = d /\ Rotates(u, x)'
    <3>1. PICK u \in Tabs : DeviceOf[u] = d /\ Rotates(u, x)
      BY <1>3, <2>7 DEF SesInv, ReuseInv
    <3> QED
      BY <2>3, <3>1
  <2>8. ASSUME NEW u \in Tabs, NEW x \in Rows, Unheard(u, x)', x \notin sesLive', x \notin sesFresh'
        PROVE  x \in sesExcused'
    <3>1. Unheard(u, x)
      <4>1. CASE u = t
        <5>1. x = p
          BY <1>2, <1>4, <1>8, <2>8, <4>1 DEF Unheard, At
        <5>2. x # 0
          BY SesAssumption DEF Rows
        <5> QED
          BY <4>1, <5>1, <5>2 DEF Unheard, At
      <4>2. CASE u # t
        <5>1. sesReq[u].ses # 0 => sesReq[u].ses \in Rows /\ sesReq[u].ses # n
          BY <1>5, <1>7, SesAssumption DEF Rows
        <5> QED
          BY <1>4, <1>8, <2>8, <4>2, <5>1 DEF Unheard, At
      <4> QED
        BY <4>1, <4>2
    <3> QED
      BY <1>3, <2>8, <3>1 DEF SesInv, ReuseInv
  <2>9. ASSUME NEW d \in Devices, NEW x \in Rows,
               sesCookie'[d] = x, x \notin sesLive', x \notin sesFresh'
        PROVE  x \in sesExcused'
    BY <1>3, <2>9 DEF SesInv, ReuseInv
  <2> QED
    BY <2>4, <2>5, <2>6, <2>7, <2>8, <2>9 DEF ReuseInv
<1> QED
  BY <1>11, <1>13, <1>14, <1>15, <1>16 DEF SesInv

\* The cookie takes the token of the answer, which no one else has.
LEMMA ReceiveKeeps ==
    ASSUME SesInv, NEW t \in Tabs, Receive(t), ~(At(t, "answered") /\ sesReq[t].ses = 0)
    PROVE  SesInv'
<1> DEFINE x == sesReq[t].ses
           home == DeviceOf[t]
<1>1. NoRequest \in Requests /\ NoRequest.at = "idle" /\ NoRequest.ses = 0
  BY SesAssumption DEF NoRequest, Request, Requests, Steps
<1>2. /\ sesReq' = [sesReq EXCEPT ![t] = NoRequest]
      /\ sesCookie' = [sesCookie EXCEPT ![home] = x]
      /\ sesReq[t].at \in {"answered", "left"}
      /\ UNCHANGED <<sesCount, sesParent, sesLive, sesFresh, sesExcused, sesMark, sesPending>>
  BY DEF Receive, Ends, rows, history
<1> HIDE DEF NoRequest
<1>3. /\ sesReq' \in [Tabs -> Requests] /\ sesReq'[t] = NoRequest
      /\ \A u \in Tabs : u # t => sesReq'[u] = sesReq[u]
  BY <1>1, <1>2, OneTab
<1>4. home \in Devices /\ x \in 0..MaxSessions /\ x <= sesCount /\ 0 <= sesCount
  BY SesAssumption DEF SesInv, BoundInv, Requests
<1>5. /\ sesCookie' \in [Devices -> 0..MaxSessions] /\ sesCookie'[home] = x
      /\ \A d \in Devices : d # home => sesCookie'[d] = sesCookie[d]
  BY <1>2, <1>4 DEF SesInv, BoundInv
<1>6. x # 0 => /\ sesReq[t].at = "answered"
               /\ \A d \in Devices : sesCookie[d] # x
               /\ \A u \in Tabs : u # t => sesReq[u].ses # x
               /\ x \in sesLive \cup sesExcused
  BY <1>2 DEF SesInv, BoundInv, HoldInv
<1> HIDE DEF x, home
<1>7. BoundInv'
  BY <1>1, <1>2, <1>3, <1>4, <1>5 DEF SesInv, BoundInv, Carrying
<1>8. TreeInv'
  BY <1>1, <1>2, <1>3 DEF SesInv, TreeInv
<1>9. MarkInv'
  BY <1>1, <1>2, <1>3 DEF SesInv, MarkInv, SignedOutEverywhere
<1>10. HoldInv'
  BY <1>1, <1>2, <1>3, <1>4, <1>5, <1>6 DEF SesInv, HoldInv
<1>11. ReuseInv'
  <2>1. \A s \in Rows : s # 0
    BY SesAssumption DEF Rows
  <2>2. \A u \in Tabs, s \in Rows : u # t => (Rotates(u, s) <=> Rotates(u, s)')
    BY <1>2, <1>3 DEF Rotates
  <2>3. \A s \in Rows : Successor(s) => Successor(s)'
    BY <1>2 DEF Successor
  <2>4. \A u \in Tabs : sesReq'[u].at = "reusing" => sesReq'[u].ses \in sesExcused'
    BY <1>1, <1>2, <1>3 DEF SesInv, ReuseInv
  <2>5. \A u \in Tabs : sesReq'[u].at = "counting" => sesReq'[u].ses \notin sesLive'
    BY <1>1, <1>2, <1>3 DEF SesInv, ReuseInv
  <2>6. ASSUME NEW s \in Rows, s <= sesCount', s \notin sesLive', s \notin sesExcused'
        PROVE  Successor(s)' \/ \E u \in Tabs : sesReq'[u].at = "claimed" /\ sesReq'[u].ses = s
    <3>1. Successor(s) \/ \E u \in Tabs : sesReq[u].at = "claimed" /\ sesReq[u].ses = s
      BY <1>2, <2>6 DEF SesInv, ReuseInv
    <3>2. \A u \in Tabs : sesReq[u].at = "claimed" => sesReq'[u] = sesReq[u]
      BY <1>2, <1>3
    <3> QED
      BY <2>3, <3>1, <3>2
  <2>7. ASSUME NEW d \in Devices, NEW s \in Rows,
               sesCookie'[d] = s, s \notin sesLive', s \notin sesExcused'
        PROVE  \E u \in Tabs : DeviceOf[u] = d /\ Rotates(u, s)'
    <3>1. d # home
      BY <1>2, <1>5, <1>6, <2>1, <2>7
    <3>2. PICK u \in Tabs : DeviceOf[u] = d /\ Rotates(u, s)
      BY <1>2, <1>5, <2>7, <3>1 DEF SesInv, ReuseInv
    <3> QED
      BY <2>2, <3>1, <3>2 DEF home
  <2>8. ASSUME NEW u \in Tabs, NEW s \in Rows, Unheard(u, s)', s \notin sesLive', s \notin sesFresh'
        PROVE  s \in sesExcused'
    <3>1. u # t /\ Unheard(u, s)
      BY <1>1, <1>2, <1>3, <2>8 DEF Unheard, At
    <3> QED
      BY <1>2, <2>8, <3>1 DEF SesInv, ReuseInv
  <2>9. ASSUME NEW d \in Devices, NEW s \in Rows,
               sesCookie'[d] = s, s \notin sesLive', s \notin sesFresh'
        PROVE  s \in sesExcused'
    <3>1. CASE d = home
      BY <1>2, <1>5, <1>6, <2>1, <2>9, <3>1
    <3>2. CASE d # home
      BY <1>2, <1>5, <2>9, <3>2 DEF SesInv, ReuseInv
    <3> QED
      BY <3>1, <3>2
  <2> QED
    BY <2>4, <2>5, <2>6, <2>7, <2>8, <2>9 DEF ReuseInv
<1> QED
  BY <1>7, <1>8, <1>9, <1>10, <1>11 DEF SesInv

\* The grace of a rotation ends: a browser that still has the token is excused.
LEMMA GraceKeeps ==
    ASSUME SesInv, NEW g \in Rows, GraceEnds(g)
    PROVE  SesInv'
<1>1. /\ sesFresh' = sesFresh \ {g}
      /\ sesExcused \subseteq sesExcused'
      /\ (\E t \in Tabs : Unheard(t, g)) => g \in sesExcused'
      /\ UNCHANGED <<sesCount, sesParent, sesLive, sesCookie, sesReq, sesMark, sesPending>>
  BY DEF GraceEnds
<1>2. BoundInv' /\ TreeInv' /\ MarkInv' /\ HoldInv'
  BY <1>1 DEF SesInv, BoundInv, TreeInv, MarkInv, SignedOutEverywhere, HoldInv
<1>3. \A t \in Tabs, s \in Rows : Rotates(t, s) => Rotates(t, s)'
  BY <1>1 DEF Rotates
<1>8. \A t \in Tabs, s \in Rows : Unheard(t, s)' => Unheard(t, s)
  BY <1>1 DEF Unheard, At
<1>9. \A t \in Tabs, s \in Rows : Rotates(t, s) => Unheard(t, s)
  BY DEF Rotates, Unheard, At
<1>4. \A s \in Rows : Successor(s) => Successor(s)'
  BY <1>1 DEF Successor
<1>5. ASSUME NEW t \in Tabs, NEW s \in Rows, Unheard(t, s), s \notin sesLive, s \notin sesFresh'
      PROVE  s \in sesExcused'
  BY <1>1, <1>5 DEF SesInv, ReuseInv
<1>6. ASSUME NEW d \in Devices, NEW s \in Rows,
             sesCookie[d] = s, s \notin sesLive, s \notin sesFresh'
      PROVE  s \in sesExcused'
  <2>1. CASE s = g
    <3>1. s \in sesExcused \/ \E t \in Tabs : Rotates(t, s)
      BY <1>6 DEF SesInv, ReuseInv
    <3> QED
      BY <1>1, <1>9, <2>1, <3>1
  <2>2. CASE s # g
    BY <1>1, <1>6, <2>2 DEF SesInv, ReuseInv
  <2> QED
    BY <2>1, <2>2
<1>7. ReuseInv'
  <2>1. ASSUME NEW s \in Rows, s <= sesCount', s \notin sesLive', s \notin sesExcused'
        PROVE  Successor(s)' \/ \E t \in Tabs : sesReq'[t].at = "claimed" /\ sesReq'[t].ses = s
    BY <1>1, <1>4, <2>1 DEF SesInv, ReuseInv
  <2>2. ASSUME NEW d \in Devices, NEW s \in Rows,
               sesCookie'[d] = s, s \notin sesLive', s \notin sesExcused'
        PROVE  \E t \in Tabs : DeviceOf[t] = d /\ Rotates(t, s)'
    BY <1>1, <1>3, <2>2 DEF SesInv, ReuseInv
  <2>3. \A t \in Tabs : sesReq'[t].at = "reusing" => sesReq'[t].ses \in sesExcused'
    BY <1>1 DEF SesInv, ReuseInv
  <2>4. \A t \in Tabs : sesReq'[t].at = "counting" => sesReq'[t].ses \notin sesLive'
    BY <1>1 DEF SesInv, ReuseInv
  <2>5. ASSUME NEW t \in Tabs, NEW s \in Rows, Unheard(t, s)', s \notin sesLive', s \notin sesFresh'
        PROVE  s \in sesExcused'
    BY <1>1, <1>5, <1>8, <2>5
  <2>6. ASSUME NEW d \in Devices, NEW s \in Rows,
               sesCookie'[d] = s, s \notin sesLive', s \notin sesFresh'
        PROVE  s \in sesExcused'
    BY <1>1, <1>6, <2>6
  <2> QED
    BY <2>1, <2>2, <2>3, <2>4, <2>5, <2>6 DEF ReuseInv
<1> QED
  BY <1>2, <1>7 DEF SesInv

\* A request ends, or is about to, and no exchange is forgotten without an excuse.
LEMMA LetGo ==
    ASSUME SesInv, NEW t \in Tabs, NEW q \in Requests, sesReq' = [sesReq EXCEPT ![t] = q],
           q.at \in {"idle", "left", "answered"}, q.ses = 0,
           UNCHANGED <<sesCount, sesParent, sesCookie, sesMark, sesPending>>,
           sesLive' \subseteq sesLive, sesExcused \subseteq sesExcused', sesFresh \subseteq sesFresh',
           \A s \in sesLive : s \notin sesLive' => s \in sesExcused' /\ s \in sesFresh',
           \A s \in Rows : Rotates(t, s) => s \in sesExcused'
    PROVE  SesInv'
<1>1. /\ sesReq' \in [Tabs -> Requests] /\ sesReq'[t] = q
      /\ \A u \in Tabs : u # t => sesReq'[u] = sesReq[u]
  BY OneTab
<1>2. MarkInv'
  BY <1>1 DEF SesInv, MarkInv, SignedOutEverywhere
<1>3. \A u \in Tabs :
         \/ sesReq'[u] = sesReq[u]
         \/ /\ sesReq'[u].at \in {"idle", "left", "answered"} /\ sesReq'[u].ses = 0
            /\ \A s \in Rows : Rotates(u, s) => s \in sesExcused'
  BY <1>1
<1> QED
  BY <1>1, <1>2, <1>3, Loosened

\* What a request carries is a row.
LEMMA Carried ==
    ASSUME SesInv, NEW t \in Tabs, sesReq[t].at \in Carrying
    PROVE  sesReq[t].ses \in Rows /\ sesReq[t].ses <= sesCount /\ sesReq[t].ses # 0
  BY SesAssumption DEF SesInv, BoundInv, Requests, Rows

LEMMA Replies ==
    ASSUME NEW a \in Steps, NEW s \in 0..MaxSessions
    PROVE  Request(a, s) \in Requests /\ Request(a, s).at = a /\ Request(a, s).ses = s
  BY DEF Request, Requests

LEMMA SesNextInv == SesInv /\ [SesNext]_sesVars => SesInv'
<1> SUFFICES ASSUME SesInv, [SesNext]_sesVars PROVE SesInv'
  OBVIOUS
<1> USE SesAssumption
<1>1. ASSUME NEW t \in Tabs, Login(t) PROVE SesInv'
  BY <1>1, CreateKeeps DEF Login, At
<1>2. ASSUME NEW t \in Tabs, RestoreSession(t) PROVE SesInv'
  <2> DEFINE q == Request("sent", CookieOf(t))
  <2>1. CookieOf(t) \in 0..MaxSessions /\ CookieOf(t) = sesCookie[DeviceOf[t]]
    BY DEF SesInv, BoundInv, CookieOf
  <2>2. q \in Requests /\ q.at = "sent" /\ q.ses = sesCookie[DeviceOf[t]]
    BY <2>1, Replies DEF Steps
  <2>3. /\ sesReq' = [sesReq EXCEPT ![t] = q]
        /\ UNCHANGED <<rows, sesCookie, sesMark, sesPending>> /\ sesExcused' = sesExcused
        /\ sesReq[t].at = "idle" /\ q.ses # 0
    BY <1>2, <2>1, <2>2 DEF RestoreSession, Goes, At, history
  <2> HIDE DEF q
  <2> QED
    BY <2>2, <2>3, Onward
<1>3. ASSUME NEW t \in Tabs, ReadSession(t) PROVE SesInv'
  <2>1. PICK s \in Rows : s = sesReq[t].ses /\ s # 0
    BY <1>3, Carried DEF ReadSession, At, Carrying
  <2>2. /\ UNCHANGED <<rows, sesCookie, sesMark, sesPending>> /\ sesExcused' = sesExcused
        /\ sesReq[t].at = "sent"
    BY <1>3 DEF ReadSession, At, history
  <2>3. ASSUME NEW a \in {"live", "counting", "reusing"}, Goes(t, a, s),
               a = "counting" => s \notin sesLive /\ s \in sesFresh,
               a = "reusing" => s \in sesExcused
        PROVE  SesInv'
    <3> DEFINE q == Request(a, s)
    <3>1. q \in Requests /\ q.at = a /\ q.ses = s
      BY Replies DEF Steps, Rows
    <3>2. sesReq' = [sesReq EXCEPT ![t] = q]
      BY <2>3 DEF Goes
    <3> HIDE DEF q
    <3> QED
      BY <2>1, <2>2, <2>3, <3>1, <3>2, Onward
  <2>4. CASE Ends(t)
    <3>1. NoRequest \in Requests /\ NoRequest.at = "idle" /\ NoRequest.ses = 0
      BY Replies DEF NoRequest, Steps
    <3>2. sesReq' = [sesReq EXCEPT ![t] = NoRequest]
      BY <2>4 DEF Ends
    <3> HIDE DEF NoRequest
    <3>3. \A x \in Rows : ~Rotates(t, x)
      BY <2>2 DEF Rotates
    <3>4. UNCHANGED <<sesCount, sesParent, sesLive, sesFresh>>
      BY <2>2 DEF rows
    <3> QED
      BY <2>2, <3>1, <3>2, <3>3, <3>4, LetGo
  <2>5. s \notin sesLive /\ s \notin sesFresh => s \in sesExcused
    BY <2>1, <2>2 DEF Unheard, At, SesInv, ReuseInv
  <2> QED
    BY <1>3, <2>1, <2>3, <2>4, <2>5 DEF ReadSession
<1>4. ASSUME NEW t \in Tabs, ClaimRotation(t) PROVE SesInv'
  <2>1. CASE sesReq[t].ses \in sesLive
    BY <1>4, <2>1, ClaimKeeps
  <2>2. CASE sesReq[t].ses \notin sesLive
    <3> DEFINE q == Request("answered", 0)
    <3>1. q \in Requests /\ q.at = "answered" /\ q.ses = 0
      BY Replies DEF Steps
    <3>2. /\ sesReq' = [sesReq EXCEPT ![t] = q] /\ sesReq[t].at = "live"
          /\ UNCHANGED <<sesCount, sesParent, sesLive, sesFresh, sesCookie, sesExcused,
                         sesMark, sesPending>>
      BY <1>4, <2>2 DEF ClaimRotation, Goes, At, rows, history
    <3> HIDE DEF q
    <3>3. \A x \in Rows : ~Rotates(t, x)
      BY <3>2 DEF Rotates
    <3> QED
      BY <3>1, <3>2, <3>3, LetGo
  <2> QED
    BY <2>1, <2>2
<1>5. ASSUME NEW t \in Tabs, CreateSuccessor(t) PROVE SesInv'
  BY <1>5, CreateKeeps DEF CreateSuccessor, At
<1>6. ASSUME NEW t \in Tabs, CountSuccessor(t) PROVE SesInv'
  <2>1. PICK s \in Rows : s = sesReq[t].ses /\ s # 0 /\ s <= sesCount
    BY <1>6, Carried DEF CountSuccessor, At, Carrying
  <2>2. /\ UNCHANGED <<rows, sesCookie, sesMark, sesPending>> /\ sesReq[t].at = "counting"
        /\ UNCHANGED <<sesCount, sesParent, sesLive, sesFresh>> /\ s \notin sesLive
    BY <1>6, <2>1 DEF CountSuccessor, At, rows, SesInv, ReuseInv
  <2>3. CASE Successor(s)
    <3> DEFINE q == Request("answered", 0)
    <3>1. q \in Requests /\ q.at = "answered" /\ q.ses = 0
      BY Replies DEF Steps
    <3>2. sesReq' = [sesReq EXCEPT ![t] = q] /\ sesExcused' = sesExcused
      BY <1>6, <2>1, <2>3 DEF CountSuccessor, Goes
    <3> HIDE DEF q
    <3>3. \A x \in Rows : ~Rotates(t, x)
      BY <2>2 DEF Rotates
    <3> QED
      BY <2>2, <3>1, <3>2, <3>3, LetGo
  <2>4. CASE ~Successor(s)
    <3> DEFINE q == Request("reusing", s)
    <3>1. q \in Requests /\ q.at = "reusing" /\ q.ses = s
      BY Replies DEF Steps, Rows
    <3>2. /\ sesReq' = [sesReq EXCEPT ![t] = q]
          /\ sesExcused \subseteq sesExcused'
          /\ (\E u \in Tabs : sesReq[u].at = "claimed" /\ sesReq[u].ses = s) => s \in sesExcused'
      BY <1>6, <2>1, <2>4 DEF CountSuccessor, Goes, At
    <3>3. s \in sesExcused'
      BY <2>1, <2>2, <2>4, <3>2 DEF SesInv, ReuseInv
    <3> HIDE DEF q
    <3> QED
      BY <2>1, <2>2, <3>1, <3>2, <3>3, Onward
  <2> QED
    BY <2>3, <2>4
<1>7. ASSUME NEW t \in Tabs, DetectReuse(t) PROVE SesInv'
  <2>1. NoRequest \in Requests /\ NoRequest.at = "idle" /\ NoRequest.ses = 0
    BY Replies DEF NoRequest, Steps
  <2>2. /\ sesReq' = [sesReq EXCEPT ![t] = NoRequest] /\ sesReq[t].at = "reusing"
        /\ UNCHANGED <<sesCount, sesParent, sesCookie, sesMark, sesPending>>
        /\ sesLive' = {} /\ sesFresh' = sesFresh \cup sesLive
        /\ sesExcused' = sesExcused \cup sesLive
    BY <1>7 DEF DetectReuse, Ends, Revoke, At
  <2> HIDE DEF NoRequest
  <2>3. \A x \in Rows : ~Rotates(t, x)
    BY <2>2 DEF Rotates
  <2> QED
    BY <2>1, <2>2, <2>3, LetGo
<1>8. ASSUME NEW t \in Tabs, ReadLogout(t) PROVE SesInv'
  <2>1. CookieOf(t) \in 0..MaxSessions /\ CookieOf(t) = sesCookie[DeviceOf[t]]
    BY DEF SesInv, BoundInv, CookieOf
  <2>2. /\ UNCHANGED <<rows, sesCookie, sesMark, sesPending>> /\ sesExcused' = sesExcused
        /\ UNCHANGED <<sesCount, sesParent, sesLive, sesFresh>>
        /\ sesReq[t].at = "idle" /\ CookieOf(t) # 0
    BY <1>8 DEF ReadLogout, At, rows, history
  <2>3. CASE CookieOf(t) \in sesLive
    <3> DEFINE q == Request("leaving", CookieOf(t))
    <3>1. q \in Requests /\ q.at = "leaving" /\ q.ses = sesCookie[DeviceOf[t]] /\ q.ses # 0
      BY <2>1, <2>2, Replies DEF Steps
    <3>2. sesReq' = [sesReq EXCEPT ![t] = q]
      BY <1>8, <2>3 DEF ReadLogout, Goes
    <3> HIDE DEF q
    <3> QED
      BY <2>2, <3>1, <3>2, Onward
  <2>4. CASE CookieOf(t) \notin sesLive
    <3> DEFINE q == Request("left", 0)
    <3>1. q \in Requests /\ q.at = "left" /\ q.ses = 0
      BY Replies DEF Steps
    <3>2. sesReq' = [sesReq EXCEPT ![t] = q]
      BY <1>8, <2>4 DEF ReadLogout, Goes
    <3> HIDE DEF q
    <3>3. \A x \in Rows : ~Rotates(t, x)
      BY <2>2 DEF Rotates
    <3> QED
      BY <2>2, <3>1, <3>2, <3>3, LetGo
  <2> QED
    BY <2>3, <2>4
<1>9. ASSUME NEW t \in Tabs, Logout(t) PROVE SesInv'
  <2> DEFINE q == Request("left", 0)
  <2>1. q \in Requests /\ q.at = "left" /\ q.ses = 0
    BY Replies DEF Steps
  <2>2. /\ sesReq' = [sesReq EXCEPT ![t] = q] /\ sesReq[t].at = "leaving"
        /\ UNCHANGED <<sesCount, sesParent, sesCookie, sesMark, sesPending>>
        /\ sesLive' = sesLive \ {sesReq[t].ses} /\ sesFresh' = sesFresh \cup {sesReq[t].ses}
        /\ sesExcused' = sesExcused \cup {sesReq[t].ses}
    BY <1>9 DEF Logout, Goes, Revoke, At
  <2> HIDE DEF q
  <2>3. \A x \in Rows : ~Rotates(t, x)
    BY <2>2 DEF Rotates
  <2> QED
    BY <2>1, <2>2, <2>3, LetGo
<1>10. ASSUME NEW t \in Tabs, Receive(t) PROVE SesInv'
  <2>1. CASE At(t, "answered") /\ sesReq[t].ses = 0
    <3>1. NoRequest \in Requests /\ NoRequest.at = "idle" /\ NoRequest.ses = 0
      BY Replies DEF NoRequest, Steps
    <3>2. /\ sesReq' = [sesReq EXCEPT ![t] = NoRequest] /\ sesReq[t].ses = 0
          /\ sesReq[t].at = "answered"
          /\ UNCHANGED <<sesCount, sesParent, sesLive, sesFresh, sesCookie, sesExcused,
                         sesMark, sesPending>>
      BY <1>10, <2>1 DEF Receive, Ends, At, rows, history
    <3> HIDE DEF NoRequest
    <3>3. \A x \in Rows : ~Rotates(t, x)
      BY <3>2 DEF Rotates
    <3> QED
      BY <3>1, <3>2, <3>3, LetGo
  <2>2. CASE ~(At(t, "answered") /\ sesReq[t].ses = 0)
    BY <1>10, <2>2, ReceiveKeeps
  <2> QED
    BY <2>1, <2>2
<1>11. ASSUME NEW t \in Tabs, Lose(t) PROVE SesInv'
  <2>1. NoRequest \in Requests /\ NoRequest.at = "idle" /\ NoRequest.ses = 0
    BY Replies DEF NoRequest, Steps
  <2>2. /\ sesReq' = [sesReq EXCEPT ![t] = NoRequest]
        /\ UNCHANGED <<sesCount, sesParent, sesLive, sesFresh, sesCookie, sesMark, sesPending>>
        /\ sesExcused' = sesExcused \cup {s \in Rows : Unheard(t, s)}
    BY <1>11 DEF Lose, Ends, rows
  <2> HIDE DEF NoRequest
  <2>3. \A x \in Rows : Rotates(t, x) => Unheard(t, x)
    BY DEF Rotates, Unheard, At
  <2>4. \A x \in Rows : Rotates(t, x) => x \in sesExcused'
    BY <2>2, <2>3
  <2> QED
    BY <2>1, <2>2, <2>4, LetGo
<1>12. ASSUME RevokeSome PROVE SesInv'
  <2>1. PICK S \in {{s} : s \in sesLive} \cup {sesLive \ {s} : s \in sesLive} :
           Revoke(S) /\ sesExcused' = sesExcused \cup S
    BY <1>12 DEF RevokeSome
  <2>2. /\ UNCHANGED <<sesCount, sesParent, sesCookie, sesReq, sesMark, sesPending>>
        /\ sesLive' = sesLive \ S /\ sesFresh' = sesFresh \cup S
    BY <1>12, <2>1 DEF RevokeSome, Revoke
  <2>3. MarkInv'
    BY <2>2 DEF SesInv, MarkInv, SignedOutEverywhere
  <2>4. sesReq' \in [Tabs -> Requests]
    BY <2>2 DEF SesInv, BoundInv
  <2> QED
    BY <2>1, <2>2, <2>3, <2>4, Loosened
<1>13. ASSUME RevokeAll PROVE SesInv'
  <2>1. /\ UNCHANGED <<sesCount, sesParent, sesCookie, sesReq>>
        /\ sesLive' = {} /\ sesFresh' = sesFresh \cup sesLive
        /\ sesExcused' = sesExcused \cup sesLive /\ sesMark' = sesCount
        /\ sesPending' = {sesReq[t].ses : t \in {u \in Tabs : At(u, "claimed")}}
    BY <1>13 DEF RevokeAll, Revoke
  <2>2. \A t \in Tabs : sesReq[t].at = "claimed" => sesReq[t].ses \in sesPending'
    BY <2>1 DEF At
  <2>3. MarkInv'
    BY <2>1, <2>2 DEF SesInv, BoundInv, MarkInv, SignedOutEverywhere
  <2>4. sesReq' \in [Tabs -> Requests]
    BY <2>1 DEF SesInv, BoundInv
  <2> QED
    BY <2>1, <2>3, <2>4, Loosened
<1>14. ASSUME NEW s \in Rows, GraceEnds(s) PROVE SesInv'
  BY <1>14, GraceKeeps
<1>15. CASE UNCHANGED sesVars
  <2>1. UNCHANGED <<sesCount, sesParent, sesLive, sesFresh, sesCookie, sesReq, sesExcused,
                    sesMark, sesPending>>
    BY <1>15 DEF sesVars
  <2>2. MarkInv' /\ sesReq' \in [Tabs -> Requests]
    BY <2>1 DEF SesInv, BoundInv, MarkInv, SignedOutEverywhere
  <2> QED
    BY <2>1, <2>2, Loosened
<1> QED
  BY <1>1, <1>2, <1>3, <1>4, <1>5, <1>6, <1>7, <1>8, <1>9, <1>10, <1>11, <1>12, <1>13,
     <1>14, <1>15 DEF SesNext

LEMMA SesAlways == SesSpec => []SesInv
<1> QED
  BY SesInitInv, SesNextInv, PTL DEF SesSpec

\* However many tabs present a token at once, over any number of rotations, it is
\* exchanged for at most one session (refresh of auth.service.ts).
THEOREM Unforked == SesSpec => []ChainNeverForks
<1>1. SesInv => ChainNeverForks
  <2> SUFFICES ASSUME SesInv PROVE ChainNeverForks
    OBVIOUS
  <2>1. 1..sesCount \subseteq Rows
    BY SesAssumption DEF SesInv, BoundInv, Rows
  <2> QED
    BY <2>1 DEF SesInv, TreeInv, ChainNeverForks
<1> QED
  BY <1>1, SesAlways, PTL

\* After a password reset, no session opened before it is live, and none that
\* descends from one but by the rotation that was under way.
THEOREM SignedOut == SesSpec => []SignedOutEverywhere
<1>1. SesInv => SignedOutEverywhere
  BY DEF SesInv, MarkInv
<1> QED
  BY <1>1, SesAlways, PTL

\* A token is taken for stolen only after one of the events listed by Sessions,
\* whatever tabs and devices do.
THEOREM Explained == SesSpec => []ReuseExplained
<1>1. SesInv => ReuseExplained
  BY DEF SesInv, ReuseInv, ReuseExplained, At
<1> QED
  BY <1>1, SesAlways, PTL

\* What the invariant leaves out: which rows are fresh, excused or being rotated.
MarksInv == sesFresh \subseteq Rows /\ sesExcused \subseteq Rows /\ sesPending \subseteq Rows

LEMMA MarksKept == ASSUME SesInv, MarksInv, [SesNext]_sesVars PROVE MarksInv'
<1>1. sesLive \subseteq Rows /\ sesReq \in [Tabs -> Requests]
  BY DEF SesInv, BoundInv
<1>2. \A t \in Tabs : sesReq[t].at \in Carrying => sesReq[t].ses \in Rows
  BY <1>1, SesAssumption DEF SesInv, BoundInv, Requests, Rows
<1>3. ASSUME NEW t \in Tabs, ClaimRotation(t) \/ Logout(t) PROVE MarksInv'
  <2>1. sesReq[t].ses \in Rows
    BY <1>2, <1>3 DEF ClaimRotation, Logout, At, Carrying
  <2> QED
    BY <1>3, <2>1 DEF ClaimRotation, Logout, Revoke, MarksInv, rows, history
<1>4. ASSUME NEW t \in Tabs, CountSuccessor(t) PROVE MarksInv'
  <2>1. sesReq[t].ses \in Rows
    BY <1>2, <1>4 DEF CountSuccessor, At, Carrying
  <2>2. sesExcused' \subseteq sesExcused \cup {sesReq[t].ses}
    BY <1>4 DEF CountSuccessor
  <2> QED
    BY <1>4, <2>1, <2>2 DEF CountSuccessor, MarksInv, rows
<1>5. ASSUME NEW t \in Tabs, DetectReuse(t) \/ Lose(t) PROVE MarksInv'
  BY <1>1, <1>5 DEF DetectReuse, Lose, Revoke, MarksInv, rows
<1>6. CASE RevokeSome
  BY <1>1, <1>6 DEF RevokeSome, Revoke, MarksInv
<1>7. CASE RevokeAll
  <2>1. \A t \in Tabs : At(t, "claimed") => sesReq[t].ses \in Rows
    BY <1>2 DEF At, Carrying
  <2> QED
    BY <1>1, <1>7, <2>1 DEF RevokeAll, Revoke, MarksInv
<1>8. ASSUME NEW s \in Rows, GraceEnds(s) PROVE MarksInv'
  <2>1. sesExcused' \subseteq sesExcused \cup {s}
    BY <1>8 DEF GraceEnds
  <2> QED
    BY <1>8, <2>1 DEF GraceEnds, MarksInv
<1>9. CASE UNCHANGED <<sesFresh, sesExcused, sesPending>>
  BY <1>9 DEF MarksInv
<1> QED
  BY <1>3, <1>4, <1>5, <1>6, <1>7, <1>8, <1>9
  DEF SesNext, sesVars, rows, history, Login, CreateSession, RestoreSession, ReadSession,
      CreateSuccessor, ReadLogout, Receive

\* Sessions, cookies and requests keep their types.
THEOREM SessionTypes == SesSpec => []SesTypeOK
<1>1. SesInit => MarksInv
  BY DEF SesInit, MarksInv
<1>2. SesInv /\ MarksInv /\ [SesNext]_sesVars => MarksInv'
  BY MarksKept
<1>3. SesInv /\ MarksInv => SesTypeOK
  BY SesAssumption DEF SesInv, BoundInv, MarkInv, MarksInv, SesTypeOK, SesAssumption
<1> QED
  BY <1>1, <1>2, <1>3, SesAlways, PTL DEF SesSpec
=============================================================================
