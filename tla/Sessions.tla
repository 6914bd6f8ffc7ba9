------------------------------ MODULE Sessions ------------------------------
(***************************************************************************)
(* One user's sessions: a login creates a row of AuthSession, whose token  *)
(* lives in a cookie shared by the tabs of a device; a refresh revokes the *)
(* row and creates its successor; a revoked token that comes back revokes  *)
(* every session of the user, except for a few seconds after a rotation.   *)
(*                                                                         *)
(* One action is one statement of the API, or one event of the browser. A  *)
(* tab has one request at a time (the single flight of lib/auth.ts).       *)
(***************************************************************************)
EXTENDS Integers, FiniteSets

CONSTANTS
    Devices,       \* browsers, each with its cookie
    Tabs,
    DeviceOf,      \* [Tabs -> Devices]
    MaxSessions    \* bound: rows created in a behaviour

ASSUME SesAssumption ==
    /\ DeviceOf \in [Tabs -> Devices]
    /\ MaxSessions \in Nat

VARIABLES
    sesCount,     \* rows created: session s is the s-th
    sesParent,    \* [Rows -> 0..MaxSessions]: rotatedFromSessionId, 0 when null
    sesLive,      \* rows whose revokedAt is null
    sesFresh,     \* rows revoked less than REFRESH_ROTATION_GRACE_MS ago
    sesCookie,    \* [Devices -> 0..MaxSessions]: the session of the cookie, 0 without one
    sesReq,       \* [Tabs -> Requests]
    sesExcused,   \* rows whose token may come back for a reason of the protocol
    sesMark,      \* how many rows there were when the user was last signed out everywhere
    sesPending    \* rows being rotated at that moment

sesVars == <<sesCount, sesParent, sesLive, sesFresh, sesCookie, sesReq, sesExcused,
             sesMark, sesPending>>

rows    == <<sesCount, sesParent, sesLive, sesFresh>>
history == <<sesExcused, sesMark, sesPending>>

Rows  == 1..MaxSessions
Steps == {"idle", "sent", "live", "counting", "reusing", "claimed", "leaving",
          "answered", "left"}

\* A tab's request: what comes next, and the session it is about.
Request(step, s) == [at |-> step, ses |-> s]
NoRequest == Request("idle", 0)
Requests  == [at : Steps, ses : 0..MaxSessions]

At(t, step)    == sesReq[t].at = step
Goes(t, step, s) == sesReq' = [sesReq EXCEPT ![t] = Request(step, s)]
Ends(t)        == sesReq' = [sesReq EXCEPT ![t] = NoRequest]
CookieOf(t)    == sesCookie[DeviceOf[t]]
Successor(s)   == \E child \in Rows : child <= sesCount /\ sesParent[child] = s

\* What a request carries that its browser has not heard of yet.
Unheard(t, s) ==
    \/ sesReq[t].at \in {"sent", "counting", "claimed"} /\ sesReq[t].ses = s
    \/ At(t, "answered") /\ sesReq[t].ses # 0 /\ sesParent[sesReq[t].ses] = s

SesInit ==
    /\ sesCount = 0
    /\ sesParent = [s \in Rows |-> 0]
    /\ sesLive = {} /\ sesFresh = {}
    /\ sesCookie = [d \in Devices |-> 0]
    /\ sesReq = [t \in Tabs |-> NoRequest]
    /\ sesExcused = {}
    /\ sesMark = 0 /\ sesPending = {}

\* createSession, with the row that it succeeds.
CreateSession(parent) ==
    /\ sesCount < MaxSessions
    /\ sesCount' = sesCount + 1
    /\ sesParent' = [sesParent EXCEPT ![sesCount'] = parent]
    /\ sesLive' = sesLive \cup {sesCount'}
    /\ UNCHANGED sesFresh

Revoke(S) ==
    /\ sesLive' = sesLive \ S
    /\ sesFresh' = sesFresh \cup S
    /\ UNCHANGED <<sesCount, sesParent>>

\* Logging in, verifying an address, accepting an invitation: a new chain.
Login(t) ==
    /\ At(t, "idle")
    /\ CreateSession(0)
    /\ Goes(t, "answered", sesCount')
    /\ UNCHANGED <<sesCookie, history>>

\* A page opens, a token is about to expire, or a request was answered 401.
RestoreSession(t) ==
    /\ At(t, "idle") /\ CookieOf(t) # 0
    /\ Goes(t, "sent", CookieOf(t))
    /\ UNCHANGED <<rows, sesCookie, history>>

\* A live session may have expired and its user be suspended: refused.
ReadSession(t) ==
    LET s == sesReq[t].ses
    IN  /\ At(t, "sent")
        /\ \/ s \in sesLive /\ (Goes(t, "live", s) \/ Ends(t))
           \/ s \notin sesLive /\ s \in sesFresh /\ Goes(t, "counting", s)
           \/ s \notin sesLive /\ s \notin sesFresh /\ Goes(t, "reusing", s)
        /\ UNCHANGED <<rows, sesCookie, history>>

\* Mutant: the token is revoked by its id alone, whoever revoked it before.
ClaimRotation_Unconditional(t) ==
    LET s == sesReq[t].ses
    IN  /\ At(t, "live")
        /\ Revoke({s}) /\ Goes(t, "claimed", s)
        /\ UNCHANGED <<sesCookie, history>>

ClaimRotation(t) ==
    LET s == sesReq[t].ses
    IN  /\ At(t, "live")
        /\ IF s \in sesLive
           THEN Revoke({s}) /\ Goes(t, "claimed", s)
           ELSE UNCHANGED rows /\ Goes(t, "answered", 0)
        /\ UNCHANGED <<sesCookie, history>>

CreateSuccessor(t) ==
    /\ At(t, "claimed")
    /\ CreateSession(sesReq[t].ses)
    /\ Goes(t, "answered", sesCount')
    /\ UNCHANGED <<sesCookie, history>>

\* isConcurrentRotation. A successor that is still to be created is not seen.
CountSuccessor(t) ==
    LET s == sesReq[t].ses
        Rotating == \E other \in Tabs : At(other, "claimed") /\ sesReq[other].ses = s
    IN  /\ At(t, "counting")
        /\ IF Successor(s)
           THEN Goes(t, "answered", 0) /\ UNCHANGED sesExcused
           ELSE /\ Goes(t, "reusing", s)
                /\ sesExcused' = sesExcused \cup (IF Rotating THEN {s} ELSE {})
        /\ UNCHANGED <<rows, sesCookie, sesMark, sesPending>>

\* Every session of the user is revoked, and the request refused.
DetectReuse(t) ==
    /\ At(t, "reusing")
    /\ Revoke(sesLive)
    /\ sesExcused' = sesExcused \cup sesLive
    /\ Ends(t)
    /\ UNCHANGED <<sesCookie, sesMark, sesPending>>

ReadLogout(t) ==
    /\ At(t, "idle") /\ CookieOf(t) # 0
    /\ IF CookieOf(t) \in sesLive
       THEN Goes(t, "leaving", CookieOf(t))
       ELSE Goes(t, "left", 0)
    /\ UNCHANGED <<rows, sesCookie, history>>

Logout(t) ==
    /\ At(t, "leaving")
    /\ Revoke({sesReq[t].ses})
    /\ sesExcused' = sesExcused \cup {sesReq[t].ses}
    /\ Goes(t, "left", 0)
    /\ UNCHANGED <<sesCookie, sesMark, sesPending>>

\* Mutant: the answer to a refresh does not carry the new cookie.
Receive_OldCookie(t) ==
    /\ sesReq[t].at \in {"answered", "left"}
    /\ sesCookie' = IF At(t, "answered") /\ (sesReq[t].ses = 0 \/ CookieOf(t) # 0) THEN sesCookie
                    ELSE [sesCookie EXCEPT ![DeviceOf[t]] = sesReq[t].ses]
    /\ Ends(t)
    /\ UNCHANGED <<rows, history>>

\* The answer reaches the browser; without a new token it leaves the cookie.
Receive(t) ==
    /\ sesReq[t].at \in {"answered", "left"}
    /\ sesCookie' = IF At(t, "answered") /\ sesReq[t].ses = 0 THEN sesCookie
                    ELSE [sesCookie EXCEPT ![DeviceOf[t]] = sesReq[t].ses]
    /\ Ends(t)
    /\ UNCHANGED <<rows, history>>

\* The answer is lost, or the API process stops in the middle of the request.
Lose(t) ==
    /\ ~At(t, "idle")
    /\ sesExcused' = sesExcused \cup {s \in Rows : Unheard(t, s)}
    /\ Ends(t)
    /\ UNCHANGED <<rows, sesCookie, sesMark, sesPending>>

\* Another session is closed from the list, or all the others are (a change of
\* password keeps the session it is made from).
RevokeSome ==
    /\ \E S \in {{s} : s \in sesLive} \cup {sesLive \ {s} : s \in sesLive} :
          /\ S # {}
          /\ Revoke(S)
          /\ sesExcused' = sesExcused \cup S
    /\ UNCHANGED <<sesCookie, sesReq, sesMark, sesPending>>

\* A password reset and a change of address sign the user out everywhere.
RevokeAll ==
    /\ sesCount > 0
    /\ Revoke(sesLive)
    /\ sesExcused' = sesExcused \cup sesLive
    /\ sesMark' = sesCount
    /\ sesPending' = {sesReq[t].ses : t \in {u \in Tabs : At(u, "claimed")}}
    /\ UNCHANGED <<sesCookie, sesReq>>

GraceEnds(s) ==
    /\ s \in sesFresh
    /\ sesFresh' = sesFresh \ {s}
    /\ sesExcused' = sesExcused \cup (IF \E t \in Tabs : Unheard(t, s) THEN {s} ELSE {})
    /\ UNCHANGED <<sesCount, sesParent, sesLive, sesCookie, sesReq, sesMark, sesPending>>

SesNext ==
    \/ \E t \in Tabs :
          \/ Login(t) \/ RestoreSession(t) \/ ReadSession(t) \/ ClaimRotation(t)
          \/ CreateSuccessor(t) \/ CountSuccessor(t) \/ DetectReuse(t) \/ ReadLogout(t)
          \/ Logout(t) \/ Receive(t) \/ Lose(t)
    \/ RevokeSome \/ RevokeAll
    \/ \E s \in Rows : GraceEnds(s)

SesSpec == SesInit /\ [][SesNext]_sesVars

-----------------------------------------------------------------------------
SesTypeOK ==
    /\ sesCount \in 0..MaxSessions
    /\ sesParent \in [Rows -> 0..MaxSessions]
    /\ sesLive \subseteq Rows /\ sesFresh \subseteq Rows
    /\ sesCookie \in [Devices -> 0..MaxSessions]
    /\ sesReq \in [Tabs -> Requests]
    /\ sesExcused \subseteq Rows
    /\ sesMark \in 0..MaxSessions /\ sesPending \subseteq Rows

\* However many requests present a token at the same time, it is exchanged for
\* one new session at most: a chain never forks (the conditional revocation of refresh).
ChainNeverForks ==
    \A a, b \in 1..sesCount :
        a # b /\ sesParent[a] = sesParent[b] => sesParent[a] = 0

\* Once the user is signed out everywhere, a session that is live was opened by
\* a later login, or descends from the one rotation that had already revoked its
\* token and not yet created the next one.
SignedOutEverywhere ==
    \A s \in sesLive :
        /\ s > sesMark
        /\ sesParent[s] \in 1..sesMark => sesParent[s] \in sesPending

\* Browsers never make the API believe that a token was stolen, except for the
\* reasons a browser cannot help: its session was revoked elsewhere, an answer
\* was lost or later than the grace period, a process stopped half-way, or two
\* tabs refreshed together and one was read before the other's successor existed.
ReuseExplained == \A t \in Tabs : At(t, "reusing") => sesReq[t].ses \in sesExcused
=============================================================================
