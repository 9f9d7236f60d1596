----------------------- MODULE InspectorClientProofs -----------------------
(***************************************************************************)
(* Proofs about InspectorClient for any number of tabs, attempts, requests *)
(* and other commands, and a browser that answers when it likes.           *)
(***************************************************************************)
EXTENDS InspectorClient, SequenceTheorems, TLAPS

-----------------------------------------------------------------------------
(***************************************************************************)
(* What makes the properties inductive.  Each part says of one piece of    *)
(* the state what the phase of the session makes of it.                    *)
(***************************************************************************)
Trying == {"tunnel", "select", "discover", "ask"}
OnTab == {"discover", "ask", "ready", "call"}
Running == {"ready", "call"}

(* connect_session() starts when tunnel() has yielded, with a clean slate. *)
TunnelFirst ==
    /\ tunnel[Self] \in {"none", "starting"} => session.phase = "tunnel"
    /\ session.phase = "tunnel" =>
           session.tab = 1 /\ session.first = 0 /\ session.open = {}

(* The fallback is one of the tabs that were tried, and a session on a tab
   has one. *)
TabInRange ==
    /\ session.phase \in OnTab => session.tab \in Tab
    /\ session.phase \in Trying => session.first < session.tab

(* A socket has had at most one request before a session runs on it, and then
   no more than were counted. *)
IdsCounted ==
    /\ session.phase \in Trying =>
           \A t \in Tab : /\ t > session.tab => inner[t] = 0
                          /\ inner[t] <= 1
    /\ session.phase \in {"tunnel", "select", "discover"} /\ session.tab \in Tab =>
           inner[session.tab] = 0
    /\ session.phase = "ask" \/ (session.phase \in Trying /\ session.first # 0) =>
           answer.asked >= 1
    /\ session.phase \in Running => inner[session.tab] <= answer.asked

Requests(t) == pending[t] \union
               {inbox[t][i].request : i \in 1..Len(inbox[t])}

(* No socket carries an inner id that was not given out yet. *)
IdsGivenOut == \A t \in Tab : \A r \in Requests(t) : r.id <= inner[t]

(* The id that is waited for is the newest, and the request's own. *)
WantedIsAsked ==
    session.phase \in {"ask", "call"} =>
        /\ session.want = inner[session.tab]
        /\ session.want > 0
        /\ \A r \in Requests(session.tab) :
              r.id = session.want => r.serial = answer.asked

(* What _select() knows when it has come to a tab. *)
TabsTried ==
    session.phase \in Trying =>
        /\ \A t \in Tab : IF t < session.tab
                          THEN seen[t] \in {"mute", "hidden", "unknown"}
                          ELSE seen[t] = "untried"
        /\ \A t \in Tab : t < session.tab /\ (session.first = 0 \/ t < session.first)
                             => seen[t] = "mute"
        /\ session.first # 0 => seen[session.first] # "mute"

SocketsOpen ==
    /\ session.phase = "select" => session.open \subseteq {session.first}
    /\ session.phase \in {"discover", "ask"} =>
           session.open \subseteq {session.tab, session.first}

-----------------------------------------------------------------------------
(***************************************************************************)
(* Selection: the tabs, the fallback, the sockets and the tunnel.          *)
(***************************************************************************)
SessionOK ==
    /\ session \in [phase : {"tunnel", "select", "discover", "ask", "ready",
                             "call", "over"},
                    tab : 1..Tabs + 1, tries : 0..Attempts,
                    want : Nat, first : 0..Tabs, open : SUBSET Tab]
    /\ seen \in [Tab -> Verdict \union {"untried", "mute", "unknown"}]

TunnelOK ==
    /\ userTunnel \in BOOLEAN
    /\ tunnel \in [Command -> {"none", "starting", "owned", "reused", "left"}]
    /\ ssh \in [Command -> {"none", "connecting", "forwarding", "refused"}]

SelectInv ==
    /\ SessionOK
    /\ TabInRange
    /\ TabsTried
    /\ SocketsOpen
    /\ ShownTabChosen
    /\ SocketsBounded

LEMMA Numbers ==
  /\ Tabs \in Nat /\ Tabs > 0
  /\ Attempts \in Nat /\ Attempts > 0
  /\ MaxRequests \in Nat /\ MaxRequests > 0
  BY ClientAssumption

LEMMA SelectInit == Init => SelectInv /\ TunnelOK /\ TunnelFirst
<1> SUFFICES ASSUME Init
             PROVE  SelectInv /\ TunnelOK /\ TunnelFirst
  OBVIOUS
<1> USE Numbers DEF Init
<1>1. SessionOK
  BY DEF SessionOK, Tab
<1>2. TunnelOK /\ TunnelFirst
  BY DEF TunnelOK, TunnelFirst, Command
<1>3. TabInRange /\ TabsTried /\ SocketsOpen /\ ShownTabChosen /\ SocketsBounded
  BY DEF TabInRange, TabsTried, SocketsOpen, ShownTabChosen, SocketsBounded,
         OnTab, Trying, Tab
<1> QED BY <1>1, <1>2, <1>3 DEF SelectInv

(* The steps that end the session without a word about the tabs. *)
LEMMA SelectOver ==
  ASSUME SelectInv, TunnelFirst, UNCHANGED seen,
         \/ /\ session.phase \in {"tunnel", "select"}
            /\ session' = [session EXCEPT !.phase = "over"]
         \/ /\ session.phase \in {"discover", "ready", "call"}
            /\ session' = [session EXCEPT !.phase = "over",
                                          !.open = @ \ {session.tab}]
  PROVE  SelectInv'
<1> USE DEF SelectInv
<1>1. /\ session' \in [phase : {"over"}, tab : 1..Tabs + 1, tries : 0..Attempts,
                       want : Nat, first : 0..Tabs, open : SUBSET Tab]
      /\ session'.open \subseteq {session'.first}
  <2>1. CASE /\ session.phase \in {"tunnel", "select"}
             /\ session' = [session EXCEPT !.phase = "over"]
    <3>1. session.open \subseteq {session.first}
      BY <2>1 DEF SocketsOpen, TunnelFirst
    <3> QED BY <2>1, <3>1 DEF SessionOK
  <2>2. CASE /\ session.phase \in {"discover", "ready", "call"}
             /\ session' = [session EXCEPT !.phase = "over",
                                           !.open = @ \ {session.tab}]
    <3>1. session.open \ {session.tab} \subseteq {session.first}
      BY <2>2 DEF SocketsOpen, SocketsBounded
    <3> QED BY <2>2, <3>1 DEF SessionOK
  <2> QED BY <2>1, <2>2
<1>2. SessionOK'
  BY <1>1 DEF SessionOK
<1>3. TabInRange' /\ TabsTried' /\ SocketsOpen' /\ ShownTabChosen' /\ SocketsBounded'
  BY <1>1 DEF TabInRange, TabsTried, SocketsOpen, ShownTabChosen,
              SocketsBounded, OnTab, Trying
<1> QED BY <1>2, <1>3

LEMMA SelectFrame ==
  ASSUME SelectInv, UNCHANGED <<session, seen>>
  PROVE  SelectInv'
  BY DEF SelectInv, SessionOK, TabInRange, TabsTried, SocketsOpen,
         ShownTabChosen, SocketsBounded

(* tunnel(), in this command and in the others. *)
LEMMA TunnelSteps ==
  ASSUME SelectInv, TunnelOK, TunnelFirst, NEW c \in Command,
         \/ OpenTunnel(c) \/ SshConnects(c) \/ TunnelUp(c)
         \/ TunnelFails(c) \/ LeaveTunnel(c)
  PROVE  SelectInv' /\ TunnelOK' /\ TunnelFirst'
<1> USE DEF TunnelStep
<1>1. Self \in Command
  BY DEF Command
<1>2. TunnelOK'
  BY DEF OpenTunnel, SshConnects, TunnelUp, TunnelFails, LeaveTunnel, TunnelOK
<1>3. SelectInv' /\ TunnelFirst'
  <2>1. CASE session' = session
    <3>1. tunnel'[Self] \in {"none", "starting"} => session.phase = "tunnel"
      BY <1>1, <2>1
      DEF OpenTunnel, SshConnects, TunnelUp, TunnelFails, LeaveTunnel,
          TunnelOK, TunnelFirst
    <3>2. seen' = seen
      BY DEF OpenTunnel, SshConnects, TunnelUp, TunnelFails, LeaveTunnel
    <3> QED BY <2>1, <3>1, <3>2, SelectFrame DEF TunnelFirst
  <2>2. CASE c = Self /\ TunnelFails(c)
    <3>1. session.phase = "tunnel"
      BY <2>2 DEF TunnelFails, TunnelFirst
    <3>2. /\ session' = [session EXCEPT !.phase = "over"]
          /\ tunnel'[Self] = "left"
          /\ seen' = seen
      BY <1>1, <2>2 DEF TunnelFails, TunnelOK, Goto
    <3>3. SelectInv'
      BY <3>1, <3>2, SelectOver
    <3> QED BY <3>2, <3>3 DEF TunnelFirst, SelectInv, SessionOK
  <2> QED
    BY <2>1, <2>2 DEF OpenTunnel, SshConnects, TunnelUp, TunnelFails, LeaveTunnel
<1> QED BY <1>2, <1>3

(* Steps on the tab at hand that learn nothing about it: the tab, the
   fallback, the open sockets and the verdicts stay. *)
LEMMA SameTab ==
  ASSUME SelectInv, UNCHANGED seen, session' \in [phase : {"select", "discover", "ask", "ready", "call"},
                    tab : 1..Tabs + 1, tries : 0..Attempts,
                    want : Nat, first : 0..Tabs, open : SUBSET Tab],
         session'.tab = session.tab, session'.first = session.first,
         \/ /\ session'.phase = session.phase
            /\ session'.open = session.open
         \/ /\ session.phase = "tunnel" /\ session'.phase = "select"
            /\ session'.open = {}
         \/ /\ session.phase = "select" /\ session'.phase = "discover"
            /\ session.tab \in Tab
            /\ session'.open = session.open \union {session.tab}
         \/ /\ session.phase = "discover" /\ session'.phase = "ask"
            /\ session'.open = session.open
         \/ /\ session.phase \in Running /\ session'.phase \in Running
            /\ session'.open = session.open
  PROVE  SelectInv'
<1> USE DEF SelectInv
<1>1. SessionOK'
  BY DEF SessionOK
<1>2. TabInRange'
  BY DEF TabInRange, OnTab, Trying, Running
<1>3. TabsTried'
  BY DEF TabsTried, Trying, Running
<1>4. SocketsOpen'
  BY DEF SocketsOpen, Running
<1>5. ShownTabChosen' /\ SocketsBounded'
  BY DEF ShownTabChosen, SocketsBounded, Running
<1> QED BY <1>1, <1>2, <1>3, <1>4, <1>5

(* A tab is passed over, with what was learned of it: closed, or kept as the
   first fallback. *)
LEMMA NextTab ==
  ASSUME SelectInv, session.phase \in {"discover", "ask"},
         NEW v \in {"mute", "hidden", "unknown"},
         seen' = [seen EXCEPT ![session.tab] = v],
         \/ /\ v = "mute"
            /\ session' = [session EXCEPT !.phase = "select", !.tab = @ + 1,
                                          !.open = @ \ {session.tab}]
         \/ v # "mute" /\ PassOver
  PROVE  SelectInv'
<1> DEFINE t == session.tab
<1> USE DEF SelectInv, Verdict
<1>1. /\ t \in Tab /\ t \in Nat
      /\ session.first \in Nat /\ session.first < t
      /\ session.first # 0 => session.first \in Tab
      /\ Tabs \in Nat /\ 0 \notin Tab
      /\ t \in 0..Tabs /\ t + 1 \in 1..Tabs + 1
  BY Numbers DEF TabInRange, OnTab, Trying, SessionOK, Tab
<1>2. /\ session' \in [phase : {"select"}, tab : 1..Tabs + 1, tries : 0..Attempts,
                       want : Nat, first : 0..Tabs, open : SUBSET Tab]
      /\ session'.tab = t + 1
      /\ session'.first = IF v # "mute" /\ session.first = 0 THEN t ELSE session.first
      /\ session'.open = IF v # "mute" /\ session.first = 0 THEN session.open
                         ELSE session.open \ {t}
  <2>1. CASE v = "mute"
    <3>1. session' = [session EXCEPT !.phase = "select", !.tab = t + 1,
                                     !.open = session.open \ {t}]
      BY <2>1 DEF SessionOK
    <3> QED BY <1>1, <2>1, <3>1 DEF SessionOK
  <2>2. CASE v # "mute" /\ PassOver
    <3>1. session' = [session EXCEPT !.phase = "select", !.tab = t + 1,
                 !.first = IF session.first = 0 THEN t ELSE session.first,
                 !.open = IF session.first = 0 THEN session.open
                          ELSE session.open \ {t}]
      BY <2>2 DEF PassOver, SessionOK
    <3>2. CASE session.first = 0
      BY <1>1, <2>2, <3>1, <3>2 DEF SessionOK
    <3>3. CASE session.first # 0
      BY <1>1, <2>2, <3>1, <3>3 DEF SessionOK
    <3> QED BY <3>2, <3>3
  <2> QED BY <2>1, <2>2
<1>3. SessionOK'
  BY <1>1, <1>2 DEF SessionOK
<1>4. TabInRange'
  BY <1>1, <1>2 DEF TabInRange, OnTab, Trying
<1>5. \A k \in Tab : seen'[k] = IF k = t THEN v ELSE seen[k]
  BY DEF SessionOK
<1>6. TabsTried'
  <2>1. \A k \in Tab : k \in Nat
    BY DEF Tab
  <2>2. \A k \in Tab : IF k < t THEN seen[k] \in {"mute", "hidden", "unknown"}
                                ELSE seen[k] = "untried"
    BY DEF TabsTried, Trying
  <2>3. \A k \in Tab : k < t /\ (session.first = 0 \/ k < session.first)
                          => seen[k] = "mute"
    BY DEF TabsTried, Trying
  <2>4. session.first # 0 => seen[session.first] # "mute"
    BY DEF TabsTried, Trying
  <2>5. \A k \in Tab : IF k < t + 1 THEN seen'[k] \in {"mute", "hidden", "unknown"}
                                    ELSE seen'[k] = "untried"
    BY <1>1, <1>5, <2>1, <2>2
  <2>6. \A k \in Tab : k < t + 1 /\ (session'.first = 0 \/ k < session'.first)
                          => seen'[k] = "mute"
    BY <1>1, <1>2, <1>5, <2>1, <2>3
  <2>7. session'.first # 0 => seen'[session'.first] # "mute"
    BY <1>1, <1>2, <1>5, <2>4
  <2> QED BY <1>2, <2>5, <2>6, <2>7 DEF TabsTried
<1>7. SocketsOpen'
  <2>1. session.open \subseteq {t, session.first} /\ session.open \subseteq Tab
    BY DEF SocketsOpen, SessionOK
  <2> QED BY <1>1, <1>2, <2>1 DEF SocketsOpen
<1>8. ShownTabChosen' /\ SocketsBounded'
  BY <1>2 DEF ShownTabChosen, SocketsBounded
<1> QED BY <1>3, <1>4, <1>6, <1>7, <1>8

(* The tab that shows itself is the one. *)
LEMMA ShownTab ==
  ASSUME SelectInv, session.phase = "ask",
         seen' = [seen EXCEPT ![session.tab] = "visible"],
         session' = [session EXCEPT !.phase = "ready"]
  PROVE  SelectInv'
<1> USE DEF SelectInv
<1>1. /\ session' \in [phase : {"ready"}, tab : 1..Tabs + 1, tries : 0..Attempts,
                       want : Nat, first : 0..Tabs, open : SUBSET Tab]
      /\ session'.tab = session.tab /\ session'.first = session.first
      /\ session'.open = session.open
      /\ session.tab \in Tab
  BY DEF SessionOK, TabInRange, OnTab
<1>2. SessionOK' /\ TabInRange' /\ TabsTried' /\ SocketsOpen'
  BY <1>1 DEF SessionOK, Verdict, TabInRange, TabsTried, SocketsOpen, OnTab, Trying
<1>3. ShownTabChosen' /\ SocketsBounded'
  BY <1>1 DEF SessionOK, ShownTabChosen, SocketsBounded, SocketsOpen
<1> QED BY <1>2, <1>3

(* No tab is left: the fallback is the first that has a target. *)
LEMMA Fallback ==
  ASSUME SelectInv, session.phase = "select", session.tab > Tabs,
         session.first # 0, UNCHANGED seen,
         session' = [session EXCEPT !.phase = "ready", !.tab = session.first]
  PROVE  SelectInv'
<1> USE DEF SelectInv
<1>1. /\ session.first \in Tab
      /\ session.tab \in Nat
      /\ \A k \in Tab : k \in Nat /\ k < session.tab
      /\ session.first \in Nat /\ session.first \in 1..Tabs + 1
  BY Numbers DEF SessionOK, Tab
<1>2. /\ session' \in [phase : {"ready"}, tab : 1..Tabs + 1, tries : 0..Attempts,
                       want : Nat, first : 0..Tabs, open : SUBSET Tab]
      /\ session'.tab = session.first
      /\ session'.open = session.open
      /\ session'.first = session.first
  BY <1>1 DEF SessionOK
<1>3. SessionOK' /\ TabInRange' /\ TabsTried' /\ SocketsOpen'
  BY <1>1, <1>2 DEF SessionOK, TabInRange, TabsTried, SocketsOpen, OnTab, Trying
<1>4. ShownTabChosen'
  <2>1. \A k \in Tab : seen[k] \notin {"visible", "untried"}
    BY <1>1 DEF TabsTried, Trying
  <2>2. seen[session.first] # "mute"
    BY DEF TabsTried, Trying
  <2>3. \A k \in 1..session.first - 1 : seen[k] = "mute"
    <3>1. \A k \in 1..session.first - 1 : k \in Tab /\ k < session.first
      BY <1>1, Numbers DEF Tab
    <3> QED BY <1>1, <3>1 DEF TabsTried, Trying
  <2> QED BY <1>2, <2>1, <2>2, <2>3 DEF ShownTabChosen
<1>5. SocketsBounded'
  BY <1>2 DEF SocketsBounded, SocketsOpen
<1> QED BY <1>3, <1>4, <1>5

(* connect_session(), _select() and what the session does on its tab. *)
ClientStep ==
    ListTargets \/ Select \/ Call \/ Enable \/ CallReturns \/ Pump \/ EndSession

LEMMA ClientSelect ==
  ASSUME SelectInv, TunnelFirst, inner \in [Tab -> Nat], ClientStep
  PROVE  SelectInv'
<1> USE Numbers
<1>0. /\ SessionOK
      /\ session.phase \in OnTab => session.tab \in Tab
  BY DEF SelectInv, TabInRange
<1>1. CASE ListTargets
  <2>1. CASE session' = [session EXCEPT !.phase = "select"]
    BY <1>0, <1>1, <2>1, SameTab DEF ListTargets, SessionOK, TunnelFirst
  <2>2. CASE session' = [session EXCEPT !.phase = "over"]
    BY <1>1, <2>2, SelectOver DEF ListTargets
  <2> QED BY <1>1, <2>1, <2>2 DEF ListTargets, Goto
<1>2. CASE OpenTab
  <2>1. CASE Goto("over")
    BY <1>2, <2>1, SelectOver DEF OpenTab, Goto
  <2>2. CASE session' = [session EXCEPT !.phase = "discover", !.tries = Attempts,
                                        !.open = @ \union {session.tab}]
    <3>1. session.tab \in Tab
      BY <1>0, <1>2 DEF OpenTab, SessionOK, Tab
    <3>2. session.open \union {session.tab} \in SUBSET Tab
      BY <1>0, <3>1 DEF SessionOK
    <3>3. Attempts \in 0..Attempts
      OBVIOUS
    <3>4. /\ session' \in [phase : {"discover"}, tab : 1..Tabs + 1, tries : 0..Attempts,
                            want : Nat, first : 0..Tabs, open : SUBSET Tab]
          /\ session'.tab = session.tab /\ session'.first = session.first
          /\ session'.open = session.open \union {session.tab}
      BY <1>0, <2>2, <3>2, <3>3 DEF SessionOK
    <3> QED BY <1>2, <3>1, <3>4, SameTab DEF OpenTab
  <2> QED BY <1>2, <2>1, <2>2 DEF OpenTab
<1>3. CASE TargetFound \/ Call \/ Enable
  <2>1. PICK phase \in {"ask", "call", "ready"} :
           session' = [session EXCEPT !.phase = phase, !.want = NextInnerId(session.tab),
                                      !.tries = Attempts]
    BY <1>3 DEF TargetFound, Call, Enable, SendToTarget
  <2>2. /\ \/ session.phase = "discover" /\ session'.phase = "ask"
           \/ session.phase \in Running /\ session'.phase \in Running
        /\ session.tab \in Tab
        /\ seen' = seen
    BY <1>0, <1>3 DEF TargetFound, Call, Enable, SendToTarget, Running, OnTab, SessionOK
  <2>3. NextInnerId(session.tab) \in Nat
    BY <2>2 DEF NextInnerId
  <2>4. Attempts \in 0..Attempts
    OBVIOUS
  <2>5. /\ session' \in [phase : {"ask", "call", "ready"}, tab : 1..Tabs + 1,
                          tries : 0..Attempts, want : Nat, first : 0..Tabs,
                          open : SUBSET Tab]
        /\ session'.tab = session.tab /\ session'.first = session.first
        /\ session'.open = session.open
    BY <1>0, <2>1, <2>3, <2>4 DEF SessionOK
  <2> QED BY <2>2, <2>5, SameTab
<1>4. CASE TargetMissing
  BY <1>4, NextTab DEF TargetMissing
<1>5. CASE SkipFrame
  <2>1. session.tries \in Nat /\ session.tries # 0
    BY <1>0, <1>5 DEF SkipFrame, GivenUp, SessionOK
  <2>2. session' = [session EXCEPT !.tries = @ - 1] /\ seen' = seen
    BY <1>5 DEF SkipFrame
  <2>3. session.phase \in {"discover", "ask", "call"}
    BY <1>5 DEF SkipFrame, Waiting
  <2> QED BY <1>0, <2>1, <2>2, <2>3, SameTab DEF SessionOK
<1>6. CASE Judge
  <2>1. PICK v \in Verdict \union {"unknown"} :
           /\ session.phase = "ask"
           /\ seen' = [seen EXCEPT ![session.tab] = v]
           /\ IF Shown(v) THEN Goto("ready") ELSE PassOver
    BY <1>6 DEF Judge
  <2>2. CASE v = "visible"
    BY <2>1, <2>2, ShownTab DEF Shown, Goto
  <2>3. CASE v \in {"hidden", "unknown"}
    BY <2>1, <2>3, NextTab DEF Shown
  <2> QED BY <2>1, <2>2, <2>3 DEF Verdict
<1>7. CASE SelectFallback
  <2>1. CASE session.first = 0
    BY <1>7, <2>1, SelectOver DEF SelectFallback, Goto
  <2>2. CASE session.first # 0
    BY <1>7, <2>2, Fallback DEF SelectFallback
  <2> QED BY <2>1, <2>2
<1>8. CASE ConnectionLost \/ EndSession
  BY <1>8, SelectOver DEF ConnectionLost, EndSession
<1>9. CASE CallReturns
  <2>1. /\ session' = [session EXCEPT !.phase = "ready"] /\ seen' = seen
        /\ session.phase = "call"
    BY <1>9 DEF CallReturns, Goto
  <2> QED BY <1>0, <2>1, SameTab DEF SessionOK, Running
<1>10. CASE Pump
  BY <1>10, SelectFrame DEF Pump
<1> QED
  BY <1>1, <1>2, <1>3, <1>4, <1>5, <1>6, <1>7, <1>8, <1>9, <1>10
  DEF ClientStep, Select

-----------------------------------------------------------------------------
(***************************************************************************)
(* Requests and their replies.                                             *)
(***************************************************************************)
SocketsOK ==
    /\ inbox \in [Tab -> Seq(Frame)]
    /\ pending \in [Tab -> SUBSET Request]

CountersOK ==
    /\ inner \in [Tab -> 0..MaxRequests]
    /\ session.want <= MaxRequests
    /\ answer \in [asked : 0..MaxRequests, answered : 0..MaxRequests]

RequestInv ==
    /\ SocketsOK
    /\ CountersOK
    /\ IdsCounted
    /\ IdsGivenOut
    /\ WantedIsAsked
    /\ RepliesMatch

LEMMA RequestInit == Init => RequestInv
<1> SUFFICES ASSUME Init PROVE RequestInv
  OBVIOUS
<1> USE Numbers DEF Init
<1>1. SocketsOK
  BY EmptySeq DEF SocketsOK
<1>2. CountersOK /\ IdsCounted /\ WantedIsAsked /\ RepliesMatch
  BY DEF CountersOK, IdsCounted, WantedIsAsked, RepliesMatch, Trying, Running, Tab
<1>3. IdsGivenOut
  <2>1. \A t \in Tab : Requests(t) = {}
    BY EmptySeq DEF Requests
  <2> QED BY <2>1 DEF IdsGivenOut
<1> QED BY <1>1, <1>2, <1>3 DEF RequestInv

LEMMA Ids ==
  /\ Exists \in Request /\ Exists.id = 0 /\ Event \in Frame /\ Event.request = Exists
  /\ \A r \in Request : r.id \in Nat /\ r.serial \in 0..MaxRequests
  /\ \A f \in Frame : f.request \in Request
  BY Numbers DEF Exists, Event, Frame, Request

(* A frame goes into a socket, and one comes out of it. *)
LEMMA Delivering ==
  ASSUME inbox \in [Tab -> Seq(Frame)], NEW t \in Tab, NEW f \in Frame,
         inbox' = [inbox EXCEPT ![t] = Append(@, f)]
  PROVE  /\ inbox' \in [Tab -> Seq(Frame)]
         /\ \A k \in Tab : \A i \in 1..Len(inbox'[k]) :
              \/ k = t /\ inbox'[k][i] = f
              \/ \E j \in 1..Len(inbox[k]) : inbox'[k][i] = inbox[k][j]
<1>1. inbox[t] \in Seq(Frame)
  OBVIOUS
<1>2. /\ Append(inbox[t], f) \in Seq(Frame)
      /\ Len(Append(inbox[t], f)) = Len(inbox[t]) + 1
      /\ Len(inbox[t]) \in Nat
      /\ \A i \in 1..Len(inbox[t]) : Append(inbox[t], f)[i] = inbox[t][i]
      /\ Append(inbox[t], f)[Len(inbox[t]) + 1] = f
  BY <1>1, LenProperties
<1>3. /\ inbox'[t] = Append(inbox[t], f)
      /\ \A k \in Tab : k # t => inbox'[k] = inbox[k]
      /\ inbox' \in [Tab -> Seq(Frame)]
  BY <1>2
<1>4. ASSUME NEW i \in 1..Len(inbox'[t])
      PROVE  \/ inbox'[t][i] = f
             \/ \E j \in 1..Len(inbox[t]) : inbox'[t][i] = inbox[t][j]
  <2>1. i \in 1..Len(inbox[t]) \/ i = Len(inbox[t]) + 1
    BY <1>2, <1>3
  <2> QED BY <1>2, <1>3, <2>1
<1>5. ASSUME NEW k \in Tab, k # t, NEW i \in 1..Len(inbox'[k])
      PROVE  \E j \in 1..Len(inbox[k]) : inbox'[k][i] = inbox[k][j]
  <2>1. inbox'[k] = inbox[k]
    BY <1>3, <1>5
  <2> QED BY <2>1
<1> QED BY <1>3, <1>4, <1>5

LEMMA Taking ==
  ASSUME inbox \in [Tab -> Seq(Frame)], session.tab \in Tab,
         inbox[session.tab] # <<>>, Take
  PROVE  /\ inbox' \in [Tab -> Seq(Frame)]
         /\ \A k \in Tab : \A i \in 1..Len(inbox'[k]) :
              \E j \in 1..Len(inbox[k]) : inbox'[k][i] = inbox[k][j]
<1> DEFINE t == session.tab
           s == inbox[t]
<1>1. s \in Seq(Frame) /\ s # <<>>
  OBVIOUS
<1>2. /\ Tail(s) \in Seq(Frame)
      /\ Len(s) \in Nat /\ Len(Tail(s)) = Len(s) - 1
      /\ \A i \in 1..Len(Tail(s)) : Tail(s)[i] = s[i + 1]
  BY <1>1, LenProperties, HeadTailProperties
<1>3. /\ inbox'[t] = Tail(s)
      /\ \A k \in Tab : k # t => inbox'[k] = inbox[k]
      /\ inbox' \in [Tab -> Seq(Frame)]
  BY <1>2 DEF Take
<1>4. ASSUME NEW i \in 1..Len(inbox'[t])
      PROVE  \E j \in 1..Len(inbox[t]) : inbox'[t][i] = inbox[t][j]
  <2>1. i + 1 \in 1..Len(s) /\ inbox'[t][i] = s[i + 1]
    BY <1>2, <1>3
  <2> QED BY <2>1
<1>5. ASSUME NEW k \in Tab, k # t, NEW i \in 1..Len(inbox'[k])
      PROVE  \E j \in 1..Len(inbox[k]) : inbox'[k][i] = inbox[k][j]
  <2>1. inbox'[k] = inbox[k]
    BY <1>3, <1>5
  <2> QED BY <2>1
<1>6. ASSUME NEW k \in Tab, NEW i \in 1..Len(inbox'[k])
      PROVE  \E j \in 1..Len(inbox[k]) : inbox'[k][i] = inbox[k][j]
  <2>1. CASE k = t
    BY <1>4, <1>6, <2>1
  <2>2. CASE k # t
    BY <1>5, <1>6, <2>2
  <2> QED BY <2>1, <2>2
<1> QED BY <1>3, <1>6

(* A socket after a step that sends no request of the session's: no request
   but Target.exists is new on it. *)
Older == \A k \in Tab : Requests(k)' \subseteq Requests(k) \union {Exists}

LEMMA OlderTaken ==
  ASSUME SocketsOK, session.tab \in Tab, inbox[session.tab] # <<>>, Take,
         UNCHANGED pending
  PROVE  SocketsOK' /\ Older
<1>1. /\ inbox' \in [Tab -> Seq(Frame)]
      /\ \A k \in Tab : \A i \in 1..Len(inbox'[k]) :
           \E j \in 1..Len(inbox[k]) : inbox'[k][i] = inbox[k][j]
  BY Taking DEF SocketsOK
<1>2. \A k \in Tab : Requests(k)' \subseteq Requests(k)
  BY <1>1 DEF Requests
<1> QED BY <1>1, <1>2 DEF SocketsOK, Older

LEMMA OlderDelivered ==
  ASSUME SocketsOK, NEW t \in Tab, AnswerRequest(t) \/ SendEvent(t)
  PROVE  SocketsOK' /\ Older
<1>1. CASE SendEvent(t)
  <2>1. inbox' = [inbox EXCEPT ![t] = Append(@, Event)] /\ pending' = pending
    BY <1>1 DEF SendEvent, Deliver
  <2>2. /\ inbox' \in [Tab -> Seq(Frame)]
        /\ \A k \in Tab : \A i \in 1..Len(inbox'[k]) :
              \/ k = t /\ inbox'[k][i] = Event
              \/ \E j \in 1..Len(inbox[k]) : inbox'[k][i] = inbox[k][j]
    BY <2>1, Ids, Delivering DEF SocketsOK
  <2>3. Older
    BY <2>1, <2>2, Ids DEF Older, Requests
  <2> QED BY <2>1, <2>2, <2>3 DEF SocketsOK
<1>2. CASE AnswerRequest(t)
  <2>1. PICK r \in pending[t], v \in Verdict :
           /\ pending' = [pending EXCEPT ![t] = @ \ {r}]
           /\ inbox' = [inbox EXCEPT ![t] = Append(@, [request |-> r, verdict |-> v])]
    BY <1>2 DEF AnswerRequest, Deliver
  <2>2. r \in Request /\ [request |-> r, verdict |-> v] \in Frame
    BY <2>1 DEF SocketsOK, Frame
  <2>3. /\ inbox' \in [Tab -> Seq(Frame)]
        /\ \A k \in Tab : \A i \in 1..Len(inbox'[k]) :
              \/ k = t /\ inbox'[k][i] = [request |-> r, verdict |-> v]
              \/ \E j \in 1..Len(inbox[k]) : inbox'[k][i] = inbox[k][j]
    BY <2>1, <2>2, Delivering DEF SocketsOK
  <2>4. /\ \A k \in Tab : pending'[k] \subseteq pending[k]
        /\ pending' \in [Tab -> SUBSET Request]
    BY <2>1 DEF SocketsOK
  <2>5. Older
    BY <2>1, <2>3, <2>4 DEF Older, Requests
  <2> QED BY <2>3, <2>4, <2>5 DEF SocketsOK
<1> QED BY <1>1, <1>2

(* Steps that ask nothing: what is waited for stays as it is, or the wait is
   over. *)
LEMMA NothingAsked ==
  ASSUME SelectInv, RequestInv, SocketsOK', Older, IdsCounted',
         UNCHANGED <<inner, answer>>, session'.want = session.want,
         session'.phase \in {"ask", "call"} =>
             session'.phase = session.phase /\ session'.tab = session.tab
  PROVE  RequestInv'
<1> USE DEF RequestInv
<1>1. CountersOK' /\ RepliesMatch'
  BY DEF CountersOK, RepliesMatch
<1>2. IdsGivenOut'
  <2>1. \A t \in Tab : \A r \in Requests(t)' : r \in Requests(t) \/ r.id = 0
    BY Ids DEF Older
  <2>2. \A t \in Tab : inner[t] \in Nat
    BY DEF CountersOK
  <2> QED BY <2>1, <2>2 DEF IdsGivenOut
<1>3. WantedIsAsked'
  <2> SUFFICES ASSUME session'.phase \in {"ask", "call"}
               PROVE  /\ session.want = inner[session.tab]
                      /\ session.want > 0
                      /\ \A r \in Requests(session.tab)' :
                            r.id = session.want => r.serial = answer.asked
    BY DEF WantedIsAsked
  <2>1. /\ session.phase \in {"ask", "call"} /\ session.tab \in Tab
    BY DEF SelectInv, TabInRange, OnTab
  <2> QED BY <2>1, Ids DEF WantedIsAsked, Older
<1> QED BY <1>1, <1>2, <1>3

(* The counters after the steps that ask nothing. *)
LEMMA CountersKept ==
  ASSUME SelectInv, RequestInv, UNCHANGED <<inner, answer>>,
         \/ /\ session'.tab = session.tab /\ session'.first = session.first
            /\ \/ session'.phase = session.phase
               \/ session'.phase = "over"
               \/ session.phase = "tunnel" /\ session'.phase = "select"
               \/ session.phase = "select" /\ session'.phase = "discover"
               \/ session.phase \in {"ask", "call"} /\ session'.phase = "ready"
         \/ /\ session.phase \in {"discover", "ask"} /\ session'.phase = "select"
            /\ session'.tab = session.tab + 1
            /\ session.phase = "discover" => session'.first = session.first
         \/ /\ session.phase = "select" /\ session'.phase = "ready"
            /\ session.first \in Tab
            /\ session'.tab = session.first
  PROVE  IdsCounted'
<1> USE DEF RequestInv, CountersOK
<1>1. /\ \A t \in Tab : t \in Nat /\ inner[t] \in Nat
      /\ session.tab \in Nat /\ session.first \in Nat
      /\ answer.asked \in Nat
      /\ session.phase \in OnTab => session.tab \in Tab
      /\ session.phase \in Trying => session.first < session.tab
  BY Numbers DEF SelectInv, SessionOK, TabInRange, Tab
<1>2. CASE /\ session'.tab = session.tab /\ session'.first = session.first
           /\ \/ session'.phase = session.phase
              \/ session'.phase = "over"
              \/ session.phase = "tunnel" /\ session'.phase = "select"
              \/ session.phase = "select" /\ session'.phase = "discover"
              \/ session.phase \in {"ask", "call"} /\ session'.phase = "ready"
  <2>1. CASE session.phase = "ask" /\ session'.phase = "ready"
    <3>1. inner[session.tab] <= 1 /\ answer.asked >= 1
      BY <1>1, <2>1 DEF IdsCounted, Trying, OnTab
    <3> QED BY <1>1, <1>2, <2>1, <3>1 DEF IdsCounted, Trying, Running, OnTab
  <2>2. CASE ~(session.phase = "ask" /\ session'.phase = "ready")
    BY <1>2, <2>2 DEF IdsCounted, Trying, Running
  <2> QED BY <2>1, <2>2
<1>3. CASE /\ session.phase \in {"discover", "ask"} /\ session'.phase = "select"
           /\ session'.tab = session.tab + 1
           /\ session.phase = "discover" => session'.first = session.first
  <2>1. \A t \in Tab : (t > session.tab => inner[t] = 0) /\ inner[t] <= 1
    BY <1>3 DEF IdsCounted, Trying
  <2>2. session'.first # 0 => answer.asked >= 1
    BY <1>3 DEF IdsCounted, Trying
  <2>3. \A t \in Tab : t >= session.tab + 1 => inner[t] = 0
    BY <1>1, <2>1
  <2> QED BY <1>1, <1>3, <2>1, <2>2, <2>3 DEF IdsCounted, Running
<1>4. CASE /\ session.phase = "select" /\ session'.phase = "ready"
           /\ session.first \in Tab
           /\ session'.tab = session.first
  <2>1. inner[session.first] <= 1
    BY <1>4 DEF IdsCounted, Trying
  <2>2. answer.asked >= 1
    <3>1. session.first # 0
      BY <1>4, Numbers DEF Tab
    <3> QED BY <1>4, <3>1 DEF IdsCounted, Trying
  <2> QED BY <1>1, <1>4, <2>1, <2>2 DEF IdsCounted, Trying, Running
<1> QED BY <1>2, <1>3, <1>4

(* The reply that is taken is the one that was asked for. *)
LEMMA OwnReply ==
  ASSUME SelectInv, RequestInv, session.phase \in {"ask", "call"}, TakeReply
  PROVE  answer' = answer
<1> DEFINE f == Head(inbox[session.tab])
<1>1. session.tab \in Tab
  BY DEF SelectInv, TabInRange, OnTab
<1>2. inbox[session.tab] \in Seq(Frame) /\ inbox[session.tab] # <<>>
  BY <1>1 DEF TakeReply, Arrived, RequestInv, SocketsOK
<1>3. f.request \in Requests(session.tab)
  <2>1. f = inbox[session.tab][1] /\ 1 \in 1..Len(inbox[session.tab])
    BY <1>2, EmptySeq, HeadTailProperties
  <2> QED BY <2>1 DEF Requests
<1>4. f.request.id = session.want
  BY DEF TakeReply, Arrived
<1>5. f.request.serial = answer.asked
  BY <1>3, <1>4 DEF RequestInv, WantedIsAsked
<1>6. answer' = [answer EXCEPT !.answered = f.request.serial]
  BY DEF TakeReply
<1>7. answer \in [asked : 0..MaxRequests, answered : 0..MaxRequests]
      /\ answer.answered = answer.asked
  BY DEF RequestInv, CountersOK, RepliesMatch
<1> QED BY <1>5, <1>6, <1>7

(* A request gets an id that nothing on its socket has. *)
LEMMA Asking ==
  ASSUME SelectInv, RequestInv, SocketsOK', session.tab \in Tab,
         NEW phase \in {"ask", "call", "ready"}, NEW serial \in 1..MaxRequests,
         inner[session.tab] + 1 <= serial,
         \A k \in Tab : {inbox'[k][i].request : i \in 1..Len(inbox'[k])}
                            \subseteq Requests(k) \union {Exists},
         SendToTarget(session.tab, phase, serial),
         IF phase = "ask" THEN session.phase = "discover" /\ serial = 1
                          ELSE session.phase = "ready"
  PROVE  RequestInv'
<1>0. PICK t \in Tab : t = session.tab
  OBVIOUS
<1> DEFINE id == inner[t] + 1
           q == [id |-> id, serial |-> serial]
<1> USE Numbers
<1>1. /\ \A k \in Tab : k \in Nat /\ inner[k] \in Nat
      /\ id \in 1..MaxRequests /\ serial \in 0..MaxRequests
      /\ q.id = id /\ q.serial = serial
  BY <1>0 DEF RequestInv, CountersOK, Tab
<1>2. /\ inner' = [inner EXCEPT ![t] = id]
      /\ pending' = [pending EXCEPT ![t] = @ \union {q}]
      /\ session' = [session EXCEPT !.phase = phase, !.want = id, !.tries = Attempts]
      /\ answer' = [asked |-> serial, answered |-> serial]
  BY <1>0 DEF SendToTarget, NextInnerId
<1>3. /\ session'.phase = phase /\ session'.want = id /\ session'.tab = t
      /\ session'.first = session.first
  BY <1>0, <1>2 DEF SelectInv, SessionOK
<1>4. /\ inner'[t] = id
      /\ \A k \in Tab : k # t => inner'[k] = inner[k]
      /\ inner' \in [Tab -> 0..MaxRequests]
  BY <1>1, <1>2 DEF RequestInv, CountersOK
<1>5. CountersOK' /\ RepliesMatch'
  BY <1>1, <1>2, <1>3, <1>4 DEF CountersOK, RepliesMatch
<1>6. /\ Requests(t)' \subseteq Requests(t) \union {Exists, q}
      /\ \A k \in Tab : k # t => Requests(k)' \subseteq Requests(k) \union {Exists}
  <2>1. /\ pending'[t] = pending[t] \union {q}
        /\ \A k \in Tab : k # t => pending'[k] = pending[k]
    BY <1>2 DEF RequestInv, SocketsOK
  <2>2. \A k \in Tab : /\ pending[k] \subseteq Requests(k)
                       /\ Requests(k)' = pending'[k] \union
                            {inbox'[k][i].request : i \in 1..Len(inbox'[k])}
    BY DEF Requests
  <2>3. Requests(t)' \subseteq Requests(t) \union {Exists, q}
    BY <2>1, <2>2
  <2>4. ASSUME NEW k \in Tab, k # t
        PROVE  Requests(k)' \subseteq Requests(k) \union {Exists}
    BY <2>1, <2>2, <2>4
  <2> QED BY <2>3, <2>4
<1>7. \A r \in Requests(t) \union {Exists} : r.id <= inner[t]
  BY <1>1, Ids DEF RequestInv, IdsGivenOut
<1>8. IdsGivenOut'
  <2>1. \A r \in Requests(t) : r.id \in Nat
    BY Ids, ElementOfSeq DEF Requests, RequestInv, SocketsOK
  <2>2. ASSUME NEW r \in Requests(t)' PROVE r.id <= inner'[t]
    BY <1>1, <1>4, <1>6, <1>7, <2>1, <2>2, Ids
  <2>3. ASSUME NEW k \in Tab, k # t, NEW r \in Requests(k)' PROVE r.id <= inner'[k]
    BY <1>1, <1>4, <1>6, <2>3, Ids DEF RequestInv, IdsGivenOut
  <2>4. ASSUME NEW k \in Tab PROVE \A r \in Requests(k)' : r.id <= inner'[k]
    <3>1. CASE k = t
      BY <2>2, <3>1
    <3>2. CASE k # t
      BY <2>3, <2>4, <3>2
    <3> QED BY <3>1, <3>2
  <2> QED BY <2>4 DEF IdsGivenOut
<1>9. WantedIsAsked'
  <2>1. ASSUME NEW r \in Requests(t)', r.id = id PROVE r.serial = serial
    <3>1. r = q \/ r.id <= inner[t]
      BY <1>6, <1>7, <2>1
    <3> QED BY <1>1, <2>1, <3>1
  <2> QED BY <1>1, <1>2, <1>3, <1>4, <2>1 DEF WantedIsAsked
<1>10. IdsCounted'
  <2>1. answer'.asked = serial /\ serial >= 1
    BY <1>2
  <2>2. CASE phase = "ask"
    <3>1. \A k \in Tab : (k > t => inner[k] = 0) /\ inner[k] <= 1
      BY <1>0, <2>2 DEF RequestInv, IdsCounted, Trying
    <3>2. id = 1
      BY <1>0, <1>1, <2>2
    <3>3. \A k \in Tab : (k > t => inner'[k] = 0) /\ inner'[k] <= 1
      BY <1>1, <1>4, <3>1, <3>2
    <3> QED BY <1>3, <2>1, <2>2, <3>3 DEF IdsCounted, Trying, Running
  <2>3. CASE phase # "ask"
    <3>1. id <= serial
      BY <1>0
    <3>2. session'.phase \in Running
      BY <1>3, <2>3 DEF Running
    <3> QED BY <1>3, <1>4, <2>1, <3>1, <3>2 DEF IdsCounted, Trying, Running
  <2> QED BY <2>2, <2>3
<1> QED BY <1>5, <1>8, <1>9, <1>10 DEF RequestInv

(* Steps of tunnel() and of the browser ask nothing. *)
LEMMA OthersAskNothing ==
  ASSUME SelectInv, RequestInv,
         \/ \E c \in Command : OpenTunnel(c) \/ SshConnects(c) \/ TunnelUp(c)
                               \/ TunnelFails(c) \/ LeaveTunnel(c)
         \/ \E t \in Tab : AnswerRequest(t) \/ SendEvent(t)
  PROVE  RequestInv'
<1>1. ASSUME NEW c \in Command,
             \/ OpenTunnel(c) \/ SshConnects(c) \/ TunnelUp(c)
             \/ TunnelFails(c) \/ LeaveTunnel(c)
      PROVE  RequestInv'
  <2>1. UNCHANGED <<socketVars, answer>>
    BY <1>1 DEF OpenTunnel, SshConnects, TunnelUp, TunnelFails, LeaveTunnel, TunnelStep
  <2>2. session' = session \/ session' = [session EXCEPT !.phase = "over"]
    BY <1>1 DEF OpenTunnel, SshConnects, TunnelUp, TunnelFails, LeaveTunnel, Goto
  <2>3. /\ session'.tab = session.tab /\ session'.first = session.first
        /\ session'.want = session.want
        /\ session'.phase = session.phase \/ session'.phase = "over"
    BY <2>2 DEF SelectInv, SessionOK
  <2>4. IdsCounted'
    BY <2>1, <2>3, CountersKept DEF socketVars
  <2>5. SocketsOK' /\ Older
    BY <2>1 DEF socketVars, RequestInv, SocketsOK, Older, Requests
  <2> QED BY <2>1, <2>3, <2>4, <2>5, NothingAsked DEF socketVars
<1>2. ASSUME NEW t \in Tab, AnswerRequest(t) \/ SendEvent(t)
      PROVE  RequestInv'
  <2>1. UNCHANGED <<session, inner, answer>>
    BY <1>2 DEF AnswerRequest, SendEvent, Deliver
  <2>2. SocketsOK' /\ Older
    BY <1>2, OlderDelivered DEF RequestInv
  <2>3. IdsCounted'
    BY <2>1, CountersKept
  <2> QED BY <2>1, <2>2, <2>3, NothingAsked
<1> QED BY <1>1, <1>2

LEMMA ClientRequests ==
  ASSUME SelectInv, RequestInv, ClientStep
  PROVE  RequestInv'
<1>1. /\ SessionOK /\ SocketsOK
      /\ session.phase \in OnTab => session.tab \in Tab
  BY DEF SelectInv, TabInRange, RequestInv
<1>2. UNCHANGED <<inbox, pending>> => SocketsOK' /\ Older
  BY <1>1 DEF SocketsOK, Older, Requests
<1>3. CASE ListTargets \/ SelectFallback
  <2>1. /\ UNCHANGED <<inner, answer, inbox, pending>>
        /\ session'.want = session.want
        /\ session'.phase \notin {"ask", "call"}
    BY <1>1, <1>3 DEF ListTargets, SelectFallback, Goto, socketVars, SessionOK
  <2>2. IdsCounted'
    <3>1. CASE ListTargets
      BY <1>1, <2>1, <3>1, CountersKept DEF ListTargets, Goto, SessionOK
    <3>2. CASE SelectFallback /\ session.first = 0
      BY <1>1, <2>1, <3>2, CountersKept DEF SelectFallback, Goto, SessionOK
    <3>3. CASE SelectFallback /\ session.first # 0
      <4>1. session.first \in Tab
        BY <1>1, <3>3, Numbers DEF SessionOK, Tab
      <4>2. /\ session.phase = "select" /\ session'.phase = "ready"
            /\ session'.tab = session.first
        BY <1>1, <3>3 DEF SelectFallback, SessionOK
      <4> QED BY <2>1, <4>1, <4>2, CountersKept
    <3> QED BY <1>3, <3>1, <3>2, <3>3
  <2> QED BY <1>2, <2>1, <2>2, NothingAsked
<1>4. CASE OpenTab
  <2>1. /\ UNCHANGED <<inner, answer, inbox>>
        /\ session'.want = session.want
        /\ session'.phase \in {"discover", "over"}
        /\ session'.tab = session.tab /\ session'.first = session.first
        /\ session.phase = "select" /\ session.tab \in Tab
        /\ pending' = pending \/ pending' = [pending EXCEPT ![session.tab] = {Exists}]
    <3>1. /\ session.phase = "select" /\ session.tab \in Tab
          /\ UNCHANGED <<inner, answer, inbox>>
      BY <1>1, <1>4 DEF OpenTab, SessionOK, Tab
    <3>2. CASE /\ session' = [session EXCEPT !.phase = "discover", !.tries = Attempts,
                                            !.open = @ \union {session.tab}]
               /\ pending' = [pending EXCEPT ![session.tab] = {Exists}]
      BY <1>1, <3>1, <3>2 DEF SessionOK
    <3>3. CASE session' = [session EXCEPT !.phase = "over"] /\ pending' = pending
      BY <1>1, <3>1, <3>3 DEF SessionOK
    <3> QED BY <1>4, <3>2, <3>3 DEF OpenTab, Goto
  <2>2. SocketsOK' /\ Older
    <3>1. CASE pending' = pending
      BY <1>2, <2>1, <3>1
    <3>2. CASE pending' = [pending EXCEPT ![session.tab] = {Exists}]
      <4>1. /\ \A k \in Tab : pending'[k] \subseteq pending[k] \union {Exists}
            /\ pending' \in [Tab -> SUBSET Request]
        BY <1>1, <3>2, Ids DEF SocketsOK
      <4> QED BY <1>1, <2>1, <4>1 DEF SocketsOK, Older, Requests
    <3> QED BY <2>1, <3>1, <3>2
  <2>3. IdsCounted'
    BY <2>1, CountersKept
  <2> QED BY <2>1, <2>2, <2>3, NothingAsked
<1>5. CASE TargetFound
  <2>1. /\ session.phase = "discover" /\ session.tab \in Tab
        /\ (inbox[session.tab] # <<>> /\ Take) \/ inbox' = inbox
        /\ SendToTarget(session.tab, "ask", 1)
    BY <1>1, <1>5 DEF TargetFound, Arrived, OnTab
  <2>2. /\ inbox' \in [Tab -> Seq(Frame)]
        /\ \A k \in Tab : \A i \in 1..Len(inbox'[k]) :
             \E j \in 1..Len(inbox[k]) : inbox'[k][i] = inbox[k][j]
    <3>1. CASE inbox[session.tab] # <<>> /\ Take
      BY <1>1, <2>1, <3>1, Taking DEF SocketsOK
    <3>2. CASE inbox' = inbox
      BY <1>1, <3>2 DEF SocketsOK
    <3> QED BY <2>1, <3>1, <3>2
  <2>3. \A k \in Tab : {inbox'[k][i].request : i \in 1..Len(inbox'[k])}
                           \subseteq Requests(k) \union {Exists}
    BY <2>2 DEF Requests
  <2>4. inner[session.tab] = 0 /\ 1 \in 1..MaxRequests
    BY <2>1, Numbers DEF RequestInv, IdsCounted
  <2>5. SocketsOK'
    <3>1. [id |-> NextInnerId(session.tab), serial |-> 1] \in Request
      BY <2>4, Numbers DEF Request, NextInnerId
    <3>2. pending' \in [Tab -> SUBSET Request]
      BY <1>1, <2>1, <3>1 DEF SendToTarget, SocketsOK
    <3> QED BY <2>2, <3>2 DEF SocketsOK
  <2> QED BY <2>1, <2>3, <2>4, <2>5, Asking
<1>6. CASE Call \/ Enable
  <2>1. PICK phase \in {"call", "ready"} :
           SendToTarget(session.tab, phase, answer.asked + 1)
    BY <1>6 DEF Call, Enable
  <2>2. /\ session.phase = "ready" /\ session.tab \in Tab
        /\ answer.asked < MaxRequests
        /\ inbox' = inbox
    BY <1>1, <1>6 DEF Call, Enable, OnTab
  <2>3. /\ inner[session.tab] \in 0..MaxRequests /\ answer.asked \in 0..MaxRequests
        /\ inner[session.tab] <= answer.asked
    BY <2>2 DEF RequestInv, CountersOK, IdsCounted, Running
  <2>4. /\ answer.asked + 1 \in 1..MaxRequests
        /\ inner[session.tab] + 1 \in 0..MaxRequests
        /\ inner[session.tab] + 1 <= answer.asked + 1
    BY <2>2, <2>3, Numbers
  <2>5. SocketsOK'
    <3>1. [id |-> NextInnerId(session.tab), serial |-> answer.asked + 1] \in Request
      BY <2>4, Numbers DEF Request, NextInnerId
    <3>2. pending' \in [Tab -> SUBSET Request]
      BY <1>1, <2>1, <3>1 DEF SendToTarget, SocketsOK
    <3> QED BY <1>1, <2>2, <3>2 DEF SocketsOK
  <2>6. \A k \in Tab : {inbox'[k][i].request : i \in 1..Len(inbox'[k])}
                           \subseteq Requests(k) \union {Exists}
    BY <2>2 DEF Requests
  <2> QED BY <2>1, <2>2, <2>4, <2>5, <2>6, Asking
<1>7. CASE TargetMissing
  <2>1. /\ UNCHANGED <<inner, answer, inbox, pending>>
        /\ session'.want = session.want
        /\ session.phase = "discover" /\ session'.phase = "select"
        /\ session'.tab = session.tab + 1 /\ session'.first = session.first
    BY <1>1, <1>7 DEF TargetMissing, socketVars, SessionOK
  <2>2. IdsCounted'
    BY <2>1, CountersKept
  <2> QED BY <1>2, <2>1, <2>2, NothingAsked
<1>8. CASE SkipFrame
  <2>1. /\ UNCHANGED <<inner, answer, pending>>
        /\ session'.want = session.want /\ session'.phase = session.phase
        /\ session'.tab = session.tab /\ session'.first = session.first
        /\ session.tab \in Tab /\ inbox[session.tab] # <<>> /\ Take
    BY <1>1, <1>8 DEF SkipFrame, Waiting, GivenUp, SessionOK, OnTab
  <2>2. SocketsOK' /\ Older
    BY <1>1, <2>1, OlderTaken
  <2>3. IdsCounted'
    BY <2>1, CountersKept
  <2> QED BY <2>1, <2>2, <2>3, NothingAsked
<1>9. ASSUME session.phase \in {"ask", "call"}, session.tab \in Tab,
             TakeReply \/ NoReply, UNCHANGED pending
      PROVE  SocketsOK' /\ Older /\ answer' = answer
  <2>1. CASE TakeReply
    <3>1. inbox[session.tab] # <<>> /\ Take
      BY <2>1 DEF TakeReply, Arrived
    <3> QED BY <1>1, <1>9, <2>1, <3>1, OlderTaken, OwnReply
  <2>2. CASE NoReply
    BY <1>2, <1>9, <2>2 DEF NoReply
  <2> QED BY <1>9, <2>1, <2>2
<1>10. CASE Judge
  <2>1. /\ session.phase = "ask" /\ session.tab \in Tab
        /\ UNCHANGED <<inner, pending>>
        /\ TakeReply \/ NoReply
        /\ Goto("ready") \/ PassOver
    BY <1>1, <1>10 DEF Judge, OnTab
  <2>2. SocketsOK' /\ Older /\ answer' = answer
    BY <1>9, <2>1
  <2>3. /\ session'.want = session.want
        /\ \/ /\ session'.phase = "ready" /\ session'.tab = session.tab
              /\ session'.first = session.first
           \/ session'.phase = "select" /\ session'.tab = session.tab + 1
    BY <1>1, <2>1 DEF Goto, PassOver, SessionOK
  <2>4. IdsCounted'
    BY <2>1, <2>2, <2>3, CountersKept
  <2> QED BY <2>1, <2>2, <2>3, <2>4, NothingAsked
<1>11. CASE CallReturns
  <2>1. /\ session.phase = "call" /\ session.tab \in Tab
        /\ UNCHANGED <<inner, pending>>
        /\ TakeReply \/ NoReply
    BY <1>1, <1>11 DEF CallReturns, OnTab
  <2>2. SocketsOK' /\ Older /\ answer' = answer
    BY <1>9, <2>1
  <2>3. /\ session'.want = session.want
        /\ session'.phase = "ready" /\ session'.tab = session.tab
        /\ session'.first = session.first
    BY <1>1, <1>11 DEF CallReturns, Goto, SessionOK
  <2>4. IdsCounted'
    BY <2>1, <2>2, <2>3, CountersKept
  <2> QED BY <2>1, <2>2, <2>3, <2>4, NothingAsked
<1>12. CASE ConnectionLost \/ EndSession
  <2>1. /\ UNCHANGED <<inner, answer, inbox, pending>>
        /\ session'.want = session.want /\ session'.phase = "over"
        /\ session'.tab = session.tab /\ session'.first = session.first
    BY <1>1, <1>12 DEF ConnectionLost, EndSession, socketVars, SessionOK
  <2>2. IdsCounted'
    BY <2>1, CountersKept
  <2> QED BY <1>2, <2>1, <2>2, NothingAsked
<1>13. CASE Pump
  <2>1. /\ UNCHANGED <<inner, answer, pending, session>>
        /\ session.tab \in Tab /\ inbox[session.tab] # <<>> /\ Take
    BY <1>1, <1>13 DEF Pump, OnTab
  <2>2. SocketsOK' /\ Older
    BY <1>1, <2>1, OlderTaken
  <2>3. IdsCounted'
    BY <2>1, CountersKept
  <2> QED BY <2>1, <2>2, <2>3, NothingAsked
<1> QED
  BY <1>3, <1>4, <1>5, <1>6, <1>7, <1>8, <1>10, <1>11, <1>12, <1>13
  DEF ClientStep, Select

-----------------------------------------------------------------------------
(***************************************************************************)
(* Everything together.                                                    *)
(***************************************************************************)
ClientInv ==
    /\ SelectInv
    /\ RequestInv
    /\ TunnelOK
    /\ TunnelFirst

LEMMA ClientInvStep == ClientInv /\ [Next]_vars => ClientInv'
<1> SUFFICES ASSUME ClientInv, [Next]_vars PROVE ClientInv'
  OBVIOUS
<1> USE DEF ClientInv
<1>1. ASSUME NEW c \in Command,
             \/ OpenTunnel(c) \/ SshConnects(c) \/ TunnelUp(c)
             \/ TunnelFails(c) \/ LeaveTunnel(c)
      PROVE  ClientInv'
  BY <1>1, TunnelSteps, OthersAskNothing
<1>2. ASSUME NEW t \in Tab, AnswerRequest(t) \/ SendEvent(t)
      PROVE  ClientInv'
  <2>1. UNCHANGED <<session, seen, userTunnel, tunnel, ssh>>
    BY <1>2 DEF AnswerRequest, SendEvent, Deliver, tunnelVars
  <2>2. SelectInv' /\ RequestInv'
    BY <1>2, <2>1, SelectFrame, OthersAskNothing
  <2> QED BY <2>1, <2>2 DEF TunnelOK, TunnelFirst
<1>3. CASE ClientStep
  <2>1. UNCHANGED <<userTunnel, tunnel, ssh>>
    BY <1>3
    DEF ClientStep, Select, ListTargets, OpenTab, TargetFound, TargetMissing,
        SkipFrame, Judge, SelectFallback, ConnectionLost, Call, Enable,
        CallReturns, Pump, EndSession, tunnelVars
  <2>2. inner \in [Tab -> Nat]
    BY DEF RequestInv, CountersOK
  <2>3. SelectInv' /\ RequestInv'
    BY <1>3, <2>2, ClientSelect, ClientRequests
  <2>4. TunnelFirst'
    <3>1. tunnel[Self] \notin {"none", "starting"}
      <4>1. CASE ListTargets
        BY <4>1 DEF ListTargets
      <4>2. CASE session.phase # "tunnel"
        BY <4>2 DEF TunnelFirst
      <4> QED
        BY <1>3, <4>1, <4>2
        DEF ClientStep, Select, OpenTab, TargetFound, TargetMissing, SkipFrame,
            Waiting, Judge, SelectFallback, ConnectionLost, Call, Enable,
            CallReturns, Pump, EndSession
    <3>2. session'.phase # "tunnel"
      BY <1>3
      DEF ClientStep, Select, ListTargets, OpenTab, TargetFound, TargetMissing,
          SkipFrame, Waiting, Judge, SelectFallback, ConnectionLost, Call,
          Enable, CallReturns, Pump, EndSession, SendToTarget, Goto, PassOver,
          SelectInv, SessionOK
    <3> QED BY <2>1, <3>1, <3>2 DEF TunnelFirst
  <2> QED BY <2>1, <2>3, <2>4 DEF TunnelOK
<1>4. CASE UNCHANGED vars
  <2>1. UNCHANGED <<userTunnel, tunnel, ssh, session, inner, inbox, pending, seen, answer>>
    BY <1>4 DEF vars, tunnelVars, socketVars
  <2>2. SelectInv'
    BY <2>1, SelectFrame
  <2>3. RequestInv'
    BY <2>1
    DEF RequestInv, SocketsOK, CountersOK, IdsCounted, IdsGivenOut, Requests,
        WantedIsAsked, RepliesMatch
  <2> QED BY <2>1, <2>2, <2>3 DEF TunnelOK, TunnelFirst
<1> QED BY <1>1, <1>2, <1>3, <1>4 DEF Next, ClientStep

LEMMA ClientAlways == Spec => []ClientInv
<1>1. Init => ClientInv
  BY SelectInit, RequestInit DEF ClientInv
<1> QED BY <1>1, ClientInvStep, PTL DEF Spec

(* await_inner_reply() takes no reply but that of the request it was called
   for, however late the answers to the earlier ones come. *)
THEOREM RepliesAlwaysMatch == Spec => []RepliesMatch
  BY ClientAlways, PTL DEF ClientInv, RequestInv

(* _select() chooses a tab that says it is shown, or else the first that
   has a target. *)
THEOREM ShownTabIsChosen == Spec => []ShownTabChosen
  BY ClientAlways, PTL DEF ClientInv, SelectInv

(* _select() closes the tabs it passes over, but for the fallback. *)
THEOREM SocketsStayBounded == Spec => []SocketsBounded
  BY ClientAlways, PTL DEF ClientInv, SelectInv

(* Type correctness: the inner ids stay within the number of requests. *)
THEOREM ClientTypeCorrect == Spec => []TypeOK
<1>1. ClientInv => TypeOK
  <2> SUFFICES ASSUME ClientInv PROVE TypeOK
    OBVIOUS
  <2>1. session.want \in 0..MaxRequests
    BY Numbers DEF ClientInv, SelectInv, SessionOK, RequestInv, CountersOK
  <2>2. session \in [phase : {"tunnel", "select", "discover", "ask", "ready",
                              "call", "over"},
                     tab : 1..Tabs + 1, tries : 0..Attempts,
                     want : 0..MaxRequests, first : 0..Tabs, open : SUBSET Tab]
    BY <2>1 DEF ClientInv, SelectInv, SessionOK
  <2> QED
    BY <2>2
    DEF ClientInv, SelectInv, SessionOK, TunnelOK, RequestInv, SocketsOK,
        CountersOK, TypeOK
<1> QED BY <1>1, ClientAlways, PTL

-----------------------------------------------------------------------------
(***************************************************************************)
(* The safety half of SelectionEnds: a measure that every step of _select()*)
(* decreases and that nobody else's step touches, so that weak fairness of *)
(* _select() is enough.                                                    *)
(***************************************************************************)
Selecting == session.phase \in {"select", "discover", "ask"}

(* How far it is with the tab at hand. *)
Stage == CASE session.phase = "select" -> 0
           [] session.phase = "discover" -> 1
           [] OTHER -> 2

(* On to the next tab; from opening a tab to its page, and to its answer; or a
   frame less to read. *)
Advance ==
    /\ Selecting'
    /\ \/ session'.tab = session.tab + 1 /\ session'.tab <= Tabs + 1
       \/ session'.tab = session.tab /\ Stage' = Stage + 1
       \/ /\ session'.tab = session.tab /\ Stage' = Stage
          /\ session'.tries = session.tries - 1 /\ session'.tries >= 0

(* Each step of _select() decides it or brings it nearer to its end, whatever
   the browser sends and whichever tunnels come and go meanwhile. *)
SelectionAdvances ==
    [][Selecting => IF Select THEN Advance \/ session'.phase \in {"ready", "over"}
                              ELSE UNCHANGED session]_vars

LEMMA SelectAdvances ==
  ASSUME ClientInv, Selecting, Select
  PROVE  Advance \/ session'.phase \in {"ready", "over"}
<1> USE Numbers DEF Selecting
<1>1. /\ SessionOK
      /\ session.phase \in {"discover", "ask"} => session.tab \in Tab
      /\ session.tab \in Nat /\ session.tries \in Nat
      /\ session.tab \in Tab => session.tab + 1 \in 1..Tabs + 1
  BY DEF ClientInv, SelectInv, TabInRange, OnTab, SessionOK, Tab
<1>2. ASSUME session'.phase = "select", session'.tab = session.tab + 1,
             session.phase \in {"discover", "ask"}
      PROVE  Advance
  BY <1>1, <1>2 DEF Advance
<1>3. CASE OpenTab
  <2>1. CASE session' = [session EXCEPT !.phase = "discover", !.tries = Attempts,
                                        !.open = @ \union {session.tab}]
    <3>1. /\ session.phase = "select" /\ session'.phase = "discover"
          /\ session'.tab = session.tab
      BY <1>1, <1>3, <2>1 DEF OpenTab, SessionOK
    <3> QED BY <3>1 DEF Advance, Stage
  <2>2. CASE session' = [session EXCEPT !.phase = "over"]
    BY <1>1, <2>2 DEF SessionOK
  <2> QED BY <1>3, <2>1, <2>2 DEF OpenTab, Goto
<1>4. CASE TargetFound
  <2>1. /\ session.phase = "discover" /\ session'.phase = "ask"
        /\ session'.tab = session.tab
    BY <1>1, <1>4 DEF TargetFound, SendToTarget, SessionOK
  <2> QED BY <2>1 DEF Advance, Stage
<1>5. CASE TargetMissing
  BY <1>1, <1>2, <1>5 DEF TargetMissing, SessionOK
<1>6. CASE SkipFrame
  <2>1. /\ session'.phase = session.phase /\ session'.tab = session.tab
        /\ session'.tries = session.tries - 1
        /\ session.tries # 0
    BY <1>1, <1>6 DEF SkipFrame, GivenUp, SessionOK
  <2>2. session'.tries >= 0
    BY <1>1, <2>1
  <2> QED BY <2>1, <2>2 DEF Advance, Stage
<1>7. CASE Judge
  <2>1. session.phase = "ask" /\ (Goto("ready") \/ PassOver)
    BY <1>7 DEF Judge
  <2>2. CASE Goto("ready")
    BY <1>1, <2>2 DEF Goto, SessionOK
  <2>3. CASE PassOver
    BY <1>1, <1>2, <2>1, <2>3 DEF PassOver, SessionOK
  <2> QED BY <2>1, <2>2, <2>3
<1>8. CASE SelectFallback
  BY <1>1, <1>8 DEF SelectFallback, Goto, SessionOK
<1>9. CASE ConnectionLost
  BY <1>1, <1>9 DEF ConnectionLost, SessionOK
<1> QED BY <1>3, <1>4, <1>5, <1>6, <1>7, <1>8, <1>9 DEF Select

(* _select() comes to an end after a number of its own steps that is bounded
   before it begins, however many frames come in between. *)
THEOREM SelectionOnlyAdvances == Spec => SelectionAdvances
<1>1. ClientInv /\ [Next]_vars
        => [Selecting => IF Select
                         THEN Advance \/ session'.phase \in {"ready", "over"}
                         ELSE UNCHANGED session]_vars
  <2> SUFFICES ASSUME ClientInv, Next, Selecting, ~Select
               PROVE  UNCHANGED session
    BY SelectAdvances
  <2>1. ASSUME NEW c \in Command,
               \/ OpenTunnel(c) \/ SshConnects(c) \/ TunnelUp(c)
               \/ TunnelFails(c) \/ LeaveTunnel(c)
        PROVE  UNCHANGED session
    BY <2>1
    DEF OpenTunnel, SshConnects, TunnelUp, TunnelFails, LeaveTunnel, ClientInv,
        TunnelFirst, Selecting
  <2>2. ASSUME NEW t \in Tab, AnswerRequest(t) \/ SendEvent(t)
        PROVE  UNCHANGED session
    BY <2>2 DEF AnswerRequest, SendEvent, Deliver
  <2>3. ~ (ListTargets \/ Call \/ Enable \/ CallReturns \/ Pump \/ EndSession)
    BY DEF Selecting, ListTargets, Call, Enable, CallReturns, Pump, EndSession
  <2> QED BY <2>1, <2>2, <2>3 DEF Next
<1> QED BY <1>1, ClientAlways, PTL DEF Spec, SelectionAdvances
=============================================================================
