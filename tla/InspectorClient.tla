--------------------------- MODULE InspectorClient ---------------------------
(***************************************************************************)
(* A debugging command that talks to the web inspector of the browser on   *)
(* the device: connect_session() opens the ssh tunnel, or uses one that is *)
(* there, tries the tabs of the inspector's index in turn, asks each one   *)
(* whether it is hidden, and runs its requests on the one it chose.        *)
(*                                                                         *)
(* Other commands may run beside it; of them only their tunnels matter.    *)
(* The browser answers when it likes, or never; each socket keeps what it  *)
(* sent in order.  A socket whose tunnel went and came back is taken to    *)
(* work again, which only adds frames.  An event stands for every frame    *)
(* that nobody waits for, the announcement of a worker among them.         *)
(***************************************************************************)
EXTENDS Naturals, Sequences

CONSTANTS
    Self,         \* the command whose session is modelled
    Others,       \* commands started in other terminals
    Tabs,         \* number of tabs in the inspector's index
    Attempts,     \* frames read before a reply is given up (20 in the code)
    MaxRequests,  \* bound: requests made on one socket
    MaxInbox      \* bound: frames waiting in one socket

ASSUME ClientAssumption ==
    /\ Self \notin Others
    /\ {Tabs, Attempts, MaxRequests, MaxInbox} \subseteq Nat \ {0}

VARIABLES
    userTunnel,  \* the user keeps a tunnel of their own open
    tunnel,      \* each command: where it is in tunnel()
    ssh,         \* each command: the ssh process it started
    session,     \* the session: its phase, the tab at hand, the frames it may
                 \* still read, the inner id it wants, _select()'s fallback
                 \* (or 0) and the open websockets
    inner,       \* Inspector._inner of each socket
    inbox,       \* frames each socket holds unread
    pending,     \* browser: what it has not answered on each socket
    seen,        \* history: what _select() learned of each tab
    answer       \* history: the last request asked, and the one answered

tunnelVars == <<userTunnel, tunnel, ssh>>
socketVars == <<inner, inbox, pending>>
vars == <<tunnelVars, session, socketVars, seen, answer>>

Command == Others \union {Self}
Tab == 1..Tabs

(* A request has the id the client gave it and its serial number; 0 stands
   for Target.exists, which the announcement of the page answers. *)
Request == [id : 0..MaxRequests, serial : 0..MaxRequests]
Exists == [id |-> 0, serial |-> 0]
Event == [request |-> Exists, verdict |-> "event"]
Verdict == {"hidden", "visible"}
Frame == [request : Request, verdict : Verdict \union {"event"}]

(* Type correctness. *)
TypeOK ==
    /\ userTunnel \in BOOLEAN
    /\ tunnel \in [Command -> {"none", "starting", "owned", "reused", "left"}]
    /\ ssh \in [Command -> {"none", "connecting", "forwarding", "refused"}]
    /\ session \in [phase : {"tunnel", "select", "discover", "ask", "ready",
                             "call", "over"},
                    tab : 1..Tabs + 1, tries : 0..Attempts,
                    want : 0..MaxRequests, first : 0..Tabs, open : SUBSET Tab]
    /\ inner \in [Tab -> 0..MaxRequests]
    /\ inbox \in [Tab -> Seq(Frame)]
    /\ pending \in [Tab -> SUBSET Request]
    /\ seen \in [Tab -> Verdict \union {"untried", "mute", "unknown"}]
    /\ answer \in [asked : 0..MaxRequests, answered : 0..MaxRequests]

Init ==
    /\ userTunnel \in BOOLEAN
    /\ tunnel = [c \in Command |-> "none"]
    /\ ssh = [c \in Command |-> "none"]
    /\ session = [phase |-> "tunnel", tab |-> 1, tries |-> 0, want |-> 0,
                  first |-> 0, open |-> {}]
    /\ inner = [t \in Tab |-> 0]
    /\ inbox = [t \in Tab |-> <<>>]
    /\ pending = [t \in Tab |-> {}]
    /\ seen = [t \in Tab |-> "untried"]
    /\ answer = [asked |-> 0, answered |-> 0]

Goto(phase) == session' = [session EXCEPT !.phase = phase]

-----------------------------------------------------------------------------
(***************************************************************************)
(* tunnel(), in every command.                                             *)
(***************************************************************************)
PortOpen == userTunnel \/ \E c \in Command : ssh[c] = "forwarding"

TunnelStep(c, at, process) ==
    /\ tunnel' = [tunnel EXCEPT ![c] = at]
    /\ ssh' = [ssh EXCEPT ![c] = process]
    /\ UNCHANGED <<userTunnel, socketVars, seen, answer>>

(* Something that listens already is used as it is. *)
OpenTunnel(c) ==
    /\ tunnel[c] = "none"
    /\ IF PortOpen THEN TunnelStep(c, "reused", "none")
       ELSE TunnelStep(c, "starting", "connecting")
    /\ UNCHANGED session

(* ssh listens, or finds the port taken and runs on without. *)
SshConnects(c) ==
    /\ ssh[c] = "connecting"
    /\ TunnelStep(c, tunnel[c], IF PortOpen THEN "refused" ELSE "forwarding")
    /\ UNCHANGED session

TunnelUp(c) ==
    /\ tunnel[c] = "starting"
    /\ PortOpen
    /\ TunnelStep(c, "owned", ssh[c])
    /\ UNCHANGED session

(* After forty looks at the port: DeviceError, and the finally clause. *)
TunnelFails(c) ==
    /\ tunnel[c] = "starting"
    /\ ~PortOpen
    /\ TunnelStep(c, "left", "none")
    /\ IF c = Self THEN Goto("over") ELSE UNCHANGED session

(* The block ends: a process that this command started is terminated. *)
LeaveTunnel(c) ==
    /\ tunnel[c] \in {"owned", "reused"}
    /\ c = Self => session.phase = "over"
    /\ TunnelStep(c, "left", "none")
    /\ UNCHANGED session

-----------------------------------------------------------------------------
(***************************************************************************)
(* The browser (external).                                                 *)
(***************************************************************************)
Deliver(t, frame) ==
    /\ t \in session.open
    /\ PortOpen
    /\ Len(inbox[t]) < MaxInbox
    /\ inbox' = [inbox EXCEPT ![t] = Append(@, frame)]
    /\ UNCHANGED <<tunnelVars, session, inner, seen, answer>>

(* The announcement of the page, or the reply to a request.  Only the first
   request asks whether the tab is hidden; "hidden" stands for every reply to
   it but a plain "no", an error among them. *)
AnswerRequest(t) ==
    \E r \in pending[t], verdict \in Verdict :
        /\ r.serial # 1 => verdict = "hidden"
        /\ pending' = [pending EXCEPT ![t] = @ \ {r}]
        /\ Deliver(t, [request |-> r, verdict |-> verdict])

SendEvent(t) ==
    /\ Deliver(t, Event)
    /\ UNCHANGED pending

-----------------------------------------------------------------------------
(***************************************************************************)
(* Sockets.                                                                *)
(***************************************************************************)

(* Faulty variant: the counter is not advanced. *)
SameInnerId(t) == IF inner[t] = 0 THEN 1 ELSE inner[t]

NextInnerId(t) == inner[t] + 1

(* send_to_target(): the next inner id of this socket, and what follows it, a
   wait for the reply or none; serial is the number of the request. *)
SendToTarget(t, phase, serial) ==
    /\ inner' = [inner EXCEPT ![t] = NextInnerId(t)]
    /\ pending' = [pending EXCEPT ![t] = @ \union
                      {[id |-> NextInnerId(t), serial |-> serial]}]
    /\ session' = [session EXCEPT !.phase = phase, !.want = NextInnerId(t),
                                  !.tries = Attempts]
    /\ answer' = [asked |-> serial, answered |-> serial]

Waiting == session.phase \in {"discover", "ask", "call"}

(* What the client waits for is the next frame. *)
Arrived ==
    /\ inbox[session.tab] # <<>>
    /\ session.tries > 0
    /\ Head(inbox[session.tab]).verdict # "event"
    /\ Head(inbox[session.tab]).request.id =
           IF session.phase = "discover" THEN 0 ELSE session.want

(* Faulty variant: only the timeout ends a wait. *)
GivenUpByTimeout == inbox[session.tab] = <<>>

(* No frame in time, or Attempts frames were something else. *)
GivenUp == inbox[session.tab] = <<>> \/ session.tries = 0

Take == inbox' = [inbox EXCEPT ![session.tab] = Tail(@)]

(* Faulty variant: a frame that is not the reply costs no attempt. *)
SkipFrameFree ==
    /\ Waiting /\ ~Arrived /\ ~GivenUp
    /\ Take
    /\ UNCHANGED <<tunnelVars, session, inner, pending, seen, answer>>

(* A frame that is not what is waited for is dropped and counted, a late
   reply to an earlier request among them. *)
SkipFrame ==
    /\ Waiting /\ ~Arrived /\ ~GivenUp
    /\ Take
    /\ session' = [session EXCEPT !.tries = @ - 1]
    /\ UNCHANGED <<tunnelVars, inner, pending, seen, answer>>

(* The reply is taken. *)
TakeReply ==
    /\ Arrived
    /\ Take
    /\ answer' = [answer EXCEPT !.answered =
                      Head(inbox[session.tab]).request.serial]

NoReply == GivenUp /\ UNCHANGED <<inbox, answer>>

-----------------------------------------------------------------------------
(***************************************************************************)
(* connect_session() and _select().                                        *)
(***************************************************************************)

(* The index of tabs is read through the tunnel. *)
ListTargets ==
    /\ session.phase = "tunnel"
    /\ tunnel[Self] \in {"owned", "reused"}
    /\ Goto(IF PortOpen THEN "select" ELSE "over")
    /\ UNCHANGED <<tunnelVars, socketVars, seen, answer>>

(* _open(): the websocket and Target.exists; a refused connection leaves
   _select() as an exception. *)
OpenTab ==
    /\ session.phase = "select"
    /\ session.tab <= Tabs
    /\ \/ /\ PortOpen
          /\ session' = [session EXCEPT !.phase = "discover", !.tries = Attempts,
                                        !.open = @ \union {session.tab}]
          /\ pending' = [pending EXCEPT ![session.tab] = {Exists}]
       \/ /\ ~PortOpen
          /\ Goto("over")
          /\ UNCHANGED pending
    /\ UNCHANGED <<tunnelVars, inner, inbox, seen, answer>>

(* discover_target() found the page, or one of the frames it read before it
   gave up announced another target: it is asked for document.hidden. *)
TargetFound ==
    /\ session.phase = "discover"
    /\ \/ Arrived /\ Take
       \/ GivenUp /\ session.tries < Attempts /\ UNCHANGED inbox
    /\ SendToTarget(session.tab, "ask", 1)
    /\ UNCHANGED <<tunnelVars, seen>>

TargetMissing ==
    /\ session.phase = "discover"
    /\ GivenUp
    /\ session' = [session EXCEPT !.phase = "select", !.tab = @ + 1,
                                  !.open = @ \ {session.tab}]
    /\ seen' = [seen EXCEPT ![session.tab] = "mute"]
    /\ UNCHANGED <<tunnelVars, socketVars, answer>>

(* Faulty variant: no answer counts as "not hidden". *)
ShownUnlessHidden(verdict) == verdict # "hidden"

Shown(verdict) == verdict = "visible"

(* Faulty variant: the tab stays open beside an earlier fallback. *)
PassOverOpen ==
    session' = [session EXCEPT !.phase = "select", !.tab = @ + 1,
                    !.first = IF @ = 0 THEN session.tab ELSE @]

(* A tab that is not shown becomes the fallback, or is closed. *)
PassOver ==
    session' = [session EXCEPT !.phase = "select", !.tab = @ + 1,
                    !.first = IF @ = 0 THEN session.tab ELSE @,
                    !.open = IF session.first = 0 THEN @ ELSE @ \ {session.tab}]

(* The verdict on the tab: what it answered, or "unknown". *)
Judge ==
    /\ session.phase = "ask"
    /\ \E verdict \in Verdict \union {"unknown"} :
          /\ \/ TakeReply /\ Head(inbox[session.tab]).verdict = verdict
             \/ NoReply /\ verdict = "unknown"
          /\ seen' = [seen EXCEPT ![session.tab] = verdict]
          /\ IF Shown(verdict) THEN Goto("ready") ELSE PassOver
    /\ UNCHANGED <<tunnelVars, inner, pending>>

(* Every tab was tried: the fallback, or an error. *)
SelectFallback ==
    /\ session.phase = "select"
    /\ session.tab > Tabs
    /\ IF session.first = 0 THEN Goto("over")
       ELSE session' = [session EXCEPT !.phase = "ready", !.tab = session.first]
    /\ UNCHANGED <<tunnelVars, socketVars, seen, answer>>

(* The tunnel is gone and the socket with it.  The exception of recv() leaves
   discover_target() and call(); _select() turns one of evaluate() into "no
   answer", which is Judge. *)
ConnectionLost ==
    /\ session.phase \in {"discover", "call"}
    /\ inbox[session.tab] = <<>>
    /\ ~PortOpen
    /\ session' = [session EXCEPT !.phase = "over", !.open = @ \ {session.tab}]
    /\ UNCHANGED <<tunnelVars, socketVars, seen, answer>>

Select ==
    \/ OpenTab \/ TargetFound \/ TargetMissing \/ SkipFrame \/ Judge
    \/ SelectFallback \/ ConnectionLost

-----------------------------------------------------------------------------
(***************************************************************************)
(* The session on the chosen tab.                                          *)
(***************************************************************************)

(* Session.call(wait=True), Session.evaluate(). *)
Call ==
    /\ session.phase = "ready"
    /\ answer.asked < MaxRequests
    /\ SendToTarget(session.tab, "call", answer.asked + 1)
    /\ UNCHANGED <<tunnelVars, inbox, seen>>

(* Session.enable(), Session.call(): nobody waits for the reply, which stays
   in the way of later ones. *)
Enable ==
    /\ session.phase = "ready"
    /\ answer.asked < MaxRequests
    /\ SendToTarget(session.tab, "ready", answer.asked + 1)
    /\ UNCHANGED <<tunnelVars, inbox, seen>>

CallReturns ==
    /\ session.phase = "call"
    /\ TakeReply \/ NoReply
    /\ Goto("ready")
    /\ UNCHANGED <<tunnelVars, inner, pending, seen>>

(* Session.pump(): events go to their handlers, replies nowhere. *)
Pump ==
    /\ session.phase = "ready"
    /\ inbox[session.tab] # <<>>
    /\ Take
    /\ UNCHANGED <<tunnelVars, session, inner, pending, seen, answer>>

(* The command is done, or its socket broke. *)
EndSession ==
    /\ session.phase = "ready"
    /\ session' = [session EXCEPT !.phase = "over", !.open = @ \ {session.tab}]
    /\ UNCHANGED <<tunnelVars, socketVars, seen, answer>>

Next ==
    \/ \E c \in Command : OpenTunnel(c) \/ SshConnects(c) \/ TunnelUp(c)
                          \/ TunnelFails(c) \/ LeaveTunnel(c)
    \/ \E t \in Tab : AnswerRequest(t) \/ SendEvent(t)
    \/ ListTargets
    \/ Select
    \/ Call \/ Enable \/ CallReturns \/ Pump \/ EndSession

Spec == Init /\ [][Next]_vars

(* The client itself runs on: a wait ends by a frame or by its timeout.
   Nothing is assumed of the browser, the user or ssh. *)
FairSpec == Spec /\ WF_vars(Select)

-----------------------------------------------------------------------------
(* A reply is only ever taken for the request that was asked for, although
   replies that were given up arrive late on the same socket. *)
RepliesMatch == answer.answered = answer.asked

(* The session runs on a tab that answered "not hidden", or no tab did, and
   then on the first one that has a target. *)
ShownTabChosen ==
    session.phase \in {"ready", "call"} =>
        \/ seen[session.tab] = "visible"
        \/ /\ \A t \in Tab : seen[t] \notin {"visible", "untried"}
           /\ seen[session.tab] # "mute"
           /\ \A t \in 1..session.tab - 1 : seen[t] = "mute"

(* However many tabs are tried, a session that runs has two sockets open at
   most, its own and the fallback's, and one that is over has left at most
   the fallback's. *)
SocketsBounded ==
    /\ session.phase \in {"ready", "call"} =>
           session.open \subseteq {session.tab, session.first}
    /\ session.phase = "over" => session.open \subseteq {session.first}

(* Choosing a tab ends, however many events come in between and however many
   tabs never answer. *)
SelectionEnds == session.phase = "select" ~> session.phase \in {"ready", "over"}
=============================================================================
