--------------------------- MODULE MessageSocket ---------------------------
(***************************************************************************)
(* The websocket of a page (public/js/messagesocket.js) and the script     *)
(* that owns it (views/extras.tmpl).  Turbolinks replaces the page without *)
(* reloading the scripts, so one socket lives on from page to page until a *)
(* page under another root needs the socket of another hub.  Its messages, *)
(* its failures and the page's own steps are tasks of one event loop, in   *)
(* any order between two sockets.  The browser's WebSocket is external.    *)
(***************************************************************************)
EXTENDS Naturals, Sequences

CONSTANTS
    Paths,         \* the paths of the pages
    Root,          \* the first part of each path; the home page's is Home
    Home,
    WithSocket,    \* the paths under which the server has a websocket route
    WithFooter,    \* the paths of the pages with a footer
    DecodePage,    \* the path of the page that decodes and sends transactions
    MaxSockets,    \* bound: sockets the script creates
    MaxRequests,   \* bound: requests the user sends
    MaxDown        \* bound: events of a socket that wait for the event loop

ASSUME PathsAssumption ==
    /\ Home \in Paths /\ DecodePage \in Paths
    /\ WithSocket \subseteq Paths /\ WithFooter \subseteq Paths
    /\ \A p \in Paths : Root[p] = Root[Home] => p = Home
    /\ MaxSockets \in Nat \ {0} /\ MaxRequests \in Nat /\ MaxDown \in Nat

VARIABLES
    page,      \* the path shown
    sockets,   \* every MessageSocket created, by number
    ws,        \* the global ws: the number of the last one
    status,    \* what the footer says of the connection
    kept,      \* every page so far had a footer
    sent,      \* how many requests were sent
    asked,     \* the request sent since the answer was last cleared, 0 if none
    decoded    \* the request whose answer the page shows, 0 if none

socketVars == <<page, sockets, ws, status, kept, sent, asked, decoded>>

Numbers == 1..MaxSockets
Requests == 1..MaxRequests

\* The events for which createWebSocket registers a handler.
PageEvents == {"open", "close", "error", "ping", "decodetxResp", "sendtxResp",
               "newblock", "mempoolsstxfeeinfo"}

\* What waits for the event loop; id is a request's number, or 0.
Event(name, id) == [name |-> name, id |-> id]

Events ==
    {Event(n, 0) : n \in {"open", "close", "fail", "newblock"}} \union
    {Event("decodetxResp", r) : r \in Requests}

Socket ==
    [path : Paths,
     state : {"none", "connecting", "open", "closing", "closed"},
     handlers : SUBSET PageEvents,    \* the closure variable handlers
     pinging : BOOLEAN,               \* the interval timer runs
     down : Seq(Events),              \* what the browser has for the page
     up : Seq(Requests),              \* what the server has not received yet
     serving : BOOLEAN,               \* the server's handler runs
     reading : BOOLEAN]               \* its goroutine reads requests

NoSocket ==
    [path |-> Home, state |-> "none", handlers |-> {}, pinging |-> FALSE,
     down |-> <<>>, up |-> <<>>, serving |-> FALSE, reading |-> FALSE]

\* Every variable has its type, and ws is the last socket that was created.
TypeOK ==
    /\ page \in Paths
    /\ sockets \in [Numbers -> Socket]
    /\ ws \in Numbers
    /\ \A n \in Numbers : n > ws <=> sockets[n] = NoSocket
    /\ status \in {"Connecting", "Connected", "Disconnected"} /\ kept \in BOOLEAN
    /\ sent \in 0..MaxRequests /\ asked \in 0..MaxRequests /\ decoded \in 0..MaxRequests

-----------------------------------------------------------------------------
(* The functions of messagesocket.js, on one socket.                       *)

\* new MessageSocket(uri): the browser connects and the pings start.
NewMessageSocket(loc) ==
    [NoSocket EXCEPT !.path = loc, !.state = "connecting", !.pinging = TRUE]

\* registerEvtHandler, for several events.
RegisterEvtHandler(s, events) == [s EXCEPT !.handlers = @ \union events]

\* The browser's close(): what it has not delivered is dropped, and one more event
\* ends the connection; one that was never opened fails.
BrowserClose(s) ==
    IF s.state \notin {"connecting", "open"} THEN s
    ELSE [s EXCEPT !.state = "closing", !.up = <<>>,
                   !.serving = FALSE, !.reading = FALSE,
                   !.down = <<Event(IF s.state = "open" THEN "close" ELSE "fail", 0)>>]

\* Faulty: the handlers stay, and with them the old socket's say on the page.
CloseKeepingHandlers(s) == BrowserClose([s EXCEPT !.pinging = FALSE])

\* Faulty: the timer goes on.
CloseKeepingTimer(s) == BrowserClose([s EXCEPT !.handlers = {}])

\* close(reason): the timer is cleared and the handlers are forgotten.
Close(s) == BrowserClose([s EXCEPT !.pinging = FALSE, !.handlers = {}])

\* send: the browser throws while it connects and drops what is sent after the end.
Send(s, r) == IF s.state = "open" THEN [s EXCEPT !.up = Append(@, r)] ELSE s

\* forward: what the footer says of the connection after an event.  Without a handler,
\* or a footer, nothing changes; the handlers are those of createWebSocket.
Forward(s, event, shown) ==
    IF event \notin s.handlers \/ page \notin WithFooter THEN shown
    ELSE CASE event = "open" -> "Connected"
           [] event \in {"close", "error"} -> "Disconnected"
           [] OTHER -> shown

-----------------------------------------------------------------------------
(* The script of extras.tmpl.                                              *)

\* createWebSocket: the handlers are registered in the task that opens the
\* connection, before any event of it.
CreateWebSocket(loc) == RegisterEvtHandler(NewMessageSocket(loc), PageEvents)

\* manageWebSocket compares the first parts of the paths.  That of the home page's
\* socket is "ws", which is no page's.
RootsMatch(loc, s) == s.path # Home /\ Root[loc] = Root[s.path]

Init ==
    /\ page \in Paths
    /\ ws = 1
    /\ sockets = [n \in Numbers |-> IF n = 1 THEN CreateWebSocket(page) ELSE NoSocket]
    /\ status = "Connecting" /\ kept = (page \in WithFooter)
    /\ sent = 0 /\ asked = 0 /\ decoded = 0

\* Faulty: the new socket is assigned to a variable of the function.
ManageOwnSocket(loc) ==
    \/ RootsMatch(loc, sockets[ws]) /\ UNCHANGED <<sockets, ws>>
    \/ /\ ~RootsMatch(loc, sockets[ws])
       /\ ws < MaxSockets
       /\ UNCHANGED ws
       /\ sockets' = [sockets EXCEPT ![ws] = Close(@), ![ws + 1] = CreateWebSocket(loc)]

\* manageWebSocket: a socket of another root is closed and replaced.
ManageWebSocket(loc) ==
    \/ RootsMatch(loc, sockets[ws]) /\ UNCHANGED <<sockets, ws>>
    \/ /\ ~RootsMatch(loc, sockets[ws])
       /\ ws < MaxSockets
       /\ ws' = ws + 1
       /\ sockets' = [sockets EXCEPT ![ws] = Close(@), ![ws + 1] = CreateWebSocket(loc)]

\* Turbolinks shows a page and evaluates its script.  The footer's text is permanent: it
\* goes from one page to the next if both have a footer; without, the next is as new.
VisitPage(loc) ==
    /\ page' = loc
    /\ ManageWebSocket(loc)
    /\ status' = IF page \in WithFooter /\ loc \in WithFooter THEN status ELSE "Connecting"
    /\ kept' = (kept /\ loc \in WithFooter)
    /\ asked' = 0 /\ decoded' = 0
    /\ UNCHANGED sent

\* The user asks for a transaction to be decoded, or sent; the answer shown is cleared.
SendRequest ==
    /\ page = DecodePage
    /\ sent < MaxRequests
    /\ sent' = sent + 1
    /\ sockets' = [sockets EXCEPT ![ws] = Send(@, sent + 1)]
    /\ asked' = IF sockets[ws].state = "open" THEN sent + 1 ELSE 0
    /\ decoded' = 0
    /\ UNCHANGED <<page, ws, status, kept>>

\* The same without a transaction: the answer is cleared, and nothing sent.
SendNothing ==
    /\ page = DecodePage
    /\ asked' = 0 /\ decoded' = 0
    /\ UNCHANGED <<page, sockets, ws, status, kept, sent>>

-----------------------------------------------------------------------------
(* The tasks of the event loop: the first event of a socket.               *)

Task(n, name) == sockets[n].down # <<>> /\ Head(sockets[n].down).name = name

Done(s) == [s EXCEPT !.down = Tail(@)]

\* ws.onopen.
OnOpen(n) ==
    /\ Task(n, "open")
    /\ sockets' = [sockets EXCEPT ![n] = [Done(@) EXCEPT !.state = "open"]]
    /\ status' = Forward(sockets[n], "open", status)
    /\ UNCHANGED <<page, ws, kept, sent, asked, decoded>>

\* ws.onclose, and ws.onerror before it when the connection has failed.  The timer
\* is not cleared here.
OnEnd(n) ==
    /\ Task(n, "close") \/ Task(n, "fail")
    /\ sockets' = [sockets EXCEPT ![n] = [Done(@) EXCEPT !.state = "closed"]]
    /\ status' =
         IF Task(n, "close") THEN Forward(sockets[n], "close", status)
         ELSE Forward(sockets[n], "close", Forward(sockets[n], "error", status))
    /\ UNCHANGED <<page, ws, kept, sent, asked, decoded>>

\* ws.onmessage: an answer is shown where the page has a place for it.
OnMessage(n) ==
    \E name \in {"newblock", "decodetxResp"} :
        /\ Task(n, name)
        /\ sockets' = [sockets EXCEPT ![n] = Done(@)]
        /\ status' = Forward(sockets[n], name, status)
        /\ decoded' = IF name = "decodetxResp" /\ page = DecodePage
                         /\ name \in sockets[n].handlers
                      THEN Head(sockets[n].down).id ELSE decoded
        /\ UNCHANGED <<page, ws, kept, sent, asked>>

-----------------------------------------------------------------------------
(* The server's end: the websocket handlers of web.go and explorer.go.     *)

Give(s, e) == [s EXCEPT !.down = Append(@, e)]

ServerVars == <<page, ws, status, kept, sent, asked, decoded>>

\* The route exists and its handler starts; only the explorer's reads requests.
Accept(n) ==
    /\ sockets[n].state = "connecting" /\ sockets[n].down = <<>>
    /\ sockets[n].path \in WithSocket
    /\ sockets' = [sockets EXCEPT ![n] =
                     [Give(@, Event("open", 0)) EXCEPT !.serving = TRUE,
                                                       !.reading = sockets[n].path # Home]]
    /\ UNCHANGED ServerVars

\* There is no such route, or no connection.
Refuse(n) ==
    /\ sockets[n].state = "connecting" /\ sockets[n].down = <<>>
    /\ sockets' = [sockets EXCEPT ![n] = Give(@, Event("fail", 0))]
    /\ UNCHANGED ServerVars

\* The update loop writes what the hub has signalled.
ServerUpdate(n) ==
    /\ sockets[n].serving /\ Len(sockets[n].down) < MaxDown
    /\ sockets' = [sockets EXCEPT ![n] = Give(@, Event("newblock", 0))]
    /\ UNCHANGED ServerVars

\* Faulty: after an error the goroutine goes on with the next request.
ServerGoesOn(n) ==
    /\ sockets[n].reading /\ sockets[n].up # <<>>
    /\ sockets' = [sockets EXCEPT ![n] = [@ EXCEPT !.up = Tail(@)]]
    /\ UNCHANGED ServerVars

\* The reading goroutine answers the requests one by one; one that is too large for it,
\* or cannot be decoded or sent, with an error's text.
ServerAnswer(n) ==
    /\ sockets[n].reading /\ sockets[n].up # <<>> /\ Len(sockets[n].down) < MaxDown
    /\ LET up == sockets[n].up
           answer == Event("decodetxResp", Head(up))
       IN sockets' = [sockets EXCEPT ![n] = [Give(@, answer) EXCEPT !.up = Tail(up)]]
    /\ UNCHANGED ServerVars

\* Receive fails, of a frame over MaxPayloadBytes or no JSON, or Send does: that request
\* has no answer and the goroutine ends, but the connection stays.
ServerFails(n) ==
    /\ sockets[n].reading /\ sockets[n].up # <<>>
    /\ sockets' = [sockets EXCEPT ![n] = [@ EXCEPT !.up = Tail(sockets[n].up),
                                                   !.reading = FALSE]]
    /\ UNCHANGED ServerVars

\* No message came within wsReadTimeout, as when the browser slows the timers of a
\* page in the background: the goroutine ends, the connection stays.
ReadTimeout(n) ==
    /\ sockets[n].reading
    /\ sockets' = [sockets EXCEPT ![n].reading = FALSE]
    /\ UNCHANGED ServerVars

\* The hub has dropped the client or a write has failed: the handler returns and
\* the connection is closed.
ServerEnd(n) ==
    /\ sockets[n].serving
    /\ sockets' = [sockets EXCEPT ![n] =
                     [Give(@, Event("close", 0)) EXCEPT !.serving = FALSE,
                                                        !.reading = FALSE]]
    /\ UNCHANGED ServerVars

EventLoop == \E n \in Numbers : OnOpen(n) \/ OnEnd(n) \/ OnMessage(n)

Server ==
    \E n \in Numbers :
        \/ Accept(n) \/ Refuse(n) \/ ServerUpdate(n) \/ ServerAnswer(n)
        \/ ServerFails(n) \/ ReadTimeout(n) \/ ServerEnd(n)

Next ==
    \/ \E loc \in Paths : VisitPage(loc)
    \/ SendRequest \/ SendNothing
    \/ EventLoop
    \/ Server

Spec == Init /\ [][Next]_socketVars

-----------------------------------------------------------------------------
\* Only the current socket acts on the page: of the ones before it no handler is
\* left, no timer pings, and the browser has closed them or is about to.  The code:
\* close() is all that separates the sockets, and each callback keeps its own.
OnlyCurrentActs ==
    \A n \in Numbers \ {ws} :
        /\ sockets[n].handlers = {} /\ ~sockets[n].pinging
        /\ sockets[n].state \in {"none", "closing", "closed"}

\* When the current socket has nothing left to say, the footer says whether it is
\* connected, whatever the sockets before it had to report and whenever they did.  Only
\* after a page without a footer may it still say what a new one says.
StatusOfCurrent ==
    (sockets[ws].down = <<>> /\ sockets[ws].state # "connecting") =>
        \/ status = IF sockets[ws].state = "open" THEN "Connected" ELSE "Disconnected"
        \/ ~kept /\ status = "Connecting"

\* While the server reads requests, none is left without its answer: when nothing is on
\* its way the answer shown is that to the page's last request.  The code: an error ends
\* the goroutine, so that no later answer takes the place of one that is missing, and of
\* a socket that was replaced none arrives.
LastAnswerShown ==
    (asked # 0 /\ sockets[ws].state = "open" /\ sockets[ws].reading
       /\ sockets[ws].up = <<>> /\ sockets[ws].down = <<>>) => decoded = asked
=============================================================================
