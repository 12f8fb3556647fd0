------------------------- MODULE PageScriptsProofs -------------------------
(***************************************************************************)
(* Proofs about the scripts of a page: its socket and its map of the nodes,*)
(* for any pages and roots, any number of sockets, requests and visits, any*)
(* lists of nodes, and any order of the events of several sockets and of   *)
(* the answers to several visits; and its conversions and its loader, for  *)
(* any value and any query.                                                *)
(***************************************************************************)
EXTENDS PageScripts, SequenceTheorems, WellFoundedInduction, TLAPS

-----------------------------------------------------------------------------
(***************************************************************************)
(* The inductive invariant.                                                *)
(***************************************************************************)
Ends == {"close", "fail"}

\* What a socket has for the event loop fits its state: the event that opens it comes
\* first, the one that ends it last, and none is added after the end.
Ordered(s) ==
    /\ \A i \in 1..Len(s.down) :
         /\ s.down[i].name = "open" => i = 1 /\ s.state = "connecting"
         /\ s.down[i].name \in Ends => i = Len(s.down) /\ ~s.serving
    /\ s.reading => s.serving
    /\ s.serving => s.state \in {"connecting", "open"}
    /\ s.state = "connecting" /\ s.down = <<>> => ~s.serving
    /\ s.state = "connecting" /\ s.down # <<>> => s.down[1].name \in {"open", "fail"}
    /\ s.state \in {"none", "closed"} => s.down = <<>>

\* The footer says a word, or what a new one says.
Says(word) == status = word \/ (~kept /\ status = "Connecting")

\* The current socket has the page's handlers, and the footer says how it is.
CurrentTold ==
    /\ sockets[ws].handlers = PageEvents
    /\ sockets[ws].state \in {"connecting", "open", "closed"}
    /\ sockets[ws].state = "open" => Says("Connected")
    /\ sockets[ws].state = "closed" => Says("Disconnected")
    /\ page \notin WithFooter => ~kept /\ status = "Connecting"

SocketInv ==
    /\ TypeOK
    /\ OnlyCurrentActs
    /\ CurrentTold
    /\ \A n \in Numbers : Ordered(sockets[n]) /\ (n <= ws => sockets[n].state # "none")

-----------------------------------------------------------------------------
(***************************************************************************)
(* What the operations on one socket return.                               *)
(***************************************************************************)

\* Events have a name of their kind and a request's number.
LEMMA EventTypes ==
    /\ \A n \in {"open", "close", "fail", "newblock"} :
          Event(n, 0) \in Events /\ Event(n, 0).name = n
    /\ \A r \in Requests : /\ Event("decodetxResp", r) \in Events
                           /\ Event("decodetxResp", r).name = "decodetxResp"
    /\ \A e \in Events : e.name # "decodetxResp" \/ e.id \in Requests
<1>1. \A n \in {"open", "close", "fail", "newblock"} :
         Event(n, 0) \in Events /\ Event(n, 0).name = n
  BY DEF Event, Events
<1>2. \A r \in Requests : /\ Event("decodetxResp", r) \in Events
                          /\ Event("decodetxResp", r).name = "decodetxResp"
  BY DEF Event, Events
<1>3. ASSUME NEW e \in Events
      PROVE  e.name # "decodetxResp" \/ e.id \in Requests
  <2>1. CASE e \in {Event(n, 0) : n \in {"open", "close", "fail", "newblock"}}
    BY <2>1 DEF Event
  <2>2. CASE e \in {Event("decodetxResp", r) : r \in Requests}
    BY <2>2 DEF Event
  <2>3. QED
    BY <2>1, <2>2 DEF Events
<1>4. QED
  BY <1>1, <1>2, <1>3

\* A socket that was never created has nothing to say.
LEMMA NoSocketType ==
    /\ NoSocket \in Socket /\ NoSocket.state = "none" /\ Ordered(NoSocket)
    /\ NoSocket.handlers = {} /\ ~NoSocket.pinging
    /\ NoSocket.down = <<>> /\ ~NoSocket.serving /\ ~NoSocket.reading
BY PathsAssumption DEF NoSocket, Socket, Ordered

\* A new socket connects, with all the handlers of the page.
LEMMA NewSocket ==
    ASSUME NEW loc \in Paths
    PROVE  /\ CreateWebSocket(loc) \in Socket
           /\ CreateWebSocket(loc).state = "connecting"
           /\ CreateWebSocket(loc).handlers = PageEvents
           /\ Ordered(CreateWebSocket(loc))
<1> DEFINE s == NewMessageSocket(loc)
<1>1. /\ s \in Socket /\ s.state = "connecting" /\ s.handlers = {}
      /\ s.down = <<>> /\ ~s.serving /\ ~s.reading
  BY NoSocketType DEF NewMessageSocket, Socket
<1>2. CreateWebSocket(loc) = [s EXCEPT !.handlers = {} \union PageEvents]
  BY <1>1 DEF CreateWebSocket, RegisterEvtHandler
<1>3. QED
  BY <1>1, <1>2 DEF Socket, Ordered

\* A closed socket keeps no handler and no timer, and is closed or about to be.
LEMMA ClosedSocket ==
    ASSUME NEW s \in Socket, Ordered(s), s.state \in {"connecting", "open", "closed"}
    PROVE  /\ Close(s) \in Socket
           /\ Ordered(Close(s))
           /\ Close(s).handlers = {} /\ ~Close(s).pinging
           /\ Close(s).state \in {"closing", "closed"}
<1> DEFINE t == [s EXCEPT !.pinging = FALSE, !.handlers = {}]
<1>1. /\ t \in Socket /\ Ordered(t) /\ t.state = s.state
      /\ t.handlers = {} /\ ~t.pinging
  BY DEF Socket, Ordered
<1>2. CASE s.state \in {"connecting", "open"}
  <2> DEFINE e == Event(IF t.state = "open" THEN "close" ELSE "fail", 0)
             u == [t EXCEPT !.state = "closing", !.up = <<>>,
                            !.serving = FALSE, !.reading = FALSE, !.down = <<e>>]
  <2>1. e \in Events /\ e.name \in Ends
    BY EventTypes DEF Ends
  <2>2. Close(s) = u
    BY <1>1, <1>2 DEF Close, BrowserClose
  <2>3. /\ <<>> \in Seq(Requests) /\ <<e>> \in Seq(Events) /\ Len(<<e>>) = 1
        /\ <<e>>[1] = e /\ <<e>> # <<>>
    BY <2>1
  <2>4. u \in Socket /\ u.handlers = {} /\ ~u.pinging /\ u.state = "closing"
    BY <1>1, <2>3 DEF Socket
  <2>5. u.down = <<e>> /\ ~u.serving /\ ~u.reading
    BY <1>1 DEF Socket
  <2>6. Ordered(u)
    BY <2>1, <2>3, <2>4, <2>5 DEF Ordered, Ends
  <2>7. QED
    BY <2>2, <2>4, <2>6
<1>3. CASE s.state = "closed"
  <2>1. Close(s) = t
    BY <1>1, <1>3 DEF Close, BrowserClose
  <2>2. QED
    BY <1>1, <1>3, <2>1
<1>4. QED
  BY <1>2, <1>3

\* A sent request leaves all but the queue of the requests as it was.
LEMMA SentOn ==
    ASSUME NEW s \in Socket, Ordered(s), NEW r \in Requests
    PROVE  /\ Send(s, r) \in Socket
           /\ Ordered(Send(s, r))
           /\ Send(s, r).handlers = s.handlers /\ Send(s, r).state = s.state
           /\ Send(s, r).pinging = s.pinging
<1>1. CASE s.state = "open"
  <2> DEFINE t == [s EXCEPT !.up = Append(s.up, r)]
  <2>1. Send(s, r) = t
    BY <1>1 DEF Send
  <2>2. Append(s.up, r) \in Seq(Requests)
    BY AppendProperties DEF Socket
  <2>3. /\ t \in Socket /\ t.state = s.state /\ t.handlers = s.handlers
        /\ t.down = s.down /\ t.serving = s.serving /\ t.reading = s.reading
        /\ t.pinging = s.pinging
    BY <2>2 DEF Socket
  <2> HIDE DEF t
  <2>4. Ordered(t)
    BY <2>3 DEF Ordered
  <2>5. QED
    BY <2>1, <2>3, <2>4
<1>2. CASE s.state # "open"
  BY <1>2 DEF Send
<1>3. QED
  BY <1>1, <1>2

\* What is added behind other events.
LEMMA AddedEvent ==
    ASSUME NEW s \in Socket, Ordered(s), NEW e \in Events, e.name # "open", s.serving
    PROVE  LET q == Append(s.down, e)
           IN /\ q \in Seq(Events) /\ q # <<>> /\ Len(q) = Len(s.down) + 1
              /\ \A i \in 1..Len(q) :
                   /\ q[i].name = "open" => i = 1 /\ s.state = "connecting"
                   /\ q[i].name \in Ends => i = Len(q) /\ e.name \in Ends
              /\ s.state = "connecting" => q[1].name \in {"open", "fail"}
<1> DEFINE q == Append(s.down, e)
<1>1. s.down \in Seq(Events)
  BY DEF Socket
<1>2. /\ q \in Seq(Events) /\ q # <<>> /\ Len(q) = Len(s.down) + 1
      /\ q[Len(q)] = e /\ \A i \in 1..Len(s.down) : q[i] = s.down[i]
  BY <1>1, AppendProperties
<1>3. ASSUME NEW i \in 1..Len(q)
      PROVE  /\ q[i].name = "open" => i = 1 /\ s.state = "connecting"
             /\ q[i].name \in Ends => i = Len(q) /\ e.name \in Ends
  BY <1>1, <1>2 DEF Ordered
<1>4. ASSUME s.state = "connecting" PROVE q[1].name \in {"open", "fail"}
  BY <1>1, <1>2, <1>4 DEF Ordered
<1>5. QED
  BY <1>2, <1>3, <1>4

\* An event from a handler that runs.
LEMMA GivenEvent ==
    ASSUME NEW s \in Socket, Ordered(s), NEW e \in Events,
           e.name \notin Ends \union {"open"}, s.serving
    PROVE  /\ Give(s, e) \in Socket /\ Ordered(Give(s, e))
           /\ Give(s, e).handlers = s.handlers /\ Give(s, e).state = s.state
           /\ Give(s, e).pinging = s.pinging /\ Give(s, e).serving
           /\ Give(s, e).up = s.up
<1>1. /\ Give(s, e) \in Socket /\ Give(s, e).down = Append(s.down, e)
      /\ Give(s, e).handlers = s.handlers /\ Give(s, e).state = s.state
      /\ Give(s, e).serving = s.serving /\ Give(s, e).reading = s.reading
      /\ Give(s, e).pinging = s.pinging /\ Give(s, e).up = s.up
  BY AddedEvent DEF Give, Socket
<1>2. Ordered(Give(s, e))
  BY <1>1, AddedEvent DEF Ordered
<1>3. QED
  BY <1>1, <1>2

\* The event that a handler leaves when it returns.
LEMMA LastEvent ==
    ASSUME NEW s \in Socket, Ordered(s), s.serving
    PROVE  LET t == [Give(s, Event("close", 0)) EXCEPT !.serving = FALSE, !.reading = FALSE]
           IN /\ t \in Socket /\ Ordered(t)
              /\ t.handlers = s.handlers /\ t.state = s.state /\ t.pinging = s.pinging
<1> DEFINE e == Event("close", 0)
           g == Give(s, e)
           t == [g EXCEPT !.serving = FALSE, !.reading = FALSE]
<1>1. e \in Events /\ e.name = "close"
  BY EventTypes
<1>2. /\ g \in Socket /\ g.down = Append(s.down, e)
      /\ g.handlers = s.handlers /\ g.state = s.state /\ g.pinging = s.pinging
  BY <1>1, AddedEvent DEF Give, Socket
<1>3. /\ t \in Socket /\ t.down = Append(s.down, e) /\ ~t.serving /\ ~t.reading
      /\ t.handlers = s.handlers /\ t.state = s.state /\ t.pinging = s.pinging
  BY <1>2 DEF Socket
<1>4. t.state \in {"connecting", "open"}
  BY <1>3 DEF Ordered
<1>5. Ordered(t)
  BY <1>1, <1>3, <1>4, AddedEvent DEF Ordered
<1>6. QED
  BY <1>3, <1>5

\* The first event of a socket that connects.
LEMMA FirstEvent ==
    ASSUME NEW s \in Socket, Ordered(s), s.state = "connecting", s.down = <<>>,
           NEW e \in Events, NEW served \in BOOLEAN, NEW read \in BOOLEAN,
           e.name \in {"open", "fail"}, e.name = "fail" => served = FALSE,
           served = FALSE => read = FALSE
    PROVE  LET t == [Give(s, e) EXCEPT !.serving = served, !.reading = read]
           IN /\ t \in Socket /\ Ordered(t)
              /\ t.handlers = s.handlers /\ t.state = s.state /\ t.pinging = s.pinging
<1> DEFINE g == Give(s, e)
           t == [g EXCEPT !.serving = served, !.reading = read]
<1>1. /\ Append(s.down, e) = <<e>> /\ <<e>> \in Seq(Events) /\ Len(<<e>>) = 1
      /\ <<e>>[1] = e /\ <<e>> # <<>>
  OBVIOUS
<1>2. /\ g \in Socket /\ g.down = <<e>>
      /\ g.handlers = s.handlers /\ g.state = s.state /\ g.pinging = s.pinging
  BY <1>1 DEF Give, Socket
<1>3. /\ t \in Socket /\ t.down = <<e>> /\ t.serving = served /\ t.reading = read
      /\ t.handlers = s.handlers /\ t.state = s.state /\ t.pinging = s.pinging
  BY <1>2 DEF Socket
<1>4. \A i \in 1..Len(t.down) : i = 1 /\ t.down[i] = e
  <2>1. Len(t.down) = 1 /\ t.down[1] = e
    BY <1>1, <1>3
  <2> HIDE DEF t
  <2>2. QED
    BY <2>1
<1>5. t.state = "connecting" /\ Len(t.down) = 1 /\ t.down # <<>> /\ t.down[1] = e
  BY <1>1, <1>3
<1>6. Ordered(t)
  BY <1>3, <1>4, <1>5 DEF Ordered, Ends
<1>7. QED
  BY <1>3, <1>6

\* What is left when the first event has been handled.
LEMMA TakenEvent ==
    ASSUME NEW s \in Socket, Ordered(s), s.down # <<>>
    PROVE  /\ Done(s) \in Socket /\ Done(s).down = Tail(s.down)
           /\ Done(s).handlers = s.handlers /\ Done(s).state = s.state
           /\ Done(s).pinging = s.pinging /\ Done(s).serving = s.serving
           /\ Done(s).reading = s.reading
           /\ Head(s.down) = s.down[1] /\ Head(s.down) \in Events
           /\ \A i \in 1..Len(Tail(s.down)) :
                /\ Tail(s.down)[i].name # "open"
                /\ Tail(s.down)[i].name \in Ends => i = Len(Tail(s.down)) /\ ~s.serving
           /\ Head(s.down).name \in Ends => Tail(s.down) = <<>> /\ ~s.serving
<1>1. /\ s.down \in Seq(Events) /\ Tail(s.down) \in Seq(Events)
      /\ Len(Tail(s.down)) = Len(s.down) - 1 /\ Len(s.down) \in Nat \ {0}
      /\ Head(s.down) = s.down[1] /\ Head(s.down) \in Events
      /\ \A i \in 1..Len(Tail(s.down)) : Tail(s.down)[i] = s.down[i + 1]
  BY DEF Socket
<1>2. /\ Done(s) \in Socket /\ Done(s).down = Tail(s.down)
      /\ Done(s).handlers = s.handlers /\ Done(s).state = s.state
      /\ Done(s).pinging = s.pinging /\ Done(s).serving = s.serving
      /\ Done(s).reading = s.reading
  BY <1>1 DEF Done, Socket
<1>3. ASSUME NEW i \in 1..Len(Tail(s.down))
      PROVE  /\ Tail(s.down)[i].name # "open"
             /\ Tail(s.down)[i].name \in Ends => i = Len(Tail(s.down)) /\ ~s.serving
  BY <1>1 DEF Ordered
<1>4. ASSUME Head(s.down).name \in Ends PROVE Tail(s.down) = <<>> /\ ~s.serving
  <2>1. 1 \in 1..Len(s.down) /\ s.down[1].name \in Ends
    BY <1>1, <1>4
  <2>2. 1 = Len(s.down) /\ ~s.serving
    BY <2>1 DEF Ordered
  <2>3. Len(Tail(s.down)) = 0
    BY <1>1, <2>2
  <2>4. QED
    BY <1>1, <2>2, <2>3, EmptySeq
<1>5. QED
  BY <1>1, <1>2, <1>3, <1>4

\* A socket that opens, one that ends, and one that has been given a message.
LEMMA OpenedSocket ==
    ASSUME NEW s \in Socket, Ordered(s), s.down # <<>>, Head(s.down).name = "open"
    PROVE  LET t == [Done(s) EXCEPT !.state = "open"]
           IN /\ t \in Socket /\ Ordered(t) /\ t.state = "open"
              /\ t.handlers = s.handlers /\ t.pinging = s.pinging
              /\ s.state = "connecting"
<1> DEFINE t == [Done(s) EXCEPT !.state = "open"]
<1>1. s.state = "connecting"
  BY TakenEvent DEF Ordered, Socket
<1>2. /\ t \in Socket /\ t.down = Tail(s.down) /\ t.state = "open"
      /\ t.handlers = s.handlers /\ t.pinging = s.pinging
      /\ t.serving = s.serving /\ t.reading = s.reading
  BY TakenEvent DEF Socket
<1>3. /\ \A i \in 1..Len(Tail(s.down)) :
           /\ Tail(s.down)[i].name # "open"
           /\ Tail(s.down)[i].name \in Ends => i = Len(Tail(s.down)) /\ ~s.serving
      /\ s.reading => s.serving
  BY TakenEvent DEF Ordered
<1> HIDE DEF t
<1>4. Ordered(t)
  BY <1>2, <1>3 DEF Ordered
<1>5. QED
  BY <1>1, <1>2, <1>4 DEF t

\* A socket that ends has nothing more to say.
LEMMA EndedSocket ==
    ASSUME NEW s \in Socket, Ordered(s), s.down # <<>>, Head(s.down).name \in Ends
    PROVE  LET t == [Done(s) EXCEPT !.state = "closed"]
           IN /\ t \in Socket /\ Ordered(t) /\ t.state = "closed"
              /\ t.handlers = s.handlers /\ t.pinging = s.pinging
<1> DEFINE t == [Done(s) EXCEPT !.state = "closed"]
<1>1. /\ t \in Socket /\ t.down = <<>> /\ t.state = "closed"
      /\ t.handlers = s.handlers /\ t.pinging = s.pinging
      /\ ~t.serving /\ t.reading = s.reading
  BY TakenEvent DEF Socket
<1>2. Ordered(t)
  BY <1>1 DEF Ordered
<1>3. QED
  BY <1>1, <1>2

\* A message changes nothing but what waits for the event loop.
LEMMA ToldSocket ==
    ASSUME NEW s \in Socket, Ordered(s), s.down # <<>>,
           Head(s.down).name \notin Ends \union {"open"}
    PROVE  /\ Done(s) \in Socket /\ Ordered(Done(s))
           /\ Done(s).handlers = s.handlers /\ Done(s).state = s.state
           /\ Done(s).pinging = s.pinging
<1>1. s.state # "connecting"
  BY TakenEvent DEF Ordered, Ends
<1>2. s.state \notin {"none", "closed"}
  BY DEF Ordered
<1>3. QED
  BY <1>1, <1>2, TakenEvent DEF Ordered

-----------------------------------------------------------------------------
(***************************************************************************)
(* Each step keeps the invariant.                                          *)
(***************************************************************************)
Words == {"Connecting", "Connected", "Disconnected"}

\* The other variables of the page; without a footer nothing is said.
PageTypes == /\ page \in Paths /\ status \in Words /\ kept \in BOOLEAN
             /\ page \notin WithFooter => ~kept /\ status = "Connecting"
             /\ sent \in 0..MaxRequests /\ asked \in 0..MaxRequests
             /\ decoded \in 0..MaxRequests

\* The first page has one socket, which connects.
LEMMA SocketInit == Init => SocketInv
<1> SUFFICES ASSUME Init PROVE SocketInv
  OBVIOUS
<1>1. page \in Paths /\ ws = 1 /\ 1 \in Numbers
  BY PathsAssumption DEF Init, Numbers
<1>2. \A n \in Numbers : sockets[n] = IF n = 1 THEN CreateWebSocket(page) ELSE NoSocket
  BY DEF Init
<1>3. sockets[1] = CreateWebSocket(page)
  BY <1>1, <1>2
<1>4. sockets \in [Numbers -> Socket]
  BY <1>1, NewSocket, NoSocketType DEF Init
<1>5. /\ sockets[1].state = "connecting" /\ sockets[1].handlers = PageEvents
      /\ Ordered(sockets[1])
  BY <1>1, <1>3, NewSocket
<1>6. \A n \in Numbers : (n > 1 <=> sockets[n] = NoSocket) /\ (n # 1 => n > 1)
  <2>1. \A n \in Numbers : n \in Nat /\ n >= 1
    BY PathsAssumption DEF Numbers
  <2>2. sockets[1] # NoSocket
    BY <1>5, NoSocketType
  <2>3. QED
    BY <1>2, <2>1, <2>2
<1>7. \A n \in Numbers : Ordered(sockets[n]) /\ (n <= 1 => sockets[n].state # "none")
  <2>1. \A n \in Numbers : n \in Nat
    BY PathsAssumption DEF Numbers
  <2>2. QED
    BY <1>5, <1>6, <2>1, NoSocketType
<1>8. TypeOK
  BY <1>1, <1>4, <1>6, PathsAssumption DEF TypeOK, Init
<1>9. OnlyCurrentActs
  BY <1>1, <1>6, NoSocketType DEF OnlyCurrentActs
<1>10. CurrentTold
  BY <1>1, <1>5 DEF CurrentTold, Init
<1>11. QED
  BY <1>1, <1>7, <1>8, <1>9, <1>10 DEF SocketInv

\* One socket changes.
LEMMA UpdatedSocket ==
    ASSUME SocketInv, NEW n \in Numbers, NEW t \in Socket, n <= ws,
           sockets' = [sockets EXCEPT ![n] = t], ws' = ws, kept' = kept,
           Ordered(t), t.state # "none",
           t.handlers = sockets[n].handlers, t.pinging = sockets[n].pinging,
           n # ws => t.state \in {"closing", "closed"} /\ status' = status,
           n = ws => /\ t.state \in {"connecting", "open", "closed"}
                     /\ t.state = "open" => Says("Connected")'
                     /\ t.state = "closed" => Says("Disconnected")',
           PageTypes'
    PROVE  SocketInv'
<1>1. /\ sockets \in [Numbers -> Socket] /\ ws \in Numbers
      /\ \A m \in Numbers : m > ws <=> sockets[m] = NoSocket
  BY DEF SocketInv, TypeOK
<1>2. /\ sockets' \in [Numbers -> Socket] /\ sockets'[n] = t
      /\ \A m \in Numbers \ {n} : sockets'[m] = sockets[m]
  BY <1>1
<1>3. \A m \in Numbers : m \in Nat
  BY PathsAssumption DEF Numbers
<1>4. TypeOK'
  <2>1. t # NoSocket /\ ~(n > ws)
    BY <1>1, <1>3, NoSocketType
  <2>2. \A m \in Numbers : m > ws' <=> sockets'[m] = NoSocket
    BY <1>1, <1>2, <2>1
  <2>3. QED
    BY <1>1, <1>2, <2>2 DEF TypeOK, PageTypes, Words
<1>5. OnlyCurrentActs'
  BY <1>1, <1>2 DEF SocketInv, OnlyCurrentActs
<1>6. CurrentTold'
  <2>1. CASE n = ws
    BY <1>1, <1>2, <2>1 DEF SocketInv, CurrentTold, PageTypes
  <2>2. CASE n # ws
    BY <1>1, <1>2, <2>2 DEF SocketInv, CurrentTold, PageTypes, Says
  <2>3. QED
    BY <2>1, <2>2
<1>7. \A m \in Numbers : Ordered(sockets'[m]) /\ (m <= ws => sockets'[m].state # "none")
  BY <1>1, <1>2 DEF SocketInv
<1>8. QED
  BY <1>4, <1>5, <1>6, <1>7 DEF SocketInv, Ordered

\* A page is shown; a socket of another root is closed and replaced.
LEMMA VisitStep ==
    ASSUME SocketInv, NEW loc \in Paths, VisitPage(loc)
    PROVE  SocketInv'
<1>1. /\ sockets \in [Numbers -> Socket] /\ ws \in Numbers
      /\ \A m \in Numbers : m > ws <=> sockets[m] = NoSocket
  BY DEF SocketInv, TypeOK
<1>2. PageTypes'
  <2>1. /\ page' = loc /\ asked' = 0 /\ decoded' = 0 /\ sent' = sent
        /\ kept' = (kept /\ loc \in WithFooter)
        /\ status' = IF page \in WithFooter /\ loc \in WithFooter
                      THEN status ELSE "Connecting"
    BY DEF VisitPage
  <2>2. status \in Words /\ sent \in 0..MaxRequests /\ 0 \in 0..MaxRequests
    BY PathsAssumption DEF SocketInv, TypeOK, Words
  <2>3. kept' \in BOOLEAN /\ (loc \notin WithFooter => ~kept')
    BY <2>1, Zenon
  <2>4. status' \in Words /\ (loc \notin WithFooter => status' = "Connecting")
    BY <2>1, <2>2 DEF Words
  <2>5. QED
    BY <2>1, <2>2, <2>3, <2>4 DEF PageTypes
<1>3. CASE UNCHANGED <<sockets, ws>>
  BY <1>1, <1>2, <1>3
     DEF VisitPage, SocketInv, TypeOK, OnlyCurrentActs, CurrentTold, PageTypes, Words,
         Ordered, Says
<1>4. CASE /\ ws < MaxSockets /\ ws' = ws + 1
           /\ sockets' = [sockets EXCEPT ![ws] = Close(@), ![ws + 1] = CreateWebSocket(loc)]
  <2> DEFINE old == Close(sockets[ws])
             new == CreateWebSocket(loc)
  <2>1. /\ old \in Socket /\ Ordered(old) /\ old.handlers = {} /\ ~old.pinging
        /\ old.state \in {"closing", "closed"}
    BY <1>1, ClosedSocket DEF SocketInv, CurrentTold
  <2>2. /\ new \in Socket /\ Ordered(new) /\ new.handlers = PageEvents
        /\ new.state = "connecting"
    BY NewSocket
  <2>3. /\ ws' \in Numbers /\ ws' # ws /\ ws \in Nat
        /\ \A m \in Numbers : m \in Nat
    BY <1>1, <1>4, PathsAssumption DEF Numbers
  <2> HIDE DEF old, new
  <2>4. sockets' = [sockets EXCEPT ![ws] = old, ![ws + 1] = new]
    BY <1>4 DEF old, new
  <2>5. /\ sockets' \in [Numbers -> Socket] /\ sockets'[ws] = old /\ sockets'[ws'] = new
        /\ \A m \in Numbers \ {ws, ws'} : sockets'[m] = sockets[m]
    BY <1>1, <1>4, <2>1, <2>2, <2>3, <2>4
  <2>6. TypeOK'
    <3>1. old # NoSocket /\ new # NoSocket
      BY <2>1, <2>2, NoSocketType
    <3>2. \A m \in Numbers : m > ws' <=> sockets'[m] = NoSocket
      BY <1>1, <1>4, <2>3, <2>5, <3>1
    <3>3. QED
      BY <1>2, <2>3, <2>5, <3>2 DEF TypeOK, PageTypes, Words
  <2>7. OnlyCurrentActs'
    BY <2>1, <2>3, <2>5 DEF SocketInv, OnlyCurrentActs
  <2>8. CurrentTold'
    BY <1>2, <2>2, <2>3, <2>5 DEF CurrentTold, PageTypes
  <2>9. \A m \in Numbers : Ordered(sockets'[m]) /\ (m <= ws' => sockets'[m].state # "none")
    BY <1>4, <2>1, <2>2, <2>3, <2>5 DEF SocketInv
  <2>10. QED
    BY <2>6, <2>7, <2>8, <2>9 DEF SocketInv, Ordered
<1>5. QED
  BY <1>3, <1>4 DEF VisitPage, ManageWebSocket

\* A socket that has something to say was created; one that is not current says
\* nothing but its end.
LEMMA ActiveSocket ==
    ASSUME SocketInv, NEW n \in Numbers
    PROVE  LET s == sockets[n]
           IN /\ s \in Socket /\ Ordered(s)
              /\ s.down # <<>> \/ s.serving \/ s.reading \/ s.state = "connecting"
                   => n <= ws /\ s.state # "none"
              /\ n = ws => n <= ws /\ s.state # "none"
              /\ n # ws => /\ ~s.serving /\ ~s.reading /\ s.handlers = {}
                           /\ s.state \in {"none", "closing", "closed"}
              /\ n = ws => /\ s.handlers = PageEvents
                           /\ s.state \in {"connecting", "open", "closed"}
                           /\ s.state = "open" => Says("Connected")
                           /\ s.state = "closed" => Says("Disconnected")
<1> DEFINE s == sockets[n]
<1>1. /\ s \in Socket /\ Ordered(s) /\ n \in Nat /\ ws \in Nat
      /\ n > ws <=> s = NoSocket
      /\ n <= ws => s.state # "none"
  BY PathsAssumption DEF SocketInv, TypeOK, Numbers
<1>2. s.down # <<>> \/ s.serving \/ s.reading \/ s.state = "connecting" => n <= ws
  BY <1>1, NoSocketType
<1>3. n # ws => /\ ~s.serving /\ ~s.reading /\ s.handlers = {}
                /\ s.state \in {"none", "closing", "closed"}
  BY <1>1 DEF SocketInv, OnlyCurrentActs, Ordered
<1>4. QED
  BY <1>1, <1>2, <1>3 DEF SocketInv, CurrentTold

\* A request changes one queue only.
LEMMA SendStep ==
    ASSUME SocketInv, SendRequest
    PROVE  SocketInv'
<1> DEFINE t == Send(sockets[ws], sent + 1)
<1>1. ws \in Numbers /\ sent + 1 \in Requests
  BY PathsAssumption DEF SocketInv, TypeOK, SendRequest, Requests
<1>2. /\ t \in Socket /\ Ordered(t) /\ t.handlers = sockets[ws].handlers
      /\ t.state = sockets[ws].state /\ t.pinging = sockets[ws].pinging
  BY <1>1, SentOn, ActiveSocket
<1>3. PageTypes'
  BY <1>1, PathsAssumption
     DEF SendRequest, SocketInv, TypeOK, CurrentTold, PageTypes, Words, Requests
<1>4. /\ sockets' = [sockets EXCEPT ![ws] = t] /\ ws' = ws
      /\ status' = status /\ kept' = kept
  BY DEF SendRequest
<1> HIDE DEF t
<1>5. QED
  BY <1>1, <1>2, <1>3, <1>4, ActiveSocket, UpdatedSocket DEF Says

\* A task of the event loop: only the current socket's changes the footer.
LEMMA EventLoopStep ==
    ASSUME SocketInv, NEW n \in Numbers, OnOpen(n) \/ OnEnd(n) \/ OnMessage(n)
    PROVE  SocketInv'
<1> DEFINE s == sockets[n]
<1>0. PageTypes
  BY DEF SocketInv, TypeOK, CurrentTold, PageTypes, Words
<1>1. /\ s.down # <<>> /\ ws' = ws /\ page' = page /\ kept' = kept
      /\ sent' = sent /\ asked' = asked
  BY DEF OnOpen, OnEnd, OnMessage, Task
<1>2. /\ s \in Socket /\ Ordered(s) /\ n <= ws /\ s.state # "none"
      /\ n # ws => s.handlers = {} /\ s.state \in {"closing", "closed"}
      /\ n = ws => s.handlers = PageEvents
  BY <1>1, ActiveSocket
<1>3. CASE OnOpen(n)
  <2> DEFINE t == [Done(s) EXCEPT !.state = "open"]
  <2>1. Head(s.down).name = "open"
    BY <1>3 DEF OnOpen, Task
  <2>2. /\ t \in Socket /\ Ordered(t) /\ t.state = "open" /\ s.state = "connecting"
        /\ t.handlers = s.handlers /\ t.pinging = s.pinging
    BY <1>1, <1>2, <2>1, OpenedSocket
  <2>3. n = ws /\ s.handlers = PageEvents
    BY <1>2, <2>2
  <2>4. status' = IF page \in WithFooter THEN "Connected" ELSE status
    BY <1>3, <2>3 DEF OnOpen, Forward, PageEvents
  <2>5. PageTypes' /\ Says("Connected")'
    <3>1. decoded' = decoded
      BY <1>3 DEF OnOpen
    <3>2. CASE page \in WithFooter
      <4>1. status' = "Connected"
        BY <2>4, <3>2
      <4>2. kept' \in BOOLEAN /\ page' \in WithFooter
        BY <1>0, <1>1, <3>2, Zenon DEF PageTypes
      <4>3. QED
        BY <1>0, <1>1, <3>1, <4>1, <4>2 DEF PageTypes, Words, Says
    <3>3. CASE page \notin WithFooter
      <4>1. status' = status /\ status = "Connecting"
        BY <1>0, <2>4, <3>3 DEF PageTypes
      <4>2. ~kept /\ ~kept' /\ kept' \in BOOLEAN
        BY <1>0, <1>1, <3>3, Zenon DEF PageTypes
      <4>3. QED
        BY <1>0, <1>1, <3>1, <4>1, <4>2 DEF PageTypes, Words, Says
    <3>4. QED
      BY <3>2, <3>3
  <2>6. sockets' = [sockets EXCEPT ![n] = t]
    BY <1>3 DEF OnOpen
  <2> HIDE DEF t
  <2>7. QED
    BY <1>1, <1>2, <2>2, <2>3, <2>4, <2>5, <2>6, UpdatedSocket
<1>4. CASE OnEnd(n)
  <2> DEFINE t == [Done(s) EXCEPT !.state = "closed"]
  <2>1. Head(s.down).name \in Ends
    BY <1>4 DEF OnEnd, Task, Ends
  <2>2. /\ t \in Socket /\ Ordered(t) /\ t.state = "closed"
        /\ t.handlers = s.handlers /\ t.pinging = s.pinging
    BY <1>1, <1>2, <2>1, EndedSocket
  <2>3. n = ws => status' = IF page \in WithFooter THEN "Disconnected" ELSE status
    BY <1>2, <1>4 DEF OnEnd, Forward, PageEvents
  <2>4. n # ws => status' = status
    BY <1>2, <1>4 DEF OnEnd, Forward
  <2>5. PageTypes' /\ (n = ws => Says("Disconnected")')
    <3>1. decoded' = decoded
      BY <1>4 DEF OnEnd
    <3>2. CASE page \in WithFooter
      <4>1. n = ws => status' = "Disconnected"
        BY <2>3, <3>2
      <4>2. kept' \in BOOLEAN /\ page' \in WithFooter
        BY <1>0, <1>1, <3>2, Zenon DEF PageTypes
      <4>3. status' \in Words
        BY <1>0, <2>4, <4>1 DEF PageTypes, Words
      <4>4. QED
        BY <1>0, <1>1, <3>1, <4>1, <4>2, <4>3 DEF PageTypes, Says
    <3>3. CASE page \notin WithFooter
      <4>1. status' = status /\ status = "Connecting"
        BY <1>0, <2>3, <2>4, <3>3 DEF PageTypes
      <4>2. ~kept /\ ~kept' /\ kept' \in BOOLEAN
        BY <1>0, <1>1, <3>3, Zenon DEF PageTypes
      <4>3. QED
        BY <1>0, <1>1, <3>1, <4>1, <4>2 DEF PageTypes, Words, Says
    <3>4. QED
      BY <3>2, <3>3
  <2>6. sockets' = [sockets EXCEPT ![n] = t]
    BY <1>4 DEF OnEnd
  <2> HIDE DEF t
  <2>7. QED
    BY <1>1, <1>2, <2>2, <2>3, <2>4, <2>5, <2>6, UpdatedSocket
<1>5. CASE OnMessage(n)
  <2>1. Head(s.down).name \in {"newblock", "decodetxResp"}
    BY <1>5 DEF OnMessage, Task
  <2>2. /\ Done(s) \in Socket /\ Ordered(Done(s)) /\ Done(s).state = s.state
        /\ Done(s).handlers = s.handlers /\ Done(s).pinging = s.pinging
    BY <1>1, <1>2, <2>1, ToldSocket DEF Ends
  <2>3. status' = status /\ sockets' = [sockets EXCEPT ![n] = Done(s)]
    BY <1>5 DEF OnMessage, Forward
  <2>4. decoded' \in 0..MaxRequests
    <3>1. Head(s.down) \in Events
      BY <1>1, <1>2, TakenEvent
    <3>2. Head(s.down).name = "decodetxResp" => Head(s.down).id \in 0..MaxRequests
      BY <3>1, EventTypes, PathsAssumption DEF Requests
    <3>3. decoded' = decoded \/ /\ Head(s.down).name = "decodetxResp"
                                /\ decoded' = Head(s.down).id
      BY <1>5 DEF OnMessage, Task
    <3>4. QED
      BY <3>2, <3>3 DEF SocketInv, TypeOK
  <2>5. PageTypes'
    BY <1>0, <1>1, <2>3, <2>4 DEF PageTypes
  <2>6. QED
    BY <1>1, <1>2, <2>2, <2>3, <2>5, ActiveSocket, UpdatedSocket DEF Says
<1>6. QED
  BY <1>3, <1>4, <1>5

\* The server's steps: a current socket that connects, or is served.
LEMMA ServerStep ==
    ASSUME SocketInv, NEW n \in Numbers,
           \/ Accept(n) \/ Refuse(n) \/ ServerUpdate(n) \/ ServerAnswer(n)
           \/ ServerFails(n) \/ ReadTimeout(n) \/ ServerEnd(n)
    PROVE  SocketInv'
<1> DEFINE s == sockets[n]
<1>1. UNCHANGED ServerVars
  BY DEF Accept, Refuse, ServerUpdate, ServerAnswer, ServerFails, ReadTimeout,
         ServerEnd
<1>2. PageTypes' /\ ws' = ws /\ status' = status /\ kept' = kept
  BY <1>1 DEF ServerVars, SocketInv, TypeOK, CurrentTold, PageTypes, Words
<1>3. /\ s.state = "connecting" \/ s.serving \/ s.reading
      /\ s \in Socket /\ Ordered(s) /\ n <= ws /\ s.state # "none"
  BY ActiveSocket
     DEF Accept, Refuse, ServerUpdate, ServerAnswer, ServerFails, ReadTimeout,
         ServerEnd
<1>4. ASSUME NEW t \in Socket, Ordered(t), sockets' = [sockets EXCEPT ![n] = t],
             t.state = s.state, t.handlers = s.handlers, t.pinging = s.pinging
      PROVE  SocketInv'
  BY <1>2, <1>3, <1>4, ActiveSocket, UpdatedSocket DEF Says
<1>5. CASE Accept(n)
  <2> DEFINE e == Event("open", 0)
             t(r) == [Give(s, e) EXCEPT !.serving = TRUE, !.reading = r]
  <2>1. /\ e \in Events /\ e.name = "open"
        /\ s.state = "connecting" /\ s.down = <<>>
    BY <1>5, EventTypes DEF Accept
  <2>2. sockets' = [sockets EXCEPT ![n] = t(s.path # Home)]
    BY <1>5 DEF Accept
  <2> HIDE DEF e
  <2>3. /\ t(TRUE) \in Socket /\ Ordered(t(TRUE)) /\ t(TRUE).handlers = s.handlers
        /\ t(TRUE).state = s.state /\ t(TRUE).pinging = s.pinging
    BY <1>3, <2>1, FirstEvent
  <2>4. /\ t(FALSE) \in Socket /\ Ordered(t(FALSE)) /\ t(FALSE).handlers = s.handlers
        /\ t(FALSE).state = s.state /\ t(FALSE).pinging = s.pinging
    BY <1>3, <2>1, FirstEvent
  <2>5. \E r \in BOOLEAN : sockets' = [sockets EXCEPT ![n] = t(r)]
    BY <2>2
  <2> HIDE DEF t
  <2>6. QED
    BY <1>4, <2>3, <2>4, <2>5
<1>6. CASE Refuse(n)
  <2> DEFINE e == Event("fail", 0)
             t == [Give(s, e) EXCEPT !.serving = FALSE, !.reading = FALSE]
  <2>1. /\ e \in Events /\ e.name = "fail" /\ s.state = "connecting" /\ s.down = <<>>
    BY <1>6, EventTypes DEF Refuse
  <2>2. sockets' = [sockets EXCEPT ![n] = Give(s, e)]
    BY <1>6 DEF Refuse
  <2> HIDE DEF e
  <2>3. ~s.serving /\ ~s.reading /\ s.serving \in BOOLEAN /\ s.reading \in BOOLEAN
    BY <1>3, <2>1 DEF Ordered, Socket
  <2>4. Give(s, e) = t
    BY <1>3, <2>3 DEF Give, Socket
  <2>5. /\ t \in Socket /\ Ordered(t)
        /\ t.handlers = s.handlers /\ t.state = s.state /\ t.pinging = s.pinging
    BY <1>3, <2>1, FirstEvent
  <2> HIDE DEF t
  <2>6. QED
    BY <1>4, <2>2, <2>4, <2>5
<1>7. CASE ServerUpdate(n)
  <2> DEFINE e == Event("newblock", 0)
             t == Give(s, e)
  <2>1. e \in Events /\ e.name \notin Ends \union {"open"} /\ s.serving
    BY <1>7, EventTypes DEF ServerUpdate, Ends
  <2>2. sockets' = [sockets EXCEPT ![n] = t]
    BY <1>7 DEF ServerUpdate
  <2> HIDE DEF e
  <2>3. /\ t \in Socket /\ Ordered(t)
        /\ t.handlers = s.handlers /\ t.state = s.state /\ t.pinging = s.pinging
    BY <1>3, <2>1, GivenEvent
  <2> HIDE DEF t
  <2>4. QED
    BY <1>4, <2>2, <2>3
<1>8. CASE ServerAnswer(n)
  <2> DEFINE e == Event("decodetxResp", Head(s.up))
             g == Give(s, e)
             t == [g EXCEPT !.up = Tail(s.up)]
  <2>1. /\ s.up \in Seq(Requests) /\ s.up # <<>> /\ s.serving
        /\ Head(s.up) \in Requests /\ Tail(s.up) \in Seq(Requests)
    BY <1>3, <1>8, HeadTailProperties DEF ServerAnswer, Ordered, Socket
  <2>2. e \in Events /\ e.name \notin Ends \union {"open"}
    BY <2>1, EventTypes DEF Ends
  <2>3. sockets' = [sockets EXCEPT ![n] = t]
    BY <1>8 DEF ServerAnswer
  <2> HIDE DEF e
  <2>4. /\ g \in Socket /\ Ordered(g)
        /\ g.handlers = s.handlers /\ g.state = s.state /\ g.pinging = s.pinging
    BY <1>3, <2>1, <2>2, GivenEvent
  <2> HIDE DEF g
  <2>5. /\ t \in Socket /\ t.down = g.down /\ t.serving = g.serving
        /\ t.reading = g.reading /\ t.state = g.state
        /\ t.handlers = g.handlers /\ t.pinging = g.pinging
    BY <2>1, <2>4 DEF Socket
  <2> HIDE DEF t
  <2>6. Ordered(t)
    BY <2>4, <2>5 DEF Ordered
  <2>7. QED
    BY <1>4, <2>3, <2>4, <2>5, <2>6
<1>9. CASE ReadTimeout(n)
  <2> DEFINE t == [s EXCEPT !.reading = FALSE]
  <2>1. sockets' = [sockets EXCEPT ![n] = t]
    BY <1>9 DEF ReadTimeout
  <2>2. /\ t \in Socket /\ Ordered(t)
        /\ t.handlers = s.handlers /\ t.state = s.state /\ t.pinging = s.pinging
    BY <1>3 DEF Socket, Ordered
  <2> HIDE DEF t
  <2>3. QED
    BY <1>4, <2>1, <2>2
<1>10. CASE ServerEnd(n)
  <2> DEFINE t == [Give(s, Event("close", 0)) EXCEPT !.serving = FALSE, !.reading = FALSE]
  <2>1. sockets' = [sockets EXCEPT ![n] = t] /\ s.serving
    BY <1>10 DEF ServerEnd
  <2>2. /\ t \in Socket /\ Ordered(t)
        /\ t.handlers = s.handlers /\ t.state = s.state /\ t.pinging = s.pinging
    BY <1>3, <2>1, LastEvent
  <2> HIDE DEF t
  <2>3. QED
    BY <1>4, <2>1, <2>2
<1>11. CASE ServerFails(n)
  <2> DEFINE t == [s EXCEPT !.up = Tail(s.up), !.reading = FALSE]
  <2>1. sockets' = [sockets EXCEPT ![n] = t] /\ s.up # <<>>
    BY <1>11 DEF ServerFails
  <2>2. Tail(s.up) \in Seq(Requests)
    BY <1>3, <2>1, HeadTailProperties DEF Socket
  <2>3. /\ t \in Socket /\ Ordered(t)
        /\ t.handlers = s.handlers /\ t.state = s.state /\ t.pinging = s.pinging
    BY <1>3, <2>2 DEF Socket, Ordered
  <2> HIDE DEF t
  <2>4. QED
    BY <1>4, <2>1, <2>3
<1>12. QED
  BY <1>5, <1>6, <1>7, <1>8, <1>9, <1>10, <1>11

\* Each step of the socket keeps the invariant.
LEMMA SocketNext == SocketInv /\ [Next]_socketVars => SocketInv'
<1> SUFFICES ASSUME SocketInv, [Next]_socketVars PROVE SocketInv'
  OBVIOUS
<1>1. CASE \E loc \in Paths : VisitPage(loc)
  BY <1>1, VisitStep
<1>2. CASE SendRequest
  BY <1>2, SendStep
<1>3. CASE EventLoop
  BY <1>3, EventLoopStep DEF EventLoop
<1>4. CASE Server
  BY <1>4, ServerStep DEF Server
<1>5. CASE UNCHANGED socketVars
  BY <1>5 DEF socketVars, SocketInv, TypeOK, OnlyCurrentActs, CurrentTold, Ordered, Says
<1>6. CASE SendNothing
  BY <1>6, PathsAssumption
     DEF SendNothing, SocketInv, TypeOK, OnlyCurrentActs, CurrentTold, Ordered, Says
<1>7. QED
  BY <1>1, <1>2, <1>3, <1>4, <1>5, <1>6 DEF Next

-----------------------------------------------------------------------------
(***************************************************************************)
(* The theorems, for the tab as a whole.                                   *)
(***************************************************************************)

\* A tab's socket behaves as MessageSocket alone: the map of the nodes, the
\* conversions and the loader of the charts never touch it.
LEMMA SocketOfTab == PageSpec => Spec
<1>1. PageInit => Init
  BY DEF PageInit
<1>2. [PageNext]_vars => [Next]_socketVars
  BY DEF PageNext, Visit, Next, vars
<1>3. QED
  BY <1>1, <1>2, PTL DEF PageSpec, Spec

\* The invariant holds in every state of a tab.
THEOREM SocketInvariant == PageSpec => []SocketInv
<1>1. Spec => []SocketInv
  BY SocketInit, SocketNext, PTL DEF Spec
<1>2. QED
  BY <1>1, SocketOfTab, PTL

\* Every variable of the socket has its type, and ws is the last socket created.
THEOREM SocketTypes == PageSpec => []TypeOK
<1>1. SocketInv => TypeOK
  BY DEF SocketInv
<1>2. QED
  BY <1>1, SocketInvariant, PTL

\* Only the current socket acts on the page.
THEOREM CurrentActs == PageSpec => []OnlyCurrentActs
<1>1. SocketInv => OnlyCurrentActs
  BY DEF SocketInv
<1>2. QED
  BY <1>1, SocketInvariant, PTL

\* The footer says whether the current socket is connected once it is quiet, or, after a
\* page without one, what a new footer says.
THEOREM FooterTrue == PageSpec => []StatusOfCurrent
<1>1. SocketInv => StatusOfCurrent
  BY DEF SocketInv, CurrentTold, StatusOfCurrent, Says
<1>2. QED
  BY <1>1, SocketInvariant, PTL
-----------------------------------------------------------------------------
(***************************************************************************)
(* Where the answer to the page's last request is.                         *)
(***************************************************************************)

\* Request r is the last of those the server has not read, or its answer is the last
\* among those on their way, or it is the answer that is shown.
AnswerDue(up, down, r, shown) ==
    \/ up # <<>> /\ up[Len(up)] = r
    \/ /\ up = <<>>
       /\ \E i \in 1..Len(down) :
            /\ down[i].name = "decodetxResp" /\ down[i].id = r
            /\ \A j \in 1..Len(down) : j > i => down[j].name # "decodetxResp"
    \/ /\ up = <<>>
       /\ \A j \in 1..Len(down) : down[j].name # "decodetxResp"
       /\ shown = r

\* A request was sent on an open socket, by the page that shows the answers; and its
\* answer is due while that socket stays open and the server reads from it.
AnswerInv ==
    asked # 0 =>
        /\ page = DecodePage
        /\ sockets[ws].state # "connecting"
        /\ sockets[ws].state = "open" /\ sockets[ws].reading =>
             AnswerDue(sockets[ws].up, sockets[ws].down, asked, decoded)

\* The request that is sent is the last one.
LEMMA DueWhenSent ==
    ASSUME NEW up \in Seq(Requests), NEW down \in Seq(Events), NEW r \in Requests, NEW shown
    PROVE  AnswerDue(Append(up, r), down, r, shown)
<1>1. Append(up, r) # <<>> /\ Append(up, r)[Len(Append(up, r))] = r
  BY AppendProperties
<1>2. QED
  BY <1>1 DEF AnswerDue

\* Another event of the server comes behind the answers.
LEMMA DueBehind ==
    ASSUME NEW up \in Seq(Requests), NEW down \in Seq(Events), NEW r, NEW shown,
           AnswerDue(up, down, r, shown), NEW e \in Events, e.name # "decodetxResp"
    PROVE  AnswerDue(up, Append(down, e), r, shown)
<1> DEFINE q == Append(down, e)
<1>1. /\ Len(down) \in Nat /\ Len(q) = Len(down) + 1 /\ q[Len(down) + 1] = e
      /\ \A i \in 1..Len(down) : q[i] = down[i]
  BY AppendProperties
<1> HIDE DEF q
<1>2. CASE up # <<>> /\ up[Len(up)] = r
  BY <1>2 DEF AnswerDue
<1>3. CASE /\ up = <<>>
           /\ \E i \in 1..Len(down) :
                /\ down[i].name = "decodetxResp" /\ down[i].id = r
                /\ \A j \in 1..Len(down) : j > i => down[j].name # "decodetxResp"
  <2>1. PICK i \in 1..Len(down) :
          /\ down[i].name = "decodetxResp" /\ down[i].id = r
          /\ \A j \in 1..Len(down) : j > i => down[j].name # "decodetxResp"
    BY <1>3
  <2>2. i \in 1..Len(q) /\ q[i].name = "decodetxResp" /\ q[i].id = r
    BY <1>1, <2>1
  <2>3. ASSUME NEW j \in 1..Len(q), j > i PROVE q[j].name # "decodetxResp"
    <3>1. j \in 1..Len(down) \/ j = Len(down) + 1
      BY <1>1
    <3>2. QED
      BY <1>1, <2>1, <2>3, <3>1
  <2>4. QED
    BY <1>3, <2>2, <2>3 DEF AnswerDue, q
<1>4. CASE /\ up = <<>> /\ shown = r
           /\ \A j \in 1..Len(down) : down[j].name # "decodetxResp"
  <2>1. ASSUME NEW j \in 1..Len(q) PROVE q[j].name # "decodetxResp"
    <3>1. j \in 1..Len(down) \/ j = Len(down) + 1
      BY <1>1
    <3>2. QED
      BY <1>1, <1>4, <3>1
  <2>2. QED
    BY <1>4, <2>1 DEF AnswerDue, q
<1>5. QED
  BY <1>2, <1>3, <1>4 DEF AnswerDue

\* The answer to the first request comes behind the answers to those before it.
LEMMA DueInOrder ==
    ASSUME NEW up \in Seq(Requests), NEW down \in Seq(Events), NEW r, NEW shown,
           AnswerDue(up, down, r, shown), up # <<>>
    PROVE  AnswerDue(Tail(up), Append(down, Event("decodetxResp", Head(up))), r, shown)
<1> DEFINE e == Event("decodetxResp", Head(up))
           q == Append(down, e)
           rest == Tail(up)
<1>1. /\ Len(down) \in Nat /\ Len(q) = Len(down) + 1 /\ q[Len(down) + 1] = e
  BY AppendProperties DEF Event
<1>2. e.name = "decodetxResp" /\ e.id = Head(up)
  BY DEF Event
<1>3. /\ rest \in Seq(Requests) /\ Len(up) \in Nat \ {0} /\ Len(rest) = Len(up) - 1
      /\ Head(up) = up[1] /\ \A i \in 1..Len(rest) : rest[i] = up[i + 1]
  BY HeadTailProperties
<1>4. up[Len(up)] = r
  BY DEF AnswerDue
<1> HIDE DEF e, q, rest
<1>5. CASE Len(up) = 1
  <2>1. Len(rest) = 0 /\ Head(up) = r
    BY <1>3, <1>4, <1>5
  <2>2. rest = <<>>
    BY <1>3, <2>1, EmptySeq
  <2>3. /\ Len(q) \in 1..Len(q) /\ q[Len(q)].name = "decodetxResp" /\ q[Len(q)].id = r
        /\ \A j \in 1..Len(q) : ~(j > Len(q))
    BY <1>1, <1>2, <2>1
  <2>4. QED
    BY <2>2, <2>3 DEF AnswerDue, e, q, rest
<1>6. CASE Len(up) # 1
  <2>1. Len(rest) \in 1..Len(rest) /\ Len(rest) + 1 = Len(up) /\ Len(rest) # 0
    BY <1>3, <1>6
  <2>2. rest[Len(rest)] = r
    BY <1>3, <1>4, <2>1
  <2>3. rest # <<>>
    BY <2>1
  <2>4. QED
    BY <2>2, <2>3 DEF AnswerDue, rest
<1>7. QED
  BY <1>5, <1>6

\* The page handles the first event: an answer is shown.
LEMMA DueWhenTold ==
    ASSUME NEW up \in Seq(Requests), NEW down \in Seq(Events), NEW r, NEW shown, NEW next,
           AnswerDue(up, down, r, shown), down # <<>>,
           next = IF Head(down).name = "decodetxResp" THEN Head(down).id ELSE shown
    PROVE  AnswerDue(up, Tail(down), r, next)
<1> DEFINE q == Tail(down)
<1>1. /\ q \in Seq(Events) /\ Len(down) \in Nat \ {0} /\ Len(q) = Len(down) - 1
      /\ Head(down) = down[1] /\ \A i \in 1..Len(q) : q[i] = down[i + 1]
  BY HeadTailProperties
<1> HIDE DEF q
<1>2. CASE up # <<>> /\ up[Len(up)] = r
  BY <1>2 DEF AnswerDue
<1>3. CASE /\ up = <<>>
           /\ \E i \in 1..Len(down) :
                /\ down[i].name = "decodetxResp" /\ down[i].id = r
                /\ \A j \in 1..Len(down) : j > i => down[j].name # "decodetxResp"
  <2>1. PICK i \in 1..Len(down) :
          /\ down[i].name = "decodetxResp" /\ down[i].id = r
          /\ \A j \in 1..Len(down) : j > i => down[j].name # "decodetxResp"
    BY <1>3
  <2>2. CASE i = 1
    <3>1. next = r
      BY <1>1, <2>1, <2>2
    <3>2. ASSUME NEW j \in 1..Len(q) PROVE q[j].name # "decodetxResp"
      BY <1>1, <2>1, <2>2
    <3>3. QED
      BY <1>3, <3>1, <3>2 DEF AnswerDue, q
  <2>3. CASE i # 1
    <3>1. /\ i - 1 \in 1..Len(q) /\ (i - 1) + 1 = i
      BY <1>1, <2>3
    <3>2. q[i - 1].name = "decodetxResp" /\ q[i - 1].id = r
      BY <1>1, <2>1, <3>1
    <3>3. ASSUME NEW j \in 1..Len(q), j > i - 1 PROVE q[j].name # "decodetxResp"
      <4>1. j + 1 \in 1..Len(down) /\ j + 1 > i
        BY <1>1, <3>3
      <4>2. QED
        BY <1>1, <2>1, <4>1
    <3>4. QED
      BY <1>3, <3>1, <3>2, <3>3 DEF AnswerDue, q
  <2>4. QED
    BY <2>2, <2>3
<1>4. CASE /\ up = <<>> /\ shown = r
           /\ \A j \in 1..Len(down) : down[j].name # "decodetxResp"
  <2>1. next = r
    BY <1>1, <1>4
  <2>2. ASSUME NEW j \in 1..Len(q) PROVE q[j].name # "decodetxResp"
    <3>1. j + 1 \in 1..Len(down)
      BY <1>1
    <3>2. QED
      BY <1>1, <1>4, <3>1
  <2>3. QED
    BY <1>4, <2>1, <2>2 DEF AnswerDue, q
<1>5. QED
  BY <1>2, <1>3, <1>4 DEF AnswerDue

-----------------------------------------------------------------------------
(***************************************************************************)
(* Each step keeps the answer due.                                         *)
(***************************************************************************)

\* A page that is shown, and one without a request, waits for no answer.
LEMMA AnswerInit == Init => AnswerInv
BY DEF Init, AnswerInv

\* What waits on the current socket has its types.
LEMMA CurrentQueues ==
    ASSUME SocketInv
    PROVE  /\ ws \in Numbers /\ sockets \in [Numbers -> Socket]
           /\ sockets[ws].up \in Seq(Requests) /\ sockets[ws].down \in Seq(Events)
BY DEF SocketInv, TypeOK, Socket

\* A request that is sent is the last; one that is dropped is not waited for.
LEMMA AnswerSend ==
    ASSUME SocketInv, AnswerInv, SendRequest
    PROVE  AnswerInv'
<1> DEFINE s == sockets[ws]
           t == [s EXCEPT !.up = Append(s.up, sent + 1)]
<1>1. page' = DecodePage /\ ws' = ws /\ sent + 1 \in Requests
  BY PathsAssumption DEF SocketInv, TypeOK, SendRequest, Requests
<1>2. CASE s.state = "open"
  <2>1. asked' = sent + 1 /\ sockets' = [sockets EXCEPT ![ws] = t]
    BY <1>2 DEF SendRequest, Send
  <2>2. t.up = Append(s.up, sent + 1) /\ t.down = s.down /\ t.state = "open"
    BY <1>2, CurrentQueues DEF Socket
  <2>3. sockets'[ws] = t
    BY <2>1, CurrentQueues
  <2>4. AnswerDue(Append(s.up, sent + 1), s.down, sent + 1, decoded')
    BY <1>1, CurrentQueues, DueWhenSent
  <2> HIDE DEF t
  <2>5. QED
    BY <1>1, <2>1, <2>2, <2>3, <2>4 DEF AnswerInv
<1>3. CASE s.state # "open"
  BY <1>3 DEF SendRequest, AnswerInv
<1>4. QED
  BY <1>2, <1>3

\* A socket that connects has been asked nothing; one that ends owes nothing.
LEMMA AnswerEventLoop ==
    ASSUME SocketInv, AnswerInv, NEW n \in Numbers,
           OnOpen(n) \/ OnEnd(n) \/ OnMessage(n)
    PROVE  AnswerInv'
<1> DEFINE s == sockets[n]
<1>1. /\ s.down # <<>> /\ ws' = ws /\ page' = page /\ asked' = asked
      /\ s \in Socket /\ Ordered(s) /\ ws \in Numbers
      /\ sockets \in [Numbers -> Socket]
  BY ActiveSocket, CurrentQueues DEF OnOpen, OnEnd, OnMessage, Task
<1>2. CASE OnOpen(n)
  <2>1. s.state = "connecting"
    BY <1>1, <1>2, OpenedSocket DEF OnOpen, Task
  <2>2. n = ws
    BY <2>1, ActiveSocket
  <2>3. asked = 0
    BY <2>1, <2>2 DEF AnswerInv
  <2>4. QED
    BY <1>1, <2>3 DEF AnswerInv
<1>3. CASE OnEnd(n)
  <2>1. decoded' = decoded
    BY <1>3 DEF OnEnd
  <2>2. n = ws => sockets'[ws].state = "closed"
    BY <1>1, <1>3, TakenEvent DEF OnEnd, Socket
  <2>3. n # ws => sockets'[ws] = sockets[ws]
    BY <1>1, <1>3 DEF OnEnd
  <2>4. QED
    BY <1>1, <2>1, <2>2, <2>3 DEF AnswerInv
<1>4. CASE OnMessage(n)
  <2>1. sockets' = [sockets EXCEPT ![n] = Done(s)]
    BY <1>4 DEF OnMessage
  <2>2. CASE n # ws
    <3>1. s.handlers = {} /\ sockets'[ws] = sockets[ws]
      BY <1>1, <2>1, <2>2, ActiveSocket
    <3>2. decoded' = decoded
      BY <1>4, <3>1 DEF OnMessage
    <3>3. QED
      BY <1>1, <3>1, <3>2 DEF AnswerInv
  <2>3. CASE n = ws
    <3>1. /\ s.handlers = PageEvents /\ sockets'[ws] = Done(s)
          /\ Done(s).down = Tail(s.down) /\ Done(s).state = s.state /\ Done(s).up = s.up
          /\ Done(s).reading = s.reading
      BY <1>1, <2>1, <2>3, ActiveSocket, TakenEvent DEF Done, Socket
    <3>2. SUFFICES ASSUME asked # 0
                   PROVE  /\ page' = DecodePage /\ sockets'[ws].state # "connecting"
                          /\ sockets'[ws].state = "open" /\ sockets'[ws].reading =>
                               AnswerDue(sockets'[ws].up, sockets'[ws].down,
                                         asked, decoded')
      BY <1>1 DEF AnswerInv
    <3>3. page = DecodePage /\ s.state # "connecting"
      BY <2>3, <3>2 DEF AnswerInv
    <3>4. SUFFICES ASSUME s.state = "open", s.reading
                   PROVE  AnswerDue(s.up, Tail(s.down), asked, decoded')
      BY <1>1, <3>1, <3>3
    <3>5. AnswerDue(s.up, s.down, asked, decoded)
      BY <2>3, <3>2, <3>4 DEF AnswerInv
    <3>6. decoded' = IF Head(s.down).name = "decodetxResp"
                     THEN Head(s.down).id ELSE decoded
      BY <1>4, <3>1, <3>3 DEF OnMessage, Task, PageEvents
    <3>7. s.up \in Seq(Requests) /\ s.down \in Seq(Events)
      BY <1>1 DEF Socket
    <3>8. QED
      BY <1>1, <3>5, <3>6, <3>7, DueWhenTold
  <2>4. QED
    BY <2>2, <2>3
<1>5. QED
  BY <1>2, <1>3, <1>4

\* The server: its updates and its end come behind the answers, which come in order.
LEMMA AnswerServer ==
    ASSUME SocketInv, AnswerInv, NEW n \in Numbers,
           \/ Accept(n) \/ Refuse(n) \/ ServerUpdate(n) \/ ServerAnswer(n)
           \/ ServerFails(n) \/ ReadTimeout(n) \/ ServerEnd(n)
    PROVE  AnswerInv'
<1> DEFINE s == sockets[n]
<1>1. UNCHANGED ServerVars
  BY DEF Accept, Refuse, ServerUpdate, ServerAnswer, ServerFails, ReadTimeout,
         ServerEnd
<1>2. /\ ws' = ws /\ page' = page /\ asked' = asked /\ decoded' = decoded
      /\ s \in Socket /\ ws \in Numbers /\ sockets \in [Numbers -> Socket]
      /\ s.up \in Seq(Requests) /\ s.down \in Seq(Events)
  BY <1>1, CurrentQueues DEF ServerVars, Socket
<1>3. n # ws => sockets'[ws] = sockets[ws]
  BY <1>2 DEF Accept, Refuse, ServerUpdate, ServerAnswer, ServerFails, ReadTimeout,
         ServerEnd
<1>4. CASE n # ws \/ asked = 0
  BY <1>2, <1>3, <1>4 DEF AnswerInv
<1>5. CASE n = ws /\ asked # 0
  <2>1. /\ page = DecodePage /\ s.state # "connecting"
        /\ s.state = "open" /\ s.reading => AnswerDue(s.up, s.down, asked, decoded)
    BY <1>5 DEF AnswerInv
  <2>2. ASSUME sockets'[n].state = s.state,
               s.state = "open" /\ sockets'[n].reading =>
                 AnswerDue(sockets'[n].up, sockets'[n].down, asked, decoded)
        PROVE  AnswerInv'
    BY <1>2, <1>5, <2>1, <2>2 DEF AnswerInv
  <2>3. ASSUME NEW e \in Events, e.name # "decodetxResp",
               sockets'[n].state = s.state, sockets'[n].up = s.up,
               sockets'[n].reading => s.reading,
               sockets'[n].down = Append(s.down, e)
        PROVE  AnswerInv'
    BY <1>2, <2>1, <2>2, <2>3, DueBehind
  <2>4. CASE Accept(n) \/ Refuse(n)
    BY <2>1, <2>4 DEF Accept, Refuse
  <2>5. CASE ServerUpdate(n)
    <3> DEFINE e == Event("newblock", 0)
    <3>1. e \in Events /\ e.name = "newblock"
      BY EventTypes
    <3> HIDE DEF e
    <3>2. /\ sockets'[n].state = s.state /\ sockets'[n].up = s.up
          /\ sockets'[n].reading => s.reading
          /\ sockets'[n].down = Append(s.down, e)
      BY <1>2, <2>5 DEF ServerUpdate, Give, Socket, e
    <3>3. QED
      BY <2>3, <3>1, <3>2
  <2>6. CASE ServerEnd(n)
    <3> DEFINE e == Event("close", 0)
    <3>1. e \in Events /\ e.name = "close"
      BY EventTypes
    <3> HIDE DEF e
    <3>2. /\ sockets'[n].state = s.state /\ sockets'[n].up = s.up
          /\ sockets'[n].reading => s.reading
          /\ sockets'[n].down = Append(s.down, e)
      BY <1>2, <2>6 DEF ServerEnd, Give, Socket, e
    <3>3. QED
      BY <2>3, <3>1, <3>2
  <2>7. CASE ServerFails(n) \/ ReadTimeout(n)
    <3>1. sockets'[n].state = s.state /\ ~sockets'[n].reading
      BY <1>2, <2>7 DEF ServerFails, ReadTimeout, Socket
    <3>2. QED
      BY <2>2, <3>1
  <2>8. CASE ServerAnswer(n)
    <3> DEFINE e == Event("decodetxResp", Head(s.up))
    <3>1. /\ s.up # <<>> /\ s.reading
          /\ sockets'[n].state = s.state /\ sockets'[n].up = Tail(s.up)
          /\ sockets'[n].down = Append(s.down, e)
      BY <1>2, <2>8 DEF ServerAnswer, Give, Socket
    <3>2. s.state = "open" => AnswerDue(Tail(s.up), Append(s.down, e), asked, decoded)
      BY <1>2, <2>1, <3>1, DueInOrder
    <3> HIDE DEF e
    <3>3. QED
      BY <2>2, <3>1, <3>2
  <2>9. QED
    BY <2>4, <2>5, <2>6, <2>7, <2>8
<1>6. QED
  BY <1>4, <1>5

\* Every step of the socket keeps the answer due; a page that is shown waits for none.
LEMMA AnswerNext == SocketInv /\ AnswerInv /\ [Next]_socketVars => AnswerInv'
<1> SUFFICES ASSUME SocketInv, AnswerInv, [Next]_socketVars PROVE AnswerInv'
  OBVIOUS
<1>1. CASE \E loc \in Paths : VisitPage(loc)
  BY <1>1 DEF VisitPage, AnswerInv
<1>2. CASE SendRequest
  BY <1>2, AnswerSend
<1>3. CASE EventLoop
  BY <1>3, AnswerEventLoop DEF EventLoop
<1>4. CASE Server
  BY <1>4, AnswerServer DEF Server
<1>5. CASE UNCHANGED socketVars
  BY <1>5 DEF socketVars, AnswerInv
<1>6. CASE SendNothing
  BY <1>6 DEF SendNothing, AnswerInv
<1>7. QED
  BY <1>1, <1>2, <1>3, <1>4, <1>5, <1>6 DEF Next

\* While the server reads requests, the answer shown is that to the page's last request
\* once nothing is on its way: the server answers one by one, stops at the first it
\* cannot answer, and the page shows what arrives.  The code: rootWebsocket's reading
\* goroutine, ws.onmessage.
THEOREM AnswersAreShown == PageSpec => []LastAnswerShown
<1>1. Init => SocketInv /\ AnswerInv
  BY SocketInit, AnswerInit
<1>2. (SocketInv /\ AnswerInv) /\ [Next]_socketVars => (SocketInv /\ AnswerInv)'
  BY SocketNext, AnswerNext
<1>3. SocketInv /\ AnswerInv => LastAnswerShown
  <2> SUFFICES ASSUME AnswerInv, asked # 0, sockets[ws].state = "open",
                      sockets[ws].reading, sockets[ws].up = <<>>, sockets[ws].down = <<>>
               PROVE  decoded = asked
    BY DEF LastAnswerShown
  <2>1. AnswerDue(<<>>, <<>>, asked, decoded)
    BY DEF AnswerInv
  <2>2. Len(<<>>) = 0 /\ 1..0 = {}
    OBVIOUS
  <2>3. QED
    BY <2>1, <2>2 DEF AnswerDue
<1>4. Spec => []LastAnswerShown
  BY <1>1, <1>2, <1>3, PTL DEF Spec
<1>5. QED
  BY <1>4, SocketOfTab, PTL

-----------------------------------------------------------------------------
(***************************************************************************)
(* Numbers: least and greatest ones, induction up to a bound; and what the *)
(* loop over the nodes computes, for any sequence of nodes.                *)
(***************************************************************************)
\* A set of numbers has a least one.
LEMMA LeastNumber ==
    ASSUME NEW S \in SUBSET Nat, S # {}
    PROVE  \E m \in S : \A k \in S : m <= k
<1>1. PICK m \in S : \A k \in S : <<k, m>> \notin OpToRel(<, Nat)
  BY Zenon, NatLessThanWellFounded, WFMin
<1>2. \A k \in S : ~(k < m)
  BY <1>1 DEF OpToRel
<1>3. QED
  BY <1>2

\* A set of numbers up to a bound has a greatest one.
LEMMA GreatestNumber ==
    ASSUME NEW p \in Nat, NEW S \in SUBSET (0..p), S # {}
    PROVE  \E m \in S : \A k \in S : k <= m
<1> DEFINE T == {n \in Nat : p - n \in S}
<1>1. T # {} /\ T \in SUBSET Nat
  <2>1. PICK k \in S : TRUE
    OBVIOUS
  <2>2. p - k \in Nat /\ p - (p - k) = k
    OBVIOUS
  <2>3. QED
    BY <2>1, <2>2
<1>2. \A k \in S : p - k \in T
  <2>1. ASSUME NEW k \in S
        PROVE  p - k \in T
    <3>1. p - k \in Nat /\ p - (p - k) = k
      OBVIOUS
    <3>2. QED
      BY <3>1
  <2>2. QED
    BY <2>1
<1>3. \A n \in T : n \in Nat /\ p - n \in S
  OBVIOUS
<1> HIDE DEF T
<1>4. PICK n \in T : \A k \in T : n <= k
  BY <1>1, LeastNumber
<1>5. p - n \in S /\ \A k \in S : k <= p - n
  BY <1>2, <1>3, <1>4
<1>6. QED
  BY <1>5

\* Induction up to a bound.
LEMMA UpTo ==
    ASSUME NEW p \in Nat, NEW S, 0 \in S, \A n \in 0..p - 1 : n \in S => n + 1 \in S
    PROVE  \A n \in 0..p : n \in S
<1> DEFINE T == {n \in 0..p : n \notin S}
<1>1. SUFFICES ASSUME T # {}
               PROVE  FALSE
  OBVIOUS
<1>2. PICK m \in T : \A k \in T : m <= k
  <2>1. T \in SUBSET Nat
    OBVIOUS
  <2> HIDE DEF T
  <2>2. QED
    BY <1>1, <2>1, LeastNumber
<1>3. m # 0 /\ m \in 0..p /\ m - 1 \in 0..p - 1 /\ m - 1 \in 0..p /\ (m - 1) + 1 = m
  BY <1>2
<1>4. m - 1 \in S
  <2>1. m - 1 \notin T
    BY <1>2, <1>3
  <2>2. QED
    BY <1>3, <2>1
<1>5. m \in S
  BY <1>3, <1>4
<1>6. QED
  BY <1>2, <1>5

\* The largest count of some of the nodes, or 0.
Largest(nodes, s, m) ==
    /\ m \in Nat
    /\ \A i \in s : nodes[i].count <= m
    /\ m # 0 => \E i \in s : nodes[i].count = m

\* One node more.
LEMMA LargestNext ==
    ASSUME NEW nodes, NEW s, NEW m, NEW i, nodes[i].count \in Nat,
           \A k \in s : nodes[k].count \in Nat, Largest(nodes, s \ {i}, m), i \in s
    PROVE  Largest(nodes, s, IF nodes[i].count > m THEN nodes[i].count ELSE m)
<1>1. m \in Nat
  BY DEF Largest
<1>2. CASE nodes[i].count > m
  <2>1. \A k \in s : nodes[k].count <= nodes[i].count
    BY <1>1, <1>2 DEF Largest
  <2>2. QED
    BY <1>2, <2>1 DEF Largest
<1>3. CASE ~(nodes[i].count > m)
  <2>1. \A k \in s : nodes[k].count <= m
    BY <1>1, <1>3 DEF Largest
  <2>2. QED
    BY <1>3, <2>1 DEF Largest
<1>4. QED
  BY <1>2, <1>3

\* There is one largest count.
LEMMA OneLargest ==
    ASSUME NEW nodes, NEW s, NEW a, NEW b, \A k \in s : nodes[k].count \in Nat,
           Largest(nodes, s, a), Largest(nodes, s, b)
    PROVE  a = b
BY DEF Largest

\* Some of finitely many nodes have a largest count.
LEMMA SomeLargest ==
    ASSUME NEW nodes, NEW n \in Nat, NEW s \in SUBSET (1..n),
           \A k \in s : nodes[k].count \in Nat
    PROVE  \E m : Largest(nodes, s, m)
<1> DEFINE T == {k \in 0..n : \E m : Largest(nodes, s \cap 1..k, m)}
<1>1. 0 \in T
  <2>1. s \cap 1..0 = {} /\ 0 \in 0..n
    OBVIOUS
  <2>2. Largest(nodes, {}, 0)
    BY DEF Largest
  <2>3. QED
    BY Zenon, <2>1, <2>2
<1>2. ASSUME NEW k \in 0..n - 1, k \in T
      PROVE  k + 1 \in T
  <2>1. PICK m : Largest(nodes, s \cap 1..k, m)
    BY <1>2
  <2>2. k + 1 \in 0..n
    OBVIOUS
  <2>3. CASE k + 1 \notin s
    <3>1. s \cap 1..(k + 1) = s \cap 1..k
      BY <2>3
    <3>2. QED
      BY Zenon, <2>1, <2>2, <3>1
  <2>4. CASE k + 1 \in s
    <3>1. (s \cap 1..(k + 1)) \ {k + 1} = s \cap 1..k /\ k + 1 \in s \cap 1..(k + 1)
      BY <2>4
    <3>2. Largest(nodes, s \cap 1..(k + 1),
                  IF nodes[k + 1].count > m THEN nodes[k + 1].count ELSE m)
      BY Zenon, <2>1, <2>4, <3>1, LargestNext
    <3>3. QED
      BY Zenon, <2>2, <3>2
  <2>5. QED
    BY <2>3, <2>4
<1> HIDE DEF T
<1>3. n \in T
  <2>1. n \in 0..n
    OBVIOUS
  <2>2. QED
    BY Zenon, <1>1, <1>2, <2>1, UpTo
<1>4. s \cap 1..n = s
  OBVIOUS
<1>5. QED
  BY Zenon, <1>3, <1>4 DEF T

\* The loop over the nodes finds the largest count.
LEMMA LoopFindsLargest ==
    ASSUME NEW nodes, NEW T, nodes \in Seq(T), \A i \in DOMAIN nodes : nodes[i].count \in Nat
    PROVE  Largest(nodes, DOMAIN nodes, MaxNum(nodes))
<1> DEFINE n == Len(nodes)
           More(i, m) == IF nodes[i].count > m THEN nodes[i].count ELSE m
           Step(g) == [s \in SUBSET DOMAIN nodes |->
                         IF s = {} THEN 0 ELSE More(Max(s), g[s \ {Max(s)}])]
           iter == CHOOSE g : g = Step(g)
           w == [s \in SUBSET DOMAIN nodes |-> CHOOSE m : Largest(nodes, s, m)]
<1>1. n \in Nat /\ DOMAIN nodes = 1..n
  OBVIOUS
<1>2. MaxNum(nodes) = iter[DOMAIN nodes]
  BY Zenon DEF MaxNum, FoldLeft, MapThenFoldSet
<1>3. \A s \in SUBSET DOMAIN nodes : s # {} => Max(s) \in s /\ \A k \in s : k <= Max(s)
  <2>1. ASSUME NEW s \in SUBSET DOMAIN nodes, s # {}
        PROVE  Max(s) \in s /\ \A k \in s : k <= Max(s)
    <3>1. PICK m \in s : \A k \in s : k <= m
      <4>1. s \in SUBSET (0..n)
        BY <1>1
      <4>2. QED
        BY Zenon, <1>1, <2>1, <4>1, GreatestNumber
    <3>2. \A k \in s : m >= k
      BY <1>1, <3>1
    <3>3. Max(s) \in s /\ \A k \in s : Max(s) >= k
      BY Zenon, <3>2 DEF Max
    <3>4. QED
      BY <1>1, <3>3
  <2>2. QED
    BY Zenon, <2>1
<1>4. \A s \in SUBSET DOMAIN nodes : Largest(nodes, s, w[s])
  <2>1. ASSUME NEW s \in SUBSET DOMAIN nodes
        PROVE  Largest(nodes, s, w[s])
    <3>1. \E m : Largest(nodes, s, m)
      BY <1>1, SomeLargest
    <3>2. w[s] = CHOOSE m : Largest(nodes, s, m)
      OBVIOUS
    <3>3. QED
      BY Zenon, <3>1, <3>2
  <2>2. QED
    BY Zenon, <2>1
<1> HIDE DEF w
<1>5. \A s \in SUBSET DOMAIN nodes : \A m : Largest(nodes, s, m) => w[s] = m
  <2>1. ASSUME NEW s \in SUBSET DOMAIN nodes, NEW m, Largest(nodes, s, m)
        PROVE  w[s] = m
    <3>1. \A k \in s : nodes[k].count \in Nat
      OBVIOUS
    <3>2. QED
      BY Zenon, <1>4, <2>1, <3>1, OneLargest
  <2>2. QED
    BY Zenon, <2>1
<1>6. w = Step(w)
  <2>1. ASSUME NEW s \in SUBSET DOMAIN nodes
        PROVE  w[s] = Step(w)[s]
    <3>1. CASE s = {}
      <4>1. Largest(nodes, {}, 0)
        BY DEF Largest
      <4>2. w[s] = 0
        BY Zenon, <1>5, <3>1, <4>1
      <4>3. Step(w)[s] = 0
        BY Zenon, <3>1
      <4>4. QED
        BY Zenon, <4>2, <4>3
    <3>2. CASE s # {}
      <4>1. Max(s) \in s /\ s \ {Max(s)} \in SUBSET DOMAIN nodes
        BY Zenon, <1>3, <3>2
      <4>2. Largest(nodes, s \ {Max(s)}, w[s \ {Max(s)}])
        BY Zenon, <1>4, <4>1
      <4>3. nodes[Max(s)].count \in Nat /\ \A k \in s : nodes[k].count \in Nat
        BY Zenon, <4>1
      <4>4. Largest(nodes, s, More(Max(s), w[s \ {Max(s)}]))
        BY Zenon, <4>1, <4>2, <4>3, LargestNext
      <4>5. Step(w)[s] = More(Max(s), w[s \ {Max(s)}])
        <5> HIDE DEF More
        <5>1. QED
          BY Zenon, <3>2
      <4> HIDE DEF More, Step
      <4>6. QED
        BY Zenon, <1>5, <4>4, <4>5
    <3>3. QED
      BY <3>1, <3>2
  <2>2. w = [s \in SUBSET DOMAIN nodes |-> w[s]]
    BY DEF w
  <2>3. QED
    <3> HIDE DEF More
    <3>1. QED
      BY Zenon, <2>1, <2>2
<1>7. iter = Step(iter)
  <2> HIDE DEF Step
  <2>1. QED
    BY Zenon, <1>6
<1> DEFINE Found == {k \in 0..n : Largest(nodes, 1..k, iter[1..k])}
<1>8. \A s \in SUBSET DOMAIN nodes :
         iter[s] = IF s = {} THEN 0 ELSE More(Max(s), iter[s \ {Max(s)}])
  <2> HIDE DEF iter, More
  <2>1. QED
    BY Zenon, <1>7
<1> HIDE DEF iter, Step
<1>9. 0 \in Found
  <2>1. 1..0 = {} /\ {} \in SUBSET DOMAIN nodes /\ 0 \in 0..n
    OBVIOUS
  <2>2. Largest(nodes, {}, 0)
    BY DEF Largest
  <2>3. iter[{}] = 0
    BY Zenon, <1>8, <2>1
  <2>4. QED
    BY Zenon, <2>1, <2>2, <2>3
<1>10. ASSUME NEW k \in 0..n - 1, k \in Found
       PROVE  k + 1 \in Found
  <2> DEFINE s == 1..(k + 1)
  <2>1. /\ s \in SUBSET DOMAIN nodes /\ s # {} /\ s \ {k + 1} = 1..k /\ k + 1 \in s
        /\ \A j \in s : j <= k + 1 /\ j \in Int
    BY <1>1
  <2>2. k + 1 \in 0..n /\ nodes[k + 1].count \in Nat /\ \A j \in s : nodes[j].count \in Nat
    BY <1>1
  <2> HIDE DEF s
  <2>3. Max(s) = k + 1
    <3>1. Max(s) \in s /\ k + 1 <= Max(s)
      BY Zenon, <1>3, <2>1
    <3>2. QED
      BY <2>1, <3>1
  <2>4. iter[s] = More(k + 1, iter[1..k])
    <3> HIDE DEF More
    <3>1. QED
      BY Zenon, <1>8, <2>1, <2>3
  <2>5. Largest(nodes, s, More(k + 1, iter[1..k]))
    BY Zenon, <1>10, <2>1, <2>2, LargestNext
  <2>6. Largest(nodes, s, iter[s])
    <3> HIDE DEF More
    <3>1. QED
      BY Zenon, <2>4, <2>5
  <2>7. QED
    BY Zenon, <2>2, <2>6 DEF s
<1> HIDE DEF Found
<1>11. n \in Found
  <2>1. n \in 0..n
    OBVIOUS
  <2>2. QED
    BY Zenon, <1>1, <1>9, <1>10, <2>1, UpTo
<1>12. QED
  BY Zenon, <1>1, <1>2, <1>11 DEF Found

\* The scale of a map is that of its nodes.
LEMMA MaxNumScales ==
    ASSUME NEW nodes \in NodeLists
    PROVE  ScaledTo(nodes, MaxNum(nodes))
<1>1. Largest(nodes, DOMAIN nodes, MaxNum(nodes))
  BY Zenon, NodeListsAssumption, LoopFindsLargest
<1>2. QED
  BY Zenon, <1>1 DEF Largest, ScaledTo

-----------------------------------------------------------------------------
(***************************************************************************)
(* The map of the nodes.                                                   *)
(***************************************************************************)

\* A request of the page's last visit that waits for its answer.
Awaited(kind) == \E r \in requests : r.visit = visits /\ r.kind = kind

\* The charts that the callbacks draw.
Charts == {[data |-> nodes, max |-> MaxNum(nodes)] : nodes \in NodeLists}

\* Until the map is there its page waits for the nodes, or shows them and waits for the
\* world, whatever other visits wait for; and a chart has the scale of its own nodes,
\* which the closure of the callback carries from one answer to the next.
MapInv ==
    /\ \A r \in requests :
         r.kind = "world" => [data |-> r.nodes, max |-> r.maxNum] \in Charts
    /\ chart # Nothing => chart \in Charts
    /\ mapPage /\ ~lost =>
         \/ Awaited("nodes")
         \/ table # Nothing /\ (chart # Nothing \/ Awaited("world"))

\* No chart is Nothing.
LEMMA SomeChart == Nothing \notin Charts
BY NothingAssumption DEF Charts

\* The first page waits for the nodes if it is the map's.
LEMMA MapStarts == ASSUME NEW isMap \in BOOLEAN, MapInit(isMap) PROVE MapInv
<1>1. mapPage = isMap /\ chart = Nothing
  BY DEF MapInit
<1>2. CASE isMap
  <2> DEFINE new == Request(1, "nodes", <<>>, 0)
  <2>1. visits = 1 /\ requests = {new}
    BY <1>2 DEF MapInit
  <2>2. new.visit = 1 /\ new.kind = "nodes"
    BY DEF Request
  <2> HIDE DEF new
  <2>3. Awaited("nodes")
    BY <2>1, <2>2 DEF Awaited
  <2>4. QED
    BY <1>1, <2>1, <2>2, <2>3 DEF MapInv
<1>3. CASE ~isMap
  <2>1. ~mapPage /\ requests = {}
    BY <1>3 DEF MapInit
  <2>2. QED
    BY <1>1, <2>1 DEF MapInv
<1>4. QED
  BY <1>2, <1>3

\* So does every later one.
LEMMA MapVisited ==
    ASSUME MapInv, NEW isMap \in BOOLEAN, PageShown(isMap)
    PROVE  MapInv'
<1>1. mapPage' = isMap /\ chart' = Nothing
  BY DEF PageShown
<1>2. CASE isMap
  <2> DEFINE new == Request(visits + 1, "nodes", <<>>, 0)
  <2>1. visits' = visits + 1 /\ requests' = requests \union {new}
    BY <1>2 DEF PageShown
  <2>2. new.visit = visits + 1 /\ new.kind = "nodes"
    BY DEF Request
  <2> HIDE DEF new
  <2>3. Awaited("nodes")'
    BY <2>1, <2>2 DEF Awaited
  <2>4. \A r \in requests' :
          r.kind = "world" => [data |-> r.nodes, max |-> r.maxNum] \in Charts
    BY <2>1, <2>2 DEF MapInv
  <2>5. QED
    BY <1>1, <2>3, <2>4 DEF MapInv, Charts
<1>3. CASE ~isMap
  BY <1>1, <1>3 DEF PageShown, MapInv, Charts
<1>4. QED
  BY <1>2, <1>3

\* An answer, or the failure of a request: what the last visit waits for is another
\* request, or it has come.
LEMMA MapAnswered ==
    ASSUME MapInv, NEW r \in requests,
           NodesAnswered(r) \/ WorldAnswered(r) \/ RequestFails(r)
    PROVE  MapInv'
<1>1. mapPage' = mapPage /\ visits' = visits
  BY DEF NodesAnswered, WorldAnswered, RequestFails
<1>2. ASSUME NEW nodes \in NodeLists, r.kind = "nodes",
             table' = IF mapPage THEN nodes ELSE table,
             requests' = (requests \ {r}) \union
                           {Request(r.visit, "world", nodes, MaxNum(nodes))},
             lost' = lost, chart' = chart
      PROVE  MapInv'
  <2> DEFINE next == Request(r.visit, "world", nodes, MaxNum(nodes))
  <2>1. /\ next.visit = r.visit /\ next.kind = "world"
        /\ next.nodes = nodes /\ next.maxNum = MaxNum(nodes)
    BY DEF Request
  <2>2. next \in requests'
    BY <1>2
  <2>3. requests' \subseteq requests \union {next}
    BY <1>2
  <2>4. \A q \in requests : q # r => q \in requests'
    BY <1>2
  <2> HIDE DEF next
  <2>5. \A q \in requests' :
          q.kind = "world" => [data |-> q.nodes, max |-> q.maxNum] \in Charts
    BY <2>1, <2>3 DEF MapInv, Charts
  <2>6. ASSUME mapPage, ~lost
        PROVE  Awaited("nodes")' \/ /\ table' # Nothing
                                    /\ chart # Nothing \/ Awaited("world")'
    <3>1. table' = nodes /\ nodes # Nothing
      BY <1>2, <2>6, NothingAssumption
    <3>2. CASE r.visit = visits
      BY <1>1, <2>1, <2>2, <3>1, <3>2 DEF Awaited
    <3>3. CASE r.visit # visits
      BY <1>1, <2>4, <2>6, <3>1, <3>3 DEF Awaited, MapInv
    <3>4. QED
      BY <3>2, <3>3
  <2>7. QED
    BY <1>1, <1>2, <2>5, <2>6 DEF MapInv, Charts
<1>3. ASSUME requests' = requests \ {r}, lost' = LostNow(r), UNCHANGED <<table, chart>>
      PROVE  MapInv'
  BY <1>1, <1>3 DEF MapInv, LostNow, Awaited, Charts
<1>4. CASE WorldAnswered(r)
  <2>1. /\ r.kind = "world" /\ requests' = requests \ {r} /\ lost' = lost
        /\ table' = table
        /\ chart' = IF mapPage THEN [data |-> r.nodes, max |-> r.maxNum] ELSE chart
    BY <1>4 DEF WorldAnswered
  <2>2. chart' # Nothing => chart' \in Charts
    BY <2>1 DEF MapInv
  <2>3. mapPage => chart' # Nothing
    BY <2>1, SomeChart DEF MapInv
  <2>4. Awaited("nodes") => Awaited("nodes")'
    BY <1>1, <2>1 DEF Awaited
  <2>5. QED
    BY <1>1, <2>1, <2>2, <2>3, <2>4 DEF MapInv, Charts
<1>5. CASE NodesAnswered(r)
  BY <1>2, <1>3, <1>5 DEF NodesAnswered
<1>6. CASE RequestFails(r)
  BY <1>3, <1>6 DEF RequestFails
<1>7. QED
  BY <1>4, <1>5, <1>6

\* Table and map are there when nothing of the last visit is under way or lost, and a
\* map has the scale of its nodes: a late answer to an earlier visit never takes the
\* place of one that is awaited.  The code: the callbacks of node.js.
THEOREM MapIsShown == PageSpec => []MapShown
<1>1. PageInit => MapInv
  BY MapStarts DEF PageInit
<1>2. MapInv /\ [PageNext]_vars => MapInv'
  <2> SUFFICES ASSUME MapInv, [PageNext]_vars PROVE MapInv'
    OBVIOUS
  <2>1. CASE \E loc \in Paths : Visit(loc)
    BY <2>1, MapVisited DEF Visit
  <2>2. CASE MapNext
    BY <2>2, MapAnswered DEF MapNext
  <2>3. CASE UNCHANGED mapVars
    BY <2>3 DEF mapVars, MapInv, Awaited, Charts
  <2>4. QED
    BY <2>1, <2>2, <2>3 DEF PageNext, vars
<1>3. MapInv => MapShown
  <2> SUFFICES ASSUME MapInv PROVE MapShown
    OBVIOUS
  <2>1. ASSUME chart # Nothing PROVE ScaledTo(chart.data, chart.max)
    <3>1. PICK nodes \in NodeLists : chart = [data |-> nodes, max |-> MaxNum(nodes)]
      BY <2>1 DEF MapInv, Charts
    <3>2. chart.data = nodes /\ chart.max = MaxNum(nodes)
      BY <3>1
    <3>3. QED
      BY <3>2, MaxNumScales
  <2>2. QED
    BY <2>1 DEF MapInv, MapShown, Awaited
<1>4. QED
  BY <1>1, <1>2, <1>3, PTL DEF PageSpec

-----------------------------------------------------------------------------
(***************************************************************************)
(* What the conversions show, and the builds that the loader takes: sizes, *)
(* ages, amounts and queries.                                              *)
(***************************************************************************)
\* The quotient and the rest of a division.
LEMMA Quotient ==
    ASSUME NEW a \in Int, NEW d \in Nat, d > 0
    PROVE  /\ a \div d \in Int /\ a % d \in 0..(d - 1)
           /\ a = d * (a \div d) + (a % d)
BY SMT


-----------------------------------------------------------------------------
(* Sizes. *)

\* A size below 1000 is shown as it is.
LEMMA SmallSizes ==
    ASSUME NEW s \in Nat, s < 1000
    PROVE  BytesReadBack(s, Bytes(s))
<1> DEFINE shown == [tenths |-> 10 * s, e |-> 0]
<1>1. Bytes(s) = shown
  <2>1. CASE s < 10
    BY SMT, <2>1 DEF Bytes
  <2>2. CASE ~(s < 10)
    <3>1. Exponent(s) = 0 /\ 1000 ^ 0 = 1
      BY SMT DEF Exponent
    <3>2. RoundDiv(10 * s, 1) = 10 * s
      BY SMT DEF RoundDiv
    <3>3. RoundDiv(10 * s, 10) = s
      BY SMT DEF RoundDiv
    <3>4. ~(10 * s < 100)
      BY SMT, <2>2
    <3>5. QED
      BY SMT, <2>2, <3>1, <3>2, <3>3, <3>4 DEF Bytes
  <2>3. QED
    BY SMT, <2>1, <2>2
<1>2. /\ shown.tenths = 10 * s /\ shown.e = 0 /\ 1000 ^ 0 = 1
      /\ (10 * s) \div 10 = s /\ 1 \div 10 = 0 /\ (10 * s) % 10 = 0
  BY SMT
<1>3. BytesReadBack(s, shown)
  <2> HIDE DEF shown
  <2>1. QED
    BY SMT, <1>2 DEF BytesReadBack
<1>4. QED
  BY SMT, <1>1, <1>3

\* The units of the sizes from 1000 on.
SizeUnits == {1000, 1000000}

\* The size in tenths of the unit, and these in whole units, to the nearest.
WellRounded(s, unit, t, n) ==
    /\ t \in Nat /\ n \in Nat
    /\ -(5 * (unit \div 100)) <= s - (unit \div 10) * t
    /\ s - (unit \div 10) * t <= 5 * (unit \div 100)
    /\ -5 <= t - 10 * n /\ t - 10 * n <= 5

\* What is left when a size is rounded to tenths of a unit, and, from ten units on, to
\* whole units.
LEMMA RoundedSize ==
    ASSUME NEW s \in Nat, NEW unit \in SizeUnits, NEW t, NEW n,
           t = RoundDiv(10 * s, unit), n = RoundDiv(t, 10)
    PROVE  WellRounded(s, unit, t, n)
<1>1. t \in Nat /\ t = (20 * s + unit) \div (2 * unit)
  BY SMT DEF RoundDiv, SizeUnits
<1>2. /\ -(5 * (unit \div 100)) <= s - (unit \div 10) * t
      /\ s - (unit \div 10) * t <= 5 * (unit \div 100)
  BY SMT, <1>1 DEF SizeUnits
<1>3. n \in Nat /\ -5 <= t - 10 * n /\ t - 10 * n <= 5
  BY SMT, <1>1 DEF RoundDiv
<1>4. QED
  BY SMT, <1>1, <1>2, <1>3 DEF WellRounded

LEMMA LargeSizes ==
    ASSUME NEW s \in Nat, s >= 1000
    PROVE  BytesReadBack(s, Bytes(s))
<1> DEFINE unit == IF s < 1000000 THEN 1000 ELSE 1000000
           t == RoundDiv(10 * s, unit)
           n == RoundDiv(t, 10)
           shown == [tenths |-> IF t < 100 THEN t ELSE 10 * n, e |-> Exponent(s)]
<1>1. Exponent(s) \in {1, 2} /\ 1000 ^ Exponent(s) = unit
  BY SMT DEF Exponent
<1>2. Bytes(s) = shown
  BY SMT, <1>1 DEF Bytes
<1>3. /\ t \in Nat /\ n \in Nat /\ unit \in SizeUnits
      /\ -(5 * (unit \div 100)) <= s - (unit \div 10) * t
      /\ s - (unit \div 10) * t <= 5 * (unit \div 100)
      /\ -5 <= t - 10 * n /\ t - 10 * n <= 5
  <2>1. unit \in SizeUnits
    BY SMT DEF SizeUnits
  <2>2. t = RoundDiv(10 * s, unit) /\ n = RoundDiv(t, 10)
    OBVIOUS
  <2> HIDE DEF unit, t, n
  <2>3. WellRounded(s, unit, t, n)
    BY <2>1, <2>2, RoundedSize
  <2>4. QED
    BY <2>1, <2>3 DEF WellRounded
<1>4. /\ shown.tenths = (IF t < 100 THEN t ELSE 10 * n) /\ shown.e = Exponent(s)
      /\ shown.e # 0
  BY SMT, <1>1
<1> HIDE DEF unit, t, n, shown
<1>5. CASE t < 100
  <2>0. t \in Nat
    BY SMT, <1>3
  <2>1. shown.tenths = t /\ t = 10 * (t \div 10) + (t % 10)
    BY SMT, <2>0, <1>4, <1>5
  <2>2. (t \div 10) \in Int /\ t % 10 \in Int
    BY SMT, <1>3
  <2>3. BytesReadBack(s, shown) <=>
          LET off == s - unit * (t \div 10) - (unit \div 10) * (t % 10)
          IN -(5 * (unit \div 100)) <= off /\ off <= 5 * (unit \div 100)
    BY SMT, <1>1, <1>4, <1>5, <2>1 DEF BytesReadBack
  <2>4. unit * (t \div 10) + (unit \div 10) * (t % 10) = (unit \div 10) * t
    BY SMT, <1>3, <2>1, <2>2 DEF SizeUnits
  <2>5. QED
    BY SMT, <1>2, <1>3, <2>2, <2>3, <2>4 DEF SizeUnits
<1>6. CASE ~(t < 100)
  <2>1. shown.tenths = 10 * n /\ (10 * n) \div 10 = n /\ (10 * n) % 10 = 0
    BY SMT, <1>3, <1>4, <1>6
  <2>2. ~(10 * n < 100)
    BY SMT, <1>3, <1>6
  <2>3. BytesReadBack(s, shown) <=>
          LET off == s - unit * n - (unit \div 10) * 0
          IN -(55 * (unit \div 100)) <= off /\ off <= 55 * (unit \div 100)
    BY SMT, <1>1, <1>4, <2>1, <2>2 DEF BytesReadBack
  <2>4. QED
    BY SMT, <1>2, <1>3, <2>3 DEF SizeUnits
<1>7. QED
  BY SMT, <1>5, <1>6

-----------------------------------------------------------------------------
(* Ages. *)

\* The units of an age: each is some seconds, and a minute or more has a unit that is
\* the largest to fit.
LEMMA UnitOfAge ==
    /\ \A i \in 1..6 : Units[i] \in Nat /\ Units[i] > 0
    /\ Units[6] = 1
    /\ \A s \in Int : s >= 60 =>
         \E i \in 1..5 : s >= Units[i] /\ \A j \in 1..i - 1 : s < Units[j]
<1>1. /\ Units[1] = 31536000 /\ Units[2] = 2592000 /\ Units[3] = 86400
      /\ Units[4] = 3600 /\ Units[5] = 60 /\ Units[6] = 1
  BY SMT DEF Units
<1>2. \A i \in 1..6 : Units[i] \in Nat /\ Units[i] > 0
  BY SMT, <1>1
<1>3. ASSUME NEW s \in Int, s >= 60
      PROVE  \E i \in 1..5 : s >= Units[i] /\ \A j \in 1..i - 1 : s < Units[j]
  <2> DEFINE Fits(i) == s >= Units[i] /\ \A j \in 1..i - 1 : s < Units[j]
  <2>1. CASE s >= Units[1]
    <3>1. Fits(1)
      BY SMT, <1>2, <2>1
    <3>2. QED
      BY SMT, <3>1
  <2>2. CASE s < Units[1] /\ s >= Units[2]
    <3>1. Fits(2)
      BY SMT, <1>2, <2>2
    <3>2. QED
      BY SMT, <3>1
  <2>3. CASE s < Units[1] /\ s < Units[2] /\ s >= Units[3]
    <3>1. Fits(3)
      BY SMT, <1>2, <2>3
    <3>2. QED
      BY SMT, <3>1
  <2>4. CASE s < Units[1] /\ s < Units[2] /\ s < Units[3] /\ s >= Units[4]
    <3>1. Fits(4)
      BY SMT, <1>2, <2>4
    <3>2. QED
      BY SMT, <3>1
  <2>5. CASE s < Units[1] /\ s < Units[2] /\ s < Units[3] /\ s < Units[4]
    <3>1. Fits(5)
      BY SMT, <1>1, <1>2, <1>3, <2>5
    <3>2. QED
      BY SMT, <3>1
  <2>6. QED
    BY SMT, <1>2, <2>1, <2>2, <2>3, <2>4, <2>5
<1>4. QED
  BY SMT, <1>1, <1>2, <1>3

\* An age is the time passed, cut off at its second unit.
LEMMA AgesReadBack ==
    ASSUME NEW s \in Int
    PROVE  AgeReadBack(s, TimeSince(s))
<1>1. CASE s < 60
  <2> DEFINE age == [n |-> s, unit |-> 6, extra |-> 0]
  <2>1. TimeSince(s) = age
    BY SMT, <1>1 DEF TimeSince
  <2>2. age.n = s /\ age.unit = 6
    BY SMT
  <2> HIDE DEF age
  <2>3. Shown(age) = s
    BY SMT, <2>2, UnitOfAge DEF Shown
  <2>4. QED
    BY SMT, <2>1, <2>2, <2>3 DEF AgeReadBack
<1>2. CASE ~(s < 60)
  <2> DEFINE i == CHOOSE k \in 1..5 : s >= Units[k] /\ \A j \in 1..k - 1 : s < Units[j]
             n == s \div Units[i]
             r == s % Units[i]
             x == r \div Units[i + 1]
             age == [n |-> n, unit |-> i, extra |-> x]
  <2>1. TimeSince(s) = age
    BY SMT, <1>2 DEF TimeSince
  <2>2. i \in 1..5
    <3>1. \E k \in 1..5 : s >= Units[k] /\ \A j \in 1..k - 1 : s < Units[j]
      BY SMT, <1>2, UnitOfAge
    <3>2. QED
      BY Zenon, <3>1
  <2>3. age.n = n /\ age.unit = i /\ age.extra = x
    BY SMT
  <2>4. /\ Units[i] \in Nat /\ Units[i] > 0
        /\ Units[i + 1] \in Nat /\ Units[i + 1] > 0 /\ i + 1 \in 1..6 /\ i # 6
    <3> HIDE DEF i
    <3>1. i + 1 \in 1..6 /\ i \in 1..6 /\ i # 6
      BY SMT, <2>2
    <3>2. QED
      BY SMT, <3>1, UnitOfAge
  <2> HIDE DEF i
  <2>5. n \in Int /\ r \in Int /\ 0 <= r /\ s = Units[i] * n + r
    <3>1. n \in Int /\ r \in 0..(Units[i] - 1) /\ s = Units[i] * n + r
      BY Zenon, <2>4, Quotient
    <3>2. QED
      BY SMT, <2>4, <3>1
  <2>6. x \in Int /\ r % Units[i + 1] \in 0..(Units[i + 1] - 1)
        /\ r = Units[i + 1] * x + (r % Units[i + 1])
    <3> HIDE DEF r
    <3>1. QED
      BY Zenon, <2>4, <2>5, Quotient
  <2>7. Shown(age) = n * Units[i] + x * Units[i + 1]
    BY SMT, <2>3, <2>4 DEF Shown
  <2> HIDE DEF age, n, r, x
  <2>8. Shown(age) <= s /\ s < Shown(age) + Units[i + 1]
    BY SMT, <2>4, <2>5, <2>6, <2>7
  <2>9. QED
    BY SMT, <2>1, <2>3, <2>4, <2>8 DEF AgeReadBack
<1>3. QED
  BY SMT, <1>1, <1>2

-----------------------------------------------------------------------------
(* Amounts. *)

\* The powers of ten.
LEMMA TenPowers ==
    /\ 10 ^ 0 = 1
    /\ \A k \in 0..8 : 10 ^ k \in Nat /\ 10 ^ k > 0
    /\ \A k \in 0..7 : 10 ^ (k + 1) = 10 ^ k * 10
<1>1. 10 ^ 0 = 1
  BY SMT
<1>2. ASSUME NEW k \in 0..8
      PROVE  10 ^ k \in Nat /\ 10 ^ k > 0
  <2>0. CASE k = 0
    BY SMT, <2>0
  <2>1. CASE k = 1
    BY SMT, <2>1
  <2>2. CASE k = 2
    BY SMT, <2>2
  <2>3. CASE k = 3
    BY SMT, <2>3
  <2>4. CASE k = 4
    BY SMT, <2>4
  <2>5. CASE k = 5
    BY SMT, <2>5
  <2>6. CASE k = 6
    BY SMT, <2>6
  <2>7. CASE k = 7
    BY SMT, <2>7
  <2>8. CASE k = 8
    BY SMT, <2>8
  <2>9. QED
    BY SMT, <2>0, <2>1, <2>2, <2>3, <2>4, <2>5, <2>6, <2>7, <2>8
<1>3. ASSUME NEW k \in 0..7
      PROVE  10 ^ (k + 1) = 10 ^ k * 10
  <2>0. CASE k = 0
    BY SMT, <2>0
  <2>1. CASE k = 1
    BY SMT, <2>1
  <2>2. CASE k = 2
    BY SMT, <2>2
  <2>3. CASE k = 3
    BY SMT, <2>3
  <2>4. CASE k = 4
    BY SMT, <2>4
  <2>5. CASE k = 5
    BY SMT, <2>5
  <2>6. CASE k = 6
    BY SMT, <2>6
  <2>7. CASE k = 7
    BY SMT, <2>7
  <2>8. QED
    BY SMT, <2>0, <2>1, <2>2, <2>3, <2>4, <2>5, <2>6, <2>7
<1>4. QED
  BY Zenon, <1>1, <1>2, <1>3

\* A number cut by one digit more, and this digit.
LEMMA NextDigit ==
    ASSUME NEW f \in Nat, NEW k \in 0..7
    PROVE  f \div 10 ^ k = 10 * (f \div 10 ^ (k + 1)) + ((f \div 10 ^ k) % 10)
<1> DEFINE b == 10 ^ k
<1>1. b \in Nat /\ b > 0 /\ 10 ^ (k + 1) = b * 10
  <2>1. k \in 0..8
    BY SMT
  <2>2. QED
    BY Zenon, <2>1, TenPowers
<1> HIDE DEF b
<1>2. (f \div b) \div 10 = f \div (b * 10) /\ f \div b \in Int
  BY SMT, <1>1
<1>3. f \div b = 10 * ((f \div b) \div 10) + ((f \div b) % 10)
  <2> DEFINE q == f \div b
  <2>1. q \in Int
    BY <1>2
  <2> HIDE DEF q
  <2>2. q = 10 * (q \div 10) + (q % 10)
    BY SMT, <2>1
  <2>3. QED
    BY <2>2 DEF q
<1>4. f \div 10 ^ k = 10 * ((f \div 10 ^ k) \div 10) + ((f \div 10 ^ k) % 10)
  BY <1>3 DEF b
<1>5. (f \div 10 ^ k) \div 10 = f \div 10 ^ (k + 1)
  BY <1>1, <1>2 DEF b
<1>6. QED
  BY <1>4, <1>5

\* The zeros that end some digits are counted.
LEMMA ZerosCounted ==
    ASSUME NEW digits, NEW T, digits \in Seq(T)
    PROVE  LET z == TrailingZeros(digits)
           IN /\ z \in 0..Len(digits)
              /\ \A i \in Len(digits) - z + 1 .. Len(digits) : digits[i] = 0
              /\ z < Len(digits) => digits[Len(digits) - z] # 0
<1> DEFINE n == Len(digits)
           Ending(z) == /\ \A i \in n - z + 1 .. n : digits[i] = 0
                        /\ z < n => digits[n - z] # 0
           others == {i \in 1..n : digits[i] # 0}
<1>1. n \in Nat
  OBVIOUS
<1>2. \E z \in 0..n : Ending(z)
  <2>1. CASE others = {}
    <3>1. Ending(n)
      BY <1>1, <2>1
    <3>2. QED
      BY <1>1, <3>1
  <2>2. CASE others # {}
    <3>1. PICK m \in others : \A k \in others : k <= m
      <4>1. others \in SUBSET (0..n)
        BY <1>1
      <4> HIDE DEF others
      <4>2. QED
        BY <1>1, <2>2, <4>1, GreatestNumber
    <3>2. m \in 1..n /\ digits[m] # 0
      OBVIOUS
    <3>3. n - m \in 0..n /\ n - (n - m) = m
      BY <1>1, <3>2
    <3>4. \A i \in m + 1 .. n : digits[i] = 0
      BY <1>1, <3>1, <3>2
    <3>5. Ending(n - m)
      BY <3>2, <3>3, <3>4
    <3>6. QED
      BY <3>3, <3>5
  <2>3. QED
    BY <2>1, <2>2
<1>3. QED
  <2>1. TrailingZeros(digits) = CHOOSE z \in 0..n : Ending(z)
    BY Zenon DEF TrailingZeros
  <2> DEFINE zz == CHOOSE z \in 0..n : Ending(z)
  <2>2. zz \in 0..n /\ Ending(zz)
    <3> HIDE DEF Ending, n
    <3>1. QED
      BY Zenon, <1>2
  <2> HIDE DEF zz
  <2>3. QED
    BY Zenon, <2>1, <2>2 DEF zz

\* f of the units b is within half a unit of v.
Nearest(v, b, f) == -b <= 2 * (v - b * f) /\ 2 * (v - b * f) <= b

\* A quotient that is rounded is the nearest one.
LEMMA RoundedIsNearest ==
    ASSUME NEW v \in Nat, NEW b \in Nat, b > 0
    PROVE  RoundDiv(v, b) \in Nat /\ Nearest(v, b, RoundDiv(v, b))
<1> DEFINE f == RoundDiv(v, b)
<1>1. 2 * v + b \in Nat /\ 2 * b \in Nat /\ 2 * b > 0
  BY SMT
<1>2. f = (2 * v + b) \div (2 * b)
  BY Zenon DEF RoundDiv
<1> DEFINE a == 2 * v + b
           d == 2 * b
<1>3. a \div d \in Nat /\ d * (a \div d) <= a /\ a < d * (a \div d) + d
  <2> HIDE DEF a, d
  <2>1. a \in Nat /\ d \in Nat /\ d > 0
    BY Zenon, <1>1 DEF a, d
  <2>2. QED
    BY SMT, <2>1
<1>4. f \in Nat /\ 2 * b * f <= 2 * v + b /\ 2 * v + b < 2 * b * f + 2 * b
  BY Zenon, <1>2, <1>3
<1> HIDE DEF f
<1>5. b * f \in Nat /\ 2 * b * f = 2 * (b * f)
  BY SMT, <1>4
<1> DEFINE m == b * f
<1>6. Nearest(v, b, f)
  <2> HIDE DEF m
  <2>1. m \in Nat /\ 2 * m <= 2 * v + b /\ 2 * v + b < 2 * m + 2 * b
    BY Zenon, <1>4, <1>5 DEF m
  <2>2. -b <= 2 * (v - m) /\ 2 * (v - m) <= b
    BY SMT, <2>1
  <2>3. QED
    BY Zenon, <2>2 DEF Nearest, m
<1>7. QED
  BY Zenon, <1>4, <1>6 DEF f

\* At a tie the number below is as near.
LEMMA HalvedIsNearest ==
    ASSUME NEW v \in Nat, NEW b \in Nat, b > 0, 2 * (v % b) = b
    PROVE  v \div b \in Nat /\ Nearest(v, b, v \div b)
<1>1. v \div b \in Nat /\ v = b * (v \div b) + (v % b) /\ v % b \in Nat
  BY SMT
<1> DEFINE m == b * (v \div b)
           q == v % b
<1>2. m \in Nat
  BY SMT, <1>1
<1>3. Nearest(v, b, v \div b)
  <2>1. v = m + q /\ q \in Nat /\ 2 * q = b
    BY Zenon, <1>1
  <2> HIDE DEF m, q
  <2>2. -b <= 2 * (v - m) /\ 2 * (v - m) <= b
    BY SMT, <1>2, <2>1
  <2>3. QED
    BY Zenon, <2>2 DEF Nearest, m
<1>4. QED
  BY Zenon, <1>1, <1>3

\* The parts of an amount are put together to the amount, rounded.
LEMMA PartsAreRead ==
    ASSUME NEW v \in Nat, NEW precision \in Nat
    PROVE  PartsReadBack(v, precision, DecimalParts(v, precision))
<1> DEFINE p == Precision(precision)
           f == Fixed(v, p)
           digits == Decimals(v, p)
           z == TrailingZeros(digits)
           shown == SubSeq(digits, 1, p - z)
           parts == DecimalParts(v, precision)
<1>1. p \in 1..8 /\ (precision \in 1..8 => p = precision)
  BY DEF Precision
<1> HIDE DEF p
<1>2. f \in Nat /\ Nearest(v, 10 ^ (8 - p), f)
  <2> DEFINE b == 10 ^ (8 - p)
  <2>1. b \in Nat /\ b > 0
    <3>1. 8 - p \in 0..8
      BY SMT, <1>1
    <3>2. QED
      BY Zenon, <3>1, TenPowers
  <2>2. f = RoundDiv(v, b) \/ (2 * (v % b) = b /\ f = v \div b)
    BY Zenon DEF Fixed, Tie
  <2> HIDE DEF b, f
  <2>3. f \in Nat /\ Nearest(v, b, f)
    BY Zenon, <2>1, <2>2, RoundedIsNearest, HalvedIsNearest
  <2>4. QED
    BY Zenon, <2>3 DEF b
<1>3. /\ digits = [i \in 1..p |-> (f \div 10 ^ (p - i)) % 10]
      /\ digits \in Seq(Int) /\ Len(digits) = p
  <2>1. digits = [i \in 1..p |-> (f \div 10 ^ (p - i)) % 10]
    BY Zenon DEF Decimals
  <2> HIDE DEF f, digits
  <2>2. \A i \in 1..p : (f \div 10 ^ (p - i)) % 10 \in Int
    <3>1. ASSUME NEW i \in 1..p
          PROVE  (f \div 10 ^ (p - i)) % 10 \in Int
      <4>1. p - i \in 0..8
        BY SMT, <1>1
      <4> DEFINE b == 10 ^ (p - i)
      <4>2. b \in Nat /\ b > 0
        BY Zenon, <4>1, TenPowers
      <4> HIDE DEF b
      <4>3. (f \div b) % 10 \in Int
        BY SMT, <1>2, <4>2
      <4>4. QED
        BY <4>3 DEF b
    <3>2. QED
      BY Zenon, <3>1
  <2>3. QED
    BY SMT, <1>1, <2>1, <2>2
<1>4. parts = [int |-> f \div 10 ^ p, decimals |-> shown, zeros |-> z]
  BY Zenon DEF DecimalParts, p
<1> HIDE DEF f, digits
<1>5. /\ z \in 0..p
      /\ \A i \in p - z + 1 .. p : digits[i] = 0
      /\ z < p => digits[p - z] # 0
  BY Zenon, <1>3, ZerosCounted
<1> HIDE DEF z
<1>6. shown \in Seq(Int) /\ Len(shown) = p - z /\ \A i \in 1..p - z : shown[i] = digits[i]
  BY SMT, <1>1, <1>3, <1>5
<1> HIDE DEF shown, parts
<1>7. /\ parts.int = f \div 10 ^ p /\ parts.decimals = shown /\ parts.zeros = z
      /\ Len(parts.decimals) + parts.zeros = p
  BY SMT, <1>1, <1>4, <1>5, <1>6
<1> DEFINE Step(g) == [i \in 0..p |->
               IF i = 0 THEN parts.int
               ELSE 10 * g[i - 1]
                    + (IF i <= Len(parts.decimals) THEN parts.decimals[i] ELSE 0)]
           value == CHOOSE g : g = Step(g)
           w == [i \in 0..p |-> f \div 10 ^ (p - i)]
<1>8. \A i \in 1..p : IF i <= Len(parts.decimals) THEN parts.decimals[i] = digits[i]
                                                 ELSE digits[i] = 0
  BY SMT, <1>1, <1>5, <1>6, <1>7
<1>9. \A i \in 1..p : w[i] = 10 * w[i - 1]
                             + (IF i <= Len(parts.decimals) THEN parts.decimals[i] ELSE 0)
  <2>1. ASSUME NEW i \in 1..p
        PROVE  w[i] = 10 * w[i - 1] + digits[i]
    <3>1. i \in 0..p /\ i - 1 \in 0..p /\ p - i \in 0..7 /\ p - (i - 1) = (p - i) + 1
      BY SMT, <1>1
    <3>2. w[i] = f \div 10 ^ (p - i) /\ w[i - 1] = f \div 10 ^ ((p - i) + 1)
      BY Zenon, <3>1
    <3>3. digits[i] = (f \div 10 ^ (p - i)) % 10
      BY Zenon, <1>3
    <3>4. QED
      BY Zenon, <1>2, <3>1, <3>2, <3>3, NextDigit
  <2>2. QED
    BY Zenon, <1>8, <2>1
<1>10. w[0] = parts.int
  <2>1. p - 0 = p /\ 0 \in 0..p
    BY SMT, <1>1
  <2>2. QED
    BY Zenon, <1>7, <2>1
<1>11. w = Step(w)
  <2>1. \A i \in 0..p : w[i] = Step(w)[i]
    <3>1. ASSUME NEW i \in 0..p
          PROVE  w[i] = Step(w)[i]
      <4>1. CASE i = 0
        BY Zenon, <1>10, <4>1
      <4>2. CASE i # 0
        <5>1. i \in 1..p
          BY SMT, <1>1, <4>2
        <5>2. QED
          BY Zenon, <1>9, <4>2, <5>1
      <4>3. QED
        BY <4>1, <4>2
    <3>2. QED
      BY Zenon, <3>1
  <2>2. QED
    BY Zenon, <2>1
<1>12. value = Step(value)
  <2> HIDE DEF w, Next
  <2>1. QED
    BY Zenon, <1>11
<1>13. value[p] = w[p]
  <2> DEFINE S == {i \in 0..p : value[i] = w[i]}
  <2>1. value[0] = parts.int /\ \A i \in 1..p :
          value[i] = 10 * value[i - 1]
                     + (IF i <= Len(parts.decimals) THEN parts.decimals[i] ELSE 0)
    <3> HIDE DEF value
    <3>1. \A i \in 0..p : value[i] = Step(value)[i]
      BY Zenon, <1>12
    <3>2. 0 \in 0..p /\ \A i \in 1..p : i \in 0..p /\ i # 0
      BY SMT, <1>1
    <3>3. QED
      BY Zenon, <3>1, <3>2
  <2> HIDE DEF value, w
  <2>2. 0 \in S
    <3>1. 0 \in 0..p
      BY SMT, <1>1
    <3>2. QED
      BY Zenon, <1>10, <2>1, <3>1
  <2>3. \A n \in 0..p - 1 : n \in S => n + 1 \in S
    <3>1. ASSUME NEW n \in 0..p - 1, n \in S
          PROVE  n + 1 \in S
      <4>1. n + 1 \in 1..p /\ n + 1 \in 0..p /\ (n + 1) - 1 = n
        BY SMT, <1>1
      <4>2. value[n] = w[n]
        BY Zenon, <3>1
      <4>3. value[n + 1] = w[n + 1]
        BY Zenon, <1>9, <2>1, <4>1, <4>2
      <4>4. QED
        BY Zenon, <4>1, <4>3
    <3>2. QED
      BY <3>1
  <2> HIDE DEF S
  <2>4. p \in Nat /\ p \in 0..p
    BY SMT, <1>1
  <2>5. p \in S
    BY Zenon, <2>2, <2>3, <2>4, UpTo
  <2>6. QED
    BY Zenon, <2>5 DEF S
<1>14. w[p] = f
  <2>1. p - p = 0 /\ p \in 0..p /\ f \div 1 = f
    BY SMT, <1>1, <1>2
  <2>2. QED
    BY Zenon, <2>1, TenPowers
<1>15. parts.decimals # <<>> => parts.decimals[Len(parts.decimals)] # 0
  BY SMT, <1>1, <1>5, <1>6, <1>7
<1>16. PartsReadBack(v, precision, parts) <=>
          /\ precision \in 1..8 => p = precision
          /\ Nearest(v, 10 ^ (8 - p), value[p])
          /\ parts.decimals # <<>> => parts.decimals[Len(parts.decimals)] # 0
  BY Zenon, <1>7 DEF PartsReadBack, Nearest
<1> HIDE DEF value, w
<1>17. QED
  BY Zenon, <1>1, <1>2, <1>13, <1>14, <1>15, <1>16 DEF parts

-----------------------------------------------------------------------------
(* Queries. *)

\* The build for a value.
LEMMA BuildOf ==
    ASSUME NEW value
    PROVE  EcDistPath(value) =
             IF value \in Boilerplates THEN <<"boilerplate", value>>
             ELSE IF value \in Versions THEN <<"version", value>> ELSE <<"dist">>
<1>1. CASE value \in Boilerplates
  BY Zenon, <1>1 DEF EcDistPath
<1>2. CASE value \in Versions \ Boilerplates
  BY Zenon, <1>2 DEF EcDistPath
<1>3. CASE value \notin Boilerplates /\ value \notin Versions
  BY Zenon, <1>3 DEF EcDistPath
<1>4. QED
  BY Zenon, <1>1, <1>2, <1>3

\* The last parameter of a name counts.
LEMMA LastCounts ==
    ASSUME NEW query, NEW T, query \in Seq(T), NEW key
    PROVE  /\ (\A i \in 1..Len(query) : query[i].key # key) => Param(query, key) = NoValue
           /\ \A m \in 1..Len(query) :
                /\ query[m].key = key
                /\ \A i \in m + 1 .. Len(query) : query[i].key # key
                => Param(query, key) = query[m].value
<1> DEFINE n == Len(query)
           given == {i \in DOMAIN query : query[i].key = key}
<1>1. n \in Nat /\ DOMAIN query = 1..n
  OBVIOUS
<1>2. ASSUME \A i \in 1..n : query[i].key # key
      PROVE  Param(query, key) = NoValue
  <2>1. given = {}
    BY Zenon, <1>1, <1>2
  <2>2. QED
    BY Zenon, <2>1 DEF Param
<1>3. ASSUME NEW m \in 1..n, query[m].key = key, \A i \in m + 1 .. n : query[i].key # key
      PROVE  Param(query, key) = query[m].value
  <2> DEFINE last == CHOOSE i \in given : \A j \in given : i >= j
  <2>1. m \in given /\ given # {}
    BY Zenon, <1>1, <1>3
  <2>2. \A j \in given : j \in 1..n /\ j <= m
    BY <1>1, <1>3
  <2>3. m \in 1..n /\ \A j \in given : m >= j
    BY <1>1, <2>2
  <2>4. last \in given /\ \A j \in given : last >= j
    <3> HIDE DEF given
    <3>1. QED
      BY Zenon, <2>1, <2>3
  <2>5. Param(query, key) = query[last].value
    BY Zenon, <2>1 DEF Param
  <2> HIDE DEF last, given
  <2>6. last = m
    BY <1>1, <2>1, <2>2, <2>3, <2>4
  <2>7. QED
    BY Zenon, <2>5, <2>6
<1>4. QED
  BY Zenon, <1>2, <1>3

\* The build that a page loads is the last its URL asks for.
LEMMA LastBuildLoaded ==
    ASSUME NEW query, NEW T, query \in Seq(T), NEW base, NEW map
    PROVE  LoadReadBack(query, Load(query, base, map))
<1> DEFINE n == Len(query)
           Asks(i) == query[i].key = "__ECDIST__"
           Build(x) == IF x \in Boilerplates THEN <<"boilerplate", x>>
                       ELSE IF x \in Versions THEN <<"version", x>> ELSE <<"dist">>
           Step(g) == [i \in 0..n |->
               IF i = 0 THEN <<"dist">>
               ELSE IF query[i].key # "__ECDIST__" THEN g[i - 1]
               ELSE IF query[i].value \in Boilerplates THEN <<"boilerplate", query[i].value>>
               ELSE IF query[i].value \in Versions THEN <<"version", query[i].value>>
               ELSE <<"dist">>]
           last == CHOOSE g : g = Step(g)
           Asked(i) == {k \in 1..i : Asks(k)}
           Latest(A) == IF A = {} THEN <<"dist">>
                        ELSE Build(query[CHOOSE m \in A : \A k \in A : k <= m].value)
           w == [i \in 0..n |-> Latest(Asked(i))]
<1>1. n \in Nat /\ 0 \in 0..n /\ n \in 0..n
  OBVIOUS
<1>2. \A i \in 0..n : \A m \in Asked(i) :
         (\A k \in Asked(i) : k <= m) => w[i] = Build(query[m].value)
  <2>1. ASSUME NEW i \in 0..n, NEW m \in Asked(i), \A k \in Asked(i) : k <= m
        PROVE  w[i] = Build(query[m].value)
    <3> DEFINE g == CHOOSE x \in Asked(i) : \A k \in Asked(i) : k <= x
    <3>1. g \in Asked(i) /\ \A k \in Asked(i) : k <= g
      <4> HIDE DEF Asked
      <4>1. QED
        BY Zenon, <2>1
    <3>2. w[i] = Build(query[g].value)
      <4> HIDE DEF Asked, Build
      <4>1. QED
        BY Zenon, <3>1
    <3>3. g <= m /\ m <= g /\ g \in Int /\ m \in Int
      <4> HIDE DEF g
      <4>1. QED
        BY <2>1, <3>1
    <3>4. g = m
      <4> HIDE DEF g, Asked
      <4>1. QED
        BY SMT, <3>3
    <3> HIDE DEF g, w, Build
    <3>5. QED
      BY Zenon, <3>2, <3>4
  <2>2. QED
    BY Zenon, <2>1
<1>3. w[0] = <<"dist">>
  <2>1. Asked(0) = {}
    OBVIOUS
  <2>2. QED
    BY Zenon, <1>1, <2>1
<1>4. \A i \in 1..n : w[i] = IF query[i].key # "__ECDIST__" THEN w[i - 1]
                             ELSE Build(query[i].value)
  <2>1. ASSUME NEW i \in 1..n, Asks(i)
        PROVE  w[i] = Build(query[i].value)
    <3>1. i \in 0..n /\ i \in Asked(i) /\ \A k \in Asked(i) : k <= i
      BY <2>1
    <3>2. QED
      <4> HIDE DEF w, Asked, Build
      <4>1. QED
        BY Zenon, <1>2, <3>1
  <2>2. ASSUME NEW i \in 1..n, ~Asks(i)
        PROVE  w[i] = w[i - 1]
    <3>1. i \in 0..n /\ i - 1 \in 0..n
      BY <1>1
    <3>2. Asked(i) = Asked(i - 1)
      BY <2>2
    <3>3. QED
      <4> HIDE DEF Asked, Build, Latest
      <4>1. QED
        BY Zenon, <3>1, <3>2
  <2>3. ASSUME NEW i \in 1..n
        PROVE  w[i] = IF query[i].key # "__ECDIST__" THEN w[i - 1]
                      ELSE Build(query[i].value)
    <3> HIDE DEF w, Build
    <3>1. QED
      BY Zenon, <2>1, <2>2
  <2>4. QED
    BY Zenon, <2>3
<1>5. w = Step(w)
  <2>1. \A i \in 0..n : w[i] = Step(w)[i]
    <3>1. ASSUME NEW i \in 0..n
          PROVE  w[i] = Step(w)[i]
      <4>1. CASE i = 0
        <5> HIDE DEF w
        <5>1. QED
          BY Zenon, <1>3, <4>1
      <4>2. CASE i # 0
        <5>1. i \in 1..n
          BY <1>1, <4>2
        <5> HIDE DEF w
        <5>2. QED
          BY Zenon, <1>4, <4>2, <5>1
      <4>3. QED
        BY Zenon, <4>1, <4>2
    <3>2. QED
      BY Zenon, <3>1
  <2>2. QED
    BY Zenon, <2>1
<1>6. last = Step(last)
  <2> HIDE DEF w, Step
  <2>1. QED
    BY Zenon, <1>5
<1>7. last[n] = w[n]
  <2> DEFINE S == {i \in 0..n : last[i] = w[i]}
  <2>1. last[0] = <<"dist">> /\ \A i \in 1..n :
          last[i] = IF query[i].key # "__ECDIST__" THEN last[i - 1] ELSE Build(query[i].value)
    <3> HIDE DEF last
    <3>1. \A i \in 0..n : last[i] = Step(last)[i]
      BY Zenon, <1>6
    <3>2. \A i \in 1..n : i \in 0..n /\ i # 0
      BY <1>1
    <3>3. QED
      BY Zenon, <1>1, <3>1, <3>2
  <2> HIDE DEF last, w, Build
  <2>2. 0 \in S
    BY Zenon, <1>1, <1>3, <2>1
  <2>3. \A i \in 0..n - 1 : i \in S => i + 1 \in S
    <3>1. ASSUME NEW i \in 0..n - 1, i \in S
          PROVE  i + 1 \in S
      <4>1. i + 1 \in 1..n /\ i + 1 \in 0..n /\ (i + 1) - 1 = i
        BY <1>1
      <4>2. last[i] = w[i]
        BY Zenon, <3>1
      <4>3. last[i + 1] = w[i + 1]
        BY Zenon, <1>4, <2>1, <4>1, <4>2
      <4>4. QED
        BY Zenon, <4>1, <4>3
    <3>2. QED
      BY Zenon, <3>1
  <2> HIDE DEF S
  <2>4. n \in S
    BY Zenon, <1>1, <2>2, <2>3, UpTo
  <2>5. QED
    BY Zenon, <2>4 DEF S
<1>8. EcDistPath(Param(query, "__ECDIST__")) = w[n]
  <2>1. CASE Asked(n) = {}
    <3>1. \A i \in 1..n : query[i].key # "__ECDIST__"
      BY Zenon, <2>1
    <3>2. Param(query, "__ECDIST__") = NoValue
      BY Zenon, <3>1, LastCounts
    <3>3. EcDistPath(NoValue) = <<"dist">>
      BY Zenon, NoValueAssumption, BuildOf
    <3>4. w[n] = <<"dist">>
      BY Zenon, <1>1, <2>1
    <3>5. QED
      BY Zenon, <3>2, <3>3, <3>4
  <2>2. CASE Asked(n) # {}
    <3>1. PICK m \in Asked(n) : \A k \in Asked(n) : k <= m
      <4>1. Asked(n) \in SUBSET (0..n)
        BY <1>1
      <4> HIDE DEF Asked
      <4>2. QED
        BY Zenon, <1>1, <2>2, <4>1, GreatestNumber
    <3>2. m \in 1..n /\ query[m].key = "__ECDIST__"
      BY Zenon
    <3>3. \A i \in m + 1 .. n : query[i].key # "__ECDIST__"
      <4>1. ASSUME NEW i \in m + 1 .. n, query[i].key = "__ECDIST__"
            PROVE  FALSE
        <5>1. i \in 1..n /\ ~(i <= m)
          BY <1>1, <3>2
        <5>2. QED
          BY Zenon, <3>1, <4>1, <5>1
      <4>2. QED
        BY Zenon, <4>1
    <3>4. Param(query, "__ECDIST__") = query[m].value
      BY Zenon, <3>2, <3>3, LastCounts
    <3>5. w[n] = Build(query[m].value)
      <4> HIDE DEF w, Asked, Build
      <4>1. QED
        BY Zenon, <1>1, <1>2, <3>1
    <3>6. QED
      BY Zenon, <3>4, <3>5, BuildOf
  <2>3. QED
    BY Zenon, <2>1, <2>2
<1>9. Load(query, base, map).echarts = EcDistPath(Param(query, "__ECDIST__"))
  BY Zenon DEF Load
<1>10. LoadReadBack(query, Load(query, base, map)) <=> Load(query, base, map).echarts = last[n]
  BY Zenon DEF LoadReadBack
<1> HIDE DEF last, w
<1>11. QED
  BY Zenon, <1>7, <1>8, <1>9, <1>10

\* A call has been evaluated, once.
CallInv == call # NoValue => \E c \in Calls : call = c /\ result = Evaluate(c)

\* What any call returns reads back.
LEMMA CallsReadBack ==
    ASSUME NEW c \in Calls
    PROVE  CASE c.name = "bytes" -> BytesReadBack(c.arg, Evaluate(c))
             [] c.name = "timeSince" -> AgeReadBack(c.arg, Evaluate(c))
             [] c.name = "decimalParts" -> PartsReadBack(c.arg, c.precision, Evaluate(c))
             [] c.name = "config" -> LoadReadBack(c.query, Evaluate(c))
<1>1. CASE c.name = "bytes" /\ c.arg \in Nat
  <2>1. Evaluate(c) = Bytes(c.arg)
    BY Zenon, <1>1 DEF Evaluate
  <2>2. BytesReadBack(c.arg, Bytes(c.arg))
    <3>1. CASE c.arg < 1000
      BY Zenon, <1>1, <3>1, SmallSizes
    <3>2. CASE c.arg >= 1000
      BY Zenon, <1>1, <3>2, LargeSizes
    <3>3. QED
      BY SMT, <1>1, <3>1, <3>2
  <2>3. QED
    BY Zenon, <1>1, <2>1, <2>2
<1>2. CASE c.name = "timeSince" /\ c.arg \in Int
  <2>1. Evaluate(c) = TimeSince(c.arg)
    BY Zenon, <1>2 DEF Evaluate
  <2>2. AgeReadBack(c.arg, TimeSince(c.arg))
    BY Zenon, <1>2, AgesReadBack
  <2>3. QED
    BY Zenon, <1>2, <2>1, <2>2
<1>3. CASE /\ c.name = "decimalParts" /\ c.arg \in Nat /\ Representable(c.arg)
           /\ c.precision \in Nat
  <2>1. Evaluate(c) = DecimalParts(c.arg, c.precision)
    BY Zenon, <1>3 DEF Evaluate
  <2>2. PartsReadBack(c.arg, c.precision, DecimalParts(c.arg, c.precision))
    BY Zenon, <1>3, PartsAreRead
  <2>3. QED
    BY Zenon, <1>3, <2>1, <2>2
<1>4. CASE c.name = "config" /\ c.query \in Seq(Range(c.query))
  <2>1. Evaluate(c) = Load(c.query, NoValue, NoValue)
    BY Zenon, <1>4 DEF Evaluate
  <2>2. LoadReadBack(c.query, Load(c.query, NoValue, NoValue))
    BY Zenon, <1>4, LastBuildLoaded
  <2>3. QED
    BY Zenon, <1>4, <2>1, <2>2
<1>5. QED
  BY Zenon, CallsAssumption, <1>1, <1>2, <1>3, <1>4

\* What a reader takes from a size, an age or an amount that a page shows is the value
\* it was made from, to the last digit shown, within the bounds of CallsAssumption; and
\* the page loads the build that its query asks for last, whatever the query.  The code:
\* the conversions of humanize.js, config.js.
THEOREM ConversionsReadBack == PageSpec => []ReadsBack
<1>1. PageInit => CallInv
  BY Zenon DEF PageInit, CallInv
<1>2. CallInv /\ [PageNext]_vars => CallInv'
  <2>1. ASSUME CallInv, UNCHANGED <<call, result>>
        PROVE  CallInv'
    BY Zenon, <2>1 DEF CallInv
  <2>2. [PageNext]_vars => UNCHANGED <<call, result>>
    BY Zenon DEF PageNext, vars
  <2>3. QED
    BY Zenon, <2>1, <2>2
<1>3. CallInv => ReadsBack
  BY Zenon, CallsReadBack DEF CallInv, ReadsBack
<1>4. QED
  BY <1>1, <1>2, <1>3, PTL DEF PageSpec
=============================================================================
