-------------------------------- MODULE Irpc --------------------------------
(***************************************************************************)
(* Calls between the server processes: the irpc half of messaging.c.  A    *)
(* process runs one handler at a time.  A synchronous call waits in an     *)
(* event loop of its own, inside the handler that makes it, where further  *)
(* handlers run and make calls: they nest and return in reverse order.     *)
(***************************************************************************)
EXTENDS Messaging

CONSTANTS
    Call,       \* numbers of the calls that may be made
    MaxPing,    \* bound: pings that are sent
    Peers,      \* who pings whom
    Callers,    \* who calls whom
    Mortal,     \* processes that may exit or be killed
    Busy        \* processes that may never get back to their event loop

ASSUME IrpcAssumption ==
    /\ Call \subseteq Nat \ {0} /\ MaxPing \in Nat /\ Mortal \subseteq Proc /\ Busy \subseteq Proc
    /\ Peers \subseteq Proc \X Proc /\ Callers \subseteq Proc \X Proc

VARIABLES
    call,       \* struct irpc_request of each call
    stack,      \* calls a process waits for in irpc_call_recv, the innermost last
    deferred,   \* irpc_messages a process has still to reply to
    pings,      \* history: pings sent
    last        \* history: the last message from p that q took, late ones aside

vars == <<messaging, call, stack, deferred, pings, last>>

\* of is history: the call that a request, or the request of a reply, is for.
\* Of a request that is still to be answered, its sender is kept.
Body == {[kind |-> "ping"], [kind |-> "pong"]}
          \cup [kind: {"request", "reply"}, callid: Nat, of: Call]
Asked == [from: Proc, body: [kind: {"request"}, callid: Nat, of: Call]]
Packet == [from: Proc, to: Proc, body: Body, retries: 0 .. Tries + 1, n: Nat \ {0},
           late: BOOLEAN]

\* A call in flight is in the idr tree of its process until it is freed.  got
\* is the call whose reply was taken for its own.
Unmade == [pc |-> "unmade"]
CallState == {Unmade} \cup
    [pc: {"sent", "done", "ended"}, from: Proc, callid: Nat, timer: BOOLEAN,
     status: {"none", "ok", "unparsed", "timeout", "failed"}, got: Call \cup {0}]

Init ==
    /\ InitMessaging
    /\ call = [c \in Call |-> Unmade]
    /\ stack = [p \in Proc |-> <<>>]
    /\ deferred = [p \in Proc |-> {}]
    /\ pings = 0
    /\ last = [p \in Proc |-> [q \in Proc |-> 0]]

-----------------------------------------------------------------------------

InFlight(c) == call[c].pc \in {"sent", "done"}

\* The event loop of p runs: in the main program, or in irpc_call_recv of a
\* call that is not done.
InLoop(p) == p \in up /\ (stack[p] # <<>> => call[Last(stack[p])].pc = "sent")

\* Mutant of idr_get_new: a second id cannot be had, and its -1 is not seen.
OneId(p) == IF \E c \in Call : InFlight(c) /\ call[c].from = p THEN -1 ELSE 0

\* idr_get_new: the lowest id that no call in flight of p has.
idr_get_new(p) ==
    LET used == {call[c].callid : c \in {d \in Call : InFlight(d) /\ call[d].from = p}}
    IN  CHOOSE i \in 0 .. Cardinality(used) : i \notin used /\ \A j \in 0 .. i - 1 : j \in used

\* Some handler of p sends a message, as a test of the message system.
Ping(p, q) ==
    /\ InLoop(p) /\ pings < MaxPing
    /\ pings' = pings + 1
    /\ messaging_send(p, q, [kind |-> "ping"], socket)
    /\ UNCHANGED <<up, call, stack, deferred, last>>

\* irpc_call_send, in some handler of p, and irpc_call_recv when the call is
\* synchronous.  A request that cannot be sent ends the call.
irpc_call_send(p, q, c, sync) ==
    LET id == idr_get_new(p)
        lost == SendStatus(p, q, socket) = "lost"
    IN  /\ InLoop(p)
        /\ call[c] = Unmade /\ \A d \in Call : d < c => call[d] # Unmade
        /\ messaging_send(p, q, [kind |-> "request", callid |-> id, of |-> c], socket)
        /\ call' = [call EXCEPT ![c] =
              [pc |-> IF lost THEN "ended" ELSE "sent", from |-> p, callid |-> id,
               timer |-> ~ lost, status |-> IF lost THEN "failed" ELSE "none", got |-> 0]]
        /\ stack' = IF sync /\ ~ lost THEN [stack EXCEPT ![p] = Append(@, c)] ELSE stack
        /\ UNCHANGED <<up, deferred, pings, last>>

\* Mutant of idr_find: the newest call is taken to be the one.
Newest(p, id) ==
    LET found == {c \in Call : InFlight(c) /\ call[c].from = p}
    IN  IF found = {} THEN 0 ELSE Max(found)

\* The call of p that idr_find has under an id, or 0.
idr_find(p, id) ==
    LET found == {c \in Call : InFlight(c) /\ call[c].from = p /\ call[c].callid = id}
    IN  IF found = {} THEN 0 ELSE CHOOSE c \in found : TRUE

\* The call has an outcome.  The callback of an asynchronous one calls
\* irpc_call_recv, which frees it; a synchronous one is found done when its
\* own event loop is the innermost.
Done(c, status, got, timer) ==
    LET waiting == Contains(stack[call[c].from], c)
    IN  call' = [call EXCEPT ![c].pc = IF waiting THEN "done" ELSE "ended",
                             ![c].status = status, ![c].got = got, ![c].timer = waiting /\ timer]

\* irpc_handler_reply looks at nothing but the id.  A reply to another call is
\* parsed as the reply to this one, which may or may not work.
irpc_handler_reply(p, body) ==
    LET c == idr_find(p, body.callid)
    IN  \/ c = 0 /\ UNCHANGED call
        \/ c # 0 /\ Done(c, "ok", body.of, call[c].timer)
        \/ c # 0 /\ body.of # c /\ Done(c, "unparsed", body.of, call[c].timer)

\* irpc_handler_request.  The request is unknown or does not parse, and no one
\* is told; or the server function puts the reply off; or it is answered.
irpc_handler_request(p, from, body) ==
    \/ Take(p) /\ UNCHANGED deferred
    \/ /\ Take(p)
       /\ deferred' = [deferred EXCEPT ![p] = @ \cup {[from |-> from, body |-> body]}]
    \/ /\ messaging_send(p, from, [body EXCEPT !.kind = "reply"], Taken(p))
       /\ UNCHANGED deferred

\* messaging_recv_handler takes the next packet and dispatches it.
messaging_recv_handler(p) ==
    LET m == Head(socket[p])
    IN  /\ InLoop(p) /\ socket[p] # <<>>
        /\ \/ /\ m.body.kind = "pong" /\ Take(p)
              /\ UNCHANGED <<call, deferred>>
           \/ /\ m.body.kind = "ping"
              /\ messaging_send(p, m.from, [kind |-> "pong"], Taken(p))
              /\ UNCHANGED <<call, deferred>>
           \/ /\ m.body.kind = "request"
              /\ irpc_handler_request(p, m.from, m.body)
              /\ UNCHANGED call
           \/ /\ m.body.kind = "reply" /\ Take(p)
              /\ irpc_handler_reply(p, m.body)
              /\ UNCHANGED deferred
        /\ last' = IF m.late THEN last ELSE [last EXCEPT ![m.from][p] = m.n]
        /\ UNCHANGED <<up, stack, pings>>

\* irpc_send_reply of a deferred request.
irpc_send_reply(p) ==
    /\ InLoop(p)
    /\ \E m \in deferred[p] :
          /\ messaging_send(p, m.from, [m.body EXCEPT !.kind = "reply"], socket)
          /\ deferred' = [deferred EXCEPT ![p] = @ \ {m}]
    /\ UNCHANGED <<up, call, stack, pings, last>>

\* Mutant of irpc_timeout: it sets the status and does not end the wait.
TimeoutNotDone(c) ==
    /\ InFlight(c) /\ call[c].timer
    /\ InLoop(call[c].from)
    /\ \A d \in Call : d < c /\ InFlight(d) /\ call[d].timer => call[d].from # call[c].from
    /\ call' = [call EXCEPT ![c].status = "timeout", ![c].timer = FALSE]
    /\ UNCHANGED <<messaging, stack, deferred, pings, last>>

\* irpc_timeout.  The timer of a call runs until the call is freed, done or
\* not; timers of a process go off in the order in which they were set.
irpc_timeout(c) ==
    /\ InFlight(c) /\ call[c].timer
    /\ InLoop(call[c].from)
    /\ \A d \in Call : d < c /\ InFlight(d) /\ call[d].timer => call[d].from # call[c].from
    /\ Done(c, "timeout", 0, FALSE)
    /\ UNCHANGED <<messaging, stack, deferred, pings, last>>

\* irpc_call_recv returns and frees the call.
irpc_call_recv(c) ==
    /\ call[c].pc = "done"
    /\ call[c].from \in up /\ Last(stack[call[c].from]) = c
    /\ call' = [call EXCEPT ![c].pc = "ended", ![c].timer = FALSE]
    /\ stack' = [stack EXCEPT ![call[c].from] = Front(@)]
    /\ UNCHANGED <<messaging, deferred, pings, last>>

-----------------------------------------------------------------------------

SendHandler(p) ==
    /\ InLoop(p)
    /\ messaging_send_handler(p)
    /\ UNCHANGED <<up, call, stack, deferred, pings, last>>

RetryTimer(p) ==
    /\ InLoop(p)
    /\ msg_retry_timer(p)
    /\ UNCHANGED <<up, call, stack, deferred, pings, last>>

\* A process ends, or is killed.
Exit(p) ==
    /\ p \in Mortal \cap up
    /\ Gone(p)
    /\ UNCHANGED <<call, stack, deferred, pings, last>>

Next ==
    \/ \E p, q \in Proc : <<p, q>> \in Peers /\ Ping(p, q)
    \/ \E p, q \in Proc, c \in Call, sync \in BOOLEAN :
          <<p, q>> \in Callers /\ irpc_call_send(p, q, c, sync)
    \/ \E p \in Proc :
          \/ messaging_recv_handler(p)
          \/ SendHandler(p)
          \/ RetryTimer(p)
          \/ irpc_send_reply(p)
          \/ Exit(p)
    \/ \E c \in Call : irpc_timeout(c) \/ irpc_call_recv(c)

Spec == Init /\ [][Next]_vars

TimeoutOf(p) == \E c \in Call : InFlight(c) /\ call[c].from = p /\ irpc_timeout(c)
ReturnTo(p) == \E c \in Call : InFlight(c) /\ call[c].from = p /\ irpc_call_recv(c)

\* Every event of a process that is not busy is handled in the end: select
\* reports it again until it is.  Server functions may put a reply off for ever.
Fairness ==
    /\ \A p \in Proc \ Busy :
          /\ WF_vars(messaging_recv_handler(p))
          /\ WF_vars(SendHandler(p))
          /\ WF_vars(RetryTimer(p))
          /\ WF_vars(TimeoutOf(p) \/ ReturnTo(p))

FairSpec == Spec /\ Fairness

-----------------------------------------------------------------------------
(* Properties *)

\* The variables have their types: no socket holds more than it can, and every
\* call that irpc_call_send makes has an id of the tree.
TypeOK ==
    /\ up \subseteq Proc
    /\ socket \in [Proc -> Seq(Packet)] /\ \A p \in Proc : Len(socket[p]) <= Cap
    /\ pending \in [Proc -> Seq(Packet)]
    /\ retry_queue \in [Proc -> Seq(Packet)]
    /\ retry_te \in [Proc -> BOOLEAN] /\ writeable \in [Proc -> BOOLEAN]
    /\ sent \in [Proc -> Nat]
    /\ call \in [Call -> CallState]
    /\ stack \in [Proc -> Seq(Call)]
    /\ deferred \in [Proc -> SUBSET Asked]
    /\ last \in [Proc -> [Proc -> Nat]]

\* No message is forgotten in a queue: while messages are pending the event
\* loop watches the socket, and while messages are backed off the timer is set.
QueuesWatched ==
    \A p \in Proc : /\ pending[p] # <<>> => writeable[p]
                    /\ retry_queue[p] # <<>> => retry_te[p]

\* Messages between two processes arrive in the order in which they were sent,
\* except those that were backed off: a later message may overtake these.
InOrder ==
    \A p, q \in Proc :
        LET way == socket[q] \o pending[p]
            these == {i \in DOMAIN way : way[i].from = p /\ way[i].to = q /\ ~ way[i].late}
        IN  /\ \A i, j \in these : i < j => way[i].n < way[j].n
            /\ \A i \in these : last[p][q] < way[i].n

\* The answer of a call is the answer to its own request, unless an earlier
\* call that had the same id timed out: irpc_handler_reply goes by the id, and
\* the id of a call that is freed is given to the next.
OwnAnswer ==
    \A c \in Call : (call[c] # Unmade /\ call[c].got \notin {0, c}) =>
        \E d \in Call : /\ d < c /\ call[d].pc = "ended" /\ call[d].status = "timeout"
                        /\ call[d].from = call[c].from /\ call[d].callid = call[c].callid

\* Every call returns to a caller that goes on running, whatever becomes of the
\* server, the request and the reply.
Returns ==
    \A c \in Call :
        (InFlight(c) /\ call[c].from \notin Busy) ~> (InFlight(c) => call[c].from \notin up)

\* Messages on their way between processes that are not busy.
InTransit ==
    UNION {{m \in ToSet(socket[p] \o pending[p] \o retry_queue[p]) : {m.from, m.to} \cap Busy = {}} :
           p \in Proc}

\* Messages between processes that run are taken in the end, even when their
\* sender also has messages for a process whose socket stays full: these are
\* backed off to let the others pass.
Delivered == (InTransit # {}) ~> (InTransit = {})
=============================================================================
