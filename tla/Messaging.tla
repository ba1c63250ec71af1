----------------------------- MODULE Messaging ------------------------------
(***************************************************************************)
(* Messages between the server processes of one node:                      *)
(* lib/messaging/messaging.c.  Each process has a datagram socket that     *)
(* holds a bounded number of packets; a sender that meets a full socket    *)
(* queues the message, and backs off for a second when that goes on.       *)
(***************************************************************************)
EXTENDS Integers, FiniteSets, SequencesExt, Subsequences

CONSTANTS
    Proc,       \* server processes, by their server_id
    Cap,        \* packets a socket holds
    Tries       \* failed sends before a message is backed off; 3 in the code

ASSUME MessagingAssumption == Cap \in Nat \ {0} /\ Tries \in Nat

VARIABLES
    up,             \* processes that run
    socket,         \* packets in the socket of a process
    pending,        \* messages to be sent when the socket can be written
    retry_queue,    \* messages backed off
    retry_te,       \* the timer for them is set
    writeable,      \* the event loop watches for the socket to be writeable
    sent            \* history: messages a process has sent

transport == <<socket, pending, retry_queue, retry_te, writeable, sent>>
messaging == <<transport, up>>

InitMessaging ==
    /\ up = Proc
    /\ socket = [p \in Proc |-> <<>>]
    /\ pending = [p \in Proc |-> <<>>]
    /\ retry_queue = [p \in Proc |-> <<>>]
    /\ retry_te = [p \in Proc |-> FALSE]
    /\ writeable = [p \in Proc |-> FALSE]
    /\ sent = [p \in Proc |-> 0]

\* struct messaging_rec for the next message of p.  n numbers the messages of
\* a process and late says that one was ever backed off; both are history.
Message(p, q, body) ==
    [from |-> p, to |-> q, body |-> body, retries |-> 0, n |-> sent[p] + 1, late |-> FALSE]

\* What sendto does with a packet for q when the sockets hold sock: the path is
\* gone, the socket is full or the packet is in.
try_send(q, sock) == IF q \notin up THEN "lost" ELSE IF Len(sock[q]) >= Cap THEN "full" ELSE "ok"

\* Mutant of SendStatus: a new message does not look at those pending.
Overtakes(p, q, sock) == try_send(q, sock)

\* messaging_send.  A message waits behind those already pending; it does not
\* wait for those that were backed off.
SendStatus(p, q, sock) == IF pending[p] # <<>> THEN "full" ELSE try_send(q, sock)

messaging_send(p, q, body, sock) ==
    LET m == Message(p, q, body)
        status == SendStatus(p, q, sock)
    IN  /\ sent' = [sent EXCEPT ![p] = @ + 1]
        /\ socket' = IF status = "ok" THEN [sock EXCEPT ![q] = Append(@, m)] ELSE sock
        /\ pending' = IF status = "full" THEN [pending EXCEPT ![p] = Append(@, m)] ELSE pending
        /\ writeable' = [writeable EXCEPT ![p] = @ \/ (status = "full" /\ pending[p] = <<>>)]
        /\ UNCHANGED <<retry_queue, retry_te>>

\* The sockets once p has taken its next packet.
Taken(p) == [socket EXCEPT ![p] = Tail(@)]

\* messaging_recv_handler takes a packet off the socket and sends nothing.
Take(p) ==
    /\ socket' = Taken(p)
    /\ UNCHANGED <<pending, retry_queue, retry_te, writeable, sent>>

\* Where the first k messages in the queue of p are for q.
Into(p, k, q) == {i \in 1 .. k : pending[p][i].to = q}

\* How many messages at the front of the queue of p go out, or are lost, before
\* one meets a full socket.
GoOut(p) ==
    LET fits(k) == \A q \in up : Len(socket[q]) + Cardinality(Into(p, k, q)) <= Cap
    IN  CHOOSE k \in 0 .. Len(pending[p]) :
            fits(k) /\ \A j \in k + 1 .. Len(pending[p]) : ~ fits(j)

\* The sockets once these are out.
SentOut(p, k) ==
    [q \in Proc |-> IF q \in up THEN socket[q] \o Subsequence(pending[p], Into(p, k, q))
                    ELSE socket[q]]

\* Mutant of messaging_send_handler: a message that meets a full socket stays at
\* the front.
NeverBacksOff(p) ==
    LET k == GoOut(p)
    IN  /\ writeable[p]
        /\ socket' = SentOut(p, k)
        /\ pending' = [pending EXCEPT ![p] = SubSeq(@, k + 1, Len(@))]
        /\ writeable' = [writeable EXCEPT ![p] = pending'[p] # <<>>]
        /\ UNCHANGED <<retry_queue, retry_te, sent>>

\* messaging_send_handler: sends from the front until a socket is full; that
\* message is tried again, or backed off after too many tries.  The count of
\* tries stops at one too many, past which it is not looked at.
messaging_send_handler(p) ==
    LET k == GoOut(p)
        rest == SubSeq(pending[p], k + 1, Len(pending[p]))
        tried == [Head(rest) EXCEPT !.retries = Min({@, Tries}) + 1]
        backoff == rest # <<>> /\ tried.retries > Tries
    IN  /\ writeable[p]
        /\ socket' = SentOut(p, k)
        /\ pending' = [pending EXCEPT ![p] =
              IF rest = <<>> THEN <<>> ELSE IF backoff THEN Tail(rest) ELSE <<tried>> \o Tail(rest)]
        /\ retry_queue' = [retry_queue EXCEPT ![p] =
              IF backoff THEN Append(@, [tried EXCEPT !.late = TRUE]) ELSE @]
        /\ retry_te' = [retry_te EXCEPT ![p] = @ \/ backoff]
        /\ writeable' = [writeable EXCEPT ![p] = pending'[p] # <<>>]
        /\ UNCHANGED sent

\* Mutant of msg_retry_timer: the timer does not ask for write events.
RetryUnwatched(p) ==
    /\ retry_te[p]
    /\ retry_te' = [retry_te EXCEPT ![p] = FALSE]
    /\ pending' = [pending EXCEPT ![p] = @ \o retry_queue[p]]
    /\ retry_queue' = [retry_queue EXCEPT ![p] = <<>>]
    /\ UNCHANGED <<writeable, socket, sent>>

\* msg_retry_timer puts all the backed off messages at the end of the queue.
\* Their count of tries stays.
msg_retry_timer(p) ==
    /\ retry_te[p]
    /\ retry_te' = [retry_te EXCEPT ![p] = FALSE]
    /\ pending' = [pending EXCEPT ![p] = @ \o retry_queue[p]]
    /\ retry_queue' = [retry_queue EXCEPT ![p] = <<>>]
    /\ writeable' = [writeable EXCEPT ![p] = TRUE]
    /\ UNCHANGED <<socket, sent>>

\* The process ends, in messaging_destructor or killed: its socket and what it
\* had queued go with it.
Gone(p) ==
    /\ up' = up \ {p}
    /\ socket' = [socket EXCEPT ![p] = <<>>]
    /\ pending' = [pending EXCEPT ![p] = <<>>]
    /\ retry_queue' = [retry_queue EXCEPT ![p] = <<>>]
    /\ retry_te' = [retry_te EXCEPT ![p] = FALSE]
    /\ writeable' = [writeable EXCEPT ![p] = FALSE]
    /\ UNCHANGED sent
=============================================================================
