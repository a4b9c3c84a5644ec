------------------------------ MODULE RealtimeFeed ------------------------------
(* A gateway's feed to the dashboards (services/api-gateway:                       *)
(* realtime-broadcaster.js, realtime-connection.js, server.js). It ticks on a timer,  *)
(* unless another gateway holds a lock in Redis, and when a gateway that has ticked   *)
(* says so; a tick does not wait for the one before it. The other gateways are seen   *)
(* from this one: they have the lock, or speak, at any time. What is followed are the *)
(* notifications a tick announces as new; all else is sent whole on every tick.       *)
EXTENDS Naturals, FiniteSets, Sequences

CONSTANTS
    Clients,         \* connections
    Slots,           \* ticks at work at a time
    Limit,           \* notifications a query returns
    Nobody,          \* no client
    Window,          \* realtimeNotificationWindowMs
    MaxTime, MaxRows \* bounds

FeedConstants ==
    /\ Nobody \notin Clients
    /\ {Window, MaxTime, MaxRows} \subseteq Nat /\ Limit \in Nat \ {0}

VARIABLES
    now,
    rows,       \* notifications by created_at, the start of their transaction; in: committed
    ticks,      \* broadcastRealtimeTick, as far as each has come
    clients     \* open, lastNotificationAt (last), and history: where that
                \* began (first), how often each row was announced (news),
                \* rows that no query could see in time (late), ticks at once (met)

vars == <<now, rows, ticks, clients>>

NoTick == [pc |-> "none"]
NoClient == [state |-> "new", last |-> 0, first |-> 0,
             news |-> [n \in 1..MaxRows |-> 0], late |-> {}, met |-> FALSE]

Init ==
    /\ now = 0 /\ rows = <<>>
    /\ ticks = [t \in Slots |-> NoTick]
    /\ clients = [c \in Clients |-> NoClient]

OpenClients == {c \in Clients : clients[c].state = "open"}
Visible == {n \in DOMAIN rows : rows[n].in}
-----------------------------------------------------------------------------
(* The surroundings.                                                          *)

Time == now < MaxTime /\ now' = now + 1 /\ UNCHANGED <<rows, ticks, clients>>

\* In the very millisecond of a client's lastNotificationAt it is too late for it:
\* the query asks for later ones.
BeginRow ==
    /\ Len(rows) < MaxRows
    /\ rows' = Append(rows, [at |-> now, in |-> FALSE])
    /\ clients' = [c \in Clients |->
           IF clients[c].last = now
           THEN [clients[c] EXCEPT !.late = @ \cup {Len(rows) + 1}] ELSE clients[c]]
    /\ UNCHANGED <<now, ticks>>

CommitRow(n) ==
    /\ ~rows[n].in
    /\ rows' = [rows EXCEPT ![n].in = TRUE]
    /\ UNCHANGED <<now, ticks, clients>>

\* createRealtimeConnectionHandler.
Connect(c) ==
    LET since == IF now > Window THEN now - Window ELSE 0
    IN /\ clients[c].state = "new"
       /\ clients' = [clients EXCEPT ![c].state = "open", ![c].last = since, ![c].first = since]
       /\ UNCHANGED <<now, rows, ticks>>

Disconnect(c) ==
    /\ clients[c].state = "open"
    /\ clients' = [clients EXCEPT ![c].state = "closed"]
    /\ UNCHANGED <<now, rows, ticks>>
-----------------------------------------------------------------------------
(* A tick.                                                                    *)

\* ORDER BY created_at DESC LIMIT: the newest, in any choice among equals.
Newest(S) ==
    {T \in SUBSET S : /\ Cardinality(T) = IF Cardinality(S) < Limit THEN Cardinality(S) ELSE Limit
                      /\ \A m \in T, n \in S \ T : rows[m].at >= rows[n].at}

\* broadcastScheduledRealtimeTick with the lock, or without Redis, and
\* handleRealtimePubSubMessage.
Start(t) ==
    /\ ticks[t] = NoTick /\ OpenClients # {}
    /\ ticks' = [ticks EXCEPT ![t] = [pc |-> "next", todo |-> OpenClients,
                                      client |-> Nobody, found |-> {}, saw |-> {}]]
    /\ UNCHANGED <<now, rows, clients>>

\* Nobody is there, or another gateway has the lock.
StartInVain == UNCHANGED vars

Skip(t, c) ==
    /\ ticks[t].pc = "next" /\ c \in ticks[t].todo /\ clients[c].state = "closed"
    /\ ticks' = [ticks EXCEPT ![t].todo = @ \ {c}]
    /\ UNCHANGED <<now, rows, clients>>

Asking(c) == {t \in Slots : ticks[t].pc = "deliver" /\ ticks[t].client = c}

\* The query with `since`.
Ask(t, c) ==
    /\ ticks[t].pc = "next" /\ c \in ticks[t].todo /\ clients[c].state = "open"
    /\ \E S \in Newest({n \in Visible : rows[n].at > clients[c].last}) :
         ticks' = [ticks EXCEPT ![t] = [ticks[t] EXCEPT !.pc = "deliver", !.todo = @ \ {c},
                                          !.client = c, !.found = S, !.saw = Visible]]
    /\ clients' = [clients EXCEPT ![c].met = @ \/ Asking(c) # {}]
    /\ UNCHANGED <<now, rows>>

ToldUnstamped(c, t) ==
    [clients[c] EXCEPT
        !.news = [n \in DOMAIN @ |-> IF n \in ticks[t].found THEN @[n] + 1 ELSE @[n]]]

\* Its answer: the time is read now.
Told(c, t) ==
    [clients[c] EXCEPT
        !.last = now,
        !.news = [n \in DOMAIN @ |-> IF n \in ticks[t].found THEN @[n] + 1 ELSE @[n]],
        !.late = @ \cup {n \in DOMAIN rows \ ticks[t].saw : rows[n].at <= now}]

\* Behind a client.
Waiting(t) == [ticks[t] EXCEPT !.pc = "next", !.client = Nobody, !.found = {}, !.saw = {}]

Deliver(t) ==
    LET c == ticks[t].client
    IN /\ ticks[t].pc = "deliver"
       /\ ticks' = [ticks EXCEPT ![t] = Waiting(t)]
       /\ clients' = IF clients[c].state = "open" THEN [clients EXCEPT ![c] = Told(c, t)] ELSE clients
       /\ UNCHANGED <<now, rows>>

AskFailsStamped(t) ==
    /\ ticks[t].pc = "deliver"
    /\ ticks' = [ticks EXCEPT ![t] = Waiting(t)]
    /\ clients' = [clients EXCEPT ![ticks[t].client].last = now]
    /\ UNCHANGED <<now, rows>>

\* Told as an ERROR; the next client is served.
AskFails(t) ==
    /\ ticks[t].pc = "deliver"
    /\ ticks' = [ticks EXCEPT ![t] = Waiting(t)]
    /\ UNCHANGED <<now, rows, clients>>

\* The end, where the other gateways are told.
Finish(t) ==
    /\ ticks[t].pc = "next" /\ ticks[t].todo = {}
    /\ ticks' = [ticks EXCEPT ![t] = NoTick]
    /\ UNCHANGED <<now, rows, clients>>

\* A query of the tick's own, or of the positions, fails: the rest of the tick is left
\* out, and the message too.
TickFails(t) ==
    /\ ticks[t].pc = "next"
    /\ ticks' = [ticks EXCEPT ![t] = NoTick]
    /\ UNCHANGED <<now, rows, clients>>
-----------------------------------------------------------------------------
Environment ==
    \/ Time \/ BeginRow
    \/ \E n \in DOMAIN rows : CommitRow(n)
    \/ \E c \in Clients : Connect(c) \/ Disconnect(c)

Tick(t) ==
    \/ Start(t) \/ Deliver(t) \/ AskFails(t) \/ Finish(t) \/ TickFails(t)
    \/ \E c \in Clients : Skip(t, c) \/ Ask(t, c)

Next == \/ Environment
        \/ \E t \in Slots : Tick(t)
        \/ StartInVain

Spec == Init /\ [][Next]_vars
-----------------------------------------------------------------------------
(* Properties                                                                  *)

\* Types.
TypeOK ==
    /\ now \in 0..MaxTime
    /\ rows \in Seq([at : 0..MaxTime, in : BOOLEAN]) /\ Len(rows) <= MaxRows
    /\ \A t \in Slots : ticks[t] # NoTick =>
         /\ ticks[t].pc \in {"next", "deliver"}
         /\ ticks[t].todo \subseteq Clients
         /\ ticks[t].found \subseteq DOMAIN rows
    /\ \A c \in Clients :
         /\ clients[c].state \in {"new", "open", "closed"}
         /\ clients[c].first <= clients[c].last /\ clients[c].last <= now

\* No connection is announced a notification twice, however ticks and failed
\* queries follow each other, unless two ticks asked for it at once.
AnnouncedOnce ==
    \A c \in Clients, n \in 1..MaxRows : clients[c].news[n] > 1 => clients[c].met

\* A notification that the feed has passed over (lastNotificationAt is later) was
\* announced, unless no query could see it before the time was read
\* (realtime-broadcaster.js:83-84), or the query had a limit's worth of newer ones:
\* failures and overlapping ticks lose nothing.
Newer(n) == {m \in Visible \ {n} : rows[m].at >= rows[n].at}
PassedOverWasAnnounced ==
    \A c \in Clients, n \in Visible :
        clients[c].first < rows[n].at /\ rows[n].at <= clients[c].last =>
            \/ clients[c].news[n] > 0 \/ n \in clients[c].late
            \/ Cardinality(Newer(n)) >= Limit
=============================================================================
