---------------------------- MODULE QuotaStream -----------------------------
(***************************************************************************)
(* How quota snapshots travel from the control plane to one data plane     *)
(* replica: InMemoryStore (controlplane/store.go), the StreamQuotas        *)
(* handler (server/server.go) and SnapshotCache (dataplane/cache.go).      *)
(*                                                                         *)
(* A snapshot is the number of the Save that stored it; 0 is nil.  Every   *)
(* StreamQuotas call is a session: a handler goroutine in the control      *)
(* plane, its one-slot subscription channel, and the ordered stream to the *)
(* client.  The reconciler is the only caller of Save and calls it from    *)
(* one loop.  Each of Save's select statements is a step of its own; the   *)
(* store's mutex is held from the first to the last of them, and by        *)
(* Subscribe and unsubscribe, which are one step each.  The control plane  *)
(* stops on a signal (cmd/controlplane/main.go), crashes and restarts.     *)
(***************************************************************************)
EXTENDS Naturals, Sequences

CONSTANTS
    MaxSaves,       \* bound on the number of Saves
    MaxSessions,    \* bound on the number of StreamQuotas calls
    Window          \* messages a stream takes before Send blocks

ASSUME BoundsAssumption == {MaxSaves, MaxSessions, Window} \subseteq Nat \ {0}

Sessions == 1..MaxSessions
None == 0

VARIABLES
    stored,     \* InMemoryStore.snapshot
    saves,      \* the number of Saves so far
    saver,      \* the Save in progress
    subs,       \* InMemoryStore.subscribers
    handlers,   \* the StreamQuotas call of each session
    client,     \* SnapshotCache.Run
    cache,      \* SnapshotCache.current
    server      \* the control plane process and its gRPC server

vars == <<stored, saves, saver, subs, handlers, client, cache, server>>

Locked == saver.pc \in {"notify", "drain", "resend"}

Closed == [pc     |-> "none",
           chan   |-> <<>>,     \* the subscription channel
           open   |-> FALSE,    \* the channel exists and is not closed
           hand   |-> None,     \* the snapshot about to be sent
           sent   |-> None,     \* the last snapshot sent
           wire   |-> <<>>,     \* sent and not yet received
           broken |-> FALSE,    \* the connection is gone
           since  |-> None]     \* history: the Saves before Subscribe

\* The handler has returned; what it sent may still be on its way.
Ended(h) == [Closed EXCEPT !.pc = "ended", !.wire = h.wire,
                           !.broken = h.broken, !.since = h.since]

NoSave == [pc |-> "idle", left |-> {}, at |-> None]

Init ==
    /\ stored = None
    /\ saves = 0
    /\ saver = NoSave
    /\ subs = {}
    /\ handlers = [s \in Sessions |-> Closed]
    /\ client = [pc |-> "backoff", session |-> 0, received |-> FALSE]
    /\ cache = None
    /\ server = "up"

-----------------------------------------------------------------------------
(* InMemoryStore.Save *)

\* A poll that is under way when the signal to stop arrives may still save; it is
\* the last one.
SaveStore ==
    /\ saver.pc = "idle" /\ saves < MaxSaves
    /\ server \in {"up", "stopping"}
    /\ saves' = saves + 1
    /\ stored' = saves + 1
    /\ saver' = [saver EXCEPT !.pc = "lock"]
    /\ server' = IF server = "up" THEN "up" ELSE "draining"
    /\ UNCHANGED <<subs, handlers, client, cache>>

SaveLock ==
    /\ saver.pc = "lock"
    /\ saver' = [saver EXCEPT !.pc = "notify", !.left = subs]
    /\ UNCHANGED <<stored, saves, subs, handlers, client, cache, server>>

\* Mutant: the send is repeated until the consumer has taken the old snapshot.
OfferRepeats(s) ==
    /\ saver.pc = "notify" /\ s \in saver.left
    /\ IF handlers[s].chan = <<>>
       THEN /\ handlers' = [handlers EXCEPT ![s].chan = <<stored>>]
            /\ saver' = [saver EXCEPT !.left = @ \ {s}]
       ELSE /\ saver' = [saver EXCEPT !.pc = "drain", !.at = s]
            /\ UNCHANGED handlers
    /\ UNCHANGED <<stored, saves, subs, client, cache, server>>

\* Mutant: a full channel keeps its old snapshot and the new one is dropped.
OfferDrops(s) ==
    /\ saver.pc = "notify" /\ s \in saver.left
    /\ handlers' = IF handlers[s].chan = <<>>
                   THEN [handlers EXCEPT ![s].chan = <<stored>>] ELSE handlers
    /\ saver' = [saver EXCEPT !.left = @ \ {s}]
    /\ UNCHANGED <<stored, saves, subs, client, cache, server>>

\* The first select: send if the channel has room, or go on to drain it.
Offer(s) ==
    /\ saver.pc = "notify" /\ s \in saver.left
    /\ IF handlers[s].chan = <<>>
       THEN /\ handlers' = [handlers EXCEPT ![s].chan = <<stored>>]
            /\ saver' = [saver EXCEPT !.left = @ \ {s}]
       ELSE /\ saver' = [saver EXCEPT !.pc = "drain", !.left = @ \ {s}, !.at = s]
            /\ UNCHANGED handlers
    /\ UNCHANGED <<stored, saves, subs, client, cache, server>>

\* The second select: drop the stale snapshot, unless the handler was faster.
Drain ==
    /\ saver.pc = "drain"
    /\ handlers' = [handlers EXCEPT ![saver.at].chan = <<>>]
    /\ saver' = [saver EXCEPT !.pc = "resend"]
    /\ UNCHANGED <<stored, saves, subs, client, cache, server>>

\* The third select: send if there is room now.
Resend ==
    /\ saver.pc = "resend"
    /\ handlers' = [handlers EXCEPT ![saver.at].chan =
                        IF @ = <<>> THEN <<stored>> ELSE @]
    /\ saver' = [saver EXCEPT !.pc = "notify", !.at = None]
    /\ UNCHANGED <<stored, saves, subs, client, cache, server>>

SaveUnlock ==
    /\ saver.pc = "notify" /\ saver.left = {}
    /\ saver' = [saver EXCEPT !.pc = "idle"]
    /\ UNCHANGED <<stored, saves, subs, handlers, client, cache, server>>

SaveStep ==
    \/ SaveLock
    \/ \E s \in Sessions : Offer(s)
    \/ Drain
    \/ Resend
    \/ SaveUnlock

-----------------------------------------------------------------------------
(* Server.StreamQuotas *)

Subscribe(s) ==
    /\ handlers[s].pc = "start" /\ ~Locked
    /\ subs' = subs \cup {s}
    /\ handlers' = [handlers EXCEPT ![s].pc = "initial", ![s].open = TRUE,
                                    ![s].since = saves]
    /\ UNCHANGED <<stored, saves, saver, client, cache, server>>

\* Mutant: only what is saved from now on is sent.
GetSkipped(s) ==
    /\ handlers[s].pc = "initial"
    /\ handlers' = [handlers EXCEPT ![s].pc = "loop"]
    /\ UNCHANGED <<stored, saves, saver, subs, client, cache, server>>

\* The initial snapshot, if there is one.
Get(s) ==
    /\ handlers[s].pc = "initial"
    /\ handlers' = [handlers EXCEPT
                      ![s].pc = IF stored = None THEN "loop" ELSE "send",
                      ![s].hand = stored]
    /\ UNCHANGED <<stored, saves, saver, subs, client, cache, server>>

\* Send waits while the stream's window is full.
Send(s) ==
    /\ handlers[s].pc = "send"
    /\ ~handlers[s].broken /\ Len(handlers[s].wire) < Window
    /\ handlers' = [handlers EXCEPT ![s].pc = "loop",
                                    ![s].wire = Append(@, handlers[s].hand),
                                    ![s].sent = handlers[s].hand,
                                    ![s].hand = None]
    /\ UNCHANGED <<stored, saves, saver, subs, client, cache, server>>

ReceiveFromChannel(s) ==
    /\ handlers[s].pc = "loop" /\ handlers[s].chan # <<>>
    /\ handlers' = [handlers EXCEPT ![s].pc = "send",
                                    ![s].hand = Head(handlers[s].chan),
                                    ![s].chan = <<>>]
    /\ UNCHANGED <<stored, saves, saver, subs, client, cache, server>>

\* Mutant: only a failing Send ends the handler.
GoneUnnoticed(s) ==
    /\ handlers[s].broken
    /\ handlers[s].pc = "send"
    /\ handlers' = [handlers EXCEPT ![s].pc = "unsubscribe"]
    /\ UNCHANGED <<stored, saves, saver, subs, client, cache, server>>

\* The stream's context is done, or Send fails.
Gone(s) ==
    /\ handlers[s].broken
    /\ handlers[s].pc \in {"loop", "send"}
    /\ handlers' = [handlers EXCEPT ![s].pc = "unsubscribe"]
    /\ UNCHANGED <<stored, saves, saver, subs, client, cache, server>>

\* Mutant: the channel is closed without taking the store's mutex.
UnsubscribeUnlocked(s) ==
    /\ handlers[s].pc = "unsubscribe"
    /\ subs' = subs \ {s}
    /\ handlers' = [handlers EXCEPT ![s] = Ended(@)]
    /\ UNCHANGED <<stored, saves, saver, client, cache, server>>

\* Mutant: the channel is closed but stays in the map of subscribers.
UnsubscribeKeepsEntry(s) ==
    /\ handlers[s].pc = "unsubscribe" /\ ~Locked
    /\ handlers' = [handlers EXCEPT ![s] = Ended(@)]
    /\ UNCHANGED <<stored, saves, saver, subs, client, cache, server>>

\* The deferred unsubscribe.
Unsubscribe(s) ==
    /\ handlers[s].pc = "unsubscribe" /\ ~Locked
    /\ subs' = subs \ {s}
    /\ handlers' = [handlers EXCEPT ![s] = Ended(@)]
    /\ UNCHANGED <<stored, saves, saver, client, cache, server>>

HandlerStep(s) ==
    \/ Subscribe(s)
    \/ Get(s)
    \/ Send(s)
    \/ ReceiveFromChannel(s)
    \/ Gone(s)
    \/ Unsubscribe(s)

-----------------------------------------------------------------------------
(* SnapshotCache.Run and streamOnce *)

\* After the backoff a new stream is opened; a server that is stopping takes
\* none.
Connect ==
    /\ client.pc = "backoff" /\ client.session < MaxSessions
    /\ server = "up"
    /\ client' = [pc |-> "streaming", session |-> client.session + 1,
                  received |-> FALSE]
    /\ handlers' = [handlers EXCEPT ![client.session + 1].pc = "start"]
    /\ UNCHANGED <<stored, saves, saver, subs, cache, server>>

\* Recv and Set.
Recv(s) ==
    /\ client.pc = "streaming" /\ s = client.session
    /\ handlers[s].wire # <<>>
    /\ cache' = Head(handlers[s].wire)
    /\ handlers' = [handlers EXCEPT ![s].wire = Tail(@)]
    /\ client' = [client EXCEPT !.received = TRUE]
    /\ UNCHANGED <<stored, saves, saver, subs, server>>

\* Mutant: what the old stream still held is read on the next one.
RecvFailsKeepsBuffer ==
    /\ client.pc = "streaming" /\ handlers[client.session].broken
    /\ client' = [client EXCEPT !.pc = "backoff", !.received = FALSE]
    /\ handlers' = [handlers EXCEPT ![client.session].wire = <<>>,
                        ![client.session + 1].wire = handlers[client.session].wire]
    /\ UNCHANGED <<stored, saves, saver, subs, cache, server>>

\* Recv fails: the stream is dropped with what it still held, the last known
\* snapshot is kept.
RecvFails ==
    /\ client.pc = "streaming" /\ handlers[client.session].broken
    /\ client' = [client EXCEPT !.pc = "backoff", !.received = FALSE]
    /\ handlers' = [handlers EXCEPT ![client.session].wire = <<>>,
                                    ![client.session].since = None]
    /\ UNCHANGED <<stored, saves, saver, subs, cache, server>>

ClientStep == Connect \/ (\E s \in Sessions : Recv(s)) \/ RecvFails

-----------------------------------------------------------------------------
(* Shutdown of the control plane (cmd/controlplane/main.go) *)

\* SIGTERM: the reconciler's context is cancelled and GracefulStop begins, which
\* refuses new streams and waits for the open ones.
Terminate ==
    /\ server = "up"
    /\ server' = "stopping"
    /\ UNCHANGED <<stored, saves, saver, subs, handlers, client, cache>>

\* GracefulStop and Serve return and the process ends, whatever the reconciler
\* is doing.
GracefulStop ==
    /\ server \in {"stopping", "draining"}
    /\ \A s \in Sessions : handlers[s].pc \in {"none", "ended"}
    /\ server' = "exited"
    /\ stored' = None /\ saver' = NoSave /\ subs' = {}
    /\ UNCHANGED <<saves, handlers, client, cache>>

-----------------------------------------------------------------------------
(* Faults *)

\* The connection breaks; what was on its way may or may not be read before the
\* client notices.
Break(s) ==
    /\ handlers[s].pc \notin {"none", "ended"} /\ ~handlers[s].broken
    /\ s < MaxSessions
    /\ handlers' = [handlers EXCEPT ![s].broken = TRUE]
    /\ UNCHANGED <<stored, saves, saver, subs, client, cache, server>>

\* The replica stops reading, for good, while its connection stays up.
Hang ==
    /\ client.pc = "streaming"
    /\ client' = [client EXCEPT !.pc = "stuck"]
    /\ UNCHANGED <<stored, saves, saver, subs, handlers, cache, server>>

\* The control plane crashes, or has ended, and is started again: its store is
\* in memory.
Restart ==
    /\ client.session \in 1..(MaxSessions - 1)
    /\ server' = "up"
    /\ stored' = None
    /\ saver' = NoSave
    /\ subs' = {}
    /\ handlers' = [s \in Sessions |->
                      IF s <= client.session
                      THEN [Ended(handlers[s]) EXCEPT !.broken = TRUE]
                      ELSE handlers[s]]
    /\ UNCHANGED <<saves, client, cache>>

-----------------------------------------------------------------------------
\* Nobody has anything left to do: the bounds are reached or the reconciler has
\* ended, and all that was saved has been delivered or nobody is there to take it.
AllDelivered ==
    /\ saver.pc = "idle"
    /\ saves = MaxSaves \/ server \in {"draining", "exited"}
    /\ \/ client.pc # "backoff"
       \/ server = "exited"
    /\ \A s \in Sessions :
          \/ handlers[s].pc \in {"none", "ended"}
          \/ s = client.session /\ handlers[s].pc = "loop" /\ handlers[s].chan = <<>>
          \/ client.pc = "stuck" /\ handlers[s].pc = "send"
    /\ UNCHANGED vars

Next ==
    \/ AllDelivered
    \/ SaveStore
    \/ SaveStep
    \/ \E s \in Sessions : HandlerStep(s) \/ Break(s)
    \/ ClientStep
    \/ Terminate
    \/ GracefulStop
    \/ Hang
    \/ Restart

\* Goroutines that can run do so; the gRPC runtime delivers what was sent on an
\* unbroken stream and a client that has not hung reads it and reconnects after
\* its backoff.  Saves, signals and faults are never sure to happen.
Spec ==
    /\ Init /\ [][Next]_vars
    /\ WF_vars(SaveStep)
    /\ \A s \in Sessions : WF_vars(HandlerStep(s))
    /\ WF_vars(ClientStep)
    /\ WF_vars(GracefulStop)

-----------------------------------------------------------------------------
(* Properties *)

\* Types; in particular the store's map of subscribers holds exactly the channels
\* that are open (Subscribe, unsubscribe).
TypeOK ==
    /\ stored \in 0..MaxSaves /\ saves \in 0..MaxSaves /\ cache \in 0..MaxSaves
    /\ saver.pc \in {"idle", "lock", "notify", "drain", "resend"}
    /\ saver.left \subseteq Sessions /\ saver.at \in Sessions \cup {None}
    /\ subs = {s \in Sessions : handlers[s].open}
    /\ \A s \in Sessions :
          /\ handlers[s].pc \in {"none", "start", "initial", "loop", "send",
                                 "unsubscribe", "ended"}
          /\ Len(handlers[s].chan) <= 1 /\ Len(handlers[s].wire) <= Window
    /\ client.pc \in {"backoff", "streaming", "stuck"}
    /\ client.session \in 0..MaxSessions
    /\ server \in {"up", "stopping", "draining", "exited"}

\* Save never sends on a channel that unsubscribe has closed, which would panic
\* the control plane.
NeverSendsOnClosed ==
    Locked => \A s \in saver.left \cup ({saver.at} \ {None}) : handlers[s].open

\* A Save is never lost to a connected client, however it interleaves with the
\* subscription, the initial Get, a slow Send and other Saves: between Saves the
\* newest snapshot was sent last, is about to be, or waits in the channel.
NewestOnItsWay ==
    saver.pc = "idle" /\ stored # None =>
        \A s \in Sessions :
            handlers[s].pc \in {"loop", "send"} =>
                LET h == handlers[s]
                IN stored = IF h.chan # <<>> THEN Head(h.chan)
                            ELSE IF h.pc = "send" THEN h.hand
                            ELSE h.sent

\* Once a stream has delivered anything, the cache is at least as new as the
\* store was when that stream subscribed, also after reconnects and restarts of
\* the control plane ("Subscribe before reading the initial snapshot").
FreshSinceSubscribe ==
    client.received => cache >= handlers[client.session].since

\* When Saves and faults stop, the cache of a replica that reads its stream ends
\* up with the stored snapshot.
Converges ==
    \/ <>[](stored # None => cache = stored)
    \/ <>[](client.pc = "stuck")

\* The handler of a broken connection ends and gives its subscription back.
SubscriptionsReleased ==
    \A s \in Sessions : handlers[s].broken ~> s \notin subs /\ handlers[s].pc = "ended"

\* A slow or stuck consumer never blocks Save.
SaveCompletes == saver.pc = "lock" ~> saver.pc = "idle"

\* A control plane told to stop that keeps running is waiting for a replica whose
\* stream is intact (GracefulStop ends no stream by itself), never for a handler
\* or a Save that is stuck.
StopWaitsOnlyForClients ==
    <>[](server \in {"stopping", "draining"}) =>
        <>[](\E s \in Sessions :
                handlers[s].pc \notin {"none", "ended"} /\ ~handlers[s].broken)

\* The stream implements the abstract register: a replica attaches with the
\* Subscribe of its session and from then on reads snapshots that really were
\* saved, none older than the store was when it attached.
Register == INSTANCE SnapshotRegister WITH
    current <- stored,
    floor <- IF client.pc = "backoff" THEN 0 ELSE handlers[client.session].since,
    seen <- cache

ImplementsRegister == Register!Spec
=============================================================================
