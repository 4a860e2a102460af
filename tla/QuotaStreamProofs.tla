------------------------- MODULE QuotaStreamProofs --------------------------
(***************************************************************************)
(* What QuotaStream promises for every number of Saves and sessions and    *)
(* every stream window: its safety invariants, and that the stream         *)
(* implements the abstract register.                                       *)
(***************************************************************************)
EXTENDS QuotaStream, SequenceTheorems, TLAPS

-----------------------------------------------------------------------------
(* The inductive invariant. *)

HandlerPcs == {"none", "start", "initial", "loop", "send", "unsubscribe", "ended"}

\* The handler holds a subscription: between Subscribe and unsubscribe.
Subscribed == {"initial", "loop", "send", "unsubscribe"}

\* The contents of a one-slot channel.
Slot == {<<>>} \cup {<<v>> : v \in Nat}

Handler == [pc : HandlerPcs, chan : Slot, open : BOOLEAN, hand : Nat,
            sent : Nat, wire : Seq(Nat), broken : BOOLEAN, since : Nat]

\* The types of all variables.
Types ==
    /\ stored \in 0..MaxSaves /\ saves \in 0..MaxSaves /\ cache \in 0..MaxSaves
    /\ saver \in [pc : {"idle", "lock", "notify", "drain", "resend"},
                  left : SUBSET Sessions, at : Sessions \cup {None}]
    /\ handlers \in [Sessions -> Handler]
    /\ client \in [pc : {"backoff", "streaming", "stuck"},
                   session : 0..MaxSessions, received : BOOLEAN]
    /\ server \in {"up", "stopping", "draining", "exited"}

\* A snapshot that the stream of handler h may carry: one really saved, and not
\* older than the store was when h subscribed.
Carried(h, v) == v > 0 /\ v >= h.since /\ v <= saves

\* What a handler holds in each phase of StreamQuotas.
Phase(h) ==
    /\ h.open <=> h.pc \in Subscribed
    /\ Len(h.wire) <= Window
    /\ h.pc \in {"none", "start"} => h.chan = <<>> /\ h.wire = <<>> /\ h.since = None
    /\ h.pc \in {"none", "start", "initial"} => h.sent = None

\* Everything in the channel, in the handler's hand and on the wire is carried.
Carries(h) ==
    /\ h.since <= saves
    /\ \A v \in Nat : h.chan = <<v>> => Carried(h, v)
    /\ \A i \in 1..Len(h.wire) : Carried(h, h.wire[i])
    /\ h.pc = "send" => Carried(h, h.hand)

\* The newest snapshot that h has sent, is about to send or will take from its
\* channel is the stored one; a handler before its Get has at most that one waiting.
Fresh(h) ==
    /\ h.pc \in {"loop", "send"} =>
          stored = IF h.chan # <<>> THEN Head(h.chan)
                   ELSE IF h.pc = "send" THEN h.hand
                   ELSE h.sent
    /\ h.pc = "initial" /\ h.chan # <<>> => Head(h.chan) = stored

\* The Save in progress: the channels it has still to offer to are open, and the
\* one it has drained stays empty until it sends again.
SaverInv ==
    /\ stored \in {None, saves}
    /\ saver.pc # "idle" => stored # None
    /\ ~Locked => saver.left = {}
    /\ saver.pc \in {"drain", "resend"} <=> saver.at # None
    /\ \A s \in saver.left \cup ({saver.at} \ {None}) : handlers[s].open
    /\ saver.pc = "resend" => handlers[saver.at].chan = <<>>

\* Outside Save every handler is fresh; inside, those it has already offered to.
Offered(s) ==
    \/ saver.pc = "idle"
    \/ Locked /\ s \notin saver.left /\ s # saver.at

\* Session s, as its handler and the replica see it.
SessionInv(s) ==
    /\ Phase(handlers[s])
    /\ Carries(handlers[s])
    /\ Offered(s) => Fresh(handlers[s])
    /\ s > client.session => handlers[s].pc = "none"
    /\ s = client.session /\ client.received => /\ handlers[s].pc # "start"
                                                /\ cache >= handlers[s].since

Inv ==
    /\ Types
    /\ subs = {s \in Sessions : handlers[s].open}
    /\ client.pc = "backoff" => ~client.received
    /\ client.pc # "backoff" => client.session \in Sessions
    /\ SaverInv
    /\ \A s \in Sessions : SessionInv(s)

-----------------------------------------------------------------------------
(* Lemmas. *)

\* The bounds are numbers.
LEMMA BoundsAreNat == MaxSaves \in Nat /\ MaxSessions \in Nat /\ Window \in Nat
BY BoundsAssumption

\* The fields of a handler.
LEMMA HandlerFields ==
    ASSUME NEW h \in Handler
    PROVE  /\ h.pc \in HandlerPcs /\ h.chan \in Slot /\ h.open \in BOOLEAN
           /\ h.hand \in Nat /\ h.sent \in Nat /\ h.wire \in Seq(Nat)
           /\ h.broken \in BOOLEAN /\ h.since \in Nat
BY DEF Handler

\* The channel after a send into its one slot.
LEMMA FilledSlot ==
    ASSUME NEW v \in Nat
    PROVE  /\ <<v>> \in Slot /\ <<v>> # <<>> /\ Head(<<v>>) = v
           /\ \A w \in Nat : <<v>> = <<w>> => v = w
BY DEF Slot

\* A channel is empty or holds its head; it holds at most one snapshot.
LEMMA SlotContents ==
    ASSUME NEW c \in Slot
    PROVE  /\ c # <<>> => Head(c) \in Nat /\ c = <<Head(c)>>
           /\ Len(c) <= 1
BY DEF Slot

\* A step that leaves the handler of t alone, stores nothing, and neither brings t
\* under the promise of freshness nor the replica nearer to it, keeps what is
\* known of t.
LEMMA SessionKept ==
    ASSUME Inv, NEW t \in Sessions,
           handlers'[t] = handlers[t], UNCHANGED <<stored, saves>>,
           Offered(t)' => Offered(t),
           t > client'.session => t > client.session,
           t = client'.session /\ client'.received
              => t = client.session /\ client.received /\ cache' = cache
    PROVE  SessionInv(t)'
<1>1. SessionInv(t)
  BY DEF Inv
<1>2. Phase(handlers[t])' /\ Carries(handlers[t])'
  BY <1>1 DEF SessionInv, Phase, Carries, Carried
<1>3. Fresh(handlers[t]) => Fresh(handlers[t])'
  BY DEF Fresh
<1> QED
  BY <1>1, <1>2, <1>3 DEF SessionInv

\* A step that replaces the handler of one session s, and touches neither the
\* store nor the replica, preserves the invariant if s keeps its part of it.
LEMMA HandlerReplaced ==
    ASSUME Inv, NEW s \in Sessions, NEW g \in Handler,
           handlers' = [handlers EXCEPT ![s] = g],
           UNCHANGED <<stored, saves, client, cache, server>>,
           saver' \in [pc : {"idle", "lock", "notify", "drain", "resend"},
                       left : SUBSET Sessions, at : Sessions \cup {None}],
           subs' = IF g.open THEN subs \cup {s} ELSE subs \ {s},
           \A t \in Sessions \ {s} : Offered(t)' => Offered(t),
           SaverInv', SessionInv(s)'
    PROVE  Inv'
<1>1. Types'
  BY DEF Inv, Types
<1>2. subs' = {t \in Sessions : handlers'[t].open}
  BY DEF Inv, Types
<1>3. ASSUME NEW t \in Sessions PROVE SessionInv(t)'
  <2>1. CASE t = s
    BY <2>1
  <2>2. CASE t # s
    <3>1. handlers'[t] = handlers[t] /\ (Offered(t)' => Offered(t))
      BY <2>2 DEF Inv, Types
    <3> QED
      BY <3>1, SessionKept
  <2> QED
    BY <2>1, <2>2
<1> QED
  BY <1>1, <1>2, <1>3 DEF Inv

-----------------------------------------------------------------------------
(* InMemoryStore.Save preserves the invariant. *)

\* The Store of a new snapshot: nothing is promised until Save has notified.
LEMMA SaveStorePreserves ==
    ASSUME Inv, SaveStore
    PROVE  Inv'
<1> USE BoundsAreNat DEF Sessions, None
<1>1. Types'
  BY DEF Inv, Types, SaveStore
<1>2. SaverInv'
  BY DEF Inv, Types, SaveStore, SaverInv, Locked
<1>3. ASSUME NEW s \in Sessions PROVE SessionInv(s)'
  <2>1. SessionInv(s) /\ handlers[s] \in Handler
    BY DEF Inv, Types
  <2>2. Phase(handlers[s])'
    BY <2>1 DEF SessionInv, SaveStore, Phase
  <2>3. /\ saves \in Nat /\ saves' = saves + 1 /\ handlers' = handlers
        /\ handlers[s].since \in Nat /\ handlers[s].hand \in Nat
        /\ \A i \in 1..Len(handlers[s].wire) : handlers[s].wire[i] \in Nat
    BY <2>1, HandlerFields, ElementOfSeq DEF SaveStore, Inv, Types
  <2>4. Carries(handlers[s])'
    BY <2>1, <2>3 DEF SessionInv, Carries, Carried
  <2> QED
    BY <2>1, <2>2, <2>4 DEF SessionInv, SaveStore, Inv, Types, Offered, Locked
<1> QED
  BY <1>1, <1>2, <1>3 DEF Inv, SaveStore

\* Save takes the mutex: everyone subscribed is to be offered the snapshot, and
\* the others hold nothing to be fresh about.
LEMMA SaveLockPreserves ==
    ASSUME Inv, SaveLock
    PROVE  Inv'
<1> USE BoundsAreNat DEF Sessions, None
<1>1. Types'
  BY DEF Inv, Types, SaveLock
<1>2. SaverInv'
  BY DEF Inv, Types, SaveLock, SaverInv, Locked
<1>3. ASSUME NEW s \in Sessions PROVE SessionInv(s)'
  <2>1. SessionInv(s)
    BY DEF Inv
  <2>2. Phase(handlers[s])' /\ Carries(handlers[s])'
    BY <2>1 DEF SessionInv, SaveLock, Phase, Carries, Carried
  <2>3. Offered(s)' => Fresh(handlers[s])'
    BY <2>1 DEF Offered, Locked, SaveLock, SessionInv, Phase, Fresh, Subscribed, Inv, Types
  <2> QED
    BY <2>1, <2>2, <2>3 DEF SessionInv, SaveLock
<1> QED
  BY <1>1, <1>2, <1>3 DEF Inv, SaveLock

\* The first select on the channel of s.
LEMMA OfferPreserves ==
    ASSUME Inv, NEW s \in Sessions, Offer(s)
    PROVE  Inv'
<1> USE BoundsAreNat DEF Sessions, None
<1> DEFINE h == handlers[s]
           g == [h EXCEPT !.chan = <<stored>>]
<1>1. h \in Handler /\ SessionInv(s) /\ s # None
  BY DEF Inv, Types
<1>2. CASE h.chan = <<>>
  <2>1. stored \in Nat /\ stored > 0 /\ stored = saves /\ s \in saver.left /\ saver.pc = "notify"
    BY DEF Inv, Types, SaverInv, Offer
  <2>2. g \in Handler
    BY <1>1, <2>1, FilledSlot DEF Handler, HandlerPcs
  <2>3. /\ g.chan = <<stored>> /\ g.pc = h.pc /\ g.open = h.open /\ g.sent = h.sent
        /\ g.hand = h.hand /\ g.wire = h.wire /\ g.since = h.since
    BY <1>1 DEF Handler
  <2>4. /\ handlers' = [handlers EXCEPT ![s] = g] /\ handlers'[s] = g
        /\ saver' = [saver EXCEPT !.left = @ \ {s}]
        /\ UNCHANGED <<stored, saves, subs, client, cache, server>>
    BY <1>2 DEF Offer, Inv, Types
  <2> HIDE DEF g
  <2>5. h.open /\ s \in subs
    BY <2>1 DEF Inv, SaverInv
  <2>6. SaverInv'
    BY <2>3, <2>4, <2>1 DEF Inv, Types, SaverInv, Locked
  <2>7. \A t \in Sessions \ {s} : Offered(t)' => Offered(t)
    BY <2>4 DEF Offered, Locked, Inv, Types
  <2>8. Phase(handlers[s])'
    BY <1>1, <2>3, <2>4, <2>1, <2>5, FilledSlot DEF SessionInv, Phase, Subscribed
  <2>9. Carries(handlers[s])'
    BY <1>1, <2>3, <2>4, <2>1, FilledSlot, HandlerFields DEF SessionInv, Carries, Carried
  <2>10. Fresh(handlers[s])'
    BY <2>3, <2>4, <2>1, FilledSlot DEF Fresh
  <2>11. SessionInv(s)'
    BY <1>1, <2>3, <2>4, <2>8, <2>9, <2>10 DEF SessionInv
  <2> QED
    BY <2>2, <2>3, <2>4, <2>6, <2>7, <2>11, <2>5, HandlerReplaced DEF Inv, Types
<1>3. CASE h.chan # <<>>
  <2>1. /\ saver' = [saver EXCEPT !.pc = "drain", !.left = @ \ {s}, !.at = s]
        /\ UNCHANGED <<stored, saves, subs, handlers, client, cache, server>>
        /\ saver.pc = "notify" /\ s \in saver.left
    BY <1>3 DEF Offer
  <2>2. Types'
    BY <2>1 DEF Inv, Types
  <2>3. SaverInv'
    BY <2>1 DEF Inv, Types, SaverInv, Locked
  <2>4. \A t \in Sessions : Offered(t)' => Offered(t)
    BY <2>1 DEF Offered, Locked, Inv, Types, SaverInv
  <2>5. \A t \in Sessions : SessionInv(t)'
    BY <2>1, <2>4, SessionKept
  <2> QED
    BY <2>1, <2>2, <2>3, <2>5 DEF Inv
<1> QED
  BY <1>2, <1>3

\* The second select: the channel of the subscriber in question is empty now.
LEMMA DrainPreserves ==
    ASSUME Inv, Drain
    PROVE  Inv'
<1> USE BoundsAreNat DEF Sessions, None
<1>0. PICK s \in Sessions : s = saver.at
  BY DEF Inv, Types, SaverInv, Drain
<1> DEFINE h == handlers[s]
           g == [h EXCEPT !.chan = <<>>]
<1>1. /\ s = saver.at /\ s # None /\ saver.pc = "drain"
      /\ saver' = [saver EXCEPT !.pc = "resend"]
      /\ UNCHANGED <<stored, saves, subs, client, cache, server>>
  BY <1>0 DEF Inv, Types, SaverInv, Drain
<1>2. h \in Handler /\ SessionInv(s) /\ h.open /\ s \in subs
  BY <1>1 DEF Inv, Types, SaverInv
<1>3. g \in Handler
  BY <1>2 DEF Handler, Slot
<1>4. /\ g.chan = <<>> /\ g.pc = h.pc /\ g.open = h.open /\ g.sent = h.sent
      /\ g.hand = h.hand /\ g.wire = h.wire /\ g.since = h.since
  BY <1>2 DEF Handler
<1>5. handlers' = [handlers EXCEPT ![s] = g] /\ handlers'[s] = g
  BY <1>1 DEF Drain, Inv, Types
<1> HIDE DEF g
<1>6. SaverInv'
  BY <1>1, <1>2, <1>4, <1>5 DEF Inv, Types, SaverInv, Locked
<1>7. /\ \A t \in Sessions \ {s} : Offered(t)' => Offered(t)
      /\ ~Offered(s)'
  BY <1>1 DEF Offered, Locked, Inv, Types
<1>8. Phase(handlers[s])'
  BY <1>1, <1>2, <1>4, <1>5 DEF SessionInv, Phase, Subscribed
<1>9. Carries(handlers[s])'
  <2>1. /\ handlers'[s].chan = <<>> /\ handlers'[s].pc = handlers[s].pc
        /\ handlers'[s].hand = handlers[s].hand /\ handlers'[s].wire = handlers[s].wire
        /\ handlers'[s].since = handlers[s].since /\ saves' = saves
    BY <1>1, <1>4, <1>5
  <2>2. Carries(handlers[s])
    BY <1>2 DEF SessionInv
  <2> QED
    BY <2>1, <2>2, FilledSlot DEF Carries, Carried
<1>10. SessionInv(s)'
  BY <1>1, <1>2, <1>4, <1>5, <1>7, <1>8, <1>9 DEF SessionInv
<1>11. saver' \in [pc : {"idle", "lock", "notify", "drain", "resend"},
                   left : SUBSET Sessions, at : Sessions \cup {None}]
  BY <1>1 DEF Inv, Types
<1>12. subs' = IF g.open THEN subs \cup {s} ELSE subs \ {s}
  BY <1>1, <1>2, <1>4
<1> QED
  BY <1>1, <1>3, <1>5, <1>6, <1>7, <1>10, <1>11, <1>12, HandlerReplaced

\* The third select: the channel was drained and nobody but Save sends on it, so
\* the snapshot goes in.
LEMMA ResendPreserves ==
    ASSUME Inv, Resend
    PROVE  Inv'
<1> USE BoundsAreNat DEF Sessions, None
<1>0. PICK s \in Sessions : s = saver.at
  BY DEF Inv, Types, SaverInv, Resend
<1> DEFINE h == handlers[s]
           g == [h EXCEPT !.chan = <<stored>>]
<1>1. /\ s = saver.at /\ s # None /\ saver.pc = "resend"
      /\ saver' = [saver EXCEPT !.pc = "notify", !.at = None]
      /\ UNCHANGED <<stored, saves, subs, client, cache, server>>
  BY <1>0 DEF Inv, Types, SaverInv, Resend
<1>2. h \in Handler /\ SessionInv(s) /\ h.open /\ s \in subs /\ h.chan = <<>>
  BY <1>1 DEF Inv, Types, SaverInv
<1>3. stored \in Nat /\ stored > 0 /\ stored = saves
  BY <1>1 DEF Inv, Types, SaverInv
<1>4. g \in Handler
  BY <1>2, <1>3, FilledSlot DEF Handler
<1>5. /\ g.chan = <<stored>> /\ g.pc = h.pc /\ g.open = h.open /\ g.sent = h.sent
      /\ g.hand = h.hand /\ g.wire = h.wire /\ g.since = h.since
  BY <1>2 DEF Handler
<1>6. handlers' = [handlers EXCEPT ![s] = g] /\ handlers'[s] = g
  BY <1>1, <1>2 DEF Resend, Inv, Types
<1> HIDE DEF g
<1>7. SaverInv'
  BY <1>1, <1>2, <1>5, <1>6 DEF Inv, Types, SaverInv, Locked
<1>8. \A t \in Sessions \ {s} : Offered(t)' => Offered(t)
  BY <1>1 DEF Offered, Locked, Inv, Types
<1>9. Phase(handlers[s])'
  BY <1>1, <1>2, <1>5, <1>6 DEF SessionInv, Phase, Subscribed
<1>10. Carries(handlers[s])'
  BY <1>1, <1>2, <1>3, <1>5, <1>6, FilledSlot, HandlerFields DEF SessionInv, Carries, Carried
<1>11. Fresh(handlers[s])'
  BY <1>1, <1>3, <1>5, <1>6, FilledSlot DEF Fresh
<1>12. SessionInv(s)'
  BY <1>1, <1>2, <1>5, <1>6, <1>9, <1>10, <1>11 DEF SessionInv
<1>13. saver' \in [pc : {"idle", "lock", "notify", "drain", "resend"},
                   left : SUBSET Sessions, at : Sessions \cup {None}]
  BY <1>1 DEF Inv, Types
<1>14. subs' = IF g.open THEN subs \cup {s} ELSE subs \ {s}
  BY <1>1, <1>2, <1>5
<1> QED
  BY <1>1, <1>4, <1>6, <1>7, <1>8, <1>12, <1>13, <1>14, HandlerReplaced

\* Save releases the mutex: it has offered the snapshot to every subscriber.
LEMMA SaveUnlockPreserves ==
    ASSUME Inv, SaveUnlock
    PROVE  Inv'
<1> USE BoundsAreNat DEF Sessions, None
<1>1. Types'
  BY DEF Inv, Types, SaveUnlock
<1>2. SaverInv'
  BY DEF Inv, Types, SaveUnlock, SaverInv, Locked
<1>3. \A t \in Sessions : Offered(t)' => Offered(t)
  BY DEF Offered, Locked, Inv, Types, SaverInv, SaveUnlock
<1>4. ASSUME NEW t \in Sessions PROVE SessionInv(t)'
  BY <1>3, SessionKept DEF SaveUnlock
<1> QED
  BY <1>1, <1>2, <1>4 DEF Inv, SaveUnlock

-----------------------------------------------------------------------------
(* Server.StreamQuotas preserves the invariant. *)

\* Subscribe takes the mutex, so a Save in progress has not begun to notify.
LEMMA SubscribePreserves ==
    ASSUME Inv, NEW s \in Sessions, Subscribe(s)
    PROVE  Inv'
<1> USE BoundsAreNat DEF Sessions, None
<1> DEFINE h == handlers[s]
           g == [h EXCEPT !.pc = "initial", !.open = TRUE, !.since = saves]
<1>1. h \in Handler /\ SessionInv(s) /\ saves \in Nat /\ h.pc = "start" /\ ~Locked
  BY DEF Inv, Types, Subscribe
<1>2. g \in Handler
  BY <1>1 DEF Handler, HandlerPcs
<1>3. /\ g.pc = "initial" /\ g.open = TRUE /\ g.since = saves /\ g.chan = h.chan
      /\ g.hand = h.hand /\ g.sent = h.sent /\ g.wire = h.wire
  BY <1>1 DEF Handler
<1>4. handlers' = [handlers EXCEPT ![s] = g] /\ handlers'[s] = g
  BY DEF Subscribe, Inv, Types
<1>5. /\ UNCHANGED <<stored, saves, saver, client, cache, server>>
      /\ subs' = subs \cup {s}
  BY DEF Subscribe
<1> HIDE DEF g
<1>6. SaverInv'
  BY <1>1, <1>3, <1>4, <1>5 DEF Inv, Types, SaverInv, Locked
<1>7. \A t \in Sessions \ {s} : Offered(t)' => Offered(t)
  BY <1>5 DEF Offered, Locked
<1>8. h.chan = <<>> /\ h.wire = <<>> /\ h.sent = None
  BY <1>1 DEF SessionInv, Phase
<1>9. Phase(handlers[s])'
  BY <1>1, <1>3, <1>4, <1>5, <1>8 DEF SessionInv, Phase, Subscribed
<1>10. Carries(handlers[s])'
  <2>1. /\ handlers'[s].since = saves' /\ saves' \in Nat
        /\ handlers'[s].chan = <<>> /\ handlers'[s].wire = <<>>
        /\ handlers'[s].pc = "initial"
    BY <1>1, <1>3, <1>4, <1>5, <1>8
  <2> QED
    BY <2>1, FilledSlot, EmptySeq DEF Carries
<1>11. Fresh(handlers[s])'
  BY <1>3, <1>4, <1>8 DEF Fresh
<1>12. SessionInv(s)'
  BY <1>1, <1>3, <1>4, <1>5, <1>9, <1>10, <1>11 DEF SessionInv
<1> QED
  BY <1>2, <1>3, <1>4, <1>5, <1>6, <1>7, <1>12, HandlerReplaced DEF Inv, Types

\* The initial Get: the snapshot read is at least as new as the subscription.
LEMMA GetPreserves ==
    ASSUME Inv, NEW s \in Sessions, Get(s)
    PROVE  Inv'
<1> USE BoundsAreNat DEF Sessions, None
<1> DEFINE h == handlers[s]
           g == [h EXCEPT !.pc = IF stored = None THEN "loop" ELSE "send",
                          !.hand = stored]
<1>1. h \in Handler /\ SessionInv(s) /\ h.pc = "initial"
  BY DEF Inv, Types, Get
<1>2. stored \in Nat /\ saves \in Nat /\ stored \in {None, saves} /\ h.since \in Nat
  BY <1>1, HandlerFields DEF Inv, Types, SaverInv
<1>3. g \in Handler
  BY <1>1, <1>2 DEF Handler, HandlerPcs
<1>4. /\ g.pc = (IF stored = None THEN "loop" ELSE "send") /\ g.hand = stored
      /\ g.chan = h.chan /\ g.open = h.open /\ g.since = h.since
      /\ g.sent = h.sent /\ g.wire = h.wire
  BY <1>1 DEF Handler
<1>5. handlers' = [handlers EXCEPT ![s] = g] /\ handlers'[s] = g
  BY DEF Get, Inv, Types
<1>6. UNCHANGED <<stored, saves, saver, subs, client, cache, server>>
  BY DEF Get
<1> HIDE DEF g
<1>7. SaverInv'
  BY <1>4, <1>5, <1>6 DEF Inv, Types, SaverInv, Locked
<1>8. \A t \in Sessions : Offered(t)' => Offered(t)
  BY <1>6 DEF Offered, Locked
<1>9. h.open /\ s \in subs
  BY <1>1 DEF SessionInv, Phase, Subscribed, Inv
<1>10. Phase(handlers[s])'
  BY <1>1, <1>4, <1>5, <1>9 DEF SessionInv, Phase, Subscribed
<1>11. Carries(handlers[s])'
  BY <1>1, <1>2, <1>4, <1>5, <1>6 DEF SessionInv, Carries, Carried
<1>12. Offered(s)' => Fresh(handlers[s])'
  BY <1>1, <1>2, <1>4, <1>5, <1>6, <1>8 DEF SessionInv, Phase, Fresh
<1>13. SessionInv(s)'
  BY <1>1, <1>4, <1>5, <1>6, <1>10, <1>11, <1>12 DEF SessionInv
<1>14. subs' = IF g.open THEN subs \cup {s} ELSE subs \ {s}
  BY <1>4, <1>6, <1>9
<1> QED
  BY <1>3, <1>5, <1>6, <1>7, <1>8, <1>13, <1>14, HandlerReplaced DEF Inv, Types

\* Send puts the snapshot in hand on the wire.
LEMMA SendPreserves ==
    ASSUME Inv, NEW s \in Sessions, Send(s)
    PROVE  Inv'
<1> USE BoundsAreNat DEF Sessions, None
<1> DEFINE h == handlers[s]
           g == [h EXCEPT !.pc = "loop", !.wire = Append(h.wire, h.hand),
                          !.sent = h.hand, !.hand = None]
<1>1. h \in Handler /\ SessionInv(s) /\ h.pc = "send" /\ Len(h.wire) < Window
  BY DEF Inv, Types, Send
<1>2. /\ h.wire \in Seq(Nat) /\ h.hand \in Nat /\ Carries(h)
      /\ Append(h.wire, h.hand) \in Seq(Nat)
      /\ Len(Append(h.wire, h.hand)) = Len(h.wire) + 1 /\ Len(h.wire) \in Nat
      /\ \A i \in 1..Len(h.wire) + 1 : Append(h.wire, h.hand)[i] =
                          IF i <= Len(h.wire) THEN h.wire[i] ELSE h.hand
  BY <1>1, HandlerFields, AppendProperties, LenProperties DEF SessionInv
<1>3. g \in Handler
  BY <1>1, <1>2 DEF Handler, HandlerPcs
<1>4. /\ g.pc = "loop" /\ g.wire = Append(h.wire, h.hand) /\ g.sent = h.hand
      /\ g.hand = None /\ g.chan = h.chan /\ g.open = h.open /\ g.since = h.since
  BY <1>1 DEF Handler
<1>5. handlers' = [handlers EXCEPT ![s] = g] /\ handlers'[s] = g
  BY DEF Send, Inv, Types
<1>6. UNCHANGED <<stored, saves, saver, subs, client, cache, server>>
  BY DEF Send
<1> HIDE DEF g
<1>7. SaverInv'
  BY <1>4, <1>5, <1>6 DEF Inv, Types, SaverInv, Locked
<1>8. \A t \in Sessions : Offered(t)' => Offered(t)
  BY <1>6 DEF Offered, Locked
<1>9. h.open /\ s \in subs
  BY <1>1 DEF SessionInv, Phase, Subscribed, Inv
<1>10. Phase(handlers[s])'
  <2>1. Len(g.wire) <= Window
    <3>1. ASSUME NEW n \in Nat, n < Window PROVE n + 1 <= Window
      BY <3>1
    <3> QED
      BY <1>1, <1>2, <1>4, <3>1
  <2> QED
    BY <1>4, <1>5, <1>9, <2>1 DEF Phase, Subscribed
<1>11. Carries(handlers[s])'
  <2>1. \A i \in 1..Len(g.wire) : Carried(h, g.wire[i])
    BY <1>1, <1>2, <1>4 DEF Carries
  <2> QED
    BY <2>1, <1>2, <1>4, <1>5, <1>6 DEF Carries, Carried
<1>12. Offered(s)' => Fresh(handlers[s])'
  BY <1>1, <1>4, <1>5, <1>6, <1>8 DEF SessionInv, Fresh
<1>13. SessionInv(s)'
  BY <1>1, <1>4, <1>5, <1>6, <1>10, <1>11, <1>12 DEF SessionInv
<1>14. subs' = IF g.open THEN subs \cup {s} ELSE subs \ {s}
  BY <1>4, <1>6, <1>9
<1> QED
  BY <1>3, <1>5, <1>6, <1>7, <1>8, <1>13, <1>14, HandlerReplaced DEF Inv, Types

\* The handler takes the waiting snapshot from its channel.
LEMMA ReceiveFromChannelPreserves ==
    ASSUME Inv, NEW s \in Sessions, ReceiveFromChannel(s)
    PROVE  Inv'
<1> USE BoundsAreNat DEF Sessions, None
<1> DEFINE h == handlers[s]
           g == [h EXCEPT !.pc = "send", !.hand = Head(h.chan), !.chan = <<>>]
<1>1. h \in Handler /\ SessionInv(s) /\ h.pc = "loop" /\ h.chan # <<>>
  BY DEF Inv, Types, ReceiveFromChannel
<1>2. /\ Head(h.chan) \in Nat /\ h.chan = <<Head(h.chan)>>
      /\ Carries(h) /\ Carried(h, Head(h.chan))
  BY <1>1, HandlerFields, SlotContents DEF SessionInv, Carries
<1>3. g \in Handler
  BY <1>1, <1>2 DEF Handler, HandlerPcs, Slot
<1>4. /\ g.pc = "send" /\ g.hand = Head(h.chan) /\ g.chan = <<>>
      /\ g.sent = h.sent /\ g.wire = h.wire /\ g.open = h.open /\ g.since = h.since
  BY <1>1 DEF Handler
<1>5. handlers' = [handlers EXCEPT ![s] = g] /\ handlers'[s] = g
  BY DEF ReceiveFromChannel, Inv, Types
<1>6. UNCHANGED <<stored, saves, saver, subs, client, cache, server>>
  BY DEF ReceiveFromChannel
<1> HIDE DEF g
<1>7. SaverInv'
  BY <1>4, <1>5, <1>6 DEF Inv, Types, SaverInv, Locked
<1>8. \A t \in Sessions : Offered(t)' => Offered(t)
  BY <1>6 DEF Offered, Locked
<1>9. h.open /\ s \in subs
  BY <1>1 DEF SessionInv, Phase, Subscribed, Inv
<1>10. Phase(handlers[s])'
  BY <1>1, <1>4, <1>5, <1>9 DEF SessionInv, Phase, Subscribed
<1>11. Carries(handlers[s])'
  BY <1>2, <1>4, <1>5, <1>6, FilledSlot DEF Carries, Carried
<1>12. Offered(s)' => Fresh(handlers[s])'
  BY <1>1, <1>4, <1>5, <1>6, <1>8 DEF SessionInv, Fresh
<1>13. SessionInv(s)'
  BY <1>1, <1>4, <1>5, <1>6, <1>10, <1>11, <1>12 DEF SessionInv
<1>14. subs' = IF g.open THEN subs \cup {s} ELSE subs \ {s}
  BY <1>4, <1>6, <1>9
<1> QED
  BY <1>3, <1>5, <1>6, <1>7, <1>8, <1>13, <1>14, HandlerReplaced DEF Inv, Types

\* The handler learns that its stream is gone.
LEMMA GonePreserves ==
    ASSUME Inv, NEW s \in Sessions, Gone(s)
    PROVE  Inv'
<1> USE BoundsAreNat DEF Sessions, None
<1> DEFINE h == handlers[s]
           g == [h EXCEPT !.pc = "unsubscribe"]
<1>1. h \in Handler /\ SessionInv(s) /\ h.pc \in {"loop", "send"}
  BY DEF Inv, Types, Gone
<1>2. g \in Handler
  BY <1>1 DEF Handler, HandlerPcs
<1>3. /\ g.pc = "unsubscribe" /\ g.hand = h.hand /\ g.chan = h.chan
      /\ g.sent = h.sent /\ g.wire = h.wire /\ g.open = h.open /\ g.since = h.since
  BY <1>1 DEF Handler
<1>4. handlers' = [handlers EXCEPT ![s] = g] /\ handlers'[s] = g
  BY DEF Gone, Inv, Types
<1>5. UNCHANGED <<stored, saves, saver, subs, client, cache, server>>
  BY DEF Gone
<1> HIDE DEF g
<1>6. SaverInv'
  BY <1>3, <1>4, <1>5 DEF Inv, Types, SaverInv, Locked
<1>7. \A t \in Sessions : Offered(t)' => Offered(t)
  BY <1>5 DEF Offered, Locked
<1>8. h.open /\ s \in subs
  BY <1>1 DEF SessionInv, Phase, Subscribed, Inv
<1>9. Phase(handlers[s])'
  BY <1>1, <1>3, <1>4, <1>8 DEF SessionInv, Phase, Subscribed
<1>10. Carries(handlers[s])'
  BY <1>1, <1>3, <1>4, <1>5 DEF SessionInv, Carries, Carried
<1>11. Fresh(handlers[s])'
  BY <1>3, <1>4 DEF Fresh
<1>12. SessionInv(s)'
  BY <1>1, <1>3, <1>4, <1>5, <1>9, <1>10, <1>11 DEF SessionInv
<1>13. subs' = IF g.open THEN subs \cup {s} ELSE subs \ {s}
  BY <1>3, <1>5, <1>8
<1> QED
  BY <1>2, <1>4, <1>5, <1>6, <1>7, <1>12, <1>13, HandlerReplaced DEF Inv, Types

\* The handler of an ended call has given up its channel.
LEMMA EndedHandler ==
    ASSUME NEW h \in Handler
    PROVE  /\ Ended(h) \in Handler /\ [Ended(h) EXCEPT !.broken = TRUE] \in Handler
           /\ Ended(h).pc = "ended" /\ Ended(h).chan = <<>> /\ ~Ended(h).open
           /\ Ended(h).wire = h.wire /\ Ended(h).since = h.since
           /\ [Ended(h) EXCEPT !.broken = TRUE].pc = "ended"
           /\ [Ended(h) EXCEPT !.broken = TRUE].chan = <<>>
           /\ ~[Ended(h) EXCEPT !.broken = TRUE].open
           /\ [Ended(h) EXCEPT !.broken = TRUE].wire = h.wire
           /\ [Ended(h) EXCEPT !.broken = TRUE].since = h.since
BY DEF Ended, Closed, Handler, HandlerPcs, Slot, None

\* unsubscribe takes the mutex, so no Save is about to send on the channel.
LEMMA UnsubscribePreserves ==
    ASSUME Inv, NEW s \in Sessions, Unsubscribe(s)
    PROVE  Inv'
<1> USE BoundsAreNat DEF Sessions, None
<1> DEFINE h == handlers[s]
           g == Ended(h)
<1>1. h \in Handler /\ SessionInv(s) /\ h.pc = "unsubscribe" /\ ~Locked
  BY DEF Inv, Types, Unsubscribe
<1>2. /\ g \in Handler /\ g.pc = "ended" /\ g.chan = <<>> /\ ~g.open
      /\ g.wire = h.wire /\ g.since = h.since
  BY <1>1, EndedHandler
<1>3. handlers' = [handlers EXCEPT ![s] = g] /\ handlers'[s] = g
  BY DEF Unsubscribe, Inv, Types
<1>4. /\ UNCHANGED <<stored, saves, saver, client, cache, server>>
      /\ subs' = subs \ {s}
  BY DEF Unsubscribe
<1> HIDE DEF g
<1>5. SaverInv'
  BY <1>1, <1>2, <1>3, <1>4 DEF Inv, Types, SaverInv, Locked
<1>6. \A t \in Sessions : Offered(t)' => Offered(t)
  BY <1>4 DEF Offered, Locked
<1>7. Phase(handlers[s])'
  BY <1>1, <1>2, <1>3 DEF SessionInv, Phase, Subscribed
<1>8. Carries(handlers[s])'
  BY <1>1, <1>2, <1>3, <1>4, FilledSlot DEF SessionInv, Carries, Carried
<1>9. Fresh(handlers[s])'
  BY <1>2, <1>3 DEF Fresh
<1>10. SessionInv(s)'
  BY <1>1, <1>2, <1>3, <1>4, <1>7, <1>8, <1>9 DEF SessionInv
<1> QED
  BY <1>2, <1>3, <1>4, <1>5, <1>6, <1>10, HandlerReplaced DEF Inv, Types

\* A connection breaks.
LEMMA BreakPreserves ==
    ASSUME Inv, NEW s \in Sessions, Break(s)
    PROVE  Inv'
<1> USE BoundsAreNat DEF Sessions, None
<1> DEFINE h == handlers[s]
           g == [h EXCEPT !.broken = TRUE]
<1>1. h \in Handler /\ SessionInv(s)
  BY DEF Inv, Types
<1>2. g \in Handler
  BY <1>1 DEF Handler
<1>3. /\ g.pc = h.pc /\ g.hand = h.hand /\ g.chan = h.chan
      /\ g.sent = h.sent /\ g.wire = h.wire /\ g.open = h.open /\ g.since = h.since
  BY <1>1 DEF Handler
<1>4. handlers' = [handlers EXCEPT ![s] = g] /\ handlers'[s] = g
  BY DEF Break, Inv, Types
<1>5. UNCHANGED <<stored, saves, saver, subs, client, cache, server>>
  BY DEF Break
<1> HIDE DEF g
<1>6. SaverInv'
  BY <1>3, <1>4, <1>5 DEF Inv, Types, SaverInv, Locked
<1>7. \A t \in Sessions : Offered(t)' => Offered(t)
  BY <1>5 DEF Offered, Locked
<1>8. Phase(handlers[s])'
  BY <1>1, <1>3, <1>4 DEF SessionInv, Phase
<1>9. Carries(handlers[s])'
  BY <1>1, <1>3, <1>4, <1>5 DEF SessionInv, Carries, Carried
<1>10. Fresh(handlers[s]) => Fresh(handlers[s])'
  BY <1>3, <1>4, <1>5 DEF Fresh
<1>11. SessionInv(s)'
  BY <1>1, <1>3, <1>4, <1>5, <1>7, <1>8, <1>9, <1>10 DEF SessionInv
<1>12. subs' = IF g.open THEN subs \cup {s} ELSE subs \ {s}
  BY <1>1, <1>3, <1>5 DEF Inv
<1> QED
  BY <1>2, <1>4, <1>5, <1>6, <1>7, <1>11, <1>12, HandlerReplaced DEF Inv, Types

-----------------------------------------------------------------------------
(* SnapshotCache.Run preserves the invariant. *)

\* A new stream has nothing yet, and its session was never used before.
LEMMA ConnectPreserves ==
    ASSUME Inv, Connect
    PROVE  Inv'
<1> USE BoundsAreNat DEF Sessions, None
<1>0. PICK s \in Sessions : s = client.session + 1
  BY DEF Inv, Types, Connect
<1> DEFINE h == handlers[s]
           g == [h EXCEPT !.pc = "start"]
<1>1. h \in Handler /\ SessionInv(s) /\ h.pc = "none" /\ client.session \in Nat
  BY <1>0 DEF Inv, Types, SessionInv
<1>2. g \in Handler
  BY <1>1 DEF Handler, HandlerPcs
<1>3. /\ g.pc = "start" /\ g.hand = h.hand /\ g.chan = h.chan
      /\ g.sent = h.sent /\ g.wire = h.wire /\ g.open = h.open /\ g.since = h.since
  BY <1>1 DEF Handler
<1>4. handlers' = [handlers EXCEPT ![s] = g] /\ handlers'[s] = g
  BY <1>0 DEF Connect, Inv, Types
<1>5. /\ UNCHANGED <<stored, saves, saver, subs, cache, server>>
      /\ client'.pc = "streaming" /\ client'.session = s /\ client'.received = FALSE
      /\ client' = [pc |-> "streaming", session |-> s, received |-> FALSE]
  BY <1>0 DEF Connect
<1> HIDE DEF g
<1>6. Types'
  BY <1>2, <1>4, <1>5 DEF Inv, Types
<1>7. SaverInv'
  BY <1>3, <1>4, <1>5 DEF Inv, Types, SaverInv, Locked
<1>8. \A t \in Sessions : Offered(t)' => Offered(t)
  BY <1>5 DEF Offered, Locked
<1>9. Phase(handlers[s])'
  BY <1>1, <1>3, <1>4 DEF SessionInv, Phase, Subscribed
<1>10. Carries(handlers[s])'
  BY <1>1, <1>3, <1>4, <1>5 DEF SessionInv, Carries, Carried
<1>11. Fresh(handlers[s])'
  BY <1>1, <1>3, <1>4 DEF Fresh, SessionInv, Phase
<1>12. SessionInv(s)'
  BY <1>3, <1>4, <1>5, <1>9, <1>10, <1>11 DEF SessionInv
<1>13. ASSUME NEW t \in Sessions, t # s PROVE SessionInv(t)'
  <2>1. handlers'[t] = handlers[t] /\ (t > client'.session => t > client.session)
    BY <1>0, <1>1, <1>4, <1>5, <1>13 DEF Inv, Types
  <2> QED
    BY <2>1, <1>5, <1>8, SessionKept
<1>14. \A t \in Sessions : handlers'[t].open = handlers[t].open
  BY <1>3, <1>4 DEF Inv, Types
<1> QED
  BY <1>5, <1>6, <1>7, <1>12, <1>13, <1>14 DEF Inv

\* The head of a stream that holds something is one of its snapshots.
LEMMA HeadOfWire ==
    ASSUME NEW w \in Seq(Nat), w # <<>>
    PROVE  /\ Head(w) \in Nat /\ Head(w) = w[1] /\ 1 \in 1..Len(w)
           /\ Tail(w) \in Seq(Nat) /\ Len(Tail(w)) <= Len(w)
           /\ \A i \in 1..Len(Tail(w)) : i + 1 \in 1..Len(w) /\ Tail(w)[i] = w[i + 1]
<1>1. /\ Len(w) \in Nat \ {0} /\ Head(w) \in Nat /\ Tail(w) \in Seq(Nat)
      /\ Len(Tail(w)) = Len(w) - 1
      /\ \A i \in 1..Len(Tail(w)) : Tail(w)[i] = w[i + 1]
  BY EmptySeq, HeadTailProperties
<1>2. ASSUME NEW n \in Nat \ {0}, NEW m, m = n - 1
      PROVE  1 \in 1..n /\ m <= n /\ \A i \in 1..m : i + 1 \in 1..n
  BY <1>2
<1>3. /\ 1 \in 1..Len(w) /\ Len(Tail(w)) <= Len(w)
      /\ \A i \in 1..Len(Tail(w)) : i + 1 \in 1..Len(w)
  BY <1>1, <1>2
<1>4. Head(w) = w[1]
  BY <1>1
<1> QED
  BY <1>1, <1>3, <1>4

\* A snapshot arrives: the oldest on the wire, which the session may carry.
LEMMA RecvPreserves ==
    ASSUME Inv, NEW s \in Sessions, Recv(s)
    PROVE  Inv'
<1> USE BoundsAreNat DEF Sessions, None
<1> DEFINE h == handlers[s]
           g == [h EXCEPT !.wire = Tail(h.wire)]
<1>1. /\ h \in Handler /\ SessionInv(s) /\ h.wire # <<>> /\ s = client.session
      /\ client.pc = "streaming" /\ saves \in 0..MaxSaves
  BY DEF Inv, Types, Recv
<1>2. /\ h.wire \in Seq(Nat) /\ h.since \in Nat /\ Carries(h) /\ Phase(h)
  BY <1>1, HandlerFields DEF SessionInv
<1>3. /\ Head(h.wire) \in Nat /\ Carried(h, Head(h.wire))
      /\ Tail(h.wire) \in Seq(Nat) /\ Len(Tail(h.wire)) <= Window
      /\ \A i \in 1..Len(Tail(h.wire)) : Carried(h, Tail(h.wire)[i])
  <2>1. /\ Head(h.wire) \in Nat /\ Carried(h, Head(h.wire)) /\ Tail(h.wire) \in Seq(Nat)
        /\ Len(Tail(h.wire)) <= Len(h.wire) /\ Len(h.wire) <= Window
        /\ \A i \in 1..Len(Tail(h.wire)) : Carried(h, Tail(h.wire)[i])
    BY <1>1, <1>2, HeadOfWire DEF Carries, Phase
  <2>2. Len(Tail(h.wire)) \in Nat /\ Len(h.wire) \in Nat
    BY <1>2, <2>1, LenProperties
  <2>3. ASSUME NEW a \in Nat, NEW b \in Nat, a <= b, b <= Window PROVE a <= Window
    BY <2>3
  <2> QED
    BY <2>1, <2>2, <2>3
<1>4. g \in Handler
  BY <1>1, <1>3 DEF Handler
<1>5. /\ g.pc = h.pc /\ g.hand = h.hand /\ g.chan = h.chan /\ g.sent = h.sent
      /\ g.wire = Tail(h.wire) /\ g.open = h.open /\ g.since = h.since
  BY <1>1 DEF Handler
<1>6. handlers' = [handlers EXCEPT ![s] = g] /\ handlers'[s] = g
  BY DEF Recv, Inv, Types
<1>7. /\ UNCHANGED <<stored, saves, saver, subs, server>>
      /\ client' = [client EXCEPT !.received = TRUE]
      /\ cache' = Head(h.wire)
  BY DEF Recv
<1>8. client'.pc = client.pc /\ client'.session = s /\ client'.received = TRUE
  BY <1>1, <1>7 DEF Inv, Types
<1>9. cache' \in 0..MaxSaves /\ cache' >= h.since /\ h.pc # "start"
  BY <1>1, <1>2, <1>3, <1>7 DEF Carried, Phase
<1> HIDE DEF g
<1>10. Types'
  BY <1>4, <1>6, <1>7, <1>9 DEF Inv, Types
<1>11. SaverInv'
  BY <1>5, <1>6, <1>7 DEF Inv, Types, SaverInv, Locked
<1>12. \A t \in Sessions : Offered(t)' => Offered(t)
  BY <1>7 DEF Offered, Locked
<1>13. Phase(handlers[s])'
  BY <1>1, <1>2, <1>3, <1>5, <1>6 DEF Phase
<1>14. Carries(handlers[s])'
  BY <1>2, <1>3, <1>5, <1>6, <1>7 DEF Carries, Carried
<1>15. Fresh(handlers[s]) => Fresh(handlers[s])'
  BY <1>5, <1>6, <1>7 DEF Fresh
<1>16. SessionInv(s)'
  BY <1>1, <1>5, <1>6, <1>8, <1>9, <1>12, <1>13, <1>14, <1>15 DEF SessionInv
<1>17. ASSUME NEW t \in Sessions, t # s PROVE SessionInv(t)'
  <2>1. handlers'[t] = handlers[t]
    BY <1>6, <1>17 DEF Inv, Types
  <2> QED
    BY <2>1, <1>1, <1>7, <1>8, <1>12, <1>17, SessionKept
<1>18. \A t \in Sessions : handlers'[t].open = handlers[t].open
  BY <1>5, <1>6 DEF Inv, Types
<1> QED
  BY <1>1, <1>7, <1>8, <1>10, <1>11, <1>16, <1>17, <1>18 DEF Inv

\* The replica drops a broken stream.
LEMMA RecvFailsPreserves ==
    ASSUME Inv, RecvFails
    PROVE  Inv'
<1> USE BoundsAreNat DEF Sessions, None
<1>0. PICK s \in Sessions : s = client.session
  BY DEF Inv, Types, RecvFails
<1> DEFINE h == handlers[s]
           g == [h EXCEPT !.wire = <<>>, !.since = None]
<1>1. h \in Handler /\ SessionInv(s) /\ saves \in Nat
  BY DEF Inv, Types
<1>2. g \in Handler
  BY <1>1, EmptySeq DEF Handler
<1>3. /\ g.pc = h.pc /\ g.hand = h.hand /\ g.chan = h.chan /\ g.sent = h.sent
      /\ g.wire = <<>> /\ g.open = h.open /\ g.since = None
  BY <1>1 DEF Handler
<1>4. handlers' = [handlers EXCEPT ![s] = g] /\ handlers'[s] = g
  BY <1>0 DEF RecvFails, Inv, Types
<1>5. /\ UNCHANGED <<stored, saves, saver, subs, cache, server>>
      /\ client' = [client EXCEPT !.pc = "backoff", !.received = FALSE]
  BY DEF RecvFails
<1>6. client'.pc = "backoff" /\ client'.session = s /\ client'.received = FALSE
  BY <1>0, <1>5 DEF Inv, Types
<1> HIDE DEF g
<1>7. Types'
  BY <1>2, <1>4, <1>5 DEF Inv, Types
<1>8. SaverInv'
  BY <1>3, <1>4, <1>5 DEF Inv, Types, SaverInv, Locked
<1>9. \A t \in Sessions : Offered(t)' => Offered(t)
  BY <1>5 DEF Offered, Locked
<1>10. Phase(handlers[s])'
  BY <1>1, <1>3, <1>4, EmptySeq DEF SessionInv, Phase
<1>11. Carries(handlers[s])'
  <2>1. h.hand \in Nat /\ Carries(h) /\ 1..Len(<<>>) = {}
    BY <1>1, HandlerFields, EmptySeq DEF SessionInv
  <2> QED
    BY <2>1, <1>1, <1>3, <1>4, <1>5 DEF Carries, Carried
<1>12. Fresh(handlers[s]) => Fresh(handlers[s])'
  BY <1>3, <1>4, <1>5 DEF Fresh
<1>13. SessionInv(s)'
  BY <1>0, <1>1, <1>3, <1>4, <1>6, <1>9, <1>10, <1>11, <1>12 DEF SessionInv
<1>14. ASSUME NEW t \in Sessions, t # s PROVE SessionInv(t)'
  <2>1. handlers'[t] = handlers[t]
    BY <1>4, <1>14 DEF Inv, Types
  <2> QED
    BY <2>1, <1>0, <1>5, <1>6, <1>9, SessionKept
<1>15. \A t \in Sessions : handlers'[t].open = handlers[t].open
  BY <1>3, <1>4 DEF Inv, Types
<1> QED
  BY <1>5, <1>6, <1>7, <1>8, <1>13, <1>14, <1>15 DEF Inv

\* The replica stops reading.
LEMMA HangPreserves ==
    ASSUME Inv, Hang
    PROVE  Inv'
<1>1. /\ UNCHANGED <<stored, saves, saver, subs, handlers, cache, server>>
      /\ client.pc = "streaming" /\ client' = [client EXCEPT !.pc = "stuck"]
  BY DEF Hang
<1>2. /\ client'.pc = "stuck" /\ client'.session = client.session
      /\ client'.received = client.received
  BY <1>1 DEF Inv, Types
<1>3. Types'
  BY <1>1 DEF Inv, Types
<1>4. SaverInv'
  BY <1>1 DEF Inv, SaverInv, Locked
<1>5. \A t \in Sessions : Offered(t)' => Offered(t)
  BY <1>1 DEF Offered, Locked
<1>6. ASSUME NEW t \in Sessions PROVE SessionInv(t)'
  BY <1>1, <1>2, <1>5, SessionKept
<1> QED
  BY <1>1, <1>2, <1>3, <1>4, <1>6 DEF Inv

-----------------------------------------------------------------------------
(* Shutdown and restart of the control plane preserve the invariant. *)

\* A signal changes nothing but the server's state.
LEMMA TerminatePreserves ==
    ASSUME Inv, Terminate
    PROVE  Inv'
<1>1. UNCHANGED <<stored, saves, saver, subs, handlers, client, cache>>
  BY DEF Terminate
<1>2. Types' /\ SaverInv'
  BY <1>1 DEF Inv, Types, SaverInv, Locked, Terminate
<1>3. \A t \in Sessions : Offered(t)' => Offered(t)
  BY <1>1 DEF Offered, Locked
<1>4. ASSUME NEW t \in Sessions PROVE SessionInv(t)'
  BY <1>1, <1>3, SessionKept
<1> QED
  BY <1>1, <1>2, <1>4 DEF Inv

\* GracefulStop returns when no handler is left, so the store that the process
\* takes with it has no subscriber.
LEMMA GracefulStopPreserves ==
    ASSUME Inv, GracefulStop
    PROVE  Inv'
<1> USE BoundsAreNat DEF Sessions, None
<1>1. /\ UNCHANGED <<saves, handlers, client, cache>>
      /\ server' = "exited" /\ stored' = None /\ saver' = NoSave /\ subs' = {}
  BY DEF GracefulStop
<1>2. ASSUME NEW t \in Sessions
      PROVE  handlers[t].pc \in {"none", "ended"} /\ ~handlers[t].open /\ SessionInv(t)
  BY DEF GracefulStop, Inv, SessionInv, Phase, Subscribed
<1>3. Types'
  BY <1>1 DEF Inv, Types, NoSave
<1>4. SaverInv'
  BY <1>1 DEF Inv, Types, SaverInv, Locked, NoSave
<1>5. ASSUME NEW t \in Sessions PROVE SessionInv(t)'
  <2>1. Phase(handlers[t])' /\ Carries(handlers[t])'
    BY <1>1, <1>2 DEF SessionInv, Phase, Carries, Carried
  <2>2. Fresh(handlers[t])'
    BY <1>1, <1>2 DEF Fresh
  <2> QED
    BY <1>1, <1>2, <2>1, <2>2 DEF SessionInv
<1>6. subs' = {t \in Sessions : handlers'[t].open}
  BY <1>1, <1>2
<1> QED
  BY <1>1, <1>3, <1>4, <1>5, <1>6 DEF Inv

\* The control plane is gone and back: every stream is broken, what was on its
\* way still is.
LEMMA RestartPreserves ==
    ASSUME Inv, Restart
    PROVE  Inv'
<1> USE BoundsAreNat DEF Sessions, None
<1>1. /\ UNCHANGED <<saves, client, cache>>
      /\ server' = "up" /\ stored' = None /\ saver' = NoSave /\ subs' = {}
  BY DEF Restart
<1>2. ASSUME NEW t \in Sessions
      PROVE  /\ handlers'[t] \in Handler
             /\ handlers'[t].pc \in {"none", "ended"} /\ ~handlers'[t].open
             /\ handlers'[t].pc = "none" => handlers'[t] = handlers[t]
             /\ handlers'[t].wire = handlers[t].wire
             /\ handlers'[t].since = handlers[t].since
             /\ handlers'[t].chan = <<>>
             /\ t > client.session => handlers'[t].pc = "none"
             /\ SessionInv(t)
  <2>1. handlers[t] \in Handler /\ SessionInv(t) /\ client.session \in Nat
    BY DEF Inv, Types
  <2>2. CASE t <= client.session
    <3>1. handlers'[t] = [Ended(handlers[t]) EXCEPT !.broken = TRUE]
      BY <2>2 DEF Restart
    <3> QED
      BY <2>1, <2>2, <3>1, EndedHandler
  <2>3. CASE t > client.session
    <3>1. handlers'[t] = handlers[t]
      BY <2>1, <2>3 DEF Restart
    <3> QED
      BY <2>1, <2>3, <3>1 DEF SessionInv, Phase, Subscribed
  <2> QED
    BY <2>1, <2>2, <2>3
<1>3. Types'
  <2>1. handlers' \in [Sessions -> Handler]
    <3>1. DOMAIN handlers' = Sessions
      BY DEF Restart
    <3>2. handlers' = [t \in Sessions |-> handlers'[t]]
      BY <3>1 DEF Restart
    <3> QED
      BY <1>2, <3>2
  <2> QED
    BY <1>1, <2>1 DEF Inv, Types, NoSave
<1>4. SaverInv'
  BY <1>1 DEF Inv, Types, SaverInv, Locked, NoSave
<1>5. ASSUME NEW t \in Sessions PROVE SessionInv(t)'
  <2>1. Phase(handlers[t])'
    BY <1>2 DEF SessionInv, Phase, Subscribed
  <2>2. Carries(handlers[t])'
    BY <1>1, <1>2, FilledSlot DEF SessionInv, Carries, Carried
  <2>3. Fresh(handlers[t])'
    BY <1>1, <1>2 DEF Fresh
  <2> QED
    BY <1>1, <1>2, <2>1, <2>2, <2>3 DEF SessionInv
<1>6. subs' = {t \in Sessions : handlers'[t].open}
  BY <1>1, <1>2
<1> QED
  BY <1>1, <1>3, <1>4, <1>5, <1>6 DEF Inv

-----------------------------------------------------------------------------
(* The theorems. *)

\* The invariant holds initially.
LEMMA InitInv == Init => Inv
<1> SUFFICES ASSUME Init PROVE Inv
  OBVIOUS
<1> USE BoundsAreNat DEF Sessions, None
<1>1. Closed \in Handler
  BY EmptySeq DEF Closed, Handler, HandlerPcs, Slot
<1>2. Types
  BY <1>1 DEF Init, Types, NoSave
<1>3. SaverInv
  BY DEF Init, SaverInv, NoSave, Locked
<1>4. ASSUME NEW s \in Sessions PROVE SessionInv(s)
  <2>1. handlers[s] = Closed
    BY DEF Init
  <2>2. /\ handlers[s].pc = "none" /\ ~handlers[s].open /\ handlers[s].since = 0
        /\ handlers[s].sent = 0 /\ handlers[s].chan = <<>> /\ handlers[s].wire = <<>>
    BY <2>1 DEF Closed
  <2>3. Phase(handlers[s])
    BY <2>2, EmptySeq DEF Phase, Subscribed
  <2>4. Carries(handlers[s])
    <3>1. 1..Len(handlers[s].wire) = {} /\ saves = 0
      BY <2>2, EmptySeq DEF Init
    <3> QED
      BY <2>2, <3>1, FilledSlot DEF Carries
  <2>5. Fresh(handlers[s])
    BY <2>2 DEF Fresh
  <2> QED
    BY <2>2, <2>3, <2>4, <2>5 DEF SessionInv, Init
<1> QED
  BY <1>2, <1>3, <1>4 DEF Inv, Init, Closed

\* A step that changes nothing preserves the invariant.
LEMMA StutterPreserves ==
    ASSUME Inv, UNCHANGED vars
    PROVE  Inv'
<1>1. UNCHANGED <<stored, saves, saver, subs, handlers, client, cache, server>>
  BY DEF vars
<1>2. Types' /\ SaverInv'
  BY <1>1 DEF Inv, Types, SaverInv, Locked
<1>3. \A t \in Sessions : Offered(t)' => Offered(t)
  BY <1>1 DEF Offered, Locked
<1>4. ASSUME NEW t \in Sessions PROVE SessionInv(t)'
  BY <1>1, <1>3, SessionKept
<1> QED
  BY <1>1, <1>2, <1>4 DEF Inv

\* Every step preserves it, one case per action.
LEMMA NextInv == Inv /\ [Next]_vars => Inv'
<1> SUFFICES ASSUME Inv, [Next]_vars PROVE Inv'
  OBVIOUS
<1>1. CASE SaveStore
  BY <1>1, SaveStorePreserves
<1>2. CASE SaveStep
  BY <1>2, SaveLockPreserves, OfferPreserves, DrainPreserves, ResendPreserves,
     SaveUnlockPreserves DEF SaveStep
<1>3. ASSUME NEW s \in Sessions, HandlerStep(s) PROVE Inv'
  BY <1>3, SubscribePreserves, GetPreserves, SendPreserves,
     ReceiveFromChannelPreserves, GonePreserves, UnsubscribePreserves DEF HandlerStep
<1>4. ASSUME NEW s \in Sessions, Break(s) PROVE Inv'
  BY <1>4, BreakPreserves
<1>5. CASE ClientStep
  BY <1>5, ConnectPreserves, RecvPreserves, RecvFailsPreserves DEF ClientStep
<1>6. CASE Terminate
  BY <1>6, TerminatePreserves
<1>7. CASE GracefulStop
  BY <1>7, GracefulStopPreserves
<1>8. CASE Hang
  BY <1>8, HangPreserves
<1>9. CASE Restart
  BY <1>9, RestartPreserves
<1>10. CASE AllDelivered
  BY <1>10, StutterPreserves DEF AllDelivered
<1>11. CASE UNCHANGED vars
  BY <1>11, StutterPreserves
<1> QED
  BY <1>1, <1>2, <1>3, <1>4, <1>5, <1>6, <1>7, <1>8, <1>9, <1>10, <1>11 DEF Next

\* The inductive invariant holds in every reachable state.
THEOREM Inductive == Spec => []Inv
BY InitInv, NextInv, PTL DEF Spec

\* Types; the store's map holds exactly the channels that are open.
THEOREM TypeCorrect == Spec => []TypeOK
<1>1. Inv => TypeOK
  <2> SUFFICES ASSUME Inv PROVE TypeOK
    OBVIOUS
  <2>1. ASSUME NEW s \in Sessions
        PROVE  /\ handlers[s].pc \in HandlerPcs
               /\ Len(handlers[s].chan) <= 1 /\ Len(handlers[s].wire) <= Window
    <3>1. handlers[s] \in Handler /\ Phase(handlers[s])
      BY DEF Inv, Types, SessionInv
    <3> QED
      BY <3>1, HandlerFields, SlotContents DEF Phase
  <2> QED
    BY <2>1 DEF Inv, Types, TypeOK, HandlerPcs
<1> QED
  BY <1>1, Inductive, PTL

\* Save never sends on a channel that unsubscribe has closed.
THEOREM NoSendOnClosed == Spec => []NeverSendsOnClosed
<1>1. Inv => NeverSendsOnClosed
  BY DEF Inv, SaverInv, NeverSendsOnClosed
<1> QED
  BY <1>1, Inductive, PTL

\* Between Saves the newest snapshot is on its way to every subscriber.
THEOREM NoSaveLost == Spec => []NewestOnItsWay
<1>1. Inv => NewestOnItsWay
  BY DEF Inv, SessionInv, Offered, Fresh, NewestOnItsWay
<1> QED
  BY <1>1, Inductive, PTL

\* A replica that has received anything from its stream has nothing older than the
\* store was when the stream subscribed.
THEOREM CacheFresh == Spec => []FreshSinceSubscribe
<1>1. Inv => FreshSinceSubscribe
  <2> SUFFICES ASSUME Inv, client.received PROVE cache >= handlers[client.session].since
    BY DEF FreshSinceSubscribe
  <2>1. client.session \in Sessions
    BY DEF Inv
  <2> QED
    BY <2>1 DEF Inv, SessionInv
<1> QED
  BY <1>1, Inductive, PTL

-----------------------------------------------------------------------------
(* The stream implements SnapshotRegister. *)

\* What the abstract register takes for the snapshot the reader attached at.
Floor == IF client.pc = "backoff" THEN 0 ELSE handlers[client.session].since

\* A step that leaves the store, the floor and the cache alone is no step of the
\* register.
LEMMA StutterMapped ==
    ASSUME UNCHANGED <<stored, saves, cache>>, Floor' = Floor
    PROVE  UNCHANGED Register!vars
BY DEF Register!vars, Floor

\* Every step is a step of the register or leaves it alone.
LEMMA NextMapped ==
    ASSUME Inv, Inv', [Next]_vars
    PROVE  [Register!Next]_(Register!vars)
<1> USE DEF Sessions, None
<1>0. client.pc # "backoff" => client.session \in Sessions
  BY DEF Inv
<1>1. CASE SaveStore
  <2>1. Register!Write
    BY <1>1 DEF SaveStore, Register!Write
  <2> QED
    BY <2>1 DEF Register!Next
<1>2. CASE SaveStep
  <2>1. ASSUME NEW s \in Sessions, Offer(s) PROVE Floor' = Floor
    <3>1. \A t \in Sessions : handlers'[t].since = handlers[t].since
      <4>1. CASE handlers[s].chan = <<>>
        <5>1. handlers' = [handlers EXCEPT ![s].chan = <<stored>>]
          BY <2>1, <4>1 DEF Offer
        <5>2. handlers \in [Sessions -> Handler]
          BY DEF Inv, Types
        <5> QED
          BY <5>1, <5>2 DEF Handler
      <4>2. CASE handlers[s].chan # <<>>
        BY <2>1, <4>2 DEF Offer
      <4> QED
        BY <4>1, <4>2
    <3> QED
      BY <1>0, <2>1, <3>1 DEF Offer, Floor
  <2>2. ASSUME Drain PROVE Floor' = Floor
    BY <1>0, <2>2 DEF Inv, Types, Drain, Floor, Handler
  <2>3. ASSUME Resend PROVE Floor' = Floor
    BY <1>0, <2>3 DEF Inv, Types, Resend, Floor, Handler
  <2>4. ASSUME SaveLock \/ SaveUnlock PROVE Floor' = Floor
    BY <2>4 DEF SaveLock, SaveUnlock, Floor
  <2>5. UNCHANGED <<stored, saves, cache>> /\ Floor' = Floor
    BY <1>2, <2>1, <2>2, <2>3, <2>4
       DEF SaveStep, SaveLock, Offer, Drain, Resend, SaveUnlock
  <2> QED
    BY <2>5, StutterMapped
<1>3. ASSUME NEW s \in Sessions, Subscribe(s) PROVE [Register!Next]_(Register!vars)
  <2>1. /\ handlers'[s].since = saves /\ UNCHANGED <<stored, saves, client, cache>>
        /\ \A t \in Sessions \ {s} : handlers'[t] = handlers[t]
    BY <1>3 DEF Subscribe, Inv, Types, Handler
  <2>2. CASE client.pc # "backoff" /\ s = client.session
    <3>1. Register!Attach
      BY <2>1, <2>2 DEF Register!Attach
    <3> QED
      BY <3>1 DEF Register!Next
  <2>3. CASE ~(client.pc # "backoff" /\ s = client.session)
    BY <1>0, <2>1, <2>3, StutterMapped DEF Floor
  <2> QED
    BY <2>2, <2>3
<1>4. ASSUME NEW s \in Sessions,
             Get(s) \/ Send(s) \/ ReceiveFromChannel(s) \/ Gone(s)
                    \/ Unsubscribe(s) \/ Break(s)
      PROVE  [Register!Next]_(Register!vars)
  <2>1. UNCHANGED <<stored, saves, client, cache>>
    BY <1>4 DEF Get, Send, ReceiveFromChannel, Gone, Unsubscribe, Break
  <2>2. handlers[s] \in Handler
    BY DEF Inv, Types
  <2>3. \A t \in Sessions : handlers'[t].since = handlers[t].since
    <3>1. CASE Get(s)
      BY <3>1 DEF Get, Inv, Types, Handler
    <3>2. CASE Send(s)
      BY <3>2 DEF Send, Inv, Types, Handler
    <3>3. CASE ReceiveFromChannel(s)
      BY <3>3 DEF ReceiveFromChannel, Inv, Types, Handler
    <3>4. CASE Gone(s)
      BY <3>4 DEF Gone, Inv, Types, Handler
    <3>5. CASE Unsubscribe(s)
      BY <3>5, <2>2, EndedHandler DEF Unsubscribe, Inv, Types
    <3>6. CASE Break(s)
      BY <3>6 DEF Break, Inv, Types, Handler
    <3> QED
      BY <1>4, <3>1, <3>2, <3>3, <3>4, <3>5, <3>6
  <2> QED
    BY <1>0, <2>1, <2>3, StutterMapped DEF Floor
<1>5. CASE Connect
  <2>0. PICK s \in Sessions : s = client.session + 1
    BY <1>5, BoundsAreNat DEF Inv, Types, Connect
  <2>1. handlers[s].since = 0 /\ handlers[s] \in Handler
    BY <2>0 DEF Inv, Types, SessionInv, Phase
  <2>2. /\ Floor = 0 /\ UNCHANGED <<stored, saves, cache>>
        /\ client'.pc = "streaming" /\ client'.session = s
        /\ handlers'[s].since = handlers[s].since
    BY <1>5, <2>0, <2>1 DEF Connect, Inv, Types, Floor, Handler
  <2> QED
    BY <2>1, <2>2, StutterMapped DEF Floor
<1>6. ASSUME NEW s \in Sessions, Recv(s) PROVE [Register!Next]_(Register!vars)
  <2>1. /\ handlers[s] \in Handler /\ SessionInv(s) /\ handlers[s].wire # <<>>
        /\ s = client.session /\ client.pc = "streaming"
        /\ cache' = Head(handlers[s].wire) /\ UNCHANGED <<stored, saves>>
        /\ client'.pc = "streaming" /\ client'.session = s
        /\ handlers'[s].since = handlers[s].since
    BY <1>6 DEF Inv, Types, Recv, Handler
  <2>2. cache' \in Nat /\ Carried(handlers[s], cache')
    BY <2>1, HandlerFields, HeadOfWire DEF SessionInv, Carries
  <2>3. Register!Read
    BY <2>1, <2>2 DEF Register!Read, Carried
  <2> QED
    BY <2>3 DEF Register!Next
<1>7. CASE RecvFails
  <2>1. Register!Detach
    BY <1>7 DEF RecvFails, Register!Detach, Inv, Types
  <2> QED
    BY <2>1 DEF Register!Next
<1>8. CASE GracefulStop
  <2>1. Register!Forget
    BY <1>8 DEF GracefulStop, Register!Forget
  <2> QED
    BY <2>1 DEF Register!Next
<1>9. CASE Restart
  <2>1. \A t \in Sessions : handlers[t] \in Handler
    BY DEF Inv, Types
  <2>2. \A t \in Sessions : handlers'[t].since = handlers[t].since
    BY <1>9, <2>1, EndedHandler DEF Restart
  <2>3. Register!Forget
    BY <1>0, <1>9, <2>2 DEF Restart, Register!Forget
  <2> QED
    BY <2>3 DEF Register!Next
<1>10. CASE Hang
  BY <1>10, StutterMapped DEF Hang, Floor, Inv, Types
<1>11. CASE Terminate \/ AllDelivered \/ UNCHANGED vars
  BY <1>11, StutterMapped DEF Terminate, AllDelivered, vars, Floor
<1> QED
  BY <1>1, <1>2, <1>3, <1>4, <1>5, <1>6, <1>7, <1>8, <1>9, <1>10, <1>11
     DEF Next, HandlerStep, ClientStep

\* The stream implements the abstract register: with the snapshot its session
\* subscribed at as the floor, a replica reads only snapshots that were saved,
\* none older than that, and nothing else touches its copy.
THEOREM Refinement == Spec => ImplementsRegister
<1>1. Init => Register!Init
  BY DEF Init, Register!Init, None
<1> QED
  BY <1>1, NextMapped, Inductive, PTL DEF Spec, ImplementsRegister, Register!Spec
=============================================================================
