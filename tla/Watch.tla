-------------------------------- MODULE Watch --------------------------------
(***************************************************************************)
(* watch.Watcher: re-introspection of a PostgreSQL schema on DDL.          *)
(*                                                                         *)
(* Each watcher runs Run (watch/watch.go) in one goroutine against a       *)
(* shared database and the connection pool of its product.  The database,  *)
(* the pool, the transactions of other clients and the product that starts *)
(* Run are external; they are modelled from how Run uses them.             *)
(*                                                                         *)
(* The catalog is a function from parts (what one query of Introspect      *)
(* reads) to versions.  Versions only name states of the schema: two       *)
(* versions with the same Content have the same catalog hash.              *)
(***************************************************************************)
EXTENDS Naturals, FiniteSets

CONSTANTS
  Watchers,       \* one per product watching the database
  Sessions,       \* clients of the database that run DDL in transactions
  Channels,       \* notification channels
  Names,          \* event trigger names
  Channel,        \* Channel[w]: Watcher.Channel
  TriggerName,    \* TriggerName[w]: Watcher.TriggerName, NoName when empty
  DefaultName,    \* DefaultName[c]: the name c + "_watch"
  ValidNames,     \* the channels and names validChannel accepts
  NoName,         \* the empty string
  NumParts,       \* queries one introspection makes
  SilentParts,    \* parts that also change without DDL (rows of @enum tables)
  Content,        \* Content[v]: the schema text version v stands for
  NoCatalog,      \* poll's lastHash = "" before its first tick
  PoolSize,       \* connections of a product's pool
  MaxQueue,       \* bound: notifications counted per connection
  MaxVersion      \* bound: versions of a part

Parts    == 1 .. NumParts
Versions == 0 .. MaxVersion
Catalogs == [Parts -> Versions]

ASSUME ConstantsAssumption ==
  /\ Channel \in [Watchers -> Channels]
  /\ TriggerName \in [Watchers -> Names \cup {NoName}]
  /\ DefaultName \in [Channels -> Names]
  /\ NumParts \in Nat
  /\ SilentParts \subseteq Parts
  /\ PoolSize \in Nat
  /\ MaxVersion \in Nat
  /\ MaxQueue \in Nat \ {0}
  /\ NoName \notin Channels
  /\ NoCatalog \notin Catalogs

VARIABLES
  \* the database
  db,         \* db[p]: committed version of part p
  txn,        \* txn[s]: the open transaction of session s
  fn,         \* fn[n]: channel the function n_notify notifies, NoName: none
  trig,       \* installed event triggers
  \* the watchers
  pc,         \* where Run is
  cancelled,  \* Run's context is cancelled
  listening,  \* the connection Run holds is up and has executed LISTEN
  queue,      \* notifications waiting on that connection
  busy,       \* pool connections the product's other work holds
  at,         \* next part of the introspection in progress
  cat,        \* parts it has read
  last,       \* poll's lastHash, as the catalog it is the hash of
  held,       \* the catalog the product works with
  \* history
  installed,  \* this Run's installTrigger succeeded, its connection is intact
  waived      \* parts whose last change the code does not promise to announce

dbVars   == <<db, txn, fn, trig>>
readVars == <<at, cat, last, held>>
vars == <<db, txn, fn, trig, pc, cancelled, listening, queue, busy, at, cat,
          last, held, installed, waived>>

Idle == [writes |-> {}, notes |-> {}, owed |-> {}]
Blank == [p \in Parts |-> 0]

\* The points of Run, listen, poll and reintrospect at which others may act.
Labels == {"off", "acquire", "listen", "mkfn", "mktrig", "wait", "drain",
           "read", "poll", "pread"}

\* A transaction: what it changed, the channels to notify when it commits,
\* and the watchers whose trigger was in place when its DDL ran.
Txns == [writes : SUBSET Parts, notes : SUBSET Channels, owed : SUBSET Watchers]

TypeOK ==
  /\ db \in Catalogs
  /\ txn \in [Sessions -> Txns]
  /\ fn \in [Names -> Channels \cup {NoName}]
  /\ trig \subseteq Names
  /\ pc \in [Watchers -> Labels]
  /\ cancelled \in [Watchers -> BOOLEAN]
  /\ listening \in [Watchers -> BOOLEAN]
  /\ queue \in [Watchers -> 0 .. MaxQueue]
  /\ busy \in [Watchers -> 0 .. PoolSize]
  /\ at \in [Watchers -> 1 .. NumParts + 1]
  /\ cat \in [Watchers -> Catalogs]
  /\ last \in [Watchers -> Catalogs \cup {NoCatalog}]
  /\ held \in [Watchers -> Catalogs]
  /\ installed \in [Watchers -> BOOLEAN]
  /\ waived \in [Watchers -> SUBSET Parts]

Init ==
  /\ db = Blank
  /\ txn = [s \in Sessions |-> Idle]
  /\ fn = [n \in Names |-> NoName]
  /\ trig = {}
  /\ pc = [w \in Watchers |-> "off"]
  /\ cancelled = [w \in Watchers |-> FALSE]
  /\ listening = [w \in Watchers |-> FALSE]
  /\ queue = [w \in Watchers |-> 0]
  /\ busy = [w \in Watchers |-> 0]
  /\ at = [w \in Watchers |-> 1]
  /\ cat = [w \in Watchers |-> Blank]
  /\ last = [w \in Watchers |-> NoCatalog]
  /\ held = [w \in Watchers |-> Blank]
  /\ installed = [w \in Watchers |-> FALSE]
  /\ waived = [w \in Watchers |-> {}]

-----------------------------------------------------------------------------
(* Names, pool and catalogs *)

NameOf(w) == IF TriggerName[w] = NoName THEN DefaultName[Channel[w]]
                                        ELSE TriggerName[w]

Accepted(w) == Channel[w] \in ValidNames /\ NameOf(w) \in ValidNames

\* Run holds its LISTEN connection from Acquire to its deferred Release.
Holding(w) == pc[w] \notin {"off", "acquire"}

InUse(w)   == busy[w] + (IF Holding(w) THEN 1 ELSE 0)
Free(w)    == InUse(w) < PoolSize

\* A call through the pool fails once it has a connection, or when its context
\* is cancelled; until then it waits for a connection.
PoolCallFails(w) == Free(w) \/ cancelled[w]

\* Content stands for what Catalog.Hash digests.
SameHash(a, b) == \A p \in Parts : Content[a[p]] = Content[b[p]]

-----------------------------------------------------------------------------
(* The database and its clients *)

\* The channels the event triggers notify at the end of a DDL command.
Fired(f) == {f[n] : n \in trig} \ {NoName}

\* One more notification for every connection listening on a channel of C.
\* The client only tests whether there is another one: counting stops at
\* MaxQueue.
Notify(C) ==
  queue' = [w \in Watchers |->
              IF listening[w] /\ Channel[w] \in C /\ queue[w] < MaxQueue
                THEN queue[w] + 1 ELSE queue[w]]

\* The parts the open transactions of S have changed hold their locks.
Locked(S) == UNION {txn[s].writes : s \in S}

\* The change of the parts in P must reach w: w polls and has its baseline,
\* or the DDL ran (w \in owed) and commits with w's trigger in place.
Promised(w, owed) == \/ pc[w] \in {"poll", "pread"} /\ last[w] # NoCatalog
                     \/ w \in owed /\ installed[w]

Change(P, owed) ==
  /\ db' = [p \in Parts |-> IF p \in P THEN db[p] + 1 ELSE db[p]]
  /\ waived' = [w \in Watchers |-> IF pc[w] = "off" \/ Promised(w, owed)
                                     THEN waived[w] ELSE waived[w] \cup P]

\* A DDL command of session s on the parts in P; none when it is about a
\* schema nobody watches.  It fires the triggers, the notification waits for
\* the commit.
ExecDDL(s, P) ==
  /\ \A p \in P : db[p] < MaxVersion /\ p \notin Locked(Sessions \ {s})
  /\ txn' = [txn EXCEPT ![s] =
               [writes |-> @.writes \cup P, notes |-> @.notes \cup Fired(fn),
                owed |-> @.owed \cup {w \in Watchers : installed[w]}]]
  /\ UNCHANGED <<db, fn, trig, pc, cancelled, listening, queue, busy,
                 installed, waived>>
  /\ UNCHANGED readVars

Commit(s) ==
  /\ txn[s] # Idle
  /\ Change(txn[s].writes, txn[s].owed)
  /\ Notify(txn[s].notes)
  /\ txn' = [txn EXCEPT ![s] = Idle]
  /\ UNCHANGED <<fn, trig, pc, cancelled, listening, busy, installed>>
  /\ UNCHANGED readVars

Rollback(s) ==
  /\ txn[s] # Idle
  /\ txn' = [txn EXCEPT ![s] = Idle]
  /\ UNCHANGED <<db, fn, trig, pc, cancelled, listening, queue, busy,
                 installed, waived>>
  /\ UNCHANGED readVars

\* A change of the catalog that no DDL makes: rows of an @enum table.
ChangeSilently(p) ==
  /\ p \notin Locked(Sessions)
  /\ db[p] < MaxVersion
  /\ Change({p}, {})
  /\ UNCHANGED <<txn, fn, trig, pc, cancelled, listening, queue, busy,
                 installed>>
  /\ UNCHANGED readVars

-----------------------------------------------------------------------------
(* The product around the watcher *)

\* The product introspects, builds on the result, and calls Run with a fresh
\* context.  Run refuses a channel or a trigger name validChannel rejects.
Boot(w) ==
  /\ pc[w] = "off"
  /\ Accepted(w)
  /\ held' = [held EXCEPT ![w] = db]
  /\ pc' = [pc EXCEPT ![w] = "acquire"]
  /\ cancelled' = [cancelled EXCEPT ![w] = FALSE]
  /\ UNCHANGED <<db, txn, fn, trig, listening, queue, busy, at, cat, last,
                 installed, waived>>

Cancel(w) ==
  /\ pc[w] # "off"
  /\ ~cancelled[w]
  /\ cancelled' = [cancelled EXCEPT ![w] = TRUE]
  /\ UNCHANGED <<db, txn, fn, trig, pc, listening, queue, busy, installed,
                 waived>>
  /\ UNCHANGED readVars

\* The product's requests take and give back connections of the same pool.
Borrow(w) ==
  /\ Free(w)
  /\ busy' = [busy EXCEPT ![w] = @ + 1]
  /\ UNCHANGED <<db, txn, fn, trig, pc, cancelled, listening, queue,
                 installed, waived>>
  /\ UNCHANGED readVars

GiveBack(w) ==
  /\ busy[w] > 0
  /\ busy' = [busy EXCEPT ![w] = @ - 1]
  /\ UNCHANGED <<db, txn, fn, trig, pc, cancelled, listening, queue,
                 installed, waived>>
  /\ UNCHANGED readVars

\* The connection that LISTENs is lost, with the notifications on it.
DropConn(w) ==
  /\ listening[w]
  /\ listening' = [listening EXCEPT ![w] = FALSE]
  /\ queue' = [queue EXCEPT ![w] = 0]
  /\ installed' = [installed EXCEPT ![w] = FALSE]
  /\ waived' = [waived EXCEPT ![w] =
                  IF pc[w] \in {"poll", "pread"} THEN @ ELSE Parts]
  /\ UNCHANGED <<db, txn, fn, trig, pc, cancelled, busy>>
  /\ UNCHANGED readVars

\* Mutant of End: Run drops its event trigger when it returns.
EndUninstalls(w) ==
  /\ pc' = [pc EXCEPT ![w] = "off"]
  /\ trig' = trig \ {NameOf(w)}
  /\ listening' = [listening EXCEPT ![w] = FALSE]
  /\ queue' = [queue EXCEPT ![w] = 0]
  /\ at' = [at EXCEPT ![w] = 1]
  /\ cat' = [cat EXCEPT ![w] = Blank]
  /\ last' = [last EXCEPT ![w] = NoCatalog]
  /\ installed' = [installed EXCEPT ![w] = FALSE]
  /\ waived' = [waived EXCEPT ![w] = {}]
  /\ UNCHANGED <<db, txn, fn, cancelled, busy, held>>

\* Run is over: it returned, or the process died.  The connection and the
\* notifications on it are gone, the trigger and its function stay.
End(w) ==
  /\ pc' = [pc EXCEPT ![w] = "off"]
  /\ listening' = [listening EXCEPT ![w] = FALSE]
  /\ queue' = [queue EXCEPT ![w] = 0]
  /\ at' = [at EXCEPT ![w] = 1]
  /\ cat' = [cat EXCEPT ![w] = Blank]
  /\ last' = [last EXCEPT ![w] = NoCatalog]
  /\ installed' = [installed EXCEPT ![w] = FALSE]
  /\ waived' = [waived EXCEPT ![w] = {}]
  /\ UNCHANGED <<db, txn, fn, trig, cancelled, busy, held>>

Crash(w) == pc[w] # "off" /\ End(w)

-----------------------------------------------------------------------------
(* Run: acquire a connection, LISTEN, install the trigger *)

Goto(w, l) == pc' = [pc EXCEPT ![w] = l]

Acquire(w) ==
  /\ pc[w] = "acquire"
  /\ ~cancelled[w]
  /\ Free(w)
  /\ Goto(w, "listen")
  /\ UNCHANGED <<db, txn, fn, trig, cancelled, listening, queue, busy,
                 installed, waived>>
  /\ UNCHANGED readVars

Listen(w) ==
  /\ pc[w] = "listen"
  /\ ~cancelled[w]
  /\ Goto(w, "mkfn")
  /\ listening' = [listening EXCEPT ![w] = TRUE]
  /\ UNCHANGED <<db, txn, fn, trig, cancelled, queue, busy, installed, waived>>
  /\ UNCHANGED readVars

\* Acquire or LISTEN fails: Run returns the error.
StartFails(w) ==
  /\ \/ pc[w] = "acquire" /\ PoolCallFails(w)
     \/ pc[w] = "listen"
  /\ End(w)

\* CREATE OR REPLACE FUNCTION is DDL itself: triggers already there fire, and
\* the one this function belongs to already runs its new text.
ReplaceFunction(w) ==
  /\ fn' = [fn EXCEPT ![NameOf(w)] = Channel[w]]
  /\ Notify(Fired(fn'))
  /\ UNCHANGED trig

\* CREATE EVENT TRIGGER, unless there is one of that name.  It fires none.
MakeTrigger(w) ==
  /\ trig' = trig \cup {NameOf(w)}
  /\ UNCHANGED <<fn, queue>>

CreateFunction(w) ==
  /\ pc[w] = "mkfn"
  /\ ~cancelled[w]
  /\ Free(w)
  /\ ReplaceFunction(w)
  /\ Goto(w, "mktrig")
  /\ UNCHANGED <<db, txn, cancelled, listening, busy, installed, waived>>
  /\ UNCHANGED readVars

\* The trigger is in place and Run starts to wait for notifications.
CreateTrigger(w) ==
  /\ pc[w] = "mktrig"
  /\ ~cancelled[w]
  /\ Free(w)
  /\ MakeTrigger(w)
  /\ Goto(w, "wait")
  /\ installed' = [installed EXCEPT ![w] = listening[w]]
  /\ UNCHANGED <<db, txn, cancelled, listening, busy, waived>>
  /\ UNCHANGED readVars

\* installTrigger returns an error (no permission, context cancelled, answer
\* lost, another watcher creating the same trigger): the statement may have
\* had its effect.  Run falls back to polling.
InstallFails(w) ==
  /\ PoolCallFails(w)
  /\ \/ pc[w] = "mkfn" /\ ReplaceFunction(w)
     \/ pc[w] = "mktrig" /\ MakeTrigger(w)
     \/ pc[w] \in {"mkfn", "mktrig"} /\ UNCHANGED <<fn, trig, queue>>
  /\ Goto(w, "poll")
  /\ UNCHANGED <<db, txn, cancelled, listening, busy, installed, waived>>
  /\ UNCHANGED readVars

-----------------------------------------------------------------------------
(* listen: wait, let the burst pass, re-introspect *)

\* WaitForNotification returns one notification; the 250 ms sleep follows.
Notified(w) ==
  /\ pc[w] = "wait"
  /\ listening[w]
  /\ ~cancelled[w]
  /\ queue[w] > 0
  /\ queue' = [queue EXCEPT ![w] = @ - 1]
  /\ Goto(w, "drain")
  /\ UNCHANGED <<db, txn, fn, trig, cancelled, listening, busy, installed,
                 waived>>
  /\ UNCHANGED readVars

\* Mutant of WaitFails: the wait does not watch the context.
WaitIgnoresCancel(w) == pc[w] = "wait" /\ ~listening[w] /\ End(w)

\* WaitForNotification fails: the context is cancelled (Run returns nil) or
\* the connection is gone (Run returns the error).
WaitFails(w) ==
  /\ pc[w] = "wait"
  /\ cancelled[w] \/ ~listening[w]
  /\ End(w)

\* Mutant of Drain: it does not wait for the notification it takes.
DrainBlindly(w) ==
  /\ pc[w] = "drain"
  /\ listening[w]
  /\ queue' = [queue EXCEPT ![w] = @ - 1]
  /\ UNCHANGED <<db, txn, fn, trig, pc, cancelled, listening, busy, installed,
                 waived>>
  /\ UNCHANGED readVars

\* drainNotifications takes another notification of the burst.
Drain(w) ==
  /\ pc[w] = "drain"
  /\ listening[w]
  /\ ~cancelled[w]
  /\ queue[w] > 0
  /\ queue' = [queue EXCEPT ![w] = @ - 1]
  /\ UNCHANGED <<db, txn, fn, trig, pc, cancelled, listening, busy, installed,
                 waived>>
  /\ UNCHANGED readVars

\* No notification reaches the client for 50 ms (one may still be on its
\* way), or the connection or the context is gone.
Drained(w) ==
  /\ pc[w] = "drain"
  /\ Goto(w, "read")
  /\ UNCHANGED <<db, txn, fn, trig, cancelled, listening, queue, busy,
                 installed, waived>>
  /\ UNCHANGED readVars

Reset(w) == /\ at' = [at EXCEPT ![w] = 1]
            /\ cat' = [cat EXCEPT ![w] = Blank]

\* Mutant of Rebuild: the burst is drained after the introspection.
RebuildThenDrain(w) ==
  /\ pc[w] = "read"
  /\ at[w] > NumParts
  /\ held' = [held EXCEPT ![w] = cat[w]]
  /\ queue' = [queue EXCEPT ![w] = 0]
  /\ Goto(w, "wait")
  /\ Reset(w)
  /\ UNCHANGED <<db, txn, fn, trig, cancelled, listening, busy, last,
                 installed, waived>>

\* reintrospect hands the catalog to OnChange, whatever it holds.
Rebuild(w) ==
  /\ pc[w] = "read"
  /\ at[w] > NumParts
  /\ held' = [held EXCEPT ![w] = cat[w]]
  /\ Goto(w, "wait")
  /\ Reset(w)
  /\ UNCHANGED <<db, txn, fn, trig, cancelled, listening, queue, busy, last,
                 installed, waived>>

\* Mutant of ReadFails: OnChange gets what was read before the error.
ReadFailsPartly(w) ==
  /\ pc[w] = "read"
  /\ held' = [held EXCEPT ![w] = cat[w]]
  /\ Goto(w, "wait")
  /\ Reset(w)
  /\ waived' = [waived EXCEPT ![w] = Parts]
  /\ UNCHANGED <<db, txn, fn, trig, cancelled, listening, queue, busy, last,
                 installed>>

\* reintrospect logs the error and returns; the notification is spent.
ReadFails(w) ==
  /\ pc[w] = "read"
  /\ PoolCallFails(w)
  /\ Goto(w, "wait")
  /\ Reset(w)
  /\ waived' = [waived EXCEPT ![w] = Parts]
  /\ UNCHANGED <<db, txn, fn, trig, cancelled, listening, queue, busy, last,
                 held, installed>>

-----------------------------------------------------------------------------
(* Introspect: one query after another, each on a connection of the pool
   and with a snapshot of its own *)

ReadPart(w, p) ==
  /\ pc[w] \in {"read", "pread"}
  /\ at[w] = p
  /\ ~cancelled[w]
  /\ Free(w)
  /\ cat' = [cat EXCEPT ![w][p] = db[p]]
  /\ at' = [at EXCEPT ![w] = p + 1]
  /\ waived' = IF pc[w] = "read" THEN [waived EXCEPT ![w] = @ \ {p}]
                                 ELSE waived
  /\ UNCHANGED <<db, txn, fn, trig, pc, cancelled, listening, queue, busy,
                 last, held, installed>>

-----------------------------------------------------------------------------
(* poll: compare the hash of the catalog at every tick *)

Tick(w) ==
  /\ pc[w] = "poll"
  /\ Goto(w, "pread")
  /\ UNCHANGED <<db, txn, fn, trig, cancelled, listening, queue, busy,
                 installed, waived>>
  /\ UNCHANGED readVars

StopPolling(w) == pc[w] = "poll" /\ cancelled[w] /\ End(w)

\* Mutant of PollFails: a failed tick forgets the baseline.
PollFailsForgets(w) ==
  /\ pc[w] = "pread"
  /\ Goto(w, "poll")
  /\ Reset(w)
  /\ last' = [last EXCEPT ![w] = NoCatalog]
  /\ UNCHANGED <<db, txn, fn, trig, cancelled, listening, queue, busy, held,
                 installed, waived>>

\* Introspect or Hash fails: wait for the next tick.
PollFails(w) ==
  /\ pc[w] = "pread"
  /\ PoolCallFails(w) \/ at[w] > NumParts
  /\ Goto(w, "poll")
  /\ Reset(w)
  /\ UNCHANGED <<db, txn, fn, trig, cancelled, listening, queue, busy, last,
                 held, installed, waived>>

\* The first tick only takes its baseline.
Drifted(w) == last[w] # NoCatalog /\ ~SameHash(cat[w], last[w])

\* Mutant of Compare: the new baseline is taken by a second introspection.
CompareTwice(w) ==
  /\ pc[w] = "pread"
  /\ at[w] > NumParts
  /\ held' = IF Drifted(w) THEN [held EXCEPT ![w] = cat[w]] ELSE held
  /\ waived' = IF Drifted(w) THEN [waived EXCEPT ![w] = {}] ELSE waived
  /\ last' = [last EXCEPT ![w] = db]
  /\ Goto(w, "poll")
  /\ Reset(w)
  /\ UNCHANGED <<db, txn, fn, trig, cancelled, listening, queue, busy,
                 installed>>

Compare(w) ==
  /\ pc[w] = "pread"
  /\ at[w] > NumParts
  /\ held' = IF Drifted(w) THEN [held EXCEPT ![w] = cat[w]] ELSE held
  /\ waived' = IF Drifted(w) THEN [waived EXCEPT ![w] = {}] ELSE waived
  /\ last' = [last EXCEPT ![w] = cat[w]]
  /\ Goto(w, "poll")
  /\ Reset(w)
  /\ UNCHANGED <<db, txn, fn, trig, cancelled, listening, queue, busy,
                 installed>>

-----------------------------------------------------------------------------
(* The specification *)

Run(w) ==
  \/ Acquire(w) \/ Listen(w) \/ StartFails(w)
  \/ CreateFunction(w) \/ CreateTrigger(w) \/ InstallFails(w)
  \/ Notified(w) \/ WaitFails(w) \/ Drain(w) \/ Drained(w)
  \/ Rebuild(w) \/ ReadFails(w)
  \/ \E p \in Parts : ReadPart(w, p)
  \/ Tick(w) \/ StopPolling(w) \/ PollFails(w) \/ Compare(w)

Product(w) ==
  Boot(w) \/ Cancel(w) \/ Borrow(w) \/ GiveBack(w) \/ DropConn(w) \/ Crash(w)

Database ==
  \/ \E s \in Sessions : \/ \E P \in SUBSET Parts : ExecDDL(s, P)
                         \/ Commit(s)
                         \/ Rollback(s)
  \/ \E p \in SilentParts : ChangeSilently(p)

Next == Database \/ \E w \in Watchers : Product(w) \/ Run(w)

Spec == Init /\ [][Next]_vars

\* Run is scheduled whenever it can do something.  A pool serves its waiters
\* in order (strong fairness of what needs a connection) and requests give
\* their connections back.  A burst of DDL leaves a pause of 50 ms some time.
\* Queries do not fail for ever, and the select of poll does not starve Done.
Fairness ==
  \A w \in Watchers :
    /\ WF_vars(Run(w))
    /\ WF_vars(GiveBack(w))
    /\ WF_vars(Drained(w))
    /\ SF_vars(Acquire(w) \/ CreateFunction(w) \/ CreateTrigger(w))
    /\ \A p \in Parts : SF_vars(ReadPart(w, p))
    /\ SF_vars(Rebuild(w) \/ Compare(w))
    /\ SF_vars(StopPolling(w))

FairSpec == Spec /\ Fairness

-----------------------------------------------------------------------------
(* Properties *)

\* The function of w's trigger is not repointed: products sharing a database
\* use distinct trigger names, or the same channel.
Sole(w) == \A v \in Watchers :
             Accepted(v) /\ NameOf(v) = NameOf(w) => Channel[v] = Channel[w]

\* A watcher that waits with no notification outstanding has handed its
\* product the current version of every part, except those changed without
\* a notification it was promised (before its trigger was in place, or without
\* DDL), or before its connection was lost or its last introspection failed.
\* LISTEN before install, drain before read: watch.go:50-67 and 92-106.
SettledIsCurrent ==
  \A w \in Watchers :
    pc[w] = "wait" /\ queue[w] = 0 /\ Sole(w)
      => \A p \in Parts \ waived[w] : held[w][p] = db[p]

\* A polling watcher's baseline is what its product works with, part by part
\* and up to hash equality, whatever order reads, commits and failed ticks
\* come in: drift is never folded into the baseline unseen (watch.go:119-144).
BaselineIsHeld ==
  \A w \in Watchers :
    last[w] # NoCatalog
      => \A p \in Parts \ waived[w] : Content[held[w][p]] = Content[last[w][p]]

Feed == INSTANCE SchemaFeed

\* OnChange never moves a product back to an older version of a part, nor to
\* one the database never had, though the reads of one introspection are torn.
FeedSpec == Feed!Spec

Current(w, p) == Content[held[w][p]] = Content[db[p]]

\* Drift that the code promises to announce reaches the product, unless the
\* promise is waived meanwhile or Run ends (watch.go:20-21).
DriftReachesProduct ==
  \A w \in Watchers, p \in Parts :
    (Sole(w) /\ pc[w] # "off" /\ p \notin waived[w] /\ ~Current(w, p))
      ~> (Current(w, p) \/ p \in waived[w] \/ pc[w] = "off")

\* "Watcher triggers OnChange whenever the database schema drifts"
\* (watch.go:20): a watcher that was notified of drift ends up handing it on,
\* or Run ends.
NotifiedDriftAnnounced ==
  \A w \in Watchers :
    (pc[w] = "drain" /\ held[w] # db) ~> (held[w] = db \/ pc[w] = "off")

\* Run never hangs: it gets past its start-up, in one of its two modes or with
\* an error, although it waits for two connections of a pool it shares, and it
\* returns after its context is cancelled, wherever it is at that time.
RunSettlesAndStops ==
  \A w \in Watchers :
    /\ (pc[w] = "acquire") ~> (pc[w] \in {"wait", "poll", "off"})
    /\ cancelled[w] ~> (pc[w] = "off")
=============================================================================
