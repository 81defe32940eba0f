----------------------------- MODULE WatchProofs -----------------------------
(***************************************************************************)
(* Proofs about module Watch, for any watchers, sessions, names, number of *)
(* queries and pool size.                                                  *)
(*                                                                         *)
(* SettledIsCurrent and BaselineIsHeld are not inductive.  Inv adds what   *)
(* Run's own steps rely on: locks of open transactions, what a finished    *)
(* installation guarantees (Installation), that a promise made when DDL    *)
(* runs is kept by a notification (Owing), where the introspection is      *)
(* (Progress), and what every point of Run knows of the parts not waived   *)
(* (Knowing).                                                              *)
(***************************************************************************)
EXTENDS Watch, TLAPS

Reading == {"read", "pread"}
Polling == {"poll", "pread"}
Starting == {"acquire", "listen", "mkfn", "mktrig"}

Locking ==
  \A s \in Sessions : \A p \in txn[s].writes :
    /\ db[p] < MaxVersion
    /\ \A t \in Sessions \ {s} : p \notin txn[t].writes

Installation(w) ==
  /\ pc[w] # "off" => Accepted(w)
  /\ installed[w] => listening[w] /\ pc[w] \in {"wait", "drain", "read"}
  /\ Sole(w) /\ (installed[w] \/ pc[w] = "mktrig")
       => fn[NameOf(w)] = Channel[w]
  /\ installed[w] => NameOf(w) \in trig

Owing ==
  \A s \in Sessions : \A w \in txn[s].owed :
    Sole(w) => Channel[w] \in txn[s].notes

Progress(w) ==
  /\ pc[w] \notin Reading => at[w] = 1
  /\ pc[w] \notin Polling => last[w] = NoCatalog

\* What product w may be told is between what it has and what there is.
Feeding(w, p) ==
  /\ held[w][p] <= db[p]
  /\ p < at[w] => held[w][p] <= cat[w][p] /\ cat[w][p] <= db[p]
  /\ last[w] # NoCatalog => /\ held[w][p] <= last[w][p]
                            /\ last[w][p] <= db[p]
                            /\ p < at[w] => last[w][p] <= cat[w][p]

Knowing(w, p) ==
  p \notin waived[w] =>
    /\ pc[w] \in Starting => held[w][p] = db[p]
    /\ pc[w] = "wait" => queue[w] > 0 \/ held[w][p] = db[p]
    /\ pc[w] = "read" /\ p < at[w] => queue[w] > 0 \/ cat[w][p] = db[p]

Baseline(w, p) ==
  p \notin waived[w] =>
    /\ pc[w] \in Starting => held[w][p] = db[p]
    /\ pc[w] \in Polling /\ last[w] = NoCatalog
         => /\ held[w][p] = db[p]
            /\ p < at[w] => cat[w][p] = db[p]
    /\ last[w] # NoCatalog => Content[held[w][p]] = Content[last[w][p]]

Inv ==
  /\ TypeOK
  /\ Locking
  /\ Owing
  /\ \A w \in Watchers :
       /\ Installation(w)
       /\ Progress(w)
       /\ \A p \in Parts : /\ Feeding(w, p)
                           /\ Sole(w) => Knowing(w, p)
                           /\ Baseline(w, p)

\* The facts about names and constants the steps use (watch.go:41-49).
LEMMA NameType == ASSUME NEW w \in Watchers
                  PROVE  Channel[w] \in Channels /\ NameOf(w) \in Names
  BY ConstantsAssumption DEF NameOf

\* The catalog an introspection starts from is a catalog (introspect.go:20-25).
LEMMA BlankType == Blank \in Catalogs
  BY ConstantsAssumption DEF Blank, Catalogs, Versions

\* Run's return (watch.go:37-68, its deferred Release) keeps the types.
LEMMA EndTypes == ASSUME TypeOK, NEW w \in Watchers, End(w)
                  PROVE  TypeOK'
<1> USE ConstantsAssumption, BlankType DEF TypeOK
<1>1. pc' \in [Watchers -> Labels]
  BY DEF End, Labels
<1>2. /\ listening' \in [Watchers -> BOOLEAN]
      /\ installed' \in [Watchers -> BOOLEAN]
  BY DEF End
<1>3. queue' \in [Watchers -> 0 .. MaxQueue]
  BY DEF End
<1>4. at' \in [Watchers -> 1 .. NumParts + 1]
  BY DEF End
<1>5. /\ cat' \in [Watchers -> Catalogs]
      /\ last' \in [Watchers -> Catalogs \cup {NoCatalog}]
  BY DEF End
<1>6. waived' \in [Watchers -> SUBSET Parts]
  BY DEF End
<1>7. QED
  BY <1>1, <1>2, <1>3, <1>4, <1>5, <1>6 DEF End

\* Every step keeps the types; a commit needs the version bound that its
\* locks preserve (watch.go:37-154).
LEMMA TypePreserved ==
  TypeOK /\ Locking /\ [Next]_vars => TypeOK'
<1> SUFFICES ASSUME TypeOK, Locking, [Next]_vars
             PROVE  TypeOK'
  OBVIOUS
<1> USE ConstantsAssumption DEF TypeOK, Txns
<1>1. CASE UNCHANGED vars
  BY <1>1 DEF vars
<1>2. ASSUME NEW s \in Sessions, NEW P \in SUBSET Parts, ExecDDL(s, P)
      PROVE  TypeOK'
  <2>1. txn' \in [Sessions -> Txns]
    BY <1>2 DEF ExecDDL, Fired
  <2>2. QED
    BY <1>2, <2>1 DEF ExecDDL, readVars
<1>3. ASSUME NEW s \in Sessions, Commit(s)
      PROVE  TypeOK'
  <2>1. db' \in Catalogs
    BY <1>3 DEF Commit, Change, Locking, Catalogs, Versions
  <2>2. txn' \in [Sessions -> Txns]
    BY <1>3 DEF Commit, Idle
  <2>3. queue' \in [Watchers -> 0 .. MaxQueue]
    BY <1>3 DEF Commit, Notify
  <2>4. waived' \in [Watchers -> SUBSET Parts]
    BY <1>3 DEF Commit, Change
  <2>5. QED
    BY <1>3, <2>1, <2>2, <2>3, <2>4 DEF Commit, readVars
<1>4. ASSUME NEW s \in Sessions, Rollback(s)
      PROVE  TypeOK'
  <2>1. txn' \in [Sessions -> Txns]
    BY <1>4 DEF Rollback, Idle
  <2>2. QED
    BY <1>4, <2>1 DEF Rollback, readVars
<1>5. ASSUME NEW p \in SilentParts, ChangeSilently(p)
      PROVE  TypeOK'
  <2>1. db' \in Catalogs
    BY <1>5 DEF ChangeSilently, Change, Locking, Catalogs, Versions
  <2>2. waived' \in [Watchers -> SUBSET Parts]
    BY <1>5 DEF ChangeSilently, Change
  <2>3. QED
    BY <1>5, <2>1, <2>2 DEF ChangeSilently, readVars
<1>6. ASSUME NEW w \in Watchers, Boot(w)
      PROVE  TypeOK'
  <2>1. held' \in [Watchers -> Catalogs]
    BY <1>6 DEF Boot
  <2>2. pc' \in [Watchers -> Labels]
    BY <1>6 DEF Boot, Labels
  <2>3. cancelled' \in [Watchers -> BOOLEAN]
    BY <1>6 DEF Boot
  <2>4. QED
    BY <1>6, <2>1, <2>2, <2>3 DEF Boot
<1>7. ASSUME NEW w \in Watchers, Cancel(w)
      PROVE  TypeOK'
  <2>1. cancelled' \in [Watchers -> BOOLEAN]
    BY <1>7 DEF Cancel
  <2>2. QED
    BY <1>7, <2>1 DEF Cancel, readVars
<1>8. ASSUME NEW w \in Watchers, Borrow(w)
      PROVE  TypeOK'
  <2>1. busy' \in [Watchers -> 0 .. PoolSize]
    BY <1>8 DEF Borrow, Free, InUse, Holding
  <2>2. QED
    BY <1>8, <2>1 DEF Borrow, readVars
<1>9. ASSUME NEW w \in Watchers, GiveBack(w)
      PROVE  TypeOK'
  <2>1. busy' \in [Watchers -> 0 .. PoolSize]
    BY <1>9 DEF GiveBack
  <2>2. QED
    BY <1>9, <2>1 DEF GiveBack, readVars
<1>10. ASSUME NEW w \in Watchers, DropConn(w)
      PROVE  TypeOK'
  <2>1. listening' \in [Watchers -> BOOLEAN]
    BY <1>10 DEF DropConn
  <2>2. queue' \in [Watchers -> 0 .. MaxQueue]
    BY <1>10 DEF DropConn
  <2>3. installed' \in [Watchers -> BOOLEAN]
    BY <1>10 DEF DropConn
  <2>4. waived' \in [Watchers -> SUBSET Parts]
    BY <1>10 DEF DropConn
  <2>5. QED
    BY <1>10, <2>1, <2>2, <2>3, <2>4 DEF DropConn, readVars
<1>11. ASSUME NEW w \in Watchers, Crash(w)
      PROVE  TypeOK'
  BY <1>11, EndTypes DEF Crash
<1>12. ASSUME NEW w \in Watchers, Acquire(w)
      PROVE  TypeOK'
  <2>1. pc' \in [Watchers -> Labels]
    BY <1>12 DEF Acquire, Goto, Labels
  <2>2. QED
    BY <1>12, <2>1 DEF Acquire, readVars
<1>13. ASSUME NEW w \in Watchers, Listen(w)
      PROVE  TypeOK'
  <2>1. pc' \in [Watchers -> Labels]
    BY <1>13 DEF Listen, Goto, Labels
  <2>2. listening' \in [Watchers -> BOOLEAN]
    BY <1>13 DEF Listen
  <2>3. QED
    BY <1>13, <2>1, <2>2 DEF Listen, readVars
<1>14. ASSUME NEW w \in Watchers, StartFails(w)
      PROVE  TypeOK'
  BY <1>14, EndTypes DEF StartFails
<1>15. ASSUME NEW w \in Watchers, CreateFunction(w)
      PROVE  TypeOK'
  <2>1. fn' \in [Names -> Channels \cup {NoName}]
    BY <1>15, NameType DEF CreateFunction, ReplaceFunction, MakeTrigger
  <2>2. queue' \in [Watchers -> 0 .. MaxQueue]
    BY <1>15, NameType DEF CreateFunction, ReplaceFunction, Notify
  <2>3. pc' \in [Watchers -> Labels]
    BY <1>15 DEF CreateFunction, Goto, Labels
  <2>4. QED
    BY <1>15, <2>1, <2>2, <2>3 DEF CreateFunction, ReplaceFunction, readVars
<1>16. ASSUME NEW w \in Watchers, CreateTrigger(w)
      PROVE  TypeOK'
  <2>1. trig' \subseteq Names
    BY <1>16, NameType DEF CreateTrigger, ReplaceFunction, MakeTrigger
  <2>2. pc' \in [Watchers -> Labels]
    BY <1>16 DEF CreateTrigger, Goto, Labels
  <2>3. installed' \in [Watchers -> BOOLEAN]
    BY <1>16 DEF CreateTrigger
  <2>4. QED
    BY <1>16, <2>1, <2>2, <2>3 DEF CreateTrigger, MakeTrigger, readVars
<1>17. ASSUME NEW w \in Watchers, InstallFails(w)
      PROVE  TypeOK'
  <2>1. fn' \in [Names -> Channels \cup {NoName}]
    BY <1>17, NameType DEF InstallFails, ReplaceFunction, MakeTrigger
  <2>2. trig' \subseteq Names
    BY <1>17, NameType DEF InstallFails, ReplaceFunction, MakeTrigger
  <2>3. queue' \in [Watchers -> 0 .. MaxQueue]
    BY <1>17, NameType DEF InstallFails, ReplaceFunction, MakeTrigger, Notify
  <2>4. pc' \in [Watchers -> Labels]
    BY <1>17 DEF InstallFails, Goto, Labels
  <2>5. QED
    BY <1>17, <2>1, <2>2, <2>3, <2>4 DEF InstallFails, readVars
<1>18. ASSUME NEW w \in Watchers, Notified(w)
      PROVE  TypeOK'
  <2>1. queue' \in [Watchers -> 0 .. MaxQueue]
    BY <1>18 DEF Notified
  <2>2. pc' \in [Watchers -> Labels]
    BY <1>18 DEF Notified, Goto, Labels
  <2>3. QED
    BY <1>18, <2>1, <2>2 DEF Notified, readVars
<1>19. ASSUME NEW w \in Watchers, WaitFails(w)
      PROVE  TypeOK'
  BY <1>19, EndTypes DEF WaitFails
<1>20. ASSUME NEW w \in Watchers, Drain(w)
      PROVE  TypeOK'
  <2>1. queue' \in [Watchers -> 0 .. MaxQueue]
    BY <1>20 DEF Drain
  <2>2. QED
    BY <1>20, <2>1 DEF Drain, readVars
<1>21. ASSUME NEW w \in Watchers, Drained(w)
      PROVE  TypeOK'
  <2>1. pc' \in [Watchers -> Labels]
    BY <1>21 DEF Drained, Goto, Labels
  <2>2. QED
    BY <1>21, <2>1 DEF Drained, readVars
<1>22. ASSUME NEW w \in Watchers, Rebuild(w)
      PROVE  TypeOK'
  <2>1. held' \in [Watchers -> Catalogs]
    BY <1>22 DEF Rebuild
  <2>2. pc' \in [Watchers -> Labels]
    BY <1>22 DEF Rebuild, Goto, Labels
  <2>3. at' \in [Watchers -> 1 .. NumParts + 1]
    BY <1>22 DEF Rebuild, Reset, Parts
  <2>4. cat' \in [Watchers -> Catalogs]
    BY <1>22, BlankType DEF Rebuild, Reset
  <2>5. QED
    BY <1>22, <2>1, <2>2, <2>3, <2>4 DEF Rebuild, Reset
<1>23. ASSUME NEW w \in Watchers, ReadFails(w)
      PROVE  TypeOK'
  <2>1. pc' \in [Watchers -> Labels]
    BY <1>23 DEF ReadFails, Goto, Labels
  <2>2. at' \in [Watchers -> 1 .. NumParts + 1]
    BY <1>23 DEF ReadFails, Reset, Parts
  <2>3. cat' \in [Watchers -> Catalogs]
    BY <1>23, BlankType DEF ReadFails, Reset
  <2>4. waived' \in [Watchers -> SUBSET Parts]
    BY <1>23 DEF ReadFails
  <2>5. QED
    BY <1>23, <2>1, <2>2, <2>3, <2>4 DEF ReadFails, Reset
<1>24. ASSUME NEW w \in Watchers, NEW p \in Parts, ReadPart(w, p)
      PROVE  TypeOK'
  <2>1. cat' \in [Watchers -> Catalogs]
    BY <1>24 DEF ReadPart, Catalogs
  <2>2. at' \in [Watchers -> 1 .. NumParts + 1]
    BY <1>24 DEF ReadPart, Reset, Parts
  <2>3. waived' \in [Watchers -> SUBSET Parts]
    BY <1>24 DEF ReadPart
  <2>4. QED
    BY <1>24, <2>1, <2>2, <2>3 DEF ReadPart
<1>25. ASSUME NEW w \in Watchers, Tick(w)
      PROVE  TypeOK'
  <2>1. pc' \in [Watchers -> Labels]
    BY <1>25 DEF Tick, Goto, Labels
  <2>2. QED
    BY <1>25, <2>1 DEF Tick, readVars
<1>26. ASSUME NEW w \in Watchers, StopPolling(w)
      PROVE  TypeOK'
  BY <1>26, EndTypes DEF StopPolling
<1>27. ASSUME NEW w \in Watchers, PollFails(w)
      PROVE  TypeOK'
  <2>1. pc' \in [Watchers -> Labels]
    BY <1>27 DEF PollFails, Goto, Labels
  <2>2. at' \in [Watchers -> 1 .. NumParts + 1]
    BY <1>27 DEF PollFails, Reset, Parts
  <2>3. cat' \in [Watchers -> Catalogs]
    BY <1>27, BlankType DEF PollFails, Reset
  <2>4. QED
    BY <1>27, <2>1, <2>2, <2>3 DEF PollFails, Reset
<1>28. ASSUME NEW w \in Watchers, Compare(w)
      PROVE  TypeOK'
  <2>1. held' \in [Watchers -> Catalogs]
    BY <1>28 DEF Compare
  <2>2. waived' \in [Watchers -> SUBSET Parts]
    BY <1>28 DEF Compare
  <2>3. last' \in [Watchers -> Catalogs \cup {NoCatalog}]
    BY <1>28 DEF Compare
  <2>4. pc' \in [Watchers -> Labels]
    BY <1>28 DEF Compare, Goto, Labels
  <2>5. at' \in [Watchers -> 1 .. NumParts + 1]
    BY <1>28 DEF Compare, Reset, Parts
  <2>6. cat' \in [Watchers -> Catalogs]
    BY <1>28, BlankType DEF Compare, Reset
  <2>7. QED
    BY <1>28, <2>1, <2>2, <2>3, <2>4, <2>5, <2>6 DEF Compare, Reset
<1>29. QED
  BY <1>1, <1>2, <1>3, <1>4, <1>5, <1>6, <1>7, <1>8, <1>9, <1>10, <1>11,
     <1>12, <1>13, <1>14, <1>15, <1>16, <1>17, <1>18, <1>19, <1>20, <1>21,
     <1>22, <1>23, <1>24, <1>25, <1>26, <1>27, <1>28 DEF Next, Database,
     Product, Run

\* No step of a watcher or of its product touches the schema or the open
\* transactions (watch.go:37-154 write fn and trig only).
LEMMA RunFrame == ASSUME NEW w \in Watchers, Product(w) \/ Run(w)
                  PROVE  UNCHANGED <<db, txn>>
  BY DEF Product, Boot, Cancel, Borrow, GiveBack, DropConn, Crash, End, Run,
         Acquire, Listen, StartFails, CreateFunction, CreateTrigger,
         InstallFails, Notified, WaitFails, Drain, Drained, Rebuild,
         ReadFails, ReadPart, Tick, StopPolling, PollFails, Compare, readVars

\* Transactions in progress hold disjoint parts, each with room for one more
\* version, whatever DDL the watched database runs (watch.go:28-31).
LEMMA LockingPreserved == TypeOK /\ Locking /\ [Next]_vars => Locking'
<1> SUFFICES ASSUME TypeOK, Locking, [Next]_vars
             PROVE  Locking'
  OBVIOUS
<1> USE DEF TypeOK, Txns, Locking, Catalogs, Versions
<1>1. CASE UNCHANGED vars
  BY <1>1 DEF vars
<1>2. ASSUME NEW s \in Sessions, NEW P \in SUBSET Parts, ExecDDL(s, P)
      PROVE  Locking'
  BY <1>2 DEF ExecDDL, Locked
<1>3. ASSUME NEW s \in Sessions, Commit(s)
      PROVE  Locking'
  BY <1>3 DEF Commit, Change, Idle
<1>4. ASSUME NEW s \in Sessions, Rollback(s)
      PROVE  Locking'
  BY <1>4 DEF Rollback, Idle
<1>5. ASSUME NEW p \in SilentParts, ChangeSilently(p)
      PROVE  Locking'
  BY <1>5, ConstantsAssumption DEF ChangeSilently, Change, Locked
<1>6. ASSUME NEW w \in Watchers, Product(w) \/ Run(w)
      PROVE  Locking'
  BY <1>6, RunFrame
<1>7. QED
  BY <1>1, <1>2, <1>3, <1>4, <1>5, <1>6 DEF Next, Database

\* What a watcher takes for installed is: no other watcher undoes it (watch.go:72-90).
LEMMA InstallationPreserved ==
  ASSUME Inv, [Next]_vars, NEW v \in Watchers
  PROVE  Installation(v)'
<1> USE NameType DEF Inv, TypeOK, Installation, Sole
<1>1. CASE UNCHANGED <<pc, installed, listening, fn, trig>>
  BY <1>1 DEF Accepted, NameOf
<1>2. ASSUME NEW w \in Watchers, Boot(w)
      PROVE  Installation(v)'
  BY <1>2 DEF Boot
<1>3. ASSUME NEW w \in Watchers, DropConn(w)
      PROVE  Installation(v)'
  BY <1>3 DEF DropConn
<1>4. ASSUME NEW w \in Watchers, Crash(w)
      PROVE  Installation(v)'
  BY <1>4 DEF Crash, End
<1>5. ASSUME NEW w \in Watchers, Acquire(w)
      PROVE  Installation(v)'
  BY <1>5 DEF Acquire, Goto
<1>6. ASSUME NEW w \in Watchers, Listen(w)
      PROVE  Installation(v)'
  BY <1>6 DEF Listen, Goto
<1>7. ASSUME NEW w \in Watchers, StartFails(w)
      PROVE  Installation(v)'
  BY <1>7 DEF StartFails, End
<1>8. ASSUME NEW w \in Watchers, CreateFunction(w)
      PROVE  Installation(v)'
  BY <1>8 DEF CreateFunction, ReplaceFunction, Goto
<1>9. ASSUME NEW w \in Watchers, CreateTrigger(w)
      PROVE  Installation(v)'
  BY <1>9 DEF CreateTrigger, MakeTrigger, Goto
<1>10. ASSUME NEW w \in Watchers, InstallFails(w)
      PROVE  Installation(v)'
  BY <1>10 DEF InstallFails, ReplaceFunction, MakeTrigger, Goto
<1>11. ASSUME NEW w \in Watchers, Notified(w)
      PROVE  Installation(v)'
  BY <1>11 DEF Notified, Goto
<1>12. ASSUME NEW w \in Watchers, WaitFails(w)
      PROVE  Installation(v)'
  BY <1>12 DEF WaitFails, End
<1>13. ASSUME NEW w \in Watchers, Drained(w)
      PROVE  Installation(v)'
  BY <1>13 DEF Drained, Goto
<1>14. ASSUME NEW w \in Watchers, Rebuild(w)
      PROVE  Installation(v)'
  BY <1>14 DEF Rebuild, Goto
<1>15. ASSUME NEW w \in Watchers, ReadFails(w)
      PROVE  Installation(v)'
  BY <1>15 DEF ReadFails, Goto
<1>16. ASSUME NEW w \in Watchers, Tick(w)
      PROVE  Installation(v)'
  BY <1>16 DEF Tick, Goto
<1>17. ASSUME NEW w \in Watchers, StopPolling(w)
      PROVE  Installation(v)'
  BY <1>17 DEF StopPolling, End
<1>18. ASSUME NEW w \in Watchers, PollFails(w)
      PROVE  Installation(v)'
  BY <1>18 DEF PollFails, Goto
<1>19. ASSUME NEW w \in Watchers, Compare(w)
      PROVE  Installation(v)'
  BY <1>19 DEF Compare, Goto
<1>20. QED
  BY <1>1, <1>2, <1>3, <1>4, <1>5, <1>6, <1>7, <1>8, <1>9, <1>10, <1>11,
     <1>12, <1>13, <1>14, <1>15, <1>16, <1>17, <1>18, <1>19 DEF Next,
     Database, Product, Run, vars, ExecDDL, Commit, Rollback, ChangeSilently,
     Cancel, Borrow, GiveBack, Drain, ReadPart

\* Nothing of an introspection or of a poll survives it (watch.go:119-154).
LEMMA ProgressPreserved ==
  ASSUME Inv, [Next]_vars, NEW v \in Watchers
  PROVE  Progress(v)'
<1> USE DEF Inv, TypeOK, Progress, Reading, Polling
<1>1. CASE UNCHANGED <<pc, at, last>>
  BY <1>1
<1>2. ASSUME NEW w \in Watchers, Boot(w)
      PROVE  Progress(v)'
  BY <1>2 DEF Boot
<1>3. ASSUME NEW w \in Watchers, Crash(w)
      PROVE  Progress(v)'
  BY <1>3 DEF Crash, End
<1>4. ASSUME NEW w \in Watchers, Acquire(w)
      PROVE  Progress(v)'
  BY <1>4 DEF Acquire, Goto, readVars
<1>5. ASSUME NEW w \in Watchers, Listen(w)
      PROVE  Progress(v)'
  BY <1>5 DEF Listen, Goto, readVars
<1>6. ASSUME NEW w \in Watchers, StartFails(w)
      PROVE  Progress(v)'
  BY <1>6 DEF StartFails, End
<1>7. ASSUME NEW w \in Watchers, CreateFunction(w)
      PROVE  Progress(v)'
  BY <1>7 DEF CreateFunction, Goto, readVars
<1>8. ASSUME NEW w \in Watchers, CreateTrigger(w)
      PROVE  Progress(v)'
  BY <1>8 DEF CreateTrigger, Goto, readVars
<1>9. ASSUME NEW w \in Watchers, InstallFails(w)
      PROVE  Progress(v)'
  BY <1>9 DEF InstallFails, Goto, readVars
<1>10. ASSUME NEW w \in Watchers, Notified(w)
      PROVE  Progress(v)'
  BY <1>10 DEF Notified, Goto, readVars
<1>11. ASSUME NEW w \in Watchers, WaitFails(w)
      PROVE  Progress(v)'
  BY <1>11 DEF WaitFails, End
<1>12. ASSUME NEW w \in Watchers, Drained(w)
      PROVE  Progress(v)'
  BY <1>12 DEF Drained, Goto, readVars
<1>13. ASSUME NEW w \in Watchers, Rebuild(w)
      PROVE  Progress(v)'
  BY <1>13 DEF Rebuild, Goto, Reset
<1>14. ASSUME NEW w \in Watchers, ReadFails(w)
      PROVE  Progress(v)'
  BY <1>14 DEF ReadFails, Goto, Reset
<1>15. ASSUME NEW w \in Watchers, NEW p \in Parts, ReadPart(w, p)
      PROVE  Progress(v)'
  BY <1>15 DEF ReadPart
<1>16. ASSUME NEW w \in Watchers, Tick(w)
      PROVE  Progress(v)'
  BY <1>16 DEF Tick, Goto, readVars
<1>17. ASSUME NEW w \in Watchers, StopPolling(w)
      PROVE  Progress(v)'
  BY <1>17 DEF StopPolling, End
<1>18. ASSUME NEW w \in Watchers, PollFails(w)
      PROVE  Progress(v)'
  BY <1>18 DEF PollFails, Goto, Reset
<1>19. ASSUME NEW w \in Watchers, Compare(w)
      PROVE  Progress(v)'
  BY <1>19 DEF Compare, Goto, Reset
<1>20. QED
  BY <1>1, <1>2, <1>3, <1>4, <1>5, <1>6, <1>7, <1>8, <1>9, <1>10, <1>11,
     <1>12, <1>13, <1>14, <1>15, <1>16, <1>17, <1>18, <1>19 DEF Next,
     Database, Product, Run, vars, ExecDDL, Commit, Rollback, ChangeSilently,
     Cancel, Borrow, GiveBack, DropConn, Drain, readVars

\* A transaction whose DDL ran with w's trigger in place will notify w (watch.go:50-52).
LEMMA OwingPreserved == Inv /\ [Next]_vars => Owing'
<1> SUFFICES ASSUME Inv, [Next]_vars, NEW t \in Sessions,
                    NEW v \in txn'[t].owed, Sole(v)
             PROVE  Channel[v] \in txn'[t].notes
  BY DEF Owing, Sole
<1> USE DEF Inv, TypeOK, Txns, Owing
<1>1. CASE UNCHANGED txn
  BY <1>1
<1>2. ASSUME NEW s \in Sessions, NEW P \in SUBSET Parts, ExecDDL(s, P)
      PROVE  Channel[v] \in txn'[t].notes
  <2>1. /\ txn'[s].notes = txn[s].notes \cup Fired(fn)
        /\ txn'[s].owed = txn[s].owed \cup {w \in Watchers : installed[w]}
        /\ t # s => txn'[t] = txn[t]
    BY <1>2 DEF ExecDDL
  <2>2. CASE v \in txn[t].owed
    <3>1. Channel[v] \in txn[t].notes
      BY <2>2
    <3>2. QED
      BY <2>1, <3>1
  <2>3. CASE t = s /\ v \in Watchers /\ installed[v]
    <3>1. fn[NameOf(v)] = Channel[v] /\ NameOf(v) \in trig
      BY <2>3 DEF Installation
    <3>2. Channel[v] \in Fired(fn)
      BY <2>3, <3>1, NameType, ConstantsAssumption DEF Fired
    <3>3. QED
      BY <2>1, <2>3, <3>2
  <2>4. QED
    BY <2>1, <2>2, <2>3
<1>3. ASSUME NEW s \in Sessions, Commit(s) \/ Rollback(s)
      PROVE  Channel[v] \in txn'[t].notes
  BY <1>3 DEF Commit, Rollback, Idle
<1>4. QED
  BY <1>1, <1>2, <1>3, RunFrame DEF Next, Database, ChangeSilently, vars

\* What the types say about one part of one watcher (watch.go:37-154).
LEMMA Numbers == ASSUME TypeOK, NEW w \in Watchers, NEW p \in Parts
                 PROVE  /\ db[p] \in Nat /\ held[w][p] \in Nat /\ cat[w][p] \in Nat
                        /\ last[w] # NoCatalog => last[w][p] \in Nat
                        /\ at[w] \in Nat /\ queue[w] \in Nat
                        /\ p \in Nat /\ 1 <= p
                        /\ NumParts \in Nat /\ p <= NumParts
                        /\ cat[w] # NoCatalog
<1>1. cat[w] # NoCatalog
  BY ConstantsAssumption DEF TypeOK
<1>2. \A c \in Catalogs : c[p] \in Nat
  BY ConstantsAssumption DEF Catalogs, Versions
<1>3. db \in Catalogs /\ held[w] \in Catalogs /\ cat[w] \in Catalogs
  BY DEF TypeOK
<1>4. last[w] # NoCatalog => last[w] \in Catalogs
  BY DEF TypeOK
<1>5. at[w] \in Nat /\ queue[w] \in Nat
  BY ConstantsAssumption DEF TypeOK
<1>6. p \in Nat /\ 1 <= p /\ NumParts \in Nat /\ p <= NumParts
  BY ConstantsAssumption DEF Parts
<1>7. QED
  BY <1>1, <1>2, <1>3, <1>4, <1>5, <1>6

\* What a step of w or of its product leaves of another watcher v
\* (watch.go:37-68).
LEMMA Elsewhere ==
  ASSUME TypeOK, NEW w \in Watchers, NEW v \in Watchers \ {w},
         Product(w) \/ Run(w)
  PROVE  /\ pc'[v] = pc[v] /\ at'[v] = at[v] /\ cat'[v] = cat[v]
         /\ last'[v] = last[v] /\ held'[v] = held[v] /\ waived'[v] = waived[v]
         /\ queue[v] > 0 => queue'[v] > 0
<1> USE DEF TypeOK
<1>1. CASE Product(w)
  BY <1>1 DEF Product, Boot, Cancel, Borrow, GiveBack, DropConn, Crash, End,
              readVars
<1>2. CASE Acquire(w) \/ Listen(w) \/ StartFails(w)
  BY <1>2 DEF Acquire, Listen, StartFails, End, Goto, readVars
<1>3. CASE CreateFunction(w) \/ CreateTrigger(w)
  BY <1>3 DEF CreateFunction, CreateTrigger, ReplaceFunction, MakeTrigger,
              Notify, Goto, readVars
<1>4. CASE InstallFails(w)
  BY <1>4 DEF InstallFails, ReplaceFunction, MakeTrigger, Notify, Goto, readVars
<1>5. CASE Notified(w) \/ WaitFails(w) \/ Drain(w) \/ Drained(w)
  BY <1>5 DEF Notified, WaitFails, Drain, Drained, End, Goto, readVars
<1>6. CASE Rebuild(w) \/ ReadFails(w)
  BY <1>6 DEF Rebuild, ReadFails, Goto, Reset
<1>7. CASE \E p \in Parts : ReadPart(w, p)
  BY <1>7 DEF ReadPart
<1>8. CASE Tick(w) \/ StopPolling(w) \/ PollFails(w) \/ Compare(w)
  BY <1>8 DEF Tick, StopPolling, PollFails, Compare, End, Goto, Reset, readVars
<1>9. QED
  BY <1>1, <1>2, <1>3, <1>4, <1>5, <1>6, <1>7, <1>8 DEF Run

\* A watcher with its trigger installed is inside listen (watch.go:92-106).
LEMMA InstalledWhere == ASSUME Inv, NEW w \in Watchers, installed[w]
                        PROVE  pc[w] \in {"wait", "drain", "read"}
  BY DEF Inv, Installation

\* The commit of DDL that ran with v's trigger in place puts a notification on
\* v's connection (watch.go:50-52, 78).
LEMMA OwedNotified ==
  ASSUME Inv, NEW s \in Sessions, Commit(s), NEW v \in txn[s].owed,
         v \in Watchers, Sole(v), installed[v]
  PROVE  queue'[v] > 0
<1>1. Channel[v] \in txn[s].notes /\ listening[v]
  BY DEF Inv, Owing, Installation
<1>2. queue[v] \in 0 .. MaxQueue /\ MaxQueue \in Nat \ {0}
  BY ConstantsAssumption DEF Inv, TypeOK
<1>3. QED
  BY <1>1, <1>2 DEF Commit, Notify

\* No part of what is read, remembered or delivered goes back or is ahead (watch.go:137-153).
LEMMA FeedingPreserved ==
  ASSUME Inv, [Next]_vars, NEW v \in Watchers, NEW q \in Parts
  PROVE  Feeding(v, q)'
<1>1. /\ TypeOK /\ Progress(v) /\ Feeding(v, q)
      /\ db[q] \in Nat /\ held[v][q] \in Nat /\ cat[v][q] \in Nat
      /\ last[v] # NoCatalog => last[v][q] \in Nat
      /\ at[v] \in Nat /\ q \in Nat /\ 1 <= q
      /\ NumParts \in Nat /\ q <= NumParts
  BY Numbers DEF Inv
<1> USE <1>1 DEF Feeding, Progress, Reading, Polling, TypeOK
<1>2. ASSUME NEW s \in Sessions, Commit(s)
      PROVE  Feeding(v, q)'
  BY <1>2 DEF Commit, Change, readVars
<1>3. ASSUME NEW p \in SilentParts, ChangeSilently(p)
      PROVE  Feeding(v, q)'
  BY <1>3 DEF ChangeSilently, Change, readVars
<1>4. CASE Boot(v)
  BY <1>4 DEF Boot
<1>5. CASE Crash(v)
  BY <1>5 DEF Crash, End
<1>6. CASE Acquire(v)
  BY <1>6 DEF Acquire, Goto, readVars
<1>7. CASE Listen(v)
  BY <1>7 DEF Listen, Goto, readVars
<1>8. CASE StartFails(v)
  BY <1>8 DEF StartFails, End
<1>9. CASE CreateFunction(v)
  BY <1>9 DEF CreateFunction, Goto, readVars
<1>10. CASE CreateTrigger(v)
  BY <1>10 DEF CreateTrigger, Goto, readVars
<1>11. CASE InstallFails(v)
  BY <1>11 DEF InstallFails, Goto, readVars
<1>12. CASE Notified(v)
  BY <1>12 DEF Notified, Goto, readVars
<1>13. CASE WaitFails(v)
  BY <1>13 DEF WaitFails, End
<1>14. CASE Drained(v)
  BY <1>14 DEF Drained, Goto, readVars
<1>15. CASE Rebuild(v)
  BY <1>15 DEF Rebuild, Goto, Reset, Catalogs
<1>16. CASE ReadFails(v)
  BY <1>16 DEF ReadFails, Goto, Reset
<1>17. ASSUME NEW p \in Parts, ReadPart(v, p)
      PROVE  Feeding(v, q)'
  BY <1>17 DEF ReadPart, Catalogs
<1>18. CASE Tick(v)
  BY <1>18 DEF Tick, Goto, readVars
<1>19. CASE StopPolling(v)
  BY <1>19 DEF StopPolling, End
<1>20. CASE PollFails(v)
  BY <1>20 DEF PollFails, Goto, Reset
<1>21. CASE Compare(v)
  BY <1>21 DEF Compare, Goto, Reset, Catalogs
<1>22. ASSUME NEW w \in Watchers \ {v}, Product(w) \/ Run(w)
      PROVE  Feeding(v, q)'
  BY <1>22, Elsewhere, RunFrame
<1>23. CASE UNCHANGED <<db, pc, at, cat, last, held>>
  BY <1>23
<1> HIDE <1>1 DEF Feeding, Progress, Reading, Polling, TypeOK
<1>24. CASE Product(v)
  BY <1>24, <1>4, <1>5, <1>23 DEF Product, Cancel, Borrow, GiveBack,
     DropConn, readVars
<1>25. CASE Run(v)
  BY <1>25, <1>6, <1>7, <1>8, <1>9, <1>10, <1>11, <1>12, <1>13, <1>14,
     <1>15, <1>16, <1>17, <1>18, <1>19, <1>20, <1>21, <1>23 DEF Run, Drain,
     readVars
<1>26. CASE Database
  BY <1>26, <1>2, <1>3, <1>23 DEF Database, ExecDDL, Rollback, readVars
<1>27. CASE UNCHANGED vars
  BY <1>27, <1>23 DEF vars
<1>28. QED
  BY <1>22, <1>24, <1>25, <1>26, <1>27 DEF Next

\* A change of a part v is promised reaches its queue; what is read after
\* the queue was emptied is current (watch.go:92-117).
LEMMA KnowingPreserved ==
  ASSUME Inv, [Next]_vars, NEW v \in Watchers, NEW q \in Parts, Sole(v)
  PROVE  Knowing(v, q)'
<1>1. /\ TypeOK /\ Progress(v) /\ Knowing(v, q)
      /\ installed[v] => pc[v] \in {"wait", "drain", "read"}
      /\ queue[v] \in Nat
      /\ q \in Nat /\ 1 <= q /\ at[v] \in Nat
      /\ NumParts \in Nat /\ q <= NumParts
  BY Numbers, InstalledWhere DEF Inv
<1> USE <1>1 DEF Knowing, Progress, Reading, Starting, TypeOK
<1>2. ASSUME NEW s \in Sessions, Commit(s)
      PROVE  Knowing(v, q)'
  <2>1. CASE v \in txn[s].owed /\ installed[v]
    BY <1>2, <2>1, OwedNotified DEF Commit, Change, readVars
  <2>2. CASE ~(v \in txn[s].owed /\ installed[v])
    BY <1>2, <2>2 DEF Commit, Change, Promised, Notify, readVars
  <2>3. QED
    BY <2>1, <2>2
<1>3. ASSUME NEW p \in SilentParts, ChangeSilently(p)
      PROVE  Knowing(v, q)'
  BY <1>3 DEF ChangeSilently, Change, Promised, readVars
<1>4. CASE Boot(v)
  BY <1>4 DEF Boot
<1>5. CASE DropConn(v)
  BY <1>5 DEF DropConn, readVars
<1>6. CASE Crash(v)
  BY <1>6 DEF Crash, End
<1>7. CASE Acquire(v)
  BY <1>7 DEF Acquire, Goto, readVars
<1>8. CASE Listen(v)
  BY <1>8 DEF Listen, Goto, readVars
<1>9. CASE StartFails(v)
  BY <1>9 DEF StartFails, End
<1>10. CASE CreateFunction(v)
  BY <1>10 DEF CreateFunction, Notify, ReplaceFunction, Goto, readVars
<1>11. CASE CreateTrigger(v)
  BY <1>11 DEF CreateTrigger, Goto, readVars
<1>12. CASE InstallFails(v)
  BY <1>12 DEF InstallFails, Notify, ReplaceFunction, MakeTrigger, Goto,
     readVars
<1>13. CASE Notified(v)
  BY <1>13 DEF Notified, Goto, readVars
<1>14. CASE WaitFails(v)
  BY <1>14 DEF WaitFails, End
<1>15. CASE Drain(v)
  BY <1>15 DEF Drain, readVars
<1>16. CASE Drained(v)
  BY <1>16 DEF Drained, Goto, readVars
<1>17. CASE Rebuild(v)
  BY <1>17 DEF Rebuild, Goto, Reset, Catalogs
<1>18. CASE ReadFails(v)
  BY <1>18 DEF ReadFails, Goto, Reset
<1>19. ASSUME NEW p \in Parts, ReadPart(v, p)
      PROVE  Knowing(v, q)'
  BY <1>19 DEF ReadPart, Catalogs
<1>20. CASE Tick(v)
  BY <1>20 DEF Tick, Goto, readVars
<1>21. CASE StopPolling(v)
  BY <1>21 DEF StopPolling, End
<1>22. CASE PollFails(v)
  BY <1>22 DEF PollFails, Goto, Reset
<1>23. CASE Compare(v)
  BY <1>23 DEF Compare, Goto, Reset
<1>24. ASSUME NEW w \in Watchers \ {v}, Product(w) \/ Run(w)
      PROVE  Knowing(v, q)'
  BY <1>24, Elsewhere, RunFrame
<1>25. CASE UNCHANGED <<db, pc, queue, at, cat, held, waived>>
  BY <1>25
<1> HIDE <1>1 DEF Knowing, Progress, Reading, Starting, TypeOK
<1>26. CASE Product(v)
  BY <1>26, <1>4, <1>5, <1>6, <1>25 DEF Product, Cancel, Borrow, GiveBack,
     readVars
<1>27. CASE Run(v)
  BY <1>27, <1>7, <1>8, <1>9, <1>10, <1>11, <1>12, <1>13, <1>14, <1>15,
     <1>16, <1>17, <1>18, <1>19, <1>20, <1>21, <1>22, <1>23 DEF Run
<1>28. CASE Database
  BY <1>28, <1>2, <1>3, <1>25 DEF Database, ExecDDL, Rollback, readVars
<1>29. CASE UNCHANGED vars
  BY <1>29, <1>25 DEF vars
<1>30. QED
  BY <1>24, <1>26, <1>27, <1>28, <1>29 DEF Next

\* A polling watcher's baseline and its product's catalog agree (watch.go:137-141).
LEMMA BaselinePreserved ==
  ASSUME Inv, [Next]_vars, NEW v \in Watchers, NEW q \in Parts
  PROVE  Baseline(v, q)'
<1>1. /\ TypeOK /\ Progress(v) /\ Baseline(v, q)
      /\ installed[v] => pc[v] \in {"wait", "drain", "read"}
      /\ cat[v] # NoCatalog
      /\ q \in Nat /\ 1 <= q /\ at[v] \in Nat
      /\ NumParts \in Nat /\ q <= NumParts
  BY Numbers, InstalledWhere DEF Inv
<1> USE <1>1 DEF Baseline, Progress, Reading, Polling, Starting, TypeOK
<1>2. ASSUME NEW s \in Sessions, Commit(s)
      PROVE  Baseline(v, q)'
  BY <1>2 DEF Commit, Change, Promised, readVars
<1>3. ASSUME NEW p \in SilentParts, ChangeSilently(p)
      PROVE  Baseline(v, q)'
  BY <1>3 DEF ChangeSilently, Change, Promised, readVars
<1>4. CASE Boot(v)
  BY <1>4 DEF Boot
<1>5. CASE DropConn(v)
  BY <1>5 DEF DropConn, readVars
<1>6. CASE Crash(v)
  BY <1>6 DEF Crash, End
<1>7. CASE Acquire(v)
  BY <1>7 DEF Acquire, Goto, readVars
<1>8. CASE Listen(v)
  BY <1>8 DEF Listen, Goto, readVars
<1>9. CASE StartFails(v)
  BY <1>9 DEF StartFails, End
<1>10. CASE CreateFunction(v)
  BY <1>10 DEF CreateFunction, Goto, readVars
<1>11. CASE CreateTrigger(v)
  BY <1>11 DEF CreateTrigger, Goto, readVars
<1>12. CASE InstallFails(v)
  BY <1>12 DEF InstallFails, Goto, readVars
<1>13. CASE Notified(v)
  BY <1>13 DEF Notified, Goto, readVars
<1>14. CASE WaitFails(v)
  BY <1>14 DEF WaitFails, End
<1>15. CASE Drained(v)
  BY <1>15 DEF Drained, Goto, readVars
<1>16. CASE Rebuild(v)
  BY <1>16 DEF Rebuild, Goto, Reset
<1>17. CASE ReadFails(v)
  BY <1>17 DEF ReadFails, Goto, Reset
<1>18. ASSUME NEW p \in Parts, ReadPart(v, p)
      PROVE  Baseline(v, q)'
  BY <1>18 DEF ReadPart, Catalogs
<1>19. CASE Tick(v)
  BY <1>19 DEF Tick, Goto, readVars
<1>20. CASE StopPolling(v)
  BY <1>20 DEF StopPolling, End
<1>21. CASE PollFails(v)
  BY <1>21 DEF PollFails, Goto, Reset
<1>22. CASE Compare(v)
  BY <1>22 DEF Compare, Goto, Reset, Drifted, SameHash, Catalogs
<1>23. ASSUME NEW w \in Watchers \ {v}, Product(w) \/ Run(w)
      PROVE  Baseline(v, q)'
  BY <1>23, Elsewhere, RunFrame
<1>24. CASE UNCHANGED <<db, pc, at, cat, last, held, waived>>
  BY <1>24
<1> HIDE <1>1 DEF Baseline, Progress, Reading, Polling, Starting, TypeOK
<1>25. CASE Product(v)
  BY <1>25, <1>4, <1>5, <1>6, <1>24 DEF Product, Cancel, Borrow, GiveBack,
     readVars
<1>26. CASE Run(v)
  BY <1>26, <1>7, <1>8, <1>9, <1>10, <1>11, <1>12, <1>13, <1>14, <1>15,
     <1>16, <1>17, <1>18, <1>19, <1>20, <1>21, <1>22, <1>24 DEF Run, Drain,
     readVars
<1>27. CASE Database
  BY <1>27, <1>2, <1>3, <1>24 DEF Database, ExecDDL, Rollback, readVars
<1>28. CASE UNCHANGED vars
  BY <1>28, <1>24 DEF vars
<1>29. QED
  BY <1>23, <1>25, <1>26, <1>27, <1>28 DEF Next

\* The inductive invariant holds before the first Run (watch.go:37).
LEMMA InvInit == Init => Inv
<1> SUFFICES ASSUME Init
             PROVE  Inv
  OBVIOUS
<1> USE ConstantsAssumption, BlankType DEF Init
<1>1. TypeOK
  BY DEF TypeOK, Txns, Idle, Labels
<1>2. Locking /\ Owing
  BY DEF Locking, Owing, Idle
<1>3. ASSUME NEW w \in Watchers
      PROVE  Installation(w) /\ Progress(w)
  BY DEF Installation, Progress, Reading, Polling
<1>4. ASSUME NEW w \in Watchers, NEW p \in Parts
      PROVE  Feeding(w, p) /\ Knowing(w, p) /\ Baseline(w, p)
  BY DEF Feeding, Knowing, Baseline, Starting, Polling, Blank, Parts
<1>5. QED
  BY <1>1, <1>2, <1>3, <1>4 DEF Inv

\* Every step of Run, the products and the database keeps it
\* (watch.go:37-154).
LEMMA InvNext == Inv /\ [Next]_vars => Inv'
<1> SUFFICES ASSUME Inv, [Next]_vars
             PROVE  Inv'
  OBVIOUS
<1>1. TypeOK' /\ Locking'
  BY TypePreserved, LockingPreserved DEF Inv
<1>2. Owing'
  BY OwingPreserved
<1>3. ASSUME NEW w \in Watchers
      PROVE  Installation(w)' /\ Progress(w)'
  BY InstallationPreserved, ProgressPreserved
<1>4. ASSUME NEW w \in Watchers, NEW p \in Parts
      PROVE  Feeding(w, p)' /\ (Sole(w) => Knowing(w, p)') /\ Baseline(w, p)'
  BY FeedingPreserved, KnowingPreserved, BaselinePreserved
<1>5. \A w \in Watchers : Sole(w)' = Sole(w)
  BY DEF Sole, Accepted, NameOf
<1>6. QED
  BY <1>1, <1>2, <1>3, <1>4, <1>5 DEF Inv

\* Every reachable state satisfies the inductive invariant (watch.go:37-154).
THEOREM Invariance == Spec => []Inv
  BY InvInit, InvNext, PTL DEF Spec

\* Type correctness of the watcher, its database and its product
\* (watch.go:37-154).
THEOREM TypeCorrect == Spec => []TypeOK
<1>1. Inv => TypeOK
  BY DEF Inv
<1>2. QED
  BY <1>1, Invariance, PTL

\* A watcher that waits with nothing outstanding has handed its product the
\* current schema, but for the parts waived (LISTEN before install, drain
\* before read, watch.go:50-67 and 92-106).
THEOREM Settled == Spec => []SettledIsCurrent
<1>1. Inv => SettledIsCurrent
  BY DEF Inv, Knowing, SettledIsCurrent
<1>2. QED
  BY <1>1, Invariance, PTL

\* A polling watcher's baseline has the hash of what its product works with
\* (watch.go:119-144).
THEOREM BaselineMatches == Spec => []BaselineIsHeld
<1>1. Inv => BaselineIsHeld
  BY DEF Inv, Baseline, BaselineIsHeld
<1>2. QED
  BY <1>1, Invariance, PTL

\* Watch implements SchemaFeed: OnChange never takes a product back
\* (watch.go:137-154, introspect.go:20-55).
THEOREM Refinement == Spec => FeedSpec
<1>1. Init => Feed!Init
  BY DEF Init, Feed!Init, Blank
<1>2. ASSUME Inv, [Next]_vars
      PROVE  [Feed!Next]_(Feed!vars)
  <2> USE DEF Feed!Next, Feed!vars, Feed!Change, Feed!Announce, Feed!NoNewer
  <2>1. \A w \in Watchers, p \in Parts : /\ db[p] \in Nat /\ held[w][p] \in Nat
                                         /\ held[w][p] <= db[p]
    BY <1>2, Numbers DEF Inv, Feeding
  <2>2. CASE UNCHANGED <<db, held>>
    BY <2>2
  <2>3. ASSUME NEW s \in Sessions, Commit(s)
        PROVE  Feed!Change
    <3>1. \A p \in Parts : db[p] \in Nat
      BY <1>2 DEF Inv, TypeOK, Catalogs, Versions
    <3>2. QED
      BY <2>3, <3>1 DEF Commit, Change, readVars
  <2>4. ASSUME NEW p \in SilentParts, ChangeSilently(p)
        PROVE  Feed!Change
    <3>1. \A r \in Parts : db[r] \in Nat
      BY <1>2 DEF Inv, TypeOK, Catalogs, Versions
    <3>2. QED
      BY <2>4, <3>1 DEF ChangeSilently, Change, readVars
  <2>5. ASSUME NEW w \in Watchers, Boot(w)
        PROVE  Feed!Announce(w)
    BY <1>2, <2>1, <2>5 DEF Inv, TypeOK, Boot
  <2>6. ASSUME NEW w \in Watchers, Rebuild(w) \/ Compare(w)
        PROVE  [Feed!Next]_(Feed!vars)
    <3>1. CASE held' = held
      BY <2>6, <3>1 DEF Rebuild, Compare
    <3>2. CASE held' # held
      <4>1. held' = [held EXCEPT ![w] = cat[w]] /\ UNCHANGED db /\ at[w] > NumParts
        BY <2>6, <3>2 DEF Rebuild, Compare
      <4>2. \A p \in Parts : /\ held[w][p] <= cat[w][p]
                             /\ cat[w][p] <= db[p]
        BY <1>2, <4>1, Numbers DEF Inv, Feeding
      <4>3. Feed!Announce(w)
        BY <1>2, <4>1, <4>2 DEF Inv, TypeOK
      <4>4. QED
        BY <4>3
    <3>3. QED
      BY <3>1, <3>2
  <2>7. QED
    <3>1. CASE Database
      BY <2>2, <2>3, <2>4, <3>1 DEF Database, ExecDDL, Rollback, readVars
    <3>2. ASSUME NEW w \in Watchers, Product(w)
          PROVE  [Feed!Next]_(Feed!vars)
      BY <2>2, <2>5, <3>2 DEF Product, Cancel, Borrow, GiveBack, DropConn,
                              Crash, End, readVars
    <3>3. ASSUME NEW w \in Watchers, Run(w)
          PROVE  [Feed!Next]_(Feed!vars)
      BY <2>2, <2>6, <3>3 DEF Run, Acquire, Listen, StartFails, CreateFunction,
                              CreateTrigger, InstallFails, Notified, WaitFails,
                              Drain, Drained, ReadFails, ReadPart, Tick,
                              StopPolling, PollFails, End, readVars
    <3>4. CASE UNCHANGED vars
      BY <2>2, <3>4 DEF vars
    <3>5. QED
      BY <1>2, <3>1, <3>2, <3>3, <3>4 DEF Next
<1>3. QED
  BY <1>1, <1>2, Invariance, PTL DEF Spec, FeedSpec, Feed!Spec

=============================================================================
