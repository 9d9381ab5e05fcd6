--------------------------- MODULE EditLocksProofs ---------------------------
(***************************************************************************)
(* Proofs about EditLocks for any number of callers and any set of         *)
(* commands: types, mutual exclusion across the places of a command, and   *)
(* the reason why only read_lines and batch_edits can take part in a       *)
(* deadlock.                                                               *)
(***************************************************************************)
EXTENDS EditLocks, TLAPS

\* The order in which all commands but two take the locks.
Rank(l) ==
    IF l = "refactor" THEN 1
    ELSE IF l = "undo" THEN 2
    ELSE IF l = "snapshot" THEN 3
    ELSE IF l = "registry" THEN 4
    ELSE 5

\* A place wants a lock the command does not hold and leads to places of the
\* command that hold no lock it has not got.
PlaceOK(s, i) ==
    /\ s[i].held \subseteq Lock
    /\ s[i].want \in Lock
    /\ s[i].want \notin s[i].held
    /\ \A j \in s[i].next :
        j = 0 \/ (j \in 1 .. Len(s) /\ s[j].held \subseteq s[i].held \cup {s[i].want})

Ordered(s, i) == \A l \in s[i].held : Rank(l) < Rank(s[i].want)

\* A script of one of the commands that agree on the order.
OrderedScript(s) ==
    /\ 1 \in DOMAIN s /\ DOMAIN s = 1 .. Len(s) /\ Len(s) \in Nat
    /\ s[1].held = {}
    /\ \A i \in DOMAIN s : PlaceOK(s, i) /\ Ordered(s, i)

RegistryScript(s) ==
    /\ 1 \in DOMAIN s /\ DOMAIN s = 1 .. Len(s) /\ Len(s) \in Nat
    /\ s[1].held = {}
    /\ \A i \in DOMAIN s : PlaceOK(s, i) /\ (Ordered(s, i) \/ "registry" \in s[i].held)

-----------------------------------------------------------------------------
\* The scripts, one by one.
LEMMA QueryOrdered == OrderedScript(Query)
BY DEF OrderedScript, PlaceOK, Ordered, Rank, Lock, Await, Prologue, Query

LEMMA ContextSmartOrdered == OrderedScript(ContextSmart)
BY DEF OrderedScript, PlaceOK, Ordered, Rank, Lock, Await, Prologue, ContextSmart

LEMMA ContextFullOrdered == OrderedScript(ContextFull)
BY DEF OrderedScript, PlaceOK, Ordered, Rank, Lock, Await, Prologue, ContextFull

LEMMA LineEditsOrdered == OrderedScript(LineEdits)
BY DEF OrderedScript, PlaceOK, Ordered, Rank, Lock, Await, Prologue, LineEdits

LEMMA DraftOrdered == OrderedScript(Draft)
BY DEF OrderedScript, PlaceOK, Ordered, Rank, Lock, Await, Prologue, Draft

LEMMA ReviseOrdered == OrderedScript(Revise) /\ OrderedScript(Flush)
BY DEF OrderedScript, PlaceOK, Ordered, Rank, Lock, Await, Prologue, Revise, Flush

LEMMA UndoOrdered == OrderedScript(Undo)
BY DEF OrderedScript, PlaceOK, Ordered, Rank, Lock, Await, Prologue, Undo

LEMMA ListDraftsOrdered == OrderedScript(ListDrafts)
BY DEF OrderedScript, PlaceOK, Ordered, Rank, Lock, Await, Prologue, ListDrafts

LEMMA CreateFilesOrdered == OrderedScript(CreateFiles)
BY DEF OrderedScript, PlaceOK, Ordered, Rank, Lock, Await, Prologue, CreateFiles

LEMMA RollbackOrdered == OrderedScript(RefactorRollback)
BY DEF OrderedScript, PlaceOK, Ordered, Rank, Lock, Await, Prologue, RefactorRollback

LEMMA ExecuteOrdered == OrderedScript(RefactorExecute)
BY DEF OrderedScript, PlaceOK, Ordered, Rank, Lock, Await, Prologue, RefactorExecute

LEMMA InvalidateOrdered == OrderedScript(Invalidate) /\ OrderedScript(WriteFile)
BY DEF OrderedScript, PlaceOK, Ordered, Rank, Lock, Await, Invalidate, WriteFile

LEMMA ReadLinesScript == RegistryScript(ReadLines)
BY DEF RegistryScript, PlaceOK, Ordered, Rank, Lock, Await, Prologue, ReadLines

LEMMA BatchEditsScript == RegistryScript(BatchEdits)
BY DEF RegistryScript, PlaceOK, Ordered, Rank, Lock, Await, Prologue, BatchEdits

LEMMA Scripts ==
    ASSUME NEW c \in AllCommands
    PROVE  /\ RegistryScript(Script[c])
           /\ c \notin {"read_lines", "batch_edits"} => OrderedScript(Script[c])
<1>1. AllCommands =
        {"query", "context_smart", "context_full", "line_edits", "draft", "revise", "flush",
         "undo", "list_drafts", "create_files", "read_lines", "batch_edits",
         "refactor_rollback", "refactor", "invalidate", "write_file"}
  BY DEF AllCommands, Script
<1>2. ASSUME NEW s, OrderedScript(s) PROVE RegistryScript(s)
  BY <1>2 DEF OrderedScript, RegistryScript
<1>3. CASE c \in {"query", "context_smart", "context_full", "line_edits", "draft"}
  <2>1. OrderedScript(Script[c])
    BY <1>3, QueryOrdered, ContextSmartOrdered, ContextFullOrdered, LineEditsOrdered,
       DraftOrdered DEF Script
  <2> QED BY <1>2, <1>3, <2>1
<1>4. CASE c \in {"revise", "flush", "undo", "list_drafts", "create_files"}
  <2>1. OrderedScript(Script[c])
    BY <1>4, ReviseOrdered, UndoOrdered, ListDraftsOrdered, CreateFilesOrdered DEF Script
  <2> QED BY <1>2, <1>4, <2>1
<1>5. CASE c \in {"refactor_rollback", "refactor", "invalidate", "write_file"}
  <2>1. OrderedScript(Script[c])
    BY <1>5, RollbackOrdered, ExecuteOrdered, InvalidateOrdered DEF Script
  <2> QED BY <1>2, <1>5, <2>1
<1>6. CASE c \in {"read_lines", "batch_edits"}
  BY <1>6, ReadLinesScript, BatchEditsScript DEF Script
<1> QED BY <1>1, <1>3, <1>4, <1>5, <1>6

-----------------------------------------------------------------------------
(***************************************************************************)
(* Type correctness and mutual exclusion.  A lock is only looked at when   *)
(* it is taken, so exclusion needs that a command comes to no place with a *)
(* lock it has not got (PlaceOK).                                          *)
(***************************************************************************)
LocksInv == TypeOK /\ OneHolder

LEMMA HereScript ==
    ASSUME TypeOK, NEW p \in Caller, call[p] # "none"
    PROVE  /\ call[p] \in AllCommands
           /\ RegistryScript(Script[call[p]])
           /\ place[p] \in DOMAIN Script[call[p]]
           /\ PlaceOK(Script[call[p]], place[p])
<1>1. call[p] \in AllCommands
  BY CommandsAssumption DEF TypeOK
<1> QED BY <1>1, Scripts DEF TypeOK, RegistryScript

LEMMA GoToTypes ==
    ASSUME LocksInv, NEW p \in Caller, Working(p), NEW i, GoTo(p, i)
    PROVE  /\ TypeOK'
           /\ Held(p)' \subseteq Held(p)
           /\ \A q \in Caller \ {p} : Held(q)' = Held(q)
<1> DEFINE s == Script[call[p]]
<1>1. call[p] # "none" /\ RegistryScript(s) /\ PlaceOK(s, place[p]) /\ i \in s[place[p]].next
  BY HereScript DEF LocksInv, Working, GoTo, Here
<1>2. i = 0 \/ (i \in 1 .. Len(s) /\ s[i].held \subseteq s[place[p]].held \cup {s[place[p]].want})
  BY <1>1 DEF PlaceOK
<1>3. i \in Nat /\ DOMAIN s = 1 .. Len(s)
  BY <1>1, <1>2 DEF RegistryScript
<1>4. TypeOK'
  BY <1>1, <1>2, <1>3 DEF LocksInv, TypeOK, GoTo, Working
<1>5. Held(p)' \subseteq Held(p)
  BY <1>1, <1>2 DEF LocksInv, TypeOK, GoTo, Held, Here, Working
<1>6. \A q \in Caller \ {p} : Held(q)' = Held(q)
  BY DEF LocksInv, TypeOK, GoTo, Held, Here
<1> QED BY <1>4, <1>5, <1>6

LEMMA LocksInvStep == LocksInv /\ [Next]_vars => LocksInv'
<1> SUFFICES ASSUME LocksInv, [Next]_vars PROVE LocksInv'
  OBVIOUS
<1>1. ASSUME NEW p \in Caller, Begin(p) PROVE LocksInv'
  <2>1. PICK c \in Commands : call' = [call EXCEPT ![p] = c]
    BY <1>1 DEF Begin
  <2>2. c \in AllCommands /\ c # "none"
    BY <2>1, CommandsAssumption DEF AllCommands, Script
  <2>3. RegistryScript(Script[c])
    BY <2>2, Scripts
  <2>4. TypeOK'
    BY <1>1, <2>1, <2>2, <2>3 DEF LocksInv, TypeOK, Begin, RegistryScript
  <2>5. Held(p)' = {}
    BY <1>1, <2>1, <2>2, <2>3 DEF LocksInv, TypeOK, Begin, Held, Here, RegistryScript
  <2>6. \A q \in Caller \ {p} : Held(q)' = Held(q)
    BY <1>1, <2>1 DEF LocksInv, TypeOK, Begin, Held, Here
  <2> QED BY <2>4, <2>5, <2>6 DEF LocksInv, OneHolder
<1>2. ASSUME NEW p \in Caller, Acquire(p) PROVE LocksInv'
  <2>1. TypeOK'
    BY <1>2 DEF LocksInv, TypeOK, Acquire, Waiting
  <2>2. Held(p)' = Held(p) \cup {Here(p).want}
    BY <1>2 DEF LocksInv, TypeOK, Acquire, Waiting, Held, Here
  <2>3. \A q \in Caller \ {p} : Held(q)' = Held(q)
    BY <1>2 DEF LocksInv, TypeOK, Acquire, Held, Here
  <2>4. \A q \in Caller : Here(p).want \notin Held(q)
    BY <1>2 DEF Acquire, Free
  <2>5. OneHolder'
    BY <2>2, <2>3, <2>4 DEF LocksInv, OneHolder
  <2> QED BY <2>1, <2>5 DEF LocksInv
<1>3. ASSUME NEW p \in Caller, NEW i, Working(p), GoTo(p, i) PROVE LocksInv'
  BY <1>3, GoToTypes DEF LocksInv, OneHolder
<1>4. ASSUME NEW p \in Caller, Proceed(p) \/ Again(p) \/ Return(p) PROVE LocksInv'
  BY <1>3, <1>4 DEF Proceed, Again, Return
<1>5. ASSUME NEW p \in Caller, GiveUp(p) PROVE LocksInv'
  <2>1. TypeOK'
    BY <1>5 DEF LocksInv, TypeOK, GiveUp, Waiting
  <2>2. Held(p)' = {}
    BY <1>5 DEF LocksInv, TypeOK, GiveUp, Held
  <2>3. \A q \in Caller \ {p} : Held(q)' = Held(q)
    BY <1>5 DEF LocksInv, TypeOK, GiveUp, Held, Here
  <2> QED BY <2>1, <2>2, <2>3 DEF LocksInv, OneHolder
<1>6. CASE UNCHANGED vars
  BY <1>6 DEF LocksInv, TypeOK, OneHolder, vars, Held, Here
<1> QED BY <1>1, <1>2, <1>4, <1>5, <1>6 DEF Next

LEMMA LocksInvHolds == Spec => []LocksInv
<1>1. Init => LocksInv
  BY DEF Init, LocksInv, TypeOK, OneHolder, Held
<1> QED BY <1>1, LocksInvStep, PTL DEF Spec

\* Every caller is at a place of its command, for any number of callers.
THEOREM LocksTypeCorrect == Spec => []TypeOK
BY LocksInvHolds, PTL DEF LocksInv

\* No two calls ever hold one lock, although a lock is looked at only when it
\* is taken and dropped by leaving a scope.
THEOREM LocksExclude == Spec => []OneHolder
BY LocksInvHolds, PTL DEF LocksInv

\* No call ever awaits a lock it holds.
THEOREM NoSelfDeadlock == Spec => []NeverWaitsForItself
<1>1. TypeOK => NeverWaitsForItself
  <2> SUFFICES ASSUME TypeOK, NEW p \in Caller, Waiting(p) PROVE Here(p).want \notin Held(p)
    BY DEF NeverWaitsForItself
  <2>1. PlaceOK(Script[call[p]], place[p])
    BY HereScript DEF Waiting
  <2> QED BY <2>1 DEF PlaceOK, Held, Here, Waiting
<1> QED BY <1>1, LocksTypeCorrect, PTL

-----------------------------------------------------------------------------
(***************************************************************************)
(* Deadlocks.  If no member of the set waits with the registry in hand,    *)
(* each waits for a lock behind all it holds; the one that waits for the   *)
(* last lock then has nobody to wait for.                                  *)
(***************************************************************************)
LEMMA OrderBroken ==
    ASSUME TypeOK, NEW p \in Caller, Waiting(p), NEW l \in Held(p),
           ~(Rank(l) < Rank(Here(p).want))
    PROVE  RegistryFirst(p) /\ call[p] \in {"read_lines", "batch_edits"}
<1> DEFINE s == Script[call[p]]
<1>1. call[p] \in AllCommands /\ place[p] \in DOMAIN s /\ RegistryScript(s)
  BY HereScript DEF Waiting
<1>2. l \in s[place[p]].held
  BY DEF Held, Here, Waiting
<1>3. ~Ordered(s, place[p])
  BY <1>2 DEF Ordered, Here
<1>4. call[p] \in {"read_lines", "batch_edits"}
  BY <1>1, <1>3, Scripts DEF OrderedScript
<1>5. "registry" \in s[place[p]].held
  BY <1>1, <1>3 DEF RegistryScript
<1> QED BY <1>4, <1>5 DEF RegistryFirst, Here

LEMMA DeadlockOrder == TypeOK => DeadlockNeedsRegistryFirst
<1> SUFFICES ASSUME TypeOK, NEW D \in SUBSET Caller, Deadlocked(D),
                    \A p \in D : ~(RegistryFirst(p) /\ call[p] \in {"read_lines", "batch_edits"})
             PROVE  FALSE
  BY DEF DeadlockNeedsRegistryFirst
<1> DEFINE want(p) == Here(p).want
<1>1. \A p \in D : want(p) \in Lock
  BY HereScript DEF Deadlocked, Waiting, PlaceOK, Here
<1>2. \A p \in D : Rank(want(p)) \in 1 .. 5
  BY <1>1 DEF Rank, Lock
<1>3. \A p \in D : \E q \in D : Rank(want(p)) < Rank(want(q))
  <2> SUFFICES ASSUME NEW p \in D PROVE \E q \in D : Rank(want(p)) < Rank(want(q))
    OBVIOUS
  <2>1. PICK q \in D : want(p) \in Held(q)
    BY DEF Deadlocked
  <2>2. Waiting(q)
    BY DEF Deadlocked
  <2> QED BY <2>1, <2>2, OrderBroken
<1> HIDE DEF want
<1>4. \A p \in D : Rank(want(p)) # 5
  BY <1>2, <1>3
<1>5. \A p \in D : Rank(want(p)) # 4
  BY <1>2, <1>3, <1>4
<1>6. \A p \in D : Rank(want(p)) # 3
  BY <1>2, <1>3, <1>4, <1>5
<1>7. \A p \in D : Rank(want(p)) # 2
  BY <1>2, <1>3, <1>4, <1>5, <1>6
<1>8. \A p \in D : Rank(want(p)) # 1
  BY <1>2, <1>3, <1>4, <1>5, <1>6, <1>7
<1> QED BY <1>2, <1>4, <1>5, <1>6, <1>7, <1>8 DEF Deadlocked

\* Whatever commands any number of callers issue, a deadlock contains a
\* read_lines or a batch_edits that took the registry first.
THEOREM DeadlockOnlyByRegistry == Spec => []DeadlockNeedsRegistryFirst
BY LocksTypeCorrect, DeadlockOrder, PTL

=============================================================================
