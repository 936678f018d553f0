----------------------------- MODULE NotionProofs -----------------------------
(***************************************************************************)
(* What a snapshot shows, for lists of any length, pages of any size, any  *)
(* cap of rows, and whatever people edit between two requests.             *)
(***************************************************************************)
EXTENDS NotionSnapshot, FiniteSetTheorems, SequenceTheorems, TLAPS

\* A relation is chosen among the pages there are, and none is ever deleted
\* for good.
LinksExist == \A i \in DOMAIN tasks : Linked(i) => tasks[i] \in DOMAIN clients

\* The history of dangling relations covers the read from its first request.
DanglingIsSeen == reader.pc # "idle" /\ Dangles => dangled

\* A task that was read pointed to a page; if nobody has touched that page
\* and it is in the trash, it was there when the task was read.
RowsHaveClients ==
    \A row \in reader.tasks :
        /\ row.client \in DOMAIN clients
        /\ row.client \in steady.clients /\ clients[row.client] = InTrash => dangled

\* The inductive invariant.
SnapshotIInv ==
    /\ SnapshotInv
    /\ LinksExist
    /\ DanglingIsSeen
    /\ RowsHaveClients
    /\ RelationErrorsHaveACause

-------------------------------------------------------------------------------
(* Lists and counts *)

LEMMA ListDomains ==
    ASSUME SnapshotTypeOK
    PROVE  /\ Len(clients) \in Nat /\ Len(tasks) \in Nat
           /\ DOMAIN clients = 1 .. Len(clients) /\ DOMAIN tasks = 1 .. Len(tasks)
           /\ \A i \in DOMAIN clients : i \in 1 .. MaxClients /\ clients[i] \in ClientPages
           /\ \A i \in DOMAIN tasks : i \in 1 .. MaxTasks /\ tasks[i] \in TaskPages
<1>1. clients \in Seq(ClientPages) /\ tasks \in Seq(TaskPages)
  BY DEF SnapshotTypeOK
<1>2. /\ Len(clients) \in Nat /\ DOMAIN clients = 1 .. Len(clients)
      /\ Len(tasks) \in Nat /\ DOMAIN tasks = 1 .. Len(tasks)
  BY <1>1, LenProperties
<1>3. /\ \A i \in DOMAIN clients : clients[i] \in ClientPages
      /\ \A i \in DOMAIN tasks : tasks[i] \in TaskPages
  BY <1>1, <1>2, ElementOfSeq
<1>4. Len(clients) <= MaxClients /\ Len(tasks) <= MaxTasks
  BY DEF SnapshotTypeOK
<1> QED
  BY <1>2, <1>3, <1>4, SnapshotAssumption

\* The untouched tasks without a client that the cursor has passed.
PassedUnlinked == {i \in steady.tasks : TaskPassed(i) /\ tasks[i] = Empty}

LEMMA CountOfSubset ==
    ASSUME NEW n \in Nat, NEW T, T \subseteq 1 .. n, NEW S, S \subseteq T
    PROVE  /\ IsFiniteSet(T) /\ IsFiniteSet(S)
           /\ Cardinality(S) \in Nat /\ Cardinality(T) \in Nat
           /\ Cardinality(S) <= Cardinality(T)
<1>1. IsFiniteSet(1 .. n)
  BY FS_Interval
<1>2. IsFiniteSet(T)
  BY <1>1, FS_Subset
<1>3. IsFiniteSet(S) /\ Cardinality(S) <= Cardinality(T)
  BY <1>2, FS_Subset
<1> QED
  BY <1>2, <1>3, FS_CardinalityType

LEMMA CountOfUnion ==
    ASSUME NEW n \in Nat, NEW S, S \subseteq 1 .. n, NEW T, T \subseteq 1 .. n
    PROVE  Cardinality(S \cup T) <= Cardinality(S) + Cardinality(T)
<1>1. IsFiniteSet(S) /\ IsFiniteSet(T)
  BY CountOfSubset
<1>2. Cardinality(S \cup T) = Cardinality(S) + Cardinality(T) - Cardinality(S \cap T)
  BY <1>1, FS_Union
<1>3. Cardinality(S) \in Nat /\ Cardinality(T) \in Nat /\ Cardinality(S \cap T) \in Nat
  BY CountOfSubset
<1> QED
  BY <1>2, <1>3

-------------------------------------------------------------------------------
(* People *)

\* What an edit does to pages that it does not touch.
Edited(touchedClients, touchedTasks) ==
    /\ clients' \in Seq(ClientPages) /\ Len(clients') <= MaxClients
    /\ tasks' \in Seq(TaskPages) /\ Len(tasks') <= MaxTasks
    /\ DOMAIN clients \subseteq DOMAIN clients' /\ DOMAIN tasks \subseteq DOMAIN tasks'
    /\ \A i \in DOMAIN clients \ touchedClients : clients'[i] = clients[i]
    /\ \A i \in DOMAIN tasks \ touchedTasks : tasks'[i] = tasks[i]

\* Whoever edits what, the reader's promises about the rest stay true.
LEMMA EditStep ==
    ASSUME SnapshotIInv, NEW tc, NEW tt, Touch(tc, tt), Edited(tc, tt), LinksExist'
    PROVE  SnapshotIInv'
<1> USE DEF SnapshotIInv, SnapshotInv, Touch
<1>1. /\ reader' = reader /\ reader.outcome = "none" /\ reader.pc # "done"
      /\ steady'.clients = steady.clients \ tc /\ steady'.tasks = steady.tasks \ tt
  BY DEF ReaderIsBehindCursor
<1>2. SnapshotTypeOK'
  <2>1. steady' \in [clients : SUBSET (1 .. MaxClients), tasks : SUBSET (1 .. MaxTasks)]
    BY DEF SnapshotTypeOK
  <2>2. dangled' \in BOOLEAN
    BY DEF SnapshotTypeOK
  <2> QED
    BY <1>1, <2>1, <2>2 DEF SnapshotTypeOK, Edited
<1>3. SteadyPagesExist'
  BY <1>1 DEF SteadyPagesExist, Edited
<1>4. ReaderIsBehindCursor'
  BY <1>1 DEF ReaderIsBehindCursor
<1>5. /\ \A i \in steady'.clients : i \in steady.clients /\ clients'[i] = clients[i]
      /\ \A i \in steady'.tasks : i \in steady.tasks /\ tasks'[i] = tasks[i]
  BY <1>1 DEF SteadyPagesExist, Edited
<1>6. PassedPagesAreExact'
  <2>1. \A i \in steady'.clients : ClientPassed(i)' => ClientIsExact(i)'
    BY <1>1, <1>5 DEF PassedPagesAreExact, ClientPassed, ClientIsExact
  <2>2. \A i \in steady'.tasks : TaskPassed(i)' => TaskIsExact(i)'
    BY <1>1, <1>5 DEF PassedPagesAreExact, TaskPassed, TaskIsExact, Linked
  <2>3. PassedUnlinked' \subseteq PassedUnlinked
    BY <1>1, <1>5 DEF PassedUnlinked, TaskPassed
  <2>4. PassedUnlinked \subseteq 1 .. MaxTasks
    BY DEF PassedUnlinked, SnapshotTypeOK
  <2>5. Cardinality(PassedUnlinked') <= Cardinality(PassedUnlinked)
    BY <2>3, <2>4, CountOfSubset, SnapshotAssumption
  <2>6. /\ Cardinality(PassedUnlinked) <= reader.skipped /\ reader.skipped \in Nat
        /\ Cardinality(PassedUnlinked) \in Nat /\ Cardinality(PassedUnlinked') \in Nat
    BY <2>3, <2>4, CountOfSubset, SnapshotAssumption
       DEF PassedPagesAreExact, PassedUnlinked, SnapshotTypeOK, Reader
  <2>7. Cardinality(PassedUnlinked') <= reader'.skipped
    BY <1>1, <2>5, <2>6
  <2> QED
    BY <2>1, <2>2, <2>7 DEF PassedPagesAreExact, PassedUnlinked
<1>7. DanglingIsSeen'
  BY <1>1 DEF DanglingIsSeen
<1>8. RowsHaveClients'
  BY <1>1, <1>5 DEF RowsHaveClients, Edited
<1>9. RelationErrorsHaveACause'
  BY <1>1 DEF RelationErrorsHaveACause
<1> QED
  BY <1>2, <1>3, <1>4, <1>6, <1>7, <1>8, <1>9

\* Each action of the people is an edit that links tasks to pages there are.
LEMMA CreateClientStep == ASSUME SnapshotIInv, CreateClient PROVE SnapshotIInv'
<1>1. PICK page \in {"titled", Refused} : clients' = Append(clients, page)
  BY DEF CreateClient
<1>2. /\ clients \in Seq(ClientPages) /\ page \in ClientPages
      /\ tasks \in Seq(TaskPages) /\ Len(tasks) <= MaxTasks
      /\ Len(clients) < MaxClients /\ UNCHANGED tasks /\ Touch({}, {})
  BY <1>1 DEF CreateClient, SnapshotIInv, SnapshotInv, SnapshotTypeOK, ClientPages
<1>3. /\ clients' \in Seq(ClientPages) /\ Len(clients') = Len(clients) + 1
      /\ DOMAIN clients' = 1 .. Len(clients) + 1
      /\ \A i \in 1 .. Len(clients) : clients'[i] = clients[i]
  BY <1>1, <1>2, AppendProperties, LenProperties
<1>4. Len(clients) \in Nat /\ DOMAIN clients = 1 .. Len(clients)
  BY <1>2, LenProperties
<1>5. Edited({}, {})
  BY <1>2, <1>3, <1>4, SnapshotAssumption DEF Edited
<1>6. LinksExist'
  BY <1>2, <1>5 DEF LinksExist, Linked, SnapshotIInv, Edited
<1> QED
  BY <1>2, <1>5, <1>6, EditStep

LEMMA EditClientStep == ASSUME SnapshotIInv, EditClient PROVE SnapshotIInv'
<1>1. PICK i \in DOMAIN clients, page \in ClientPages :
        clients' = [clients EXCEPT ![i] = page] /\ UNCHANGED tasks /\ Touch({i}, {})
  BY DEF EditClient
<1>2. /\ clients \in Seq(ClientPages) /\ Len(clients) <= MaxClients
      /\ tasks \in Seq(TaskPages) /\ Len(tasks) <= MaxTasks
  BY DEF SnapshotIInv, SnapshotInv, SnapshotTypeOK
<1>3. DOMAIN clients = 1 .. Len(clients)
  BY <1>2, LenProperties
<1>4. /\ clients' \in Seq(ClientPages) /\ Len(clients') = Len(clients)
      /\ DOMAIN clients' = DOMAIN clients
      /\ \A j \in DOMAIN clients \ {i} : clients'[j] = clients[j]
  BY <1>1, <1>2, <1>3, ExceptSeq
<1>5. Edited({i}, {})
  BY <1>1, <1>2, <1>4 DEF Edited
<1>6. LinksExist'
  BY <1>1, <1>4 DEF LinksExist, Linked, SnapshotIInv
<1> QED
  BY <1>1, <1>5, <1>6, EditStep

\* What a relation may be set to, and what comes back from the trash.
LEMMA ChoicesAreTaskPages ==
    ASSUME SnapshotTypeOK, NEW page \in Choices \cup DOMAIN clients \cup {InTrash}
    PROVE  /\ page \in TaskPages
           /\ page \in 1 .. MaxClients => page \in DOMAIN clients
BY ListDomains, SnapshotAssumption DEF Choices, TaskPages

LEMMA CreateTaskStep == ASSUME SnapshotIInv, CreateTask PROVE SnapshotIInv'
<1>1. PICK page \in Choices : tasks' = Append(tasks, page)
  BY DEF CreateTask
<1>2. /\ tasks \in Seq(TaskPages) /\ clients \in Seq(ClientPages)
      /\ Len(clients) <= MaxClients
      /\ Len(tasks) < MaxTasks /\ UNCHANGED clients /\ Touch({}, {})
  BY <1>1 DEF CreateTask, SnapshotIInv, SnapshotInv, SnapshotTypeOK
<1>3. page \in TaskPages /\ (page \in 1 .. MaxClients => page \in DOMAIN clients)
  BY ChoicesAreTaskPages DEF SnapshotIInv, SnapshotInv
<1>4. /\ tasks' \in Seq(TaskPages) /\ Len(tasks') = Len(tasks) + 1
      /\ DOMAIN tasks' = 1 .. Len(tasks) + 1
      /\ \A i \in 1 .. Len(tasks) : tasks'[i] = tasks[i]
      /\ tasks'[Len(tasks) + 1] = page
  BY <1>1, <1>2, <1>3, AppendProperties, LenProperties
<1>5. Len(tasks) \in Nat /\ DOMAIN tasks = 1 .. Len(tasks)
  BY <1>2, LenProperties
<1>6. Edited({}, {})
  BY <1>2, <1>4, <1>5, SnapshotAssumption DEF Edited
<1>7. \A i \in DOMAIN tasks' : i \in DOMAIN tasks \/ i = Len(tasks) + 1
  BY <1>4, <1>5
<1>8. LinksExist'
  BY <1>2, <1>3, <1>4, <1>5, <1>7 DEF LinksExist, Linked, SnapshotIInv
<1> QED
  BY <1>2, <1>6, <1>8, EditStep

LEMMA EditTaskStep == ASSUME SnapshotIInv, EditTask PROVE SnapshotIInv'
<1>1. PICK i \in DOMAIN tasks, page \in Choices \cup DOMAIN clients \cup {InTrash} :
        tasks' = [tasks EXCEPT ![i] = page] /\ UNCHANGED clients /\ Touch({}, {i})
  BY DEF EditTask
<1>2. /\ clients \in Seq(ClientPages) /\ Len(clients) <= MaxClients
      /\ tasks \in Seq(TaskPages) /\ Len(tasks) <= MaxTasks
  BY DEF SnapshotIInv, SnapshotInv, SnapshotTypeOK
<1>3. page \in TaskPages /\ (page \in 1 .. MaxClients => page \in DOMAIN clients)
  BY ChoicesAreTaskPages DEF SnapshotIInv, SnapshotInv
<1>4. DOMAIN tasks = 1 .. Len(tasks)
  BY <1>2, LenProperties
<1>5. /\ tasks' \in Seq(TaskPages) /\ Len(tasks') = Len(tasks)
      /\ DOMAIN tasks' = DOMAIN tasks
      /\ \A j \in DOMAIN tasks : tasks'[j] = IF j = i THEN page ELSE tasks[j]
  BY <1>1, <1>2, <1>3, <1>4, ExceptSeq
<1>6. Edited({}, {i})
  BY <1>1, <1>2, <1>5 DEF Edited
<1>7. LinksExist'
  BY <1>1, <1>3, <1>5 DEF LinksExist, Linked, SnapshotIInv
<1> QED
  BY <1>1, <1>6, <1>7, EditStep

-------------------------------------------------------------------------------
(* The reader begins and ends *)

EmptyHanded(pc, outcome) ==
    [pc |-> pc, cursor |-> 0, count |-> 0, clients |-> {}, tasks |-> {}, skipped |-> 0,
     outcome |-> outcome]

\* Of a reader that holds nothing there is nothing to say.
LEMMA EmptyHandedStep ==
    ASSUME SnapshotIInv, UNCHANGED notion,
           NEW pc \in {"idle", "discover", "done"},
           NEW outcome \in {"none", "unavailableClient", "failed"},
           (pc = "done") <=> (outcome # "none"),
           reader' = EmptyHanded(pc, outcome),
           steady' \in [clients : SUBSET DOMAIN clients, tasks : SUBSET DOMAIN tasks],
           dangled' \in BOOLEAN, pc # "idle" /\ Dangles => dangled',
           outcome = "unavailableClient" => dangled' \/ steady'.clients # DOMAIN clients
    PROVE  SnapshotIInv'
<1>1. /\ reader'.pc = pc /\ reader'.outcome = outcome
      /\ reader'.cursor = 0 /\ reader'.count = 0 /\ reader'.skipped = 0
      /\ reader'.clients = {} /\ reader'.tasks = {}
      /\ clients' = clients /\ tasks' = tasks
  BY DEF EmptyHanded, notion
<1>2. SnapshotTypeOK
  BY DEF SnapshotIInv, SnapshotInv
<1>3. DOMAIN clients \subseteq 1 .. MaxClients /\ DOMAIN tasks \subseteq 1 .. MaxTasks
  BY <1>2, ListDomains
<1>4. SnapshotTypeOK'
  <2>1. reader' \in Reader
    BY DEF EmptyHanded, Reader
  <2>2. steady' \in [clients : SUBSET (1 .. MaxClients), tasks : SUBSET (1 .. MaxTasks)]
    BY <1>3
  <2> QED
    BY <1>1, <1>2, <2>1, <2>2 DEF SnapshotTypeOK
<1>5. SteadyPagesExist'
  BY <1>1 DEF SteadyPagesExist
<1>6. ReaderIsBehindCursor'
  <2>1. ASSUME pc # "done"
        PROVE  reader' = [Idle EXCEPT !.pc = pc]
    <3>1. outcome = "none"
      BY <2>1
    <3>2. [Idle EXCEPT !.pc = pc] = EmptyHanded(pc, "none")
      BY DEF Idle, EmptyHanded
    <3> QED
      BY <3>1, <3>2
  <2> QED
    BY <1>1, <2>1 DEF ReaderIsBehindCursor
<1>7. PassedPagesAreExact'
  <2>1. /\ \A i \in steady'.clients : ~ClientPassed(i)'
        /\ \A i \in steady'.tasks : ~TaskPassed(i)'
    BY <1>1 DEF ClientPassed, TaskPassed
  <2>2. PassedUnlinked' = {}
    BY <2>1 DEF PassedUnlinked
  <2>3. Cardinality(PassedUnlinked') <= reader'.skipped
    BY <1>1, <2>2, FS_EmptySet
  <2> QED
    BY <2>1, <2>3 DEF PassedPagesAreExact, PassedUnlinked
<1>8. LinksExist'
  BY <1>1 DEF SnapshotIInv, LinksExist, Linked
<1>9. DanglingIsSeen' /\ RowsHaveClients' /\ RelationErrorsHaveACause'
  <2>1. Dangles' = Dangles
    BY <1>1 DEF Dangles, Linked
  <2> QED
    BY <1>1, <2>1 DEF DanglingIsSeen, RowsHaveClients, RelationErrorsHaveACause
<1> QED
  BY <1>4, <1>5, <1>6, <1>7, <1>8, <1>9 DEF SnapshotIInv, SnapshotInv

LEMMA FetchSnapshotStep == ASSUME SnapshotIInv, FetchSnapshot PROVE SnapshotIInv'
<1>1. reader' = EmptyHanded("discover", "none")
  BY DEF FetchSnapshot, Idle, EmptyHanded
<1>2. Dangles \in BOOLEAN
  BY DEF Dangles
<1> QED
  BY <1>1, <1>2, EmptyHandedStep DEF FetchSnapshot

LEMMA ReturnStep == ASSUME SnapshotIInv, Return PROVE SnapshotIInv'
<1>1. reader' = EmptyHanded("idle", "none")
  BY DEF Return, Idle, EmptyHanded
<1>2. steady' = [clients |-> {}, tasks |-> {}] /\ dangled' = FALSE /\ UNCHANGED notion
  BY DEF Return
<1> QED
  BY <1>1, <1>2, EmptyHandedStep

\* While the reader is at work, the history is what EmptyHandedStep asks for.
LEMMA HistoryFits ==
    ASSUME SnapshotIInv, UNCHANGED <<notion, steady, dangled>>, reader.pc # "idle"
    PROVE  /\ UNCHANGED notion
           /\ steady' \in [clients : SUBSET DOMAIN clients, tasks : SUBSET DOMAIN tasks]
           /\ dangled' \in BOOLEAN /\ (Dangles => dangled')
BY DEF SnapshotIInv, SnapshotInv, SnapshotTypeOK, SteadyPagesExist, DanglingIsSeen

LEMMA FailStep ==
    ASSUME SnapshotIInv, Fail, UNCHANGED <<notion, steady, dangled>>, reader.pc # "idle"
    PROVE  SnapshotIInv'
<1>1. reader' = EmptyHanded("done", "failed")
  BY DEF Fail, Idle, EmptyHanded
<1> QED
  BY <1>1, HistoryFits, EmptyHandedStep

LEMMA DiscoverStep == ASSUME SnapshotIInv, Discover PROVE SnapshotIInv'
<1>1. CASE Fail
  BY <1>1, FailStep DEF Discover
<1>2. CASE reader' = [reader EXCEPT !.pc = "clients"]
  <2> USE <1>2 DEF SnapshotIInv, SnapshotInv
  <2>1. reader = [Idle EXCEPT !.pc = "discover"] /\ reader \in Reader
    BY DEF Discover, ReaderIsBehindCursor, SnapshotTypeOK
  <2>2. /\ reader'.pc = "clients" /\ reader'.outcome = "none"
        /\ reader'.cursor = 0 /\ reader'.skipped = 0
        /\ reader'.clients = {} /\ reader'.tasks = {}
        /\ reader' \in Reader
    BY <2>1 DEF Idle, Reader
  <2>3. /\ clients' = clients /\ tasks' = tasks
        /\ steady' = steady /\ dangled' = dangled
    BY DEF Discover, notion
  <2>4. SnapshotTypeOK'
    BY <2>2, <2>3 DEF SnapshotTypeOK
  <2>5. SteadyPagesExist'
    BY <2>3 DEF SteadyPagesExist
  <2>6. ReaderIsBehindCursor'
    BY <2>2 DEF ReaderIsBehindCursor
  <2>7. PassedPagesAreExact'
    <3>1. /\ \A i \in steady'.clients : ~ClientPassed(i)'
          /\ \A i \in steady'.tasks : ~TaskPassed(i)'
      BY <2>2, <2>3, ListDomains DEF ClientPassed, TaskPassed, SteadyPagesExist
    <3>2. PassedUnlinked' = {}
      BY <3>1 DEF PassedUnlinked
    <3>3. Cardinality(PassedUnlinked') <= reader'.skipped
      BY <2>2, <3>2, FS_EmptySet
    <3> QED
      BY <3>1, <3>3 DEF PassedPagesAreExact, PassedUnlinked
  <2>8. LinksExist'
    BY <2>3 DEF LinksExist, Linked
  <2>9. DanglingIsSeen'
    BY <2>1, <2>2, <2>3 DEF DanglingIsSeen, Dangles, Linked, Idle
  <2>10. RowsHaveClients' /\ RelationErrorsHaveACause'
    BY <2>2 DEF RowsHaveClients, RelationErrorsHaveACause
  <2> QED
    BY <2>4, <2>5, <2>6, <2>7, <2>8, <2>9, <2>10
<1> QED
  BY <1>1, <1>2 DEF Discover

-------------------------------------------------------------------------------
(* One page of clients *)

LEMMA ReadClientsStep == ASSUME SnapshotIInv, ReadClients PROVE SnapshotIInv'
<1>1. CASE Fail
  BY <1>1, FailStep DEF ReadClients
<1>2. CASE ~Fail
  <2> DEFINE page == Page(clients)
  <2> USE DEF SnapshotIInv, SnapshotInv
  <2>1. PICK hidden \in SUBSET {i \in page : clients[i] = InTrash} :
          LET count == reader.count + Cardinality(page \ hidden)
              read == [reader EXCEPT !.clients = @ \cup KeptClients(page)]
          IN  /\ count <= MaxRows
              /\ \A i \in page : clients[i] # Refused
              /\ reader' = IF LastPage(clients)
                           THEN [read EXCEPT !.pc = "tasks", !.cursor = 0, !.count = 0]
                           ELSE [read EXCEPT !.cursor = @ + PageSize, !.count = count]
    BY <1>2 DEF ReadClients
  <2>2. /\ reader.pc = "clients" /\ reader.outcome = "none"
        /\ reader.tasks = {} /\ reader.skipped = 0
        /\ reader.clients \subseteq 1 .. reader.cursor
        /\ reader \in Reader /\ reader.cursor \in Nat
    BY DEF ReadClients, ReaderIsBehindCursor, SnapshotTypeOK, Reader
  <2>3. /\ clients' = clients /\ tasks' = tasks
        /\ steady' = steady /\ dangled' = dangled
    BY DEF ReadClients, notion
  <2>4. /\ DOMAIN clients = 1 .. Len(clients) /\ Len(clients) \in Nat
        /\ \A i \in DOMAIN clients : i \in 1 .. MaxClients
        /\ \A i \in DOMAIN tasks : i \in 1 .. MaxTasks
    BY ListDomains
  <2>5. page \subseteq DOMAIN clients /\ IsFiniteSet(page \ hidden)
    <3>1. page \subseteq 1 .. MaxClients
      BY <2>4 DEF Page
    <3> QED
      BY <3>1, CountOfSubset, SnapshotAssumption DEF Page
  <2>6. reader.count + Cardinality(page \ hidden) \in Nat
    BY <2>2, <2>5, FS_CardinalityType DEF Reader
  <2>7. /\ reader'.clients = reader.clients \cup KeptClients(page)
        /\ reader'.tasks = {} /\ reader'.skipped = 0 /\ reader'.outcome = "none"
    BY <2>1, <2>2 DEF Reader
  <2>8. \/ reader'.pc = "tasks" /\ reader'.cursor = 0 /\ LastPage(clients)
        \/ reader'.pc = "clients" /\ reader'.cursor = reader.cursor + PageSize
    BY <2>1, <2>2 DEF Reader
  <2>9. SnapshotTypeOK'
    <3>1. KeptClients(page) \subseteq 1 .. MaxClients
      BY <2>4, <2>5 DEF KeptClients
    <3>2. reader.clients \cup KeptClients(page) \in SUBSET (1 .. MaxClients)
      BY <2>2, <3>1 DEF Reader
    <3>3. reader.cursor + PageSize \in Nat
      BY <2>2, SnapshotAssumption
    <3>4. ASSUME LastPage(clients) PROVE reader' \in Reader
      <4>1. reader' = [reader EXCEPT !.clients = reader.clients \cup KeptClients(page),
                                     !.pc = "tasks", !.cursor = 0, !.count = 0]
        BY <2>1, <3>4
      <4> QED
        BY <2>2, <3>2, <4>1 DEF Reader
    <3>5. ASSUME ~LastPage(clients) PROVE reader' \in Reader
      <4> DEFINE count == reader.count + Cardinality(page \ hidden)
      <4>1. reader' = [reader EXCEPT !.clients = reader.clients \cup KeptClients(page),
                                     !.cursor = reader.cursor + PageSize, !.count = count]
        BY <2>1, <2>2, <3>5
      <4>2. count \in Nat
        BY <2>6
      <4> HIDE DEF count
      <4> QED
        BY <2>2, <3>2, <3>3, <4>1, <4>2 DEF Reader
    <3>6. reader' \in Reader
      BY <3>4, <3>5
    <3> QED
      BY <2>3, <3>6 DEF SnapshotTypeOK
  <2>10. SteadyPagesExist'
    BY <2>3 DEF SteadyPagesExist
  <2>11. ReaderIsBehindCursor'
    <3>1. reader'.pc = "clients" => reader'.clients \subseteq 1 .. reader'.cursor
      BY <2>2, <2>4, <2>5, <2>7, <2>8, SnapshotAssumption DEF KeptClients, Page
    <3> QED
      BY <2>7, <2>8, <3>1 DEF ReaderIsBehindCursor
  <2>12. PassedPagesAreExact'
    <3>1. ASSUME NEW i \in steady.clients, ClientPassed(i)'
          PROVE  ClientIsExact(i)'
      <4>1. i \in DOMAIN clients /\ i \in 1 .. Len(clients)
        BY <2>4 DEF SteadyPagesExist
      <4>2. CASE i <= reader.cursor
        <5>1. ClientIsExact(i)
          BY <2>2, <4>2 DEF PassedPagesAreExact, ClientPassed
        <5>2. i \notin page
          BY <2>2, <4>1, <4>2 DEF Page
        <5> QED
          BY <2>3, <2>7, <5>1, <5>2 DEF ClientIsExact, KeptClients
      <4>3. CASE ~(i <= reader.cursor)
        <5>1. i <= reader.cursor + PageSize
          BY <2>2, <2>7, <2>8, <3>1, <4>1, SnapshotAssumption DEF ClientPassed, LastPage
        <5>2. i \in page /\ i \notin reader.clients
          BY <2>2, <4>1, <4>3, <5>1 DEF Page
        <5>3. clients[i] # Refused
          BY <2>1, <5>2
        <5> QED
          BY <2>3, <2>7, <5>2, <5>3 DEF ClientIsExact, KeptClients
      <4> QED
        BY <4>2, <4>3
    <3>2. \A i \in steady.tasks : ~TaskPassed(i)'
      BY <2>4, <2>7, <2>8 DEF TaskPassed, SteadyPagesExist
    <3>3. PassedUnlinked' = {}
      BY <2>3, <3>2 DEF PassedUnlinked
    <3>4. Cardinality(PassedUnlinked') <= reader'.skipped
      BY <2>7, <3>3, FS_EmptySet
    <3> QED
      BY <2>3, <3>1, <3>2, <3>4 DEF PassedPagesAreExact, PassedUnlinked
  <2>13. LinksExist'
    BY <2>3 DEF LinksExist, Linked
  <2>14. DanglingIsSeen'
    BY <2>2, <2>3 DEF DanglingIsSeen, Dangles, Linked
  <2>15. RowsHaveClients' /\ RelationErrorsHaveACause'
    BY <2>7 DEF RowsHaveClients, RelationErrorsHaveACause
  <2> QED
    BY <2>9, <2>10, <2>11, <2>12, <2>13, <2>14, <2>15
<1> QED
  BY <1>1, <1>2

-------------------------------------------------------------------------------
(* One page of tasks *)

\* A client that is missing from the list, although nobody has touched the
\* clients, is in the trash, and whatever points to it dangles.
LEMMA MissingClients ==
    ASSUME SnapshotIInv, reader.pc = "tasks", steady.clients = DOMAIN clients,
           NEW c \in DOMAIN clients, c \notin reader.clients
    PROVE  clients[c] = InTrash
<1>1. ClientIsExact(c)
  BY DEF SnapshotIInv, SnapshotInv, PassedPagesAreExact, ClientPassed
<1>2. clients[c] \in ClientPages
  BY ListDomains DEF SnapshotIInv, SnapshotInv
<1> QED
  BY <1>1, <1>2 DEF ClientIsExact, ClientPages

LEMMA MissingClientsDangle ==
    ASSUME SnapshotIInv, reader.pc = "tasks", steady.clients = DOMAIN clients,
           NEW row \in reader.tasks \cup KeptTasks(Page(tasks)),
           row.client \notin reader.clients
    PROVE  dangled
<1>1. CASE row \in reader.tasks
  BY <1>1, MissingClients DEF SnapshotIInv, RowsHaveClients
<1>2. CASE row \in KeptTasks(Page(tasks))
  <2>1. PICK i \in DOMAIN tasks : Linked(i) /\ row.client = tasks[i]
    BY <1>2 DEF KeptTasks, Page
  <2>2. tasks[i] \in DOMAIN clients
    BY <2>1 DEF SnapshotIInv, LinksExist
  <2>3. clients[tasks[i]] = InTrash
    BY <2>1, <2>2, MissingClients
  <2>4. Dangles
    BY <2>1, <2>3 DEF Dangles
  <2> QED
    BY <2>4 DEF SnapshotIInv, DanglingIsSeen
<1> QED
  BY <1>1, <1>2

\* A page of tasks has been read, and the reader goes on or is done.
LEMMA TasksPassed ==
    ASSUME SnapshotIInv, reader.pc = "tasks", UNCHANGED <<notion, steady, dangled>>,
           \A i \in Page(tasks) : tasks[i] # Refused,
           NEW pc, NEW outcome, NEW cursor \in Nat, NEW count \in Nat,
           \/ pc = "tasks" /\ outcome = "none" /\ cursor = reader.cursor + PageSize
           \/ pc = "done" /\ outcome = "snapshot" /\ LastPage(tasks),
           reader' = [reader EXCEPT
                        !.tasks = reader.tasks \cup KeptTasks(Page(tasks)),
                        !.skipped = reader.skipped
                                      + Cardinality({i \in Page(tasks) : tasks[i] = Empty}),
                        !.pc = pc, !.outcome = outcome, !.cursor = cursor, !.count = count]
    PROVE  SnapshotIInv'
<1> DEFINE page == Page(tasks)
           unlinked == {i \in page : tasks[i] = Empty}
<1> USE DEF SnapshotIInv, SnapshotInv
<1>1. /\ clients' = clients /\ tasks' = tasks /\ steady' = steady /\ dangled' = dangled
      /\ reader \in Reader /\ reader.cursor \in Nat /\ reader.skipped \in Nat
      /\ \A row \in reader.tasks : row.id <= reader.cursor
  BY DEF notion, SnapshotTypeOK, Reader, ReaderIsBehindCursor
<1>2. /\ DOMAIN tasks = 1 .. Len(tasks) /\ Len(tasks) \in Nat
      /\ \A i \in DOMAIN tasks : i \in 1 .. MaxTasks
      /\ \A i \in steady.tasks : i \in DOMAIN tasks
  BY ListDomains DEF SteadyPagesExist
<1>3. page \subseteq DOMAIN tasks /\ unlinked \subseteq 1 .. MaxTasks
  BY <1>2 DEF Page
<1>4. Cardinality(unlinked) \in Nat
  BY <1>3, CountOfSubset, SnapshotAssumption
<1> HIDE DEF page, unlinked
<1>5. reader' = [reader EXCEPT !.tasks = reader.tasks \cup KeptTasks(page),
                               !.skipped = reader.skipped + Cardinality(unlinked),
                               !.pc = pc, !.outcome = outcome, !.cursor = cursor,
                               !.count = count]
  BY DEF page, unlinked
<1>6. /\ reader'.pc = pc /\ reader'.outcome = outcome /\ reader'.cursor = cursor
      /\ reader'.clients = reader.clients
      /\ reader'.tasks = reader.tasks \cup KeptTasks(page)
      /\ reader'.skipped = reader.skipped + Cardinality(unlinked)
  BY <1>1, <1>5 DEF Reader
<1>7. SnapshotTypeOK'
  <2>1. KeptTasks(page) \subseteq [id : 1 .. MaxTasks, client : 1 .. MaxClients]
    BY <1>2, <1>3 DEF KeptTasks, Linked
  <2>2. reader.tasks \cup KeptTasks(page)
          \in SUBSET [id : 1 .. MaxTasks, client : 1 .. MaxClients]
    BY <1>1, <2>1 DEF Reader
  <2>3. reader.skipped + Cardinality(unlinked) \in Nat
    BY <1>1, <1>4
  <2>4. reader' \in Reader
    BY <1>1, <1>5, <2>2, <2>3 DEF Reader
  <2> QED
    BY <1>1, <2>4 DEF SnapshotTypeOK
<1>8. SteadyPagesExist'
  BY <1>1 DEF SteadyPagesExist
<1>9. ReaderIsBehindCursor'
  <2>1. \A row \in KeptTasks(page) : row.id <= reader.cursor + PageSize
    BY DEF KeptTasks, Page, page
  <2>2. pc = "tasks" => \A row \in reader'.tasks : row.id <= reader'.cursor
    <3> SUFFICES ASSUME pc = "tasks", NEW row \in reader'.tasks
                 PROVE  row.id <= reader'.cursor
      OBVIOUS
    <3>1. CASE row \in reader.tasks
      <4>1. row.id <= reader.cursor /\ row.id \in Nat
        BY <1>1, <3>1 DEF Reader
      <4> QED
        BY <1>1, <1>6, <4>1, SnapshotAssumption
    <3>2. CASE row \in KeptTasks(page)
      BY <1>6, <2>1, <3>2
    <3> QED
      BY <1>6, <3>1, <3>2
  <2> QED
    BY <1>6, <2>2 DEF ReaderIsBehindCursor
<1>10. \A i \in steady.tasks : TaskPassed(i)' => i <= reader.cursor \/ i \in page
  BY <1>1, <1>2, <1>6, SnapshotAssumption DEF TaskPassed, LastPage, Page, page
<1>11. \A i \in steady.clients : ClientPassed(i)' => ClientIsExact(i)'
  BY <1>1, <1>6 DEF PassedPagesAreExact, ClientPassed, ClientIsExact
<1>12. ASSUME NEW i \in steady.tasks, TaskPassed(i)'
       PROVE  TaskIsExact(i)'
  <2> DEFINE rows == {row \in reader'.tasks : row.id = i}
             exact == IF Linked(i) THEN {[id |-> i, client |-> tasks[i]]} ELSE {}
  <2>1. CASE i <= reader.cursor
    <3>1. tasks[i] # Refused /\ {row \in reader.tasks : row.id = i} = exact
      BY <2>1 DEF PassedPagesAreExact, TaskPassed, TaskIsExact
    <3>2. i \notin page
      BY <1>1, <1>2, <2>1 DEF Page, page
    <3>3. \A row \in KeptTasks(page) : row.id # i
      BY <3>2 DEF KeptTasks
    <3>4. rows = exact
      BY <1>6, <3>1, <3>3
    <3> QED
      BY <1>1, <3>1, <3>4 DEF TaskIsExact, Linked
  <2>2. CASE ~(i <= reader.cursor)
    <3>1. i \in page
      BY <1>10, <1>12, <2>2
    <3>2. tasks[i] # Refused
      BY <3>1 DEF page
    <3>3. \A row \in reader.tasks : row.id # i
      BY <1>1, <2>2
    <3>4. {row \in KeptTasks(page) : row.id = i} = exact
      BY <3>1 DEF KeptTasks
    <3>5. rows = exact
      BY <1>6, <3>3, <3>4
    <3> QED
      BY <1>1, <3>2, <3>5 DEF TaskIsExact, Linked
  <2> QED
    BY <2>1, <2>2
<1>13. Cardinality(PassedUnlinked') <= reader'.skipped
  <2>1. PassedUnlinked' \subseteq PassedUnlinked \cup unlinked
    BY <1>1, <1>10 DEF PassedUnlinked, TaskPassed, unlinked
  <2>2. PassedUnlinked \subseteq 1 .. MaxTasks
    BY <1>2 DEF PassedUnlinked
  <2>3. PassedUnlinked \cup unlinked \subseteq 1 .. MaxTasks
    BY <1>3, <2>2
  <2>4. /\ Cardinality(PassedUnlinked') <= Cardinality(PassedUnlinked \cup unlinked)
        /\ Cardinality(PassedUnlinked') \in Nat
        /\ Cardinality(PassedUnlinked \cup unlinked) \in Nat
        /\ Cardinality(PassedUnlinked) \in Nat
    BY <2>1, <2>2, <2>3, CountOfSubset, SnapshotAssumption
  <2>5. Cardinality(PassedUnlinked \cup unlinked)
          <= Cardinality(PassedUnlinked) + Cardinality(unlinked)
    BY <1>3, <2>2, CountOfUnion, SnapshotAssumption
  <2>6. Cardinality(PassedUnlinked) <= reader.skipped
    BY DEF PassedPagesAreExact, PassedUnlinked
  <2> QED
    BY <1>1, <1>4, <1>6, <2>4, <2>5, <2>6
<1>14. PassedPagesAreExact'
  BY <1>1, <1>11, <1>12, <1>13 DEF PassedPagesAreExact, PassedUnlinked
<1>15. LinksExist' /\ DanglingIsSeen'
  BY <1>1 DEF LinksExist, DanglingIsSeen, Dangles, Linked
<1>16. RowsHaveClients'
  <2>1. ASSUME NEW row \in KeptTasks(page)
        PROVE  /\ row.client \in DOMAIN clients
               /\ clients[row.client] = InTrash => dangled
    <3>1. PICK i \in DOMAIN tasks : Linked(i) /\ row.client = tasks[i]
      BY <1>3 DEF KeptTasks
    <3> QED
      BY <3>1 DEF LinksExist, DanglingIsSeen, Dangles
  <2> QED
    BY <1>1, <1>6, <2>1 DEF RowsHaveClients
<1>17. RelationErrorsHaveACause'
  BY <1>6 DEF RelationErrorsHaveACause
<1> QED
  BY <1>7, <1>8, <1>9, <1>14, <1>15, <1>16, <1>17

LEMMA ReadTasksStep == ASSUME SnapshotIInv, ReadTasks PROVE SnapshotIInv'
<1>1. CASE Fail
  BY <1>1, FailStep DEF ReadTasks
<1>2. CASE ~Fail
  <2> DEFINE page == Page(tasks)
             kept == reader.tasks \cup KeptTasks(page)
             skipped == reader.skipped + Cardinality({i \in page : tasks[i] = Empty})
             closed == \A row \in kept : row.client \in reader.clients
  <2>1. reader.pc = "tasks" /\ UNCHANGED <<notion, steady, dangled>>
    BY DEF ReadTasks
  <2>2. reader \in Reader /\ reader.outcome = "none"
    BY <2>1 DEF SnapshotIInv, SnapshotInv, SnapshotTypeOK, ReaderIsBehindCursor
  <2>3. PICK hidden \in SUBSET {i \in page : tasks[i] = InTrash} :
          LET count == reader.count + Cardinality(page \ hidden)
              unlinked == {i \in page : tasks[i] = Empty}
              read == [reader EXCEPT !.tasks = @ \cup KeptTasks(page),
                                     !.skipped = @ + Cardinality(unlinked)]
          IN  /\ count <= MaxRows
              /\ \A i \in page : tasks[i] # Refused
              /\ \/ /\ ~LastPage(tasks)
                    /\ reader' = [read EXCEPT !.cursor = @ + PageSize, !.count = count]
                 \/ /\ LastPage(tasks) /\ \A row \in read.tasks : row.client \in read.clients
                    /\ reader' = [read EXCEPT !.pc = "done", !.outcome = "snapshot"]
                 \/ /\ LastPage(tasks)
                    /\ ~(\A row \in read.tasks : row.client \in read.clients)
                    /\ reader' = [Idle EXCEPT !.pc = "done",
                                              !.outcome = "unavailableClient"]
    BY <1>2 DEF ReadTasks
  <2> DEFINE count == reader.count + Cardinality(page \ hidden)
  <2>4. count \in Nat
    <3>1. page \subseteq 1 .. MaxTasks
      BY ListDomains DEF Page, SnapshotIInv, SnapshotInv
    <3>2. Cardinality(page \ hidden) \in Nat
      BY <3>1, CountOfSubset, SnapshotAssumption
    <3> QED
      BY <2>2, <3>2 DEF Reader
  <2>5. \A i \in page : tasks[i] # Refused
    BY <2>3
  <2>6. reader.cursor \in Nat /\ reader.cursor + PageSize \in Nat /\ reader.count \in Nat
    BY <2>2, SnapshotAssumption DEF Reader
  <2>7. \/ reader' = [reader EXCEPT !.tasks = kept, !.skipped = skipped,
                                    !.cursor = reader.cursor + PageSize, !.count = count]
        \/ LastPage(tasks) /\ reader' = [reader EXCEPT !.tasks = kept, !.skipped = skipped,
                                                       !.pc = "done", !.outcome = "snapshot"]
        \/ ~closed /\ reader' = [Idle EXCEPT !.pc = "done", !.outcome = "unavailableClient"]
    <3> HIDE DEF page
    <3> QED
      BY <2>2, <2>3 DEF Reader
  <2>8. CASE reader' = [reader EXCEPT !.tasks = kept, !.skipped = skipped,
                                      !.cursor = reader.cursor + PageSize, !.count = count]
    <3>1. reader' = [reader EXCEPT !.tasks = kept, !.skipped = skipped,
                                   !.pc = "tasks", !.outcome = "none",
                                   !.cursor = reader.cursor + PageSize, !.count = count]
      <4> HIDE DEF kept, skipped, count
      <4> QED
        BY <2>1, <2>2, <2>8 DEF Reader
    <3> QED
      BY <2>1, <2>4, <2>5, <2>6, <3>1, TasksPassed
  <2>9. CASE /\ LastPage(tasks)
             /\ reader' = [reader EXCEPT !.tasks = kept, !.skipped = skipped,
                                         !.pc = "done", !.outcome = "snapshot"]
    <3>1. reader' = [reader EXCEPT !.tasks = kept, !.skipped = skipped,
                                   !.pc = "done", !.outcome = "snapshot",
                                   !.cursor = reader.cursor, !.count = reader.count]
      <4> HIDE DEF kept, skipped
      <4> QED
        BY <2>1, <2>2, <2>9 DEF Reader
    <3> QED
      BY <2>1, <2>5, <2>6, <2>9, <3>1, TasksPassed
  <2>10. CASE /\ ~closed
              /\ reader' = [Idle EXCEPT !.pc = "done", !.outcome = "unavailableClient"]
    <3>1. reader' = EmptyHanded("done", "unavailableClient")
      BY <2>10 DEF Idle, EmptyHanded
    <3>2. dangled \/ steady.clients # DOMAIN clients
      BY <2>1, <2>10, MissingClientsDangle
    <3> QED
      BY <2>1, <3>1, <3>2, HistoryFits, EmptyHandedStep
  <2> QED
    BY <2>7, <2>8, <2>9, <2>10
<1> QED
  BY <1>1, <1>2

-------------------------------------------------------------------------------
(* The invariant *)

LEMMA SnapshotInitially == SnapshotInit => SnapshotIInv
<1> SUFFICES ASSUME SnapshotInit PROVE SnapshotIInv
  OBVIOUS
<1>1. /\ clients \in Seq(ClientPages) /\ Len(clients) = 0 /\ DOMAIN clients = {}
      /\ tasks \in Seq(TaskPages) /\ Len(tasks) = 0 /\ DOMAIN tasks = {}
  BY EmptySeq DEF SnapshotInit
<1>2. SnapshotTypeOK
  <2>1. reader \in Reader
    BY DEF SnapshotInit, Idle, Reader
  <2>2. Len(clients) <= MaxClients /\ Len(tasks) <= MaxTasks
    BY <1>1, SnapshotAssumption
  <2>3. steady \in [clients : SUBSET (1 .. MaxClients), tasks : SUBSET (1 .. MaxTasks)]
    BY DEF SnapshotInit
  <2>4. dangled \in BOOLEAN
    BY DEF SnapshotInit
  <2> QED
    BY <1>1, <2>1, <2>2, <2>3, <2>4 DEF SnapshotTypeOK
<1>3. SteadyPagesExist /\ ReaderIsBehindCursor
  BY DEF SnapshotInit, SteadyPagesExist, ReaderIsBehindCursor, Idle
<1>4. PassedPagesAreExact
  <2>1. {i \in steady.tasks : TaskPassed(i) /\ tasks[i] = Empty} = {}
    BY DEF SnapshotInit
  <2> QED
    BY <2>1, FS_EmptySet DEF SnapshotInit, PassedPagesAreExact, Idle
<1>5. LinksExist /\ DanglingIsSeen /\ RowsHaveClients /\ RelationErrorsHaveACause
  BY <1>1 DEF SnapshotInit, Idle, LinksExist, DanglingIsSeen, RowsHaveClients,
              RelationErrorsHaveACause
<1> QED
  BY <1>2, <1>3, <1>4, <1>5 DEF SnapshotIInv, SnapshotInv

LEMMA SnapshotStays == ASSUME SnapshotIInv, UNCHANGED snapshot PROVE SnapshotIInv'
BY DEF SnapshotIInv, SnapshotInv, SnapshotTypeOK, SteadyPagesExist, ReaderIsBehindCursor,
       PassedPagesAreExact, ClientPassed, TaskPassed, ClientIsExact, TaskIsExact, Linked,
       LinksExist, DanglingIsSeen, Dangles, RowsHaveClients, RelationErrorsHaveACause,
       snapshot

\* SnapshotIInv holds of the reader and of whoever edits (fetchSnapshot).
THEOREM SnapshotIsSound == SnapshotSpec => []SnapshotIInv
<1>1. SnapshotInit => SnapshotIInv
  BY SnapshotInitially
<1>2. SnapshotIInv /\ [SnapshotNext]_snapshot => SnapshotIInv'
  <2> SUFFICES ASSUME SnapshotIInv, [SnapshotNext]_snapshot
               PROVE  SnapshotIInv'
    OBVIOUS
  <2>1. CASE People
    BY <2>1, CreateClientStep, EditClientStep, CreateTaskStep, EditTaskStep DEF People
  <2>2. CASE FetchSnapshot
    BY <2>2, FetchSnapshotStep
  <2>3. CASE Read
    BY <2>3, DiscoverStep, ReadClientsStep, ReadTasksStep DEF Read
  <2>4. CASE Return
    BY <2>4, ReturnStep
  <2>5. CASE UNCHANGED snapshot
    BY <2>5, SnapshotStays
  <2> QED
    BY <2>1, <2>2, <2>3, <2>4, <2>5 DEF SnapshotNext
<1> QED
  BY <1>1, <1>2, PTL DEF SnapshotSpec

\* Types, and what the reader holds of the pages it has passed (readDataSource).
THEOREM SnapshotInvHolds == SnapshotSpec => []SnapshotInv
<1>1. SnapshotIInv => SnapshotInv
  BY DEF SnapshotIInv
<1> QED
  BY <1>1, SnapshotIsSound, PTL

\* A snapshot shows every page that nobody touched while it was read exactly
\* as it is, and there is none with an untouched page it must refuse
\* (fetchSnapshot, "returns no partial snapshot").
THEOREM SteadyPagesExact == SnapshotSpec => []SteadyPagesAreExact
<1>1. SnapshotIInv => SteadyPagesAreExact
  <2> SUFFICES ASSUME SnapshotIInv, reader.outcome = "snapshot"
               PROVE  /\ \A i \in steady.clients : ClientIsExact(i)
                      /\ \A i \in steady.tasks : TaskIsExact(i)
                      /\ Cardinality({i \in steady.tasks : tasks[i] = Empty}) <= reader.skipped
    BY DEF SteadyPagesAreExact
  <2>1. /\ \A i \in steady.clients : ClientPassed(i)
        /\ \A i \in steady.tasks : TaskPassed(i)
    BY DEF ClientPassed, TaskPassed
  <2>2. {i \in steady.tasks : tasks[i] = Empty}
          = {i \in steady.tasks : TaskPassed(i) /\ tasks[i] = Empty}
    BY <2>1
  <2> QED
    BY <2>1, <2>2 DEF SnapshotIInv, SnapshotInv, PassedPagesAreExact
<1> QED
  BY <1>1, SnapshotIsSound, PTL

\* A read fails for a client that is unavailable only if a task did point to
\* one that was gone, or clients were edited or created meanwhile
\* (validateRelations).
THEOREM RelationErrorsCaused == SnapshotSpec => []RelationErrorsHaveACause
<1>1. SnapshotIInv => RelationErrorsHaveACause
  BY DEF SnapshotIInv
<1> QED
  BY <1>1, SnapshotIsSound, PTL
===============================================================================
