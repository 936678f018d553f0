---------------------------- MODULE NotionSnapshot ----------------------------
(***************************************************************************)
(* NotionReader.fetchSnapshot against a Notion workspace that people edit  *)
(* meanwhile.  Nothing locks Notion: the reader checks the schemas, reads  *)
(* all clients page by page, then all tasks page by page, and compares the *)
(* two lists.  Each action of the reader is one request and the code up to *)
(* the next.  A query returns rows in the order they were created, which   *)
(* is how the SDK's iterateAllDataSourceRows goes on from a cursor.        *)
(***************************************************************************)
EXTENDS Integers, Sequences, FiniteSets

CONSTANTS MaxRows,     \* MAX_ROWS_PER_DATA_SOURCE
          PageSize,    \* NOTION_PAGE_SIZE
          MaxClients,  \* bounds on the pages ever created
          MaxTasks,
          Empty,       \* an empty Clientes relation
          Refused,     \* a value normalizeTask throws on
          InTrash      \* a page in the trash

ASSUME SnapshotAssumption ==
    /\ MaxRows \in Nat \ {0} /\ PageSize \in Nat \ {0}
    /\ MaxClients \in Nat /\ MaxTasks \in Nat
    /\ {Empty, Refused, InTrash} \cap Nat = {}
    /\ Empty # Refused /\ Empty # InTrash /\ Refused # InTrash

VARIABLES clients,   \* the client pages, oldest first
          tasks,     \* the task pages, oldest first: what their Clientes holds
          reader,    \* the reader's local variables
          steady,    \* history: pages nobody has touched since the read began
          dangled    \* history: a task has pointed to a client that was gone

notion == <<clients, tasks>>
snapshot == <<clients, tasks, reader, steady, dangled>>

ClientPages == {"titled", Refused, InTrash}
TaskPages == 1 .. MaxClients \cup {Empty, Refused, InTrash}

Reader ==
    [pc : {"idle", "discover", "clients", "tasks", "done"},
     cursor : Nat,                        \* rows passed in this data source
     count : Nat,                         \* rowCount
     clients : SUBSET (1 .. MaxClients),
     tasks : SUBSET [id : 1 .. MaxTasks, client : 1 .. MaxClients],
     skipped : Nat,
     outcome : {"none", "snapshot", "unavailableClient", "failed"}]

Idle == [pc |-> "idle", cursor |-> 0, count |-> 0, clients |-> {}, tasks |-> {},
         skipped |-> 0, outcome |-> "none"]

SnapshotTypeOK ==
    /\ clients \in Seq(ClientPages) /\ Len(clients) <= MaxClients
    /\ tasks \in Seq(TaskPages) /\ Len(tasks) <= MaxTasks
    /\ reader \in Reader
    /\ steady \in [clients : SUBSET (1 .. MaxClients), tasks : SUBSET (1 .. MaxTasks)]
    /\ dangled \in BOOLEAN

SnapshotInit ==
    /\ clients = <<>>
    /\ tasks = <<>>
    /\ reader = Idle
    /\ steady = [clients |-> {}, tasks |-> {}]
    /\ dangled = FALSE

-------------------------------------------------------------------------------
(* People *)

Linked(i) == tasks[i] \in 1 .. MaxClients
Dangles == \E i \in DOMAIN tasks : Linked(i) /\ clients[tasks[i]] = InTrash

\* A read that is over is taken by its caller before the next edit: later ones
\* say nothing of it.
Touch(touchedClients, touchedTasks) ==
    /\ reader.pc # "done"
    /\ steady' = [clients |-> steady.clients \ touchedClients,
                  tasks |-> steady.tasks \ touchedTasks]
    /\ dangled' = (dangled \/ (reader.pc # "idle" /\ Dangles'))
    /\ UNCHANGED reader

CreateClient ==
    /\ Len(clients) < MaxClients
    /\ \E page \in {"titled", Refused} : clients' = Append(clients, page)
    /\ UNCHANGED tasks
    /\ Touch({}, {})

EditClient ==
    \E i \in DOMAIN clients, page \in ClientPages :
        /\ page # clients[i]
        /\ clients' = [clients EXCEPT ![i] = page]
        /\ UNCHANGED tasks
        /\ Touch({i}, {})

\* A relation is chosen among the clients there are.
Choices == {i \in DOMAIN clients : clients[i] # InTrash} \cup {Empty, Refused}

CreateTask ==
    /\ Len(tasks) < MaxTasks
    /\ \E page \in Choices : tasks' = Append(tasks, page)
    /\ UNCHANGED clients
    /\ Touch({}, {})

\* A task comes back from the trash with the client it had, which may be gone.
EditTask ==
    \E i \in DOMAIN tasks :
      \E page \in Choices \cup (IF tasks[i] = InTrash THEN DOMAIN clients ELSE {InTrash}) :
        /\ page # tasks[i]
        /\ tasks' = [tasks EXCEPT ![i] = page]
        /\ UNCHANGED clients
        /\ Touch({}, {i})

-------------------------------------------------------------------------------
(* The reader *)

Fail == reader' = [Idle EXCEPT !.pc = "done", !.outcome = "failed"]

FetchSnapshot ==
    /\ reader.pc = "idle"
    /\ reader' = [Idle EXCEPT !.pc = "discover"]
    /\ steady' = [clients |-> DOMAIN clients, tasks |-> DOMAIN tasks]
    /\ dangled' = Dangles
    /\ UNCHANGED notion

\* The caller has the snapshot or the error; nothing of it is kept.
Return ==
    /\ reader.pc = "done"
    /\ reader' = Idle
    /\ steady' = [clients |-> {}, tasks |-> {}]
    /\ dangled' = FALSE
    /\ UNCHANGED notion

\* discoverAndValidateDataSources: the databases and schemas are as expected,
\* or not, or Notion does not answer.
Discover ==
    /\ reader.pc = "discover"
    /\ reader' = [reader EXCEPT !.pc = "clients"] \/ Fail
    /\ UNCHANGED <<notion, steady, dangled>>

\* The page of rows after the cursor; rows in the trash may be left out.
Page(rows) == {i \in DOMAIN rows : i > reader.cursor /\ i <= reader.cursor + PageSize}

\* Mutant: the limit ends the read instead of failing it.
LastPageOrLimit(rows) ==
    Len(rows) <= reader.cursor + PageSize \/ reader.count + PageSize >= MaxRows
\* Mutant: has_more is ignored.
FirstPageIsLast(rows) == TRUE
LastPage(rows) == Len(rows) <= reader.cursor + PageSize

\* Mutant: a client in the trash is kept as well.
KeptUnlessRefused(page) == {i \in page : clients[i] # Refused}
KeptClients(page) == {i \in page : clients[i] = "titled"}

KeptTasks(page) ==
    {[id |-> i, client |-> tasks[i]] : i \in {j \in page : Linked(j)}}

\* readDataSource over Clients, one query: too many rows or a client without a
\* title fail the read.
ReadClients ==
    /\ reader.pc = "clients"
    /\ \/ Fail
       \/ LET page == Page(clients) IN
          \E hidden \in SUBSET {i \in page : clients[i] = InTrash} :
            LET count == reader.count + Cardinality(page \ hidden)
                read == [reader EXCEPT !.clients = @ \cup KeptClients(page)]
            IN  /\ count <= MaxRows
                /\ \A i \in page : clients[i] # Refused
                /\ reader' = IF LastPage(clients)
                             THEN [read EXCEPT !.pc = "tasks", !.cursor = 0, !.count = 0]
                             ELSE [read EXCEPT !.cursor = @ + PageSize, !.count = count]
    /\ UNCHANGED <<notion, steady, dangled>>

\* readDataSource over Tasks: a task without a client is counted and left out
\* before anything else of it is looked at.  The last page goes on to
\* validateRelations.
ReadTasks ==
    /\ reader.pc = "tasks"
    /\ \/ Fail
       \/ LET page == Page(tasks) IN
          \E hidden \in SUBSET {i \in page : tasks[i] = InTrash} :
            LET count == reader.count + Cardinality(page \ hidden)
                unlinked == {i \in page : tasks[i] = Empty}
                read == [reader EXCEPT !.tasks = @ \cup KeptTasks(page),
                                       !.skipped = @ + Cardinality(unlinked)]
                closed == \A row \in read.tasks : row.client \in read.clients
            IN  /\ count <= MaxRows
                /\ \A i \in page : tasks[i] # Refused
                /\ \/ /\ ~LastPage(tasks)
                      /\ reader' = [read EXCEPT !.cursor = @ + PageSize, !.count = count]
                   \/ /\ LastPage(tasks) /\ closed
                      /\ reader' = [read EXCEPT !.pc = "done", !.outcome = "snapshot"]
                   \/ /\ LastPage(tasks) /\ ~closed
                      /\ reader' = [Idle EXCEPT !.pc = "done",
                                                !.outcome = "unavailableClient"]
    /\ UNCHANGED <<notion, steady, dangled>>

-------------------------------------------------------------------------------
People == CreateClient \/ EditClient \/ CreateTask \/ EditTask
Read == Discover \/ ReadClients \/ ReadTasks

SnapshotNext == People \/ FetchSnapshot \/ Read \/ Return

SnapshotSpec == SnapshotInit /\ [][SnapshotNext]_snapshot

-------------------------------------------------------------------------------
(* Properties *)

\* "returns no partial snapshot" (reader.test.ts): whatever is edited while
\* the pages are read, a snapshot shows every page nobody touched exactly as
\* it is: kept, skipped and counted, or left out as trash; and with an
\* untouched page it must refuse, there is no snapshot.
ClientIsExact(i) ==
    /\ clients[i] # Refused
    /\ (i \in reader.clients) <=> (clients[i] = "titled")

TaskIsExact(i) ==
    /\ tasks[i] # Refused
    /\ {row \in reader.tasks : row.id = i}
         = IF Linked(i) THEN {[id |-> i, client |-> tasks[i]]} ELSE {}

SteadyPagesAreExact ==
    reader.outcome = "snapshot" =>
        /\ \A i \in steady.clients : ClientIsExact(i)
        /\ \A i \in steady.tasks : TaskIsExact(i)
        /\ Cardinality({i \in steady.tasks : tasks[i] = Empty}) <= reader.skipped

\* The same of the pages passed so far: what an untouched page came to does
\* not change before the read is over.
ClientPassed(i) ==
    \/ reader.pc = "clients" /\ i <= reader.cursor
    \/ reader.pc = "tasks"
    \/ reader.outcome = "snapshot"
TaskPassed(i) ==
    \/ reader.pc = "tasks" /\ i <= reader.cursor
    \/ reader.outcome = "snapshot"

PassedPagesAreExact ==
    /\ \A i \in steady.clients : ClientPassed(i) => ClientIsExact(i)
    /\ \A i \in steady.tasks : TaskPassed(i) => TaskIsExact(i)
    /\ Cardinality({i \in steady.tasks : TaskPassed(i) /\ tasks[i] = Empty})
         <= reader.skipped

\* Nothing is held of pages the cursor has not passed.
ReaderIsBehindCursor ==
    /\ reader.pc \in {"idle", "discover"} => reader = [Idle EXCEPT !.pc = reader.pc]
    /\ reader.pc = "clients" => /\ reader.clients \subseteq 1 .. reader.cursor
                                /\ reader.tasks = {} /\ reader.skipped = 0
    /\ reader.pc = "tasks" => \A row \in reader.tasks : row.id <= reader.cursor
    /\ (reader.pc # "done") <=> (reader.outcome = "none")

SteadyPagesExist == steady.clients \subseteq DOMAIN clients /\ steady.tasks \subseteq DOMAIN tasks

\* The inductive invariant of the reader.
SnapshotInv ==
    /\ SnapshotTypeOK
    /\ SteadyPagesExist
    /\ ReaderIsBehindCursor
    /\ PassedPagesAreExact

\* "Task page ... references a client page that is unavailable" (reader.ts
\* validateRelations) is not the reader's own doing: either a task did point
\* to a client that was gone, or clients were edited or created meanwhile.
\* (The second is enough: a client created after Clients were read, and
\* linked before Tasks are, fails the read although nothing ever dangled.)
RelationErrorsHaveACause ==
    reader.outcome = "unavailableClient" => dangled \/ steady.clients # DOMAIN clients
===============================================================================
