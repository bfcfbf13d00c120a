--------------------------------- MODULE Backup ---------------------------------
(* Backups of the conversations: what an export reads, what an import accepts and the      *)
(* forest of threads and nodes both are about (src/data/exportImport.ts,                   *)
(* src/data/importValidator.ts, src/db/tree.ts).                                           *)
(*                                                                                         *)
(* An export reads the tables one by one while the thread goes on. An import takes any     *)
(* file, one of its own or one edited by hand, checks every reference in it and replaces   *)
(* what is stored. A node stands for the nodes one turn writes below the cursor.           *)
EXTENDS Naturals, FiniteSets, FiniteSetsExt

CONSTANTS
  Thread,
  NoThread,
  MaxNode,       \* bound: ids of nodes
  OfferedNodes,  \* the ids nodes of an offered file may have
  MaxSteps       \* bound: operations on the threads

ASSUME BackupAssumption ==
  NoThread \notin Thread /\ MaxNode \in Nat /\ OfferedNodes \subseteq 1..MaxNode
  /\ MaxSteps \in Nat

VARIABLES
  threads,    \* the thread table: the parent thread and the cursor, 0 for none
  nodes,      \* the node table: thread, parent (0 for a root) and seq
  exporting,  \* the table an export has read first, and whether anything changed since
  file,       \* the file to import, whether an export wrote it, and over a change
  steps

backupVars == <<threads, nodes, exporting, file, steps>>

NodeId == 1..MaxNode
ThreadRow == [parent : Thread \cup {NoThread}, leaf : 0..MaxNode]
NodeRow == [thread : Thread, parent : 0..MaxNode, seq : 1..MaxNode]
(* A table is a function from the ids in it to their rows.                                 *)
Tables(Row, ids) == UNION {[S -> Row] : S \in SUBSET ids}

NoTable == [x \in {} |-> 0]
NoFile == [threads |-> NoTable, nodes |-> NoTable, own |-> FALSE, torn |-> FALSE]
NotExporting == [read |-> "nothing", table |-> NoTable, torn |-> FALSE]

NodesOf(ns, t) == {n \in DOMAIN ns : ns[n].thread = t}

(* The nodes from n upwards, as far as the parents of the table lead.                      *)
Ancestors(ns, n) ==
  LET up[k \in 0..MaxNode] ==   \* k hops
        IF k = 0 THEN {n} \cap DOMAIN ns
        ELSE up[k - 1] \cup ({ns[m].parent : m \in up[k - 1]} \cap DOMAIN ns)
  IN up[MaxNode]

(* ------------------------------ what an import accepts ------------------------------ *)

(* validateDomain: ids are unique, a node names a thread of the file and a parent of its   *)
(* own thread that was written before it, and no two nodes of a thread have one seq.       *)
NodesValid(ts, ns) ==
  \A n \in DOMAIN ns :
    /\ ns[n].thread \in DOMAIN ts
    /\ \A m \in DOMAIN ns \ {n} : <<ns[m].thread, ns[m].seq>> # <<ns[n].thread, ns[n].seq>>
    /\ ns[n].parent = 0 \/ /\ ns[n].parent \in DOMAIN ns
                           /\ ns[ns[n].parent].thread = ns[n].thread
                           /\ ns[ns[n].parent].seq < ns[n].seq

LeafNamed(ts, ns, t) == ts[t].leaf # 0 => ts[t].leaf \in DOMAIN ns
(* validateThread: a thread with nodes has one root, and its cursor hangs below it.        *)
LeafValid(ts, ns, t) ==
  LET own == NodesOf(ns, t)
      roots == {n \in own : ns[n].parent = 0}
  IN /\ own # {} => /\ Cardinality(roots) = 1
                    /\ roots \subseteq Ancestors(ns, ts[t].leaf)
     /\ ts[t].leaf # 0 => ts[t].leaf \in own

(* A forked thread names its source, and no thread descends from itself.                   *)
ThreadsValid(ts) ==
  LET above[k \in 0..Cardinality(Thread), t \in DOMAIN ts] ==
        IF k = 0 \/ ts[t].parent = NoThread THEN t ELSE above[k - 1, ts[t].parent]
  IN /\ \A t \in DOMAIN ts : ts[t].parent \in (DOMAIN ts \cup {NoThread}) \ {t}
     /\ \A t \in DOMAIN ts : ts[above[Cardinality(Thread), t]].parent = NoThread

Valid(f) ==
  /\ NodesValid(f.threads, f.nodes)
  /\ \A t \in DOMAIN f.threads : LeafValid(f.threads, f.nodes, t)
  /\ ThreadsValid(f.threads)

(* ------------------------------ the threads ------------------------------ *)

BackupInit ==
  /\ threads = NoTable /\ nodes = NoTable /\ exporting = NotExporting /\ file = NoFile
  /\ steps = 0

(* An import replaces everything whatever happened since the file was written, so it       *)
(* follows the file at once.                                                               *)
Step ==
  /\ file = NoFile /\ steps < MaxSteps /\ steps' = steps + 1
  /\ exporting' = [exporting EXCEPT !.torn = @ \/ exporting.read # "nothing"]

(* thread.create, and thread.fork: an empty thread that names its source.                  *)
CreateThread(t, source) ==
  /\ Step /\ t \in Thread \ DOMAIN threads /\ source \in DOMAIN threads \cup {NoThread}
  /\ threads' = [x \in DOMAIN threads \cup {t} |->
                  IF x = t THEN [parent |-> source, leaf |-> 0] ELSE threads[x]]
  /\ UNCHANGED <<nodes, file>>

(* deleteThread: the thread and all its nodes, in one transaction.                         *)
RemoveThread(t) ==
  /\ Step /\ t \in DOMAIN threads
  /\ threads' = [x \in DOMAIN threads \ {t} |-> threads[x]]
  /\ nodes' = [n \in DOMAIN nodes \ NodesOf(nodes, t) |-> nodes[n]]
  /\ UNCHANGED file

(* appendNode: with the next seq of the thread; the node becomes the cursor.               *)
AppendBelow(t, p) ==
  /\ Step /\ NodeId \ DOMAIN nodes # {}
  /\ LET id == CHOOSE n \in NodeId \ DOMAIN nodes : TRUE
         seqs == {nodes[n].seq : n \in NodesOf(nodes, t)}
         row == [thread |-> t, parent |-> p, seq |-> IF seqs = {} THEN 1 ELSE Max(seqs) + 1]
     IN /\ row.seq \in NodeId
        /\ nodes' = [n \in DOMAIN nodes \cup {id} |-> IF n = id THEN row ELSE nodes[n]]
        /\ threads' = [threads EXCEPT ![t].leaf = id]
  /\ UNCHANGED file

AppendTurn(t) == t \in DOMAIN threads /\ AppendBelow(t, threads[t].leaf)

(* turn.fork: a message is edited; its new version goes where the old one hangs, which for *)
(* the first message of the thread is nowhere (ConversationTree has the steps of a fork).  *)
EditMessage(t) ==
  /\ t \in DOMAIN threads
  /\ \E n \in Ancestors(nodes, threads[t].leaf) : AppendBelow(t, nodes[n].parent)

(* ------------------------------ export and import ------------------------------ *)

(* exportAll: the tables are read in no particular order, each on its own.                 *)
ReadFirst ==
  /\ file = NoFile /\ exporting.read = "nothing"
  /\ \/ exporting' = [read |-> "threads", table |-> threads, torn |-> FALSE]
     \/ exporting' = [read |-> "nodes", table |-> nodes, torn |-> FALSE]
  /\ UNCHANGED <<threads, nodes, file, steps>>

WriteExport ==
  /\ exporting.read # "nothing" /\ exporting' = NotExporting
  /\ file' = [threads |-> IF exporting.read = "threads" THEN exporting.table ELSE threads,
              nodes |-> IF exporting.read = "nodes" THEN exporting.table ELSE nodes,
              own |-> TRUE, torn |-> exporting.torn]
  /\ UNCHANGED <<threads, nodes, steps>>

(* A file from elsewhere, whatever it holds.                                               *)
OfferFile ==
  /\ steps = 0 /\ file = NoFile /\ exporting = NotExporting /\ threads = NoTable
  /\ \E ts \in Tables([parent : Thread \cup {NoThread}, leaf : OfferedNodes \cup {0}], Thread),
        ns \in Tables([thread : Thread, parent : OfferedNodes \cup {0}, seq : OfferedNodes],
                      OfferedNodes) :
       file' = [threads |-> ts, nodes |-> ns, own |-> FALSE, torn |-> FALSE]
  /\ UNCHANGED <<threads, nodes, exporting, steps>>

(* The import replaces everything by a file that passes, and refuses any other.            *)
ImportFile ==
  /\ file # NoFile /\ file' = NoFile
  /\ IF Valid(file) THEN threads' = file.threads /\ nodes' = file.nodes
     ELSE UNCHANGED <<threads, nodes>>
  /\ UNCHANGED <<exporting, steps>>

BackupNext ==
  \/ \E t \in Thread :
       \/ \E s \in Thread \cup {NoThread} : CreateThread(t, s)
       \/ RemoveThread(t) \/ AppendTurn(t) \/ EditMessage(t)
  \/ ReadFirst \/ WriteExport \/ OfferFile \/ ImportFile

BackupSpec == BackupInit /\ [][BackupNext]_backupVars

(* ------------------------------ properties ------------------------------ *)

BackupTypeOK ==
  /\ DOMAIN threads \subseteq Thread /\ \A t \in DOMAIN threads : threads[t] \in ThreadRow
  /\ DOMAIN nodes \subseteq NodeId /\ \A n \in DOMAIN nodes : nodes[n] \in NodeRow
  /\ exporting.read \in {"nothing", "threads", "nodes"} /\ file.own \in BOOLEAN
  /\ steps \in 0..MaxSteps

(* Every thread's cursor leads to a root through nodes of that very thread, each written   *)
(* before the one below it - for what was written here, and for whatever file an import    *)
(* let in and was then written on. getPath and validateLeaf throw where this fails.        *)
CursorsReachRoots ==
  \A t \in DOMAIN threads : threads[t].leaf # 0 =>
    /\ threads[t].leaf \in NodesOf(nodes, t)
    /\ \A n \in Ancestors(nodes, threads[t].leaf) :
         nodes[n].parent # 0 =>
           nodes[n].parent \in NodesOf(nodes, t) /\ nodes[nodes[n].parent].seq < nodes[n].seq

(* A backup can be imported again (docs/en/guide/data-and-privacy.md: "Data import accepts  *)
(* Panelot JSON" and "Export a backup first"), if nothing changed while it was written. It *)
(* cannot when the first message of a thread was edited, which gives the thread a second   *)
(* root, and when the source of a forked thread was deleted.                               *)
BackupRestores == file.own /\ ~file.torn => Valid(file)
================================================================================
