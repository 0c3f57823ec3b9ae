-------------------------------- MODULE Aof --------------------------------
(***************************************************************************)
(* The dump of the store to the AOF file: evalBGREWRITEAOF and Shutdown    *)
(* fork a child that runs DumpAllAOF (go/core/eval.go, aof.go, events.go). *)
(*                                                                         *)
(* A process has its own copy of the store; all share one file and the     *)
(* sockets of the clients.  The child of a shutdown exits after its dump;  *)
(* that of BGREWRITEAOF returns from the command, so it goes on with the   *)
(* event loop it inherited.                                                *)
(***************************************************************************)
EXTENDS Naturals, Sequences, FiniteSets, SequencesExt

CONSTANTS
  Keys, Nil,
  Vals,         \* values of keys
  Long,         \* those whose record is longer than the others'
  Main,         \* the server
  Children,     \* processes a fork may create
  Left,         \* files an earlier run of the server may have left
  MaxWrites     \* bound of the model: changes of stores

Procs == {Main} \cup Children

ASSUME AofAssumption ==
  /\ Nil \notin Vals /\ Long \subseteq Vals /\ Main \notin Children /\ MaxWrites \in Nat

VARIABLES
  store,     \* store[p]: key -> value, or Nil
  phase,     \* phase[p]: none, open, dump, serve or gone
  exits,     \* the processes that exit after their dump
  todo,      \* todo[p]: keys the dump of p has not come to
  off,       \* off[p]: offset of p's descriptor of the file
  file,      \* the cells of the file; Nil if there is none
  locked,    \* the mode of the file forbids opening it
  root,      \* the server may open it all the same
  writes,    \* changes of stores so far
  \* history, for the properties
  snap,      \* snap[p]: the store p was forked with
  order,     \* order[p]: the keys p has written
  old,       \* the file as the server found it; empty if there was none
  before,    \* before[p]: the file as p found it
  clean      \* the dumps that neither a write of another nor a failed one has disturbed

vars == <<store, phase, exits, todo, off, file, locked, root, writes, snap, order, old, before, clean>>
dumping == <<todo, off, file, locked, order, before, clean>>
fixed == <<root, old>>

Stores == [Keys -> Vals \cup {Nil}]
Present(s) == {k \in Keys : s[k] # Nil}

\* A record, SET key value, cut into cells: what two writes can tear apart.
Size(v) == IF v \in Long THEN 2 ELSE 1
Cell == [key : Keys, val : Vals, part : 1 .. 2]
ASSUME FileAssumption == Nil \notin Seq(Cell) /\ Left \subseteq Seq(Cell)
Record(k, v) == [i \in 1 .. Size(v) |-> [key |-> k, val |-> v, part |-> i]]

\* What is in the file when it is opened; it is created if there is none.
Found == IF file = Nil THEN <<>> ELSE file

Init ==
  /\ store = [p \in Procs |-> [k \in Keys |-> Nil]]
  /\ phase = [p \in Procs |-> IF p = Main THEN "serve" ELSE "none"]
  /\ exits = {}
  /\ todo = [p \in Procs |-> {}] /\ off = [p \in Procs |-> 0]
  /\ file \in Left \cup {Nil} /\ locked \in BOOLEAN /\ root \in BOOLEAN /\ writes = 0
  /\ snap = store /\ order = [p \in Procs |-> <<>>] /\ clean = {}
  /\ old = Found /\ before = [p \in Procs |-> <<>>]
-----------------------------------------------------------------------------
\* A process that serves clients changes a key of its own store.
Serve(p, k, v) ==
  /\ phase[p] = "serve" /\ writes < MaxWrites /\ store[p][k] # v
  /\ store' = [store EXCEPT ![p][k] = v]
  /\ writes' = writes + 1
  /\ UNCHANGED <<phase, exits, dumping, fixed, snap>>

\* The child starts with the parent's store at this moment ...
Fork(p, c) ==
  /\ phase[p] = "serve" /\ phase[c] = "none"
  /\ store' = [store EXCEPT ![c] = store[p]]
  /\ snap' = [snap EXCEPT ![c] = store[p]]

\* BGREWRITEAOF; if the fork fails it answers OK all the same.
evalBGREWRITEAOF(p, c) ==
  /\ Fork(p, c)
  /\ phase' = [phase EXCEPT ![c] = "open"]
  /\ UNCHANGED <<exits, dumping, fixed, writes>>

\* Shutdown marking the wrong process.
ShutdownMarksParent(c) ==
  /\ Fork(Main, c)
  /\ phase' = [phase EXCEPT ![Main] = "gone", ![c] = "open"]
  /\ exits' = exits \cup {Main}
  /\ UNCHANGED <<dumping, fixed, writes>>

\* A signal: the handler forks and exits; its child will do the same.
Shutdown(c) ==
  /\ Fork(Main, c)
  /\ phase' = [phase EXCEPT ![Main] = "gone", ![c] = "open"]
  /\ exits' = exits \cup {c}
  /\ UNCHANGED <<dumping, fixed, writes>>

\* Where a child goes when DumpAllAOF returns.
Return(p) == phase' = [phase EXCEPT ![p] = IF p \in exits THEN "gone" ELSE "serve"]

\* The file is created with a mode that allows nobody to open it again; if it
\* exists it is not truncated.
OpenFile(p) ==
  /\ phase[p] = "open" /\ (file = Nil \/ ~locked \/ root)
  /\ phase' = [phase EXCEPT ![p] = "dump"]
  /\ file' = Found /\ locked' = (locked \/ file = Nil)
  /\ todo' = [todo EXCEPT ![p] = Present(store[p])]
  /\ before' = [before EXCEPT ![p] = Found]
  /\ clean' = clean \cup {p}
  /\ UNCHANGED <<store, exits, off, fixed, writes, snap, order>>

OpenFails(p) ==
  /\ phase[p] = "open" /\ file # Nil /\ locked /\ ~root
  /\ Return(p)
  /\ UNCHANGED <<store, exits, dumping, fixed, writes, snap>>

\* Cells s written at the end of f.
OverwriteAtEnd(f, n, s) == f \o s

\* Cells s written over f from offset n on.
Overwrite(f, n, s) ==
  [i \in 1 .. Max({Len(f), n + Len(s)}) |->
     IF i \in n + 1 .. n + Len(s) THEN s[i - n] ELSE f[i]]

\* A dump of the store as it is in the server.
dumpKeyShared(p, k) ==
  /\ phase[p] = "dump" /\ k \in todo[p]
  /\ LET r == IF store[Main][k] = Nil THEN <<>> ELSE Record(k, store[Main][k]) IN
     /\ file' = Overwrite(file, off[p], r)
     /\ off' = [off EXCEPT ![p] = @ + Len(r)]
  /\ todo' = [todo EXCEPT ![p] = @ \ {k}]
  /\ order' = [order EXCEPT ![p] = Append(@, k)]
  /\ clean' = clean \cap {p}
  /\ UNCHANGED <<store, phase, exits, locked, fixed, writes, snap, before>>

\* The next key of the map's random iteration is written at p's own offset.
dumpKey(p, k) ==
  /\ phase[p] = "dump" /\ k \in todo[p]
  /\ LET r == Record(k, store[p][k]) IN
     /\ file' = Overwrite(file, off[p], r)
     /\ off' = [off EXCEPT ![p] = @ + Len(r)]
  /\ todo' = [todo EXCEPT ![p] = @ \ {k}]
  /\ order' = [order EXCEPT ![p] = Append(@, k)]
  /\ clean' = clean \cap {p}
  /\ UNCHANGED <<store, phase, exits, locked, fixed, writes, snap, before>>

\* A write that fails is ignored and the dump goes on.
WriteFails(p, k) ==
  /\ phase[p] = "dump" /\ k \in todo[p]
  /\ todo' = [todo EXCEPT ![p] = @ \ {k}]
  /\ clean' = clean \ {p}
  /\ UNCHANGED <<store, phase, exits, off, file, locked, fixed, writes, snap, order, before>>

\* "AOF file rewrite complete".
DumpAllAOF(p) ==
  /\ phase[p] = "dump" /\ todo[p] = {}
  /\ Return(p)
  /\ UNCHANGED <<store, exits, dumping, fixed, writes, snap>>

\* The child is killed: the file stays as far as it has come.
Stop(p) ==
  /\ phase[p] \in {"open", "dump"}
  /\ phase' = [phase EXCEPT ![p] = "gone"]
  /\ UNCHANGED <<store, exits, dumping, fixed, writes, snap>>

Next ==
  \/ \E p \in Procs, k \in Keys, v \in Vals \cup {Nil} : Serve(p, k, v)
  \/ \E p \in Procs, c \in Children : evalBGREWRITEAOF(p, c)
  \/ \E c \in Children : Shutdown(c)
  \/ \E p \in Children : OpenFile(p) \/ OpenFails(p) \/ DumpAllAOF(p) \/ Stop(p)
  \/ \E p \in Children, k \in Keys : dumpKey(p, k) \/ WriteFails(p, k)

Spec == Init /\ [][Next]_vars
-----------------------------------------------------------------------------
TypeOK ==
  /\ store \in [Procs -> Stores] /\ snap \in [Procs -> Stores]
  /\ phase \in [Procs -> {"none", "open", "dump", "serve", "gone"}]
  /\ exits \in SUBSET Children /\ clean \in SUBSET Children
  /\ todo \in [Procs -> SUBSET Keys]
  /\ off \in [Procs -> Nat]
  /\ order \in [Procs -> Seq(Keys)]
  /\ file \in Seq(Cell) \cup {Nil} /\ old \in Seq(Cell) /\ before \in [Procs -> Seq(Cell)]
  /\ locked \in BOOLEAN /\ root \in BOOLEAN /\ writes \in 0 .. MaxWrites

\* What p has written, as its snapshot has it.
Image(p) == FlattenSeq([i \in DOMAIN order[p] |-> Record(order[p][i], snap[p][order[p][i]])])

\* eval.go:175-176, "while the main process is free to modify them the child
\* would save all the pages to disk": unless another dump or a failing write
\* interferes, what a child has written, and has written when it is killed, is
\* at the start of the file, record after record, each key it had when it was
\* forked once and with the value it had then, whatever the server has done to
\* its store since.
CleanDump ==
  \A p \in clean :
    /\ SubSeq(file, 1, off[p]) = Image(p)
    /\ ToSet(order[p]) = Present(snap[p]) \ todo[p]
    /\ Len(order[p]) = Cardinality(ToSet(order[p]))

\* However dumps overlap and wherever they stop, a cell of the file holds a key
\* and a value that some store held together at a fork, unless the server found
\* it in the file at that place.
CellsFromSnapshots ==
  file # Nil =>
    \A i \in DOMAIN file :
      \/ \E p \in Children : snap[p][file[i].key] = file[i].val
      \/ i \in DOMAIN old /\ file[i] = old[i]

\* Dumps start at the beginning of the file and write over each other, so the
\* file does not grow with their number: it is as long as the longest of them
\* or as the server found it.
NoGrowth == file # Nil => Len(file) = Max({Len(old)} \cup {off[p] : p \in Procs})

\* A file that nobody truncates has two ages while it is dumped, and keeps them
\* if the child is killed or the dump is the shorter one: after the records of
\* an undisturbed dump comes exactly what the file held there when the child
\* opened it (aof.go:18 and 23).
After(f, n) == SubSeq(f, n + 1, Len(f))
OlderTail == \A p \in clean : After(file, off[p]) = After(before[p], off[p])
-----------------------------------------------------------------------------
\* aof.go:28 and 32, "rewriting AOF file" and "AOF file rewrite complete": once
\* a dump is complete the file holds what the dump wrote and nothing else.
RewriteReplaces ==
  \A p \in clean : phase[p] \in {"serve", "gone"} /\ todo[p] = {} => file = Image(p)
=============================================================================
