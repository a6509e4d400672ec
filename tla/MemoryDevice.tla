---------------------------- MODULE MemoryDevice ----------------------------
(***************************************************************************)
(* What a memory behind a base address register promises.  It is an array  *)
(* of cells at fixed offsets from the register's address.  Moving it       *)
(* changes no cell and no answer.  An operation takes effect at once and   *)
(* is answered once, later; the answer has the value the cell had before.  *)
(* A functional write reaches the cell and the answers still owed for its  *)
(* address.  A simulation that is restored starts with any contents.       *)
(***************************************************************************)
EXTENDS Integers

CONSTANTS
  Operations,   \* [op, val, cond]
  Values

VARIABLES
  base,         \* the address of the first cell
  cell,         \* the value at each offset
  owed,         \* the answers not yet given: [id, addr, data]
  starts        \* how often a simulation was started again

memVars == <<base, cell, owed, starts>>

NoData == -1

\* What an operation leaves in a cell that held v, and what it answers.
Effect(o, v) ==
  CASE o.op \in {"read", "clean"} -> v
    [] o.op \in {"write", "swap"} -> o.val
    [] o.op = "condswap" -> IF v = o.cond THEN o.val ELSE v
    [] o.op = "atomic" -> (v + o.val) % (1 + o.cond)

Answer(o, v) == IF o.op \in {"write", "clean"} THEN NoData ELSE v

MemInit == owed = {}

\* The operation o of a request takes effect, its answer r is owed from now on,
\* and the answers in done were given.
Perform(r, o, done) ==
  LET off == r.addr - base
  IN  /\ off \in DOMAIN cell
      /\ r.id \notin {x.id : x \in owed \ done}
      /\ r.data = Answer(o, cell[off])
      /\ cell' = [cell EXCEPT ![off] = Effect(o, @)]
      /\ owed' = (owed \ done) \cup {r}
      /\ UNCHANGED <<base, starts>>

Give(r) ==
  /\ owed' = owed \ {r}
  /\ UNCHANGED <<base, cell, starts>>

FunctionalWrite(off, v) ==
  /\ cell' = [cell EXCEPT ![off] = v]
  /\ owed' = {IF r.addr = base + off /\ r.data # NoData THEN [r EXCEPT !.data = v]
               ELSE r : r \in owed}
  /\ UNCHANGED <<base, starts>>

Move == UNCHANGED <<cell, owed, starts>>

StartAgain ==
  /\ owed = {}
  /\ starts' = starts + 1
  /\ DOMAIN cell' = DOMAIN cell
  /\ UNCHANGED <<base, owed>>

MemNext ==
  \/ \E r \in owed' \ owed, o \in Operations :
       \E done \in {{}} \cup {{x} : x \in owed} : Perform(r, o, done)
  \/ \E r \in owed : Give(r)
  \/ \E off \in DOMAIN cell, v \in Values : FunctionalWrite(off, v)
  \/ Move
  \/ StartAgain

MemSpec == MemInit /\ [][MemNext]_memVars
=============================================================================
