----------------------------- MODULE CellTable -----------------------------
(***************************************************************************)
(* The cell table of the ordered evaluator (core/eval/cell_table.hpp): a   *)
(* static table of "cells" (one form of one value, resident at one scope)  *)
(* and of the reads between them, with the operators every consumer of the *)
(* table shares: residency, visibility, read multiplicity and the rules of *)
(* validate_cell_table.                                                    *)
(*                                                                         *)
(* A loop key is <<depth, slot>>.  A scope is a sequence of entries        *)
(* [key, lat], outermost first (lat is the latitude, i.e. the pass).       *)
(* A table is a record [cells, reads]: two sequences; a cell id is an      *)
(* index into cells.  Positions are the carried modes of a value.          *)
(***************************************************************************)
EXTENDS Naturals, Sequences, FiniteSets, Folds

NoCell == 0

CellIds(t) == DOMAIN t.cells

(***************************************************************************)
(* Positions in a schedule (CellTableBuilder describes schedules).         *)
(***************************************************************************)
IsBuild(step) == step.type = "build"
Entry(block) == [key |-> block.key, lat |-> block.lat]
(* A position of the block walk: the enclosing blocks, outermost first.    *)
ScopeOf(stack) == [i \in DOMAIN stack |-> Entry(stack[i])]

(* The first cell of this value and kind that is produced at this scope.   *)
CellAt(t, kind, vid, scope) ==
  LET there == {c \in CellIds(t) : /\ t.cells[c].kind = kind
                                   /\ t.cells[c].vid = vid
                                   /\ t.cells[c].scope = scope}
  IN  IF there = {} THEN NoCell ELSE CHOOSE c \in there : \A d \in there : c <= d


Keys(scope) == {scope[i].key : i \in DOMAIN scope}

(* CellScope::encloses: a prefix, comparing keys and latitudes.            *)
Encloses(outer, inner) ==
  /\ Len(outer) <= Len(inner)
  /\ \A i \in DOMAIN outer : outer[i] = inner[i]

SlicedKeys(c) == {s[2] : s \in c.sliced}

BoundInstances(c) == SlicedKeys(c) \cup c.partial

(* The scope a produced cell stays resident over: a Build in its own       *)
(* block, a Leaf everywhere, an Assemble out to the deepest loop it is     *)
(* bound to (the root when it is bound to none of its loops).              *)
ResidencyScope(c) ==
  LET bound == {i \in DOMAIN c.scope : c.scope[i].key \in BoundInstances(c)}
      deepest == CHOOSE i \in bound : \A j \in bound : j <= i
  IN  CASE c.kind = "Leaf" -> << >>
        [] c.kind = "Build" -> c.scope
        [] c.kind = "Assemble" ->
             IF bound = {} THEN << >> ELSE SubSeq(c.scope, 1, deepest)

Visible(c, query) == Encloses(ResidencyScope(c), query)

(* Among candidates (a sequence of cell ids), the visible one of largest   *)
(* scope depth; the earlier one on a tie; NoCell when none is visible.     *)
DeepestVisibleForm(t, candidates, query) ==
  LET depth(i) == Len(t.cells[candidates[i]].scope)
      visible == {i \in DOMAIN candidates : Visible(t.cells[candidates[i]], query)}
      best == CHOOSE i \in visible : \A j \in visible :
                 depth(j) < depth(i) \/ (depth(j) = depth(i) /\ i <= j)
  IN  IF visible = {} THEN NoCell ELSE candidates[best]

(* Product over the loops of a path segment that the source is not         *)
(* resident on, of each loop's batch count (at least one).                 *)
RepeatsOver(segment, source, batches) ==
  LET free == {i \in DOMAIN segment :
                 segment[i].key \notin Keys(ResidencyScope(source))}
      count(i) == IF batches[segment[i].key] = 0 THEN 1 ELSE batches[segment[i].key]
  IN  MapThenFoldSet(LAMBDA x, y : x * y, 1, count,
                     LAMBDA S : CHOOSE i \in S : TRUE, free)

(* Mutant: a read counts once however often its consumer is rebuilt.       *)
ReadMultiplicityOnce(source, consumerScope, batches) == 1
ReadMultiplicity(source, consumerScope, batches) ==
  RepeatsOver(consumerScope, source, batches)

(***************************************************************************)
(* validate_cell_table, one operator per rule.                             *)
(***************************************************************************)
ReadsOf(t, c) == {r \in DOMAIN t.reads : t.reads[r].consumer = c}
ReadsFrom(t, c) == {r \in DOMAIN t.reads : t.reads[r].source = c}
AssemblesOf(t, c) ==
  {a \in CellIds(t) : t.cells[a].kind = "Assemble" /\ t.cells[a].source = c}

(* "produced" before cell id: every Leaf, and every earlier cell.          *)
ProducedBefore(t, id) ==
  {c \in CellIds(t) : t.cells[c].kind = "Leaf" \/ c < id}

RuleVisibility(t) ==
  \A id \in CellIds(t) : t.cells[id].kind # "Leaf" =>
    /\ \A r \in ReadsOf(t, id) :
         /\ t.reads[r].source \in ProducedBefore(t, id)
         /\ Visible(t.cells[t.reads[r].source], t.cells[id].scope)
    /\ t.cells[id].kind = "Assemble" =>
         t.cells[id].source \in ProducedBefore(t, id)

(* The instances of loop group k's depth that read r binds.                *)
GroupBindings(t, r, k) ==
  {b \in BoundInstances(t.cells[t.reads[r].source])
          \cup {s[2] : s \in t.reads[r].slice} : b[1] = k[1]}

RuleForm(t) ==
  \A id \in CellIds(t) : t.cells[id].kind = "Build" =>
    \A k \in BoundInstances(t.cells[id]) :
      LET bound == {r \in ReadsOf(t, id) : k \in GroupBindings(t, r, k)}
          whole == {r \in ReadsOf(t, id) :
                      GroupBindings(t, r, k) = {} /\ k \notin t.reads[r].invariant}
      IN  /\ \A r \in ReadsOf(t, id) : GroupBindings(t, r, k) \subseteq {k}
          /\ bound = {} \/ whole = {}

(* An Assemble's source lies strictly inside it, is a form of the same     *)
(* value and is sliced by (Scatter) or a partial over (Sum) the loop that  *)
(* closes; a Sum's source is bound to nothing deeper than that loop.       *)
RuleChain(t) ==
  /\ \A id \in CellIds(t) : t.cells[id].kind = "Assemble" =>
       LET c == t.cells[id]
           s == t.cells[c.source]
           at == Len(c.scope) + 1
       IN  /\ Encloses(c.scope, s.scope) /\ Len(s.scope) >= at
           /\ s.vid = c.vid
           /\ c.asm = "Scatter" => c.scatter # {} /\ c.scatter \subseteq s.sliced
           /\ c.asm = "Sum" =>
                /\ s.scope[at].key \in s.partial
                /\ \A j \in at + 1 .. Len(s.scope) :
                     s.scope[j].key \notin BoundInstances(s)
  /\ \A r \in DOMAIN t.reads : t.cells[t.reads[r].source].partial = {}

DeclaredReads(t, c, batches) ==
  MapThenFoldSet(+, Cardinality(AssemblesOf(t, c)),
    LAMBDA r : ReadMultiplicity(t.cells[c], t.cells[t.reads[r].consumer].scope, batches),
    LAMBDA S : CHOOSE r \in S : TRUE, ReadsFrom(t, c))

RuleLife(t, batches) ==
  \A id \in CellIds(t) : t.cells[id].kind # "Leaf" =>
    /\ t.cells[id].life = DeclaredReads(t, id, batches)
    /\ t.cells[id].life = 0 => ResidencyScope(t.cells[id]) = << >>

RuleUniqueness(t) ==
  \A a, b \in CellIds(t) :
    /\ t.cells[a].kind = "Build" /\ t.cells[b].kind = "Build"
    /\ t.cells[a].vid = t.cells[b].vid /\ t.cells[a].scope = t.cells[b].scope
    => a = b

ValidCellTable(t, batches) ==
  /\ RuleVisibility(t)
  /\ RuleForm(t)
  /\ RuleChain(t)
  /\ RuleLife(t, batches)
  /\ RuleUniqueness(t)
=============================================================================
