---------------------------- MODULE LoopIdentity ----------------------------
(***************************************************************************)
(* compute_dag_boulevard (core/eval/peak_profile.hpp): which loops of an   *)
(* expression forest are one physical batch loop, and which occurrences of *)
(* a node are one value.                                                   *)
(*                                                                         *)
(* A forest is a sequence of binary evaluation trees.  A tree node is      *)
(*   [id, op, carried, opens, kids]                                        *)
(* id names what it computes (its canonical hash), op is "leaf", "product" *)
(* or "sum", carried is the sequence of the batchable modes of its result, *)
(* opens the sequence of <<mode, kind>> of the loops the optimizer opened  *)
(* there, and kids is << >> or <<left, right>>.  A mode is <<space, n>>;   *)
(* its n means something within one tree only, while the positions of      *)
(* carried are the same wherever the id occurs.  An "External" open slices *)
(* a carried mode, a "Contracted" one a mode the node sums over.           *)
(*                                                                         *)
(* Of a forest it is assumed, as the optimizer makes them, that nodes of   *)
(* one id have one shape, that a leaf opens nothing, and that a node opens *)
(* External loops over modes it carries and Contracted ones over modes its *)
(* operands carry and it does not.                                         *)
(***************************************************************************)
EXTENDS Integers, SequencesExt

(***************************************************************************)
(* Occurrences, in post-order: an occurrence's point is its index.         *)
(***************************************************************************)
RECURSIVE Size(_)
Size(tree) ==
  1 + (IF tree.kids = << >> THEN 0 ELSE Size(tree.kids[1]) + Size(tree.kids[2]))

(* The points of a tree's two kids when `before` points precede the tree.  *)
OperandPoints(tree, before) ==
  IF tree.kids = << >> THEN << >>
  ELSE <<before + Size(tree.kids[1]), before + Size(tree) - 1>>

ModesOf(context) == {context[k].mode : k \in DOMAIN context}

(* The loops opened at a node enclose its operands, not the node itself    *)
(* (ectx); its home is every loop opened at or above it that slices its    *)
(* result, and a leaf has none (stamp_occurrence_homes).                   *)
RECURSIVE Walk(_, _, _, _)
Walk(tree, before, consumer, ectx) ==
  LET point == before + Size(tree)
      operands == OperandPoints(tree, before)
      inner == ectx \o [k \in DOMAIN tree.opens |->
                          [mode |-> tree.opens[k][1], opener |-> point]]
      own == [id |-> tree.id, op |-> tree.op, carried |-> tree.carried,
              opens |-> tree.opens, consumer |-> consumer, operands |-> operands,
              ectx |-> ectx,
              home |-> IF tree.op = "leaf" THEN {}
                       ELSE ModesOf(inner) \cap Range(tree.carried)]
  IN  IF operands = << >> THEN <<own>>
      ELSE Walk(tree.kids[1], before, point, inner)
             \o Walk(tree.kids[2], operands[1], point, inner) \o <<own>>

Occurrences(forest) ==
  FoldLeft(LAMBDA occs, tree :
             occs \o Walk(tree, Len(occs), Len(occs) + Size(tree), << >>),
           << >>, forest)

IsRoot(occs, i) == occs[i].consumer = i
HomePositions(occ) == SelectSeq([p \in DOMAIN occ.carried |-> p],
                                LAMBDA p : occ.carried[p] \in occ.home)
(* The modes a node contracts in batches (contracted_batched).             *)
Contracted(occ) ==
  LET opened == SelectSeq(occ.opens, LAMBDA o : o[2] = "Contracted")
  IN  [k \in DOMAIN opened |-> opened[k][1]]

(***************************************************************************)
(* Loop nodes: <<point, mode>>, a home-sliced position of an occurrence or *)
(* a mode it sums over in batches.  One physical loop is a class of nodes. *)
(***************************************************************************)
HomeNodes(occs) ==
  FlattenSeq([i \in DOMAIN occs |->
    LET home == HomePositions(occs[i])
    IN  [k \in DOMAIN home |-> <<i, occs[i].carried[home[k]]>>]])
ContractedNodes(occs) ==
  FlattenSeq([i \in DOMAIN occs |->
    LET modes == Contracted(occs[i]) IN [k \in DOMAIN modes |-> <<i, modes[k]>>]])

IsReduction(occs, node) == node[2] \notin Range(occs[node[1]].carried)

(* Within a tree a mode is the same at an occurrence and at its consumer,  *)
(* which either carries it too or sums over it.                            *)
TreeEdges(occs) ==
  LET below == SelectSeq(HomeNodes(occs), LAMBDA n : ~IsRoot(occs, n[1]))
  IN  [k \in DOMAIN below |-> <<below[k], <<occs[below[k][1]].consumer, below[k][2]>>>>]

ReductionStamps(occs) ==
  LET edges == TreeEdges(occs)
      above == [k \in DOMAIN edges |-> edges[k][2]]
  IN  SelectSeq(above, LAMBDA n : IsReduction(occs, n)) \o ContractedNodes(occs)

(***************************************************************************)
(* What keeps two loops apart.                                             *)
(***************************************************************************)
OpenNodes(occs, i) ==
  [k \in DOMAIN occs[i].opens |-> <<i, occs[i].opens[k][1]>>]
EnclosingNodes(occs, i) ==
  [k \in DOMAIN occs[i].ectx |-> <<occs[i].ectx[k].opener, occs[i].ectx[k].mode>>]

(* The kind a node is opened with; {} when it is not where a loop opens.   *)
KindsOf(occs, node) ==
  {o[2] : o \in {p \in Range(occs[node[1]].opens) : p[1] = node[2]}}

(* Nesting: a loop is inside the one opened last above it, unless both are *)
(* External.  `last` is the innermost enclosing loop of what is opened.    *)
NestingPairs(occs) ==
  LET consecutive(i) ==
        LET chain == EnclosingNodes(occs, i)
        IN  {<<chain[k - 1], chain[k]>> :
               k \in {j \in 2 .. Len(chain) : chain[j - 1][1] # chain[j][1]}}
      opened(i) ==
        LET chain == EnclosingNodes(occs, i)
        IN  IF chain = << >> THEN {}
            ELSE {<<Last(chain), n>> : n \in Range(OpenNodes(occs, i))}
  IN  {e \in UNION {consecutive(i) \cup opened(i) : i \in DOMAIN occs} :
         ~ (KindsOf(occs, e[1]) = {"External"} /\ KindsOf(occs, e[2]) = {"External"})}

(* A reduction is complete where it is read: no loop enclosing the reader, *)
(* or opened by it, may be the loop the operand sums over.                 *)
ForbiddenPairs(occs) ==
  UNION {{<<reduction, loop>> :
            reduction \in UNION {{<<c, m>> : m \in Range(Contracted(occs[c]))} :
                                   c \in Range(occs[i].operands)},
            loop \in Range(EnclosingNodes(occs, i)) \cup Range(OpenNodes(occs, i))}
         : i \in DOMAIN occs}

NoRules == [kinds |-> {}, nesting |-> {}, forbidden |-> {}]
RulesOf(occs) ==
  [kinds |-> UNION {{<<n, k>> : k \in KindsOf(occs, n)} :
                      n \in UNION {Range(OpenNodes(occs, i)) : i \in DOMAIN occs}},
   nesting |-> NestingPairs(occs),
   forbidden |-> ForbiddenPairs(occs)]

(* Everything that must be inside one of `nodes`, whole classes at a time. *)
RECURSIVE InsideOf(_, _, _)
InsideOf(classes, nesting, nodes) ==
  LET next == UNION {c \in classes : \E e \in nesting : e[1] \in nodes /\ e[2] \in c}
  IN  IF next \subseteq nodes THEN nodes
      ELSE InsideOf(classes, nesting, nodes \cup next)

(* try_unite refuses to make one loop of two classes.                      *)
(* Mutant: two modes of one occurrence may be one loop.                    *)
RefusesButSharedPoint(classes, rules, a, b) ==
  \/ \E e \in rules.forbidden : \/ e[1] \in a /\ e[2] \in b
                                \/ e[1] \in b /\ e[2] \in a
  \/ \E k, l \in rules.kinds : k[1] \in a /\ l[1] \in b /\ k[2] # l[2]
  \/ b \subseteq InsideOf(classes, rules.nesting, a)
  \/ a \subseteq InsideOf(classes, rules.nesting, b)
Refuses(classes, rules, a, b) ==
  \/ \E x \in a, y \in b : x[1] = y[1] /\ x[2] # y[2]
  \/ \E e \in rules.forbidden : \/ e[1] \in a /\ e[2] \in b
                                \/ e[1] \in b /\ e[2] \in a
  \/ \E k, l \in rules.kinds : k[1] \in a /\ l[1] \in b /\ k[2] # l[2]
  \/ b \subseteq InsideOf(classes, rules.nesting, a)
  \/ a \subseteq InsideOf(classes, rules.nesting, b)

ClassOf(classes, node) == CHOOSE c \in classes : node \in c

Unite(classes, rules, pair) ==
  LET a == ClassOf(classes, pair[1])
      b == ClassOf(classes, pair[2])
  IN  IF a = b \/ Refuses(classes, rules, a, b) THEN classes
      ELSE (classes \ {a, b}) \cup {a \cup b}

(***************************************************************************)
(* Folding: occurrences of one id that are sliced on the same positions    *)
(* try to share their loops with the first of them, position by position   *)
(* and reduction by reduction.                                             *)
(***************************************************************************)
SameGroup(a, b) == a.id = b.id /\ HomePositions(a) = HomePositions(b)
FirstOfGroup(occs, i) ==
  CHOOSE f \in 1 .. i :
    SameGroup(occs[f], occs[i]) /\ \A j \in 1 .. f - 1 : ~SameGroup(occs[j], occs[i])

FoldPairs(occs) ==
  FlattenSeq([i \in DOMAIN occs |->
    LET f == FirstOfGroup(occs, i)
        home == HomePositions(occs[i])
        sums == Contracted(occs[i])
        firstSums == Contracted(occs[f])
    IN  IF f = i THEN << >>
        ELSE [k \in DOMAIN home |->
                <<<<f, occs[f].carried[home[k]]>>, <<i, occs[i].carried[home[k]]>>>>]
             \o [k \in DOMAIN sums \cap DOMAIN firstSums |->
                <<<<f, firstSums[k]>>, <<i, sums[k]>>>>]])

LoopClasses(occs) ==
  LET nodes == Range(HomeNodes(occs)) \cup Range(ReductionStamps(occs))
                 \cup {e[2] : e \in Range(TreeEdges(occs))}
      inTree == FoldLeft(LAMBDA c, e : Unite(c, NoRules, e),
                         {{n} : n \in nodes}, TreeEdges(occs))
      rules == RulesOf(occs)
  IN  FoldLeft(LAMBDA c, e : Unite(c, rules, e), inTree, FoldPairs(occs))

(* Each loop gets a stamp <<space, slot>>, slots in first-seen order.      *)
Numbered(classes, stamps, node) ==
  IF node \in DOMAIN stamps THEN stamps
  ELSE LET space == node[2][1]
           taken == {stamps[n] : n \in {m \in DOMAIN stamps : m[2][1] = space}}
       IN  stamps @@ [n \in ClassOf(classes, node) |-> <<space, Cardinality(taken)>>]

NumberedBy(occs, classes) ==
  FoldLeft(LAMBDA stamps, node : Numbered(classes, stamps, node),
           << >>, HomeNodes(occs) \o ReductionStamps(occs))
StampsOf(occs) == NumberedBy(occs, LoopClasses(occs))

(***************************************************************************)
(* Value identity: one id, sliced position by position and summed by the   *)
(* same loops, over the same operand values (those of a product in either  *)
(* order).                                                                 *)
(***************************************************************************)
Unsliced == << >>

(* The loops an occurrence sums over, in the order they are stamped.       *)
ReducedModes(occs, i) ==
  LET own == SelectSeq(ReductionStamps(occs), LAMBDA n : n[1] = i)
  IN  FoldLeft(LAMBDA ms, n : IF n[2] \in Range(ms) THEN ms ELSE Append(ms, n[2]),
               << >>, own)

OperandValues(occ, valueOf) == [k \in DOMAIN occ.operands |-> valueOf[occ.operands[k]]]
Unordered(operands) ==
  IF operands[2] < operands[1] THEN Reverse(operands) ELSE operands

ValueKey(occs, stamps, valueOf, i) ==
  LET occ == occs[i]
      stampOf(mode) == stamps[<<i, mode>>]
  IN  <<occ.id, occ.op,
        [p \in DOMAIN occ.carried |->
           IF occ.carried[p] \in occ.home THEN stampOf(occ.carried[p]) ELSE Unsliced],
        FoldLeft(LAMBDA sums, m : Append(sums, stampOf(m)), << >>, ReducedModes(occs, i)),
        IF occ.op = "product" THEN Unordered(OperandValues(occ, valueOf))
        ELSE OperandValues(occ, valueOf)>>

(* keys: the key of each value, in value-id order; valueOf: the value of   *)
(* each point so far.                                                      *)
AddOccurrence(acc, key) ==
  LET known == {v \in DOMAIN acc.keys : acc.keys[v] = key}
  IN  IF known = {}
      THEN [keys |-> Append(acc.keys, key),
            valueOf |-> Append(acc.valueOf, Len(acc.keys) + 1)]
      ELSE [acc EXCEPT !.valueOf = Append(@, CHOOSE v \in known : TRUE)]

ValuesOf(occs, stamps) ==
  FoldLeft(LAMBDA acc, i : AddOccurrence(acc, ValueKey(occs, stamps, acc.valueOf, i)),
           [keys |-> << >>, valueOf |-> << >>], [i \in DOMAIN occs |-> i])

(* The rich schedule: the occurrences, the stamp of every loop node, and   *)
(* the value of every point.                                               *)
Stamped(occs, stamps) ==
  LET values == ValuesOf(occs, stamps)
  IN  [occs |-> occs, stamps |-> stamps, valueOf |-> values.valueOf,
       values |-> DOMAIN values.keys]
RichOf(occs) == Stamped(occs, StampsOf(occs))
RichSchedule(forest) == RichOf(Occurrences(forest))

(***************************************************************************)
(* Readings of a rich schedule.                                            *)
(***************************************************************************)
PointsOf(rich, v) == {i \in DOMAIN rich.occs : rich.valueOf[i] = v}
(* The canonical occurrence, the one a value is produced from.             *)
ProductionPoint(rich, v) == Min(PointsOf(rich, v))
Production(rich, v) == rich.occs[ProductionPoint(rich, v)]

HomeStamps(rich, i) == {rich.stamps[<<i, m>>] : m \in rich.occs[i].home}
ContractedStamps(rich, i) ==
  {rich.stamps[<<i, m>>] : m \in Range(Contracted(rich.occs[i]))}
(* enclosing_instances *)
EnclosingStamps(rich, i) ==
  LET chain == EnclosingNodes(rich.occs, i)
  IN  [k \in DOMAIN chain |-> rich.stamps[chain[k]]]

(* loop_kind: <<stamp, kind>> of every open.                               *)
LoopKind(rich) ==
  UNION {{<<rich.stamps[<<i, o[1]>>], o[2]>> : o \in Range(rich.occs[i].opens)} :
           i \in DOMAIN rich.occs}
(* loop_order: the optimizer's nesting, <<outer, inner>>.                  *)
LoopOrder(rich) ==
  {o \in {<<rich.stamps[e[1]], rich.stamps[e[2]]>> : e \in NestingPairs(rich.occs)} :
     o[1] # o[2]}
=============================================================================
