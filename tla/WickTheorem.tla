---------------------------- MODULE WickTheorem ----------------------------
(***************************************************************************)
(* The contraction engine of Wick's theorem (core/wick.hpp): a depth-first   *)
(* search that contracts two operators of the sequence, erases them, goes   *)
(* on with what is left and undoes the contraction.  Contractions that are  *)
(* equivalent by the topology of the input are made once and weighted.       *)
(*                                                                          *)
(* An operator is its position in the input.  What a contraction evaluates  *)
(* to depends on its two operators only, so a term keeps their pairs.        *)
(***************************************************************************)
EXTENDS Integers, Sequences, SequencesExt, FiniteSets, FiniteSetsExt,
        Functions, Folds, TLC

CONSTANT Theorems  \* the inputs: operators ops, and how they are to be contracted

VARIABLES
  wt,            \* the theorem at work
  opseq,         \* the operators not contracted, in order
  contractions,  \* the contractions made, in order
  phase,         \* the scalar of the prefactor
  connected,     \* nop_connections: normal operator -> those it is connected to
  adjacency,     \* {normal operators} -> the contractions between them
  degree,        \* <<p, q>> -> the contractions between partitions p < q
  ncontracted,   \* partition -> its operators that are contracted
  frames,        \* the calls of recursive_nontensor_wick
  terms,         \* the result
  stats          \* terms counted, contractions attempted and useful

wickVars == <<wt, opseq, contractions, phase, connected, adjacency, degree,
              ncontracted, frames, terms, stats>>

-----------------------------------------------------------------------------
(* The input.                                                               *)

\* An operator is [action, nop, space]: it creates or annihilates, in normal
\* operator nop, and its index ranges over a set of base spaces.

\* set_op_partitions: every operator is in a partition, which are in the order of
\* their first operators
SetOpPartitions(n, given) ==
  LET all == given \cup {{o} : o \in (1 .. n) \ UNION given}
      firsts == SelectSeq([o \in 1 .. n |-> o], LAMBDA o : \E p \in all : Min(p) = o)
  IN [k \in DOMAIN firsts |-> CHOOSE p \in all : Min(p) = firsts[k]]

\* What a WickTheorem is asked for.  Base spaces are occupied or not in the
\* reference, some are both under a MultiProduct vacuum.
Asked(x) == [partitions |-> SetOpPartitions(Len(x.ops), x.equivalent)] @@ x

Ops == DOMAIN wt.ops
Nop(o) == wt.ops[o].nop
Nops == {Nop(o) : o \in Ops}
OfNop(seq, n) == SelectSeq(seq, LAMBDA o : Nop(o) = n)
Creates(o) == wt.ops[o].action = "create"

QpAnnihilatorSpace(o) ==
  wt.ops[o].space \cap (IF Creates(o) THEN wt.occupied ELSE wt.unoccupied)
QpCreatorSpace(o) ==
  wt.ops[o].space \cap (IF Creates(o) THEN wt.unoccupied ELSE wt.occupied)
CanContract(l, r) ==
  /\ wt.vacuum = "multi" => Creates(l) # Creates(r)
  /\ QpAnnihilatorSpace(l) \cap QpCreatorSpace(r) # {}

PartitionOf(o) == CHOOSE p \in DOMAIN wt.partitions : o \in wt.partitions[p]
Partitions == DOMAIN wt.partitions
\* the place of an operator in its partition, from 0
Place(o) == Cardinality({x \in wt.partitions[PartitionOf(o)] : x < o})

\* under a MultiProduct vacuum connections are not the engine's
Required == IF wt.vacuum = "multi" THEN {} ELSE wt.connect

\* input_partner_indices_: the operators of a normal operator that act on one
\* particle, the last creator and the first annihilator first
Partners ==
  FlattenSeq([n \in 1 .. Max(Nops) |->
    LET ops == OfNop([o \in Ops |-> o], n)
        cre == SelectSeq(ops, Creates)
        ann == Reverse(SelectSeq(ops, LAMBDA o : ~Creates(o)))
        rank == Min({Len(cre), Len(ann)})
    IN [k \in 1 .. rank |-> <<cre[Len(cre) - rank + k], ann[Len(ann) - rank + k]>>]])

-----------------------------------------------------------------------------
(* Which contraction may be made.                                           *)

\* Mutant: the partitions past the right one are not looked at.
UniqueUnordered(l, r) ==
  /\ ~wt.full => ncontracted[PartitionOf(l)] = Place(l)
  /\ ncontracted[PartitionOf(r)] = Place(r)

\* is_topologically_unique: only the first free operators of two partitions are
\* contracted, and of the partitions that one is contracted with the last is
\* the last
Unique(l, r) ==
  LET p == PartitionOf(l)
      q == PartitionOf(r)
  IN /\ ~wt.full => ncontracted[p] = Place(l)
     /\ \A s \in Partitions : s > q => degree[<<p, s>>] = 0
     /\ ncontracted[q] = Place(r)

\* the connections that normal operator n, once connected with m, still needs
Needs(n, m) ==
  Cardinality({k \in Nops : {n, k} \in Required /\ k \notin connected[n] \cup {m}})
\* connect(), of normal operators: no pair to avoid, and operators enough left
Connectable(m, n) ==
  /\ {m, n} \notin wt.avoid
  /\ Required # {} =>
       /\ Needs(m, n) <= Len(OfNop(opseq, m)) - 1
       /\ Needs(n, m) <= Len(OfNop(opseq, n)) - 1

MayContract(l, r) ==
  /\ Nop(l) # Nop(r)
  /\ CanContract(l, r)
  /\ wt.topology => Unique(l, r)
  /\ Connectable(Nop(l), Nop(r))

\* The pairs of positions that a call visits, in order: of full contractions
\* those of the first operator, which must be a quasiparticle annihilator.
Left(frame) ==
  IF ~wt.full THEN frame.from .. Len(opseq)
  ELSE IF QpAnnihilatorSpace(Head(opseq)) = {} THEN {} ELSE {1}
After(frame) ==
  {at \in Left(frame) \X (1 .. Len(opseq)) :
     /\ at[1] < at[2]
     /\ at[1] > frame.at[1] \/ (at[1] = frame.at[1] /\ at[2] > frame.at[2])
     /\ MayContract(opseq[at[1]], opseq[at[2]])}
First(ats) ==
  CHOOSE at \in ats : \A b \in ats : at[1] < b[1] \/ (at[1] = b[1] /\ at[2] <= b[2])

-----------------------------------------------------------------------------
(* What a contraction yields.                                               *)

Factorial(n) == FoldLeft(LAMBDA x, y : x * y, 1, [k \in 1 .. n |-> k])
ProductOver(S, f(_)) == FoldSet(LAMBDA x, y : f(x) * y, 1, S)

\* Mutant: operators that are left over are not accounted for.
DegeneracyOfFull(deg, ncon) ==
  LET large == {p \in Partitions : Cardinality(wt.partitions[p]) > 1}
  IN ProductOver(large, LAMBDA p : Factorial(Cardinality(wt.partitions[p])))
     \div ProductOver({pq \in DOMAIN deg : pq[1] \in large},
                      LAMBDA pq : Factorial(deg[pq]))

\* op_permutational_degeneracy: how many contractions this one stands for, given
\* the contractions between partitions and of each
Degeneracy(deg, ncon) ==
  LET large == {p \in Partitions : Cardinality(wt.partitions[p]) > 1}
      Size(p) == Cardinality(wt.partitions[p])
  IN ProductOver(large, LAMBDA p : Factorial(Size(p)))
     \div (ProductOver({pq \in DOMAIN deg : pq[1] \in large},
                       LAMBDA pq : Factorial(deg[pq]))
           * ProductOver(large, LAMBDA p : Factorial(Size(p) - ncon[p])))

Drop(seq, k) == RemoveAt(seq, k)
\* the first place of a sequence whose element satisfies P; 0 if none does
PlaceWhere(seq, P(_)) ==
  LET ks == {k \in DOMAIN seq : P(seq[k])} IN IF ks = {} THEN 0 ELSE Min(ks)

\* make_target_partner_indices, of a contraction: the pairs that its operators
\* are in become one, or a cycle
JoinPartners(state, lr) ==
  LET ann == PlaceWhere(state.pairs, LAMBDA p : p[2] \in Range(lr))
      cre == PlaceWhere(state.pairs, LAMBDA p : p[1] \in Range(lr))
      x == state.pairs[cre]
      y == state.pairs[ann]
  IN CASE ann = 0 \/ cre = 0 -> state
       [] ann = cre -> [pairs |-> Drop(state.pairs, cre), cycles |-> state.cycles + 1]
       [] cre > ann -> [state EXCEPT !.pairs =
                          Drop([@ EXCEPT ![ann] = <<y[1], x[2]>>], cre)]
       [] OTHER -> [state EXCEPT !.pairs =
                      Drop([@ EXCEPT ![cre] = <<y[1], x[2]>>], ann)]
Target(made) ==
  FoldLeft(JoinPartners, [pairs |-> Partners, cycles |-> 0], made)

\* a factor 2 for each cycle of a spin-free Fermi vacuum
CycleFactor(made) ==
  IF wt.spinfree /\ wt.vacuum = "single" THEN 2 ^ Target(made).cycles ELSE 1

Sign(n) == IF wt.fermi /\ n % 2 = 1 THEN -1 ELSE 1

\* normalize(): creators, then the annihilators of the last normal operator, ...;
\* returned with the annihilators in the order of particles
Normalized(seq) ==
  LET ann == FlattenSeq([k \in 1 .. Max(Nops) |->
               SelectSeq(OfNop(seq, Max(Nops) + 1 - k), LAMBDA o : ~Creates(o))])
      Passed(k) == Len(seq) - k
                   + Len(SelectSeq(OfNop(SubSeq(seq, 1, k - 1), Nop(seq[k])),
                                   LAMBDA o : ~Creates(o)))
  IN [cre |-> SelectSeq(seq, Creates), ann |-> Reverse(ann),
      sign |-> Sign(FoldLeft(LAMBDA n, k : n + Passed(k), 0,
                 SelectSeq([k \in DOMAIN seq |-> k],
                           LAMBDA k : ~Creates(seq[k]))))]

\* Mutant: partners are swapped without a change of sign.
SwappedFreely(op, side, j, k) ==
  IF j = k \/ j = 0 THEN op
  ELSE [op EXCEPT ![side] = [@ EXCEPT ![j] = op[side][k], ![k] = op[side][j]]]

Swapped(op, side, j, k) ==
  IF j = k \/ j = 0 THEN op
  ELSE [op EXCEPT ![side] = [@ EXCEPT ![j] = op[side][k], ![k] = op[side][j]],
                  !.sign = @ * Sign(1)]
\* ... then the partners brought together, from the last particle on; side is that
\* of the operators that are moved, of which there are not fewer
Paired(op, pairs) ==
  LET side == IF Len(op.cre) <= Len(op.ann) THEN "ann" ELSE "cre"
      stay == IF side = "ann" THEN op.cre ELSE op.ann
      mine == IF side = "ann" THEN 1 ELSE 2
      Step(o, p) ==
        LET k == PlaceWhere(pairs, LAMBDA x : x[mine] = stay[p])
        IN IF k = 0 THEN o
           ELSE Swapped(o, side, PlaceWhere(o[side], LAMBDA x : x = pairs[k][3 - mine]),
                        p + Len(op[side]) - Len(stay))
  IN FoldLeft(Step, op, Reverse([p \in DOMAIN stay |-> p]))

\* the term of these contractions; seq: what they leave
Term(made, seq, sign, weight) ==
  LET op == Paired(Normalized(seq), Target(made).pairs)
      none == [cre |-> <<>>, ann |-> <<>>, sign |-> 1]
      left == IF wt.full THEN none ELSE op
  IN [pairs |-> made, cre |-> left.cre, ann |-> left.ann,
      scalar |-> sign * weight * left.sign * CycleFactor(made)]

-----------------------------------------------------------------------------
(* The search.                                                              *)

NoneHeld == [held |-> FALSE]
Call(from) == [from |-> from, at |-> <<0, 0>>, held |-> NoneHeld]
Top == Last(frames)
SetTop(frame) == [frames EXCEPT ![Len(frames)] = frame]

WickInit ==
  /\ wt \in {Asked(x) : x \in Theorems}
  /\ opseq = [o \in Ops |-> o]
  /\ contractions = <<>> /\ phase = 1
  /\ connected = [n \in Nops |-> {}]
  /\ adjacency = [mn \in kSubset(2, Nops) |-> 0]
  /\ degree = [pq \in {x \in Partitions \X Partitions : x[1] < x[2]} |-> 0]
  /\ ncontracted = [p \in Partitions |-> 0]
  /\ frames = <<Call(1)>>
  /\ terms = <<>>
  /\ stats = [count |-> 0, attempted |-> 0, useful |-> 0]

\* connect() and disconnect(): by is 1 or -1
Tracked(by, l, r) ==
  LET pq == <<PartitionOf(l), PartitionOf(r)>>
  IN /\ degree' = [degree EXCEPT ![pq] = @ + by]
     /\ ncontracted' = [ncontracted EXCEPT ![pq[1]] = @ + by, ![pq[2]] = @ + by]
ConnectNops(m, n) ==
  IF Required = {} THEN UNCHANGED <<connected, adjacency>>
  ELSE /\ connected' = [connected EXCEPT ![m] = @ \cup {n}, ![n] = @ \cup {m}]
       /\ adjacency' = [adjacency EXCEPT ![{m, n}] = @ + 1]
\* Mutant: one contraction undone disconnects two normal operators.
DisconnectAtOnce(m, n) ==
  IF Required = {} THEN UNCHANGED <<connected, adjacency>>
  ELSE /\ adjacency' = [adjacency EXCEPT ![{m, n}] = @ - 1]
       /\ connected' = [connected EXCEPT ![m] = @ \ {n}, ![n] = @ \ {m}]

DisconnectNops(m, n) ==
  IF Required = {} THEN UNCHANGED <<connected, adjacency>>
  ELSE /\ adjacency' = [adjacency EXCEPT ![{m, n}] = @ - 1]
       /\ IF adjacency'[{m, n}] = 0
          THEN connected' = [connected EXCEPT ![m] = @ \ {n}, ![n] = @ \ {m}]
          ELSE UNCHANGED connected
\* The next pair is contracted, and the term recorded if it is one.
Contract ==
  /\ frames # <<>> /\ ~Top.held.held /\ After(Top) # {}
  /\ LET at == First(After(Top))
         l == opseq[at[1]]
         r == opseq[at[2]]
         rest == Drop(Drop(opseq, at[2]), at[1])
         sign == phase * Sign(at[2] - at[1] - 1)
         held == [held |-> TRUE, l |-> l, r |-> r, phase |-> phase,
                  useful |-> stats.useful + (IF ~wt.full \/ rest = <<>> THEN 1 ELSE 0)]
         isTerm == ~wt.full \/ rest = <<>>
         one == IF isTerm THEN 1 ELSE 0
     IN /\ Tracked(1, l, r)
        /\ ConnectNops(Nop(l), Nop(r))
        /\ contractions' = Append(contractions, <<l, r>>)
        /\ phase' = sign
        /\ opseq' = rest
        /\ stats' = [count |-> stats.count + (IF wt.count THEN one ELSE 0),
                     attempted |-> stats.attempted + 1,
                     useful |-> stats.useful + one]
        /\ terms' = IF ~isTerm \/ wt.count THEN terms
                    ELSE Append(terms, Term(contractions', rest, sign,
                                            Degeneracy(degree', ncontracted')))
        /\ frames' = SetTop([Top EXCEPT !.at = at, !.held = held])
                     \o (IF rest = <<>> THEN <<>> ELSE <<Call(at[1])>>)
  /\ UNCHANGED wt

\* All that follows from a contraction is done: it is undone.
Restore ==
  /\ frames # <<>> /\ Top.held.held
  /\ LET h == Top.held
         at == Top.at
     IN /\ opseq' = InsertAt(InsertAt(opseq, at[1], h.l), at[2], h.r)
        /\ phase' = h.phase
        /\ contractions' = Drop(contractions, PlaceWhere(contractions, LAMBDA x : x = <<h.l, h.r>>))
        /\ Tracked(-1, h.l, h.r)
        /\ DisconnectNops(Nop(h.l), Nop(h.r))
        /\ stats' = [stats EXCEPT !.useful = @ + (IF @ = h.useful THEN 0 ELSE 1)]
  /\ frames' = SetTop([Top EXCEPT !.held = NoneHeld])
  /\ UNCHANGED <<wt, terms>>

\* The last pair of a call: it returns.  When the outermost does, the term
\* without contractions is added, unless some are required.
Return ==
  /\ frames # <<>> /\ ~Top.held.held /\ After(Top) = {}
  /\ frames' = Front(frames)
  /\ LET uncontracted == Len(frames) = 1 /\ ~wt.full /\ Required = {}
     IN /\ terms' = IF uncontracted /\ ~wt.count
                    THEN Append(terms, Term(<<>>, opseq, 1, 1)) ELSE terms
        /\ stats' = [stats EXCEPT !.count = @ + (IF uncontracted /\ wt.count THEN 1 ELSE 0)]
  /\ UNCHANGED <<wt, opseq, contractions, phase, connected, adjacency, degree,
                 ncontracted>>

WickNext == Contract \/ Restore \/ Return
WickSpec == WickInit /\ [][WickNext]_wickVars

-----------------------------------------------------------------------------
(* The theorem, by its definition.                                          *)

Covered(M) == UNION {Range(x) : x \in M}
\* the sets of contractions that Wick's theorem sums over
Contractions ==
  LET allowed == {lr \in Ops \X Ops : /\ lr[1] < lr[2] /\ Nop(lr[1]) # Nop(lr[2])
                                      /\ CanContract(lr[1], lr[2])
                                      /\ {Nop(lr[1]), Nop(lr[2])} \notin wt.avoid}
      Grow(Ms, x) == Ms \cup {M \cup {x} : M \in {N \in Ms : Range(x) \cap Covered(N) = {}}}
      all == FoldSet(LAMBDA x, Ms : Grow(Ms, x), {{}}, allowed)
      Connects(M) == \A mn \in Required : \E x \in M : {Nop(x[1]), Nop(x[2])} = mn
  IN {M \in all : (wt.full => Covered(M) = Ops) /\ Connects(M)}

\* equivalent contractions: as many between any two partitions
ClassOf(M) ==
  [pq \in DOMAIN degree |->
     Cardinality({x \in M : <<PartitionOf(x[1]), PartitionOf(x[2])>> = pq})]

\* the sign that brings the operators of the input into this order
OrderSign(seq) ==
  Sign(Cardinality({jk \in (DOMAIN seq) \X (DOMAIN seq) :
                      jk[1] < jk[2] /\ seq[jk[1]] > seq[jk[2]]}))

\* the operators of o's particle: its partners, what they are contracted with, ...
Particle(o, M) ==
  LET links == {Range(x) : x \in M \cup Range(Partners)}
      Grow(S, k) == S \cup UNION {x \in links : x \cap S # {}}
  IN FoldLeft(Grow, {o}, [k \in Ops |-> k])
Particles(M) == {Particle(o, M) : o \in Ops}
\* the particles that are contracted throughout, over whose spin is summed
Closed(M) == {P \in Particles(M) : P \subseteq Covered(M)}

TermRight(t) ==
  LET M == Range(t.pairs)
      same == {N \in Contractions : ClassOf(N) = ClassOf(M)}
      spins == IF wt.spinfree /\ wt.vacuum = "single"
               THEN 2 ^ Cardinality(Closed(M)) ELSE 1
      n == Min({Len(t.cre), Len(t.ann)})
      Column(k) == {t.cre[Len(t.cre) - n + k], t.ann[Len(t.ann) - n + k]}
  IN /\ M \in Contractions
     /\ t.scalar = OrderSign(FlattenSeq(t.pairs) \o t.cre \o Reverse(t.ann))
                   * Cardinality(same) * spins
     /\ Range(t.cre) \cup Range(t.ann) = Ops \ Covered(M)
     /\ Len(t.cre) = Len(t.ann) =>
          \A P \in Particles(M) : LET open == P \ Covered(M) IN
            open # {} /\ Cardinality(open) = 2 /\ Cardinality({o \in open : Creates(o)}) = 1
              => \E k \in 1 .. n : Column(k) = open

\* The search makes one contraction of each class of equivalent ones, weighted with
\* their number, the sign of the order it leaves the operators in and the spins
\* summed over: nothing is missed or made twice by pruning, by the connections
\* required or avoided, or by what is undone between two contractions.
ContractionsExact ==
  frames = <<>> =>
    LET classes == {ClassOf(M) : M \in Contractions}
    IN IF wt.count THEN stats.count = Cardinality(classes)
       ELSE /\ \A t \in Range(terms) : TermRight(t)
            /\ {ClassOf(Range(t.pairs)) : t \in Range(terms)} = classes
            /\ Len(terms) = Cardinality(classes)
=============================================================================
