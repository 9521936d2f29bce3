---------------------------- MODULE SumOptimizer ----------------------------
(***************************************************************************)
(* The optimization of the summands of a sum (core/optimize/optimize.cpp), the *)
(* order its summands end up in (sum.cpp), and the sessions that record     *)
(* what the single-term optimizer chose or replay a record                  *)
(* (schedule_pin.cpp).  Terms are optimized on several threads; records,    *)
(* keys and annotations are kept under the addresses of results, which the  *)
(* allocator reuses.  A term is its key, a tree what the optimizer makes of *)
(* it.                                                                      *)
(***************************************************************************)
EXTENDS Integers, Sequences, SequencesExt, FiniteSets, FiniteSetsExt, Functions

CONSTANTS
  Kind,       \* key -> "product", "mixed", "tensor" or "variable"
  Trees,      \* key -> the trees the single-term optimizer may choose
  Nodes,      \* tree -> the hashes of the nodes it is binarized into
  Axes,       \* tree -> the annotations of its contractions
  Roots,      \* the sums of a program: sequences of keys
  Documents,  \* the records it may have loaded
  Address,    \* a bound of the results alive at once
  MaxRuns,    \* bound: optimizations of a sum
  None

\* the terms that can be rebuilt from a record
Pinnable(key) == Kind[key] \in {"product", "tensor"}

\* A term of one factor is a node itself, another has the nodes of its
\* contractions, which only products have.
ASSUME TermsAssumption ==
  \A key \in DOMAIN Kind :
    /\ Kind[key] \in {"product", "mixed", "tensor", "variable"}
    /\ \A tree \in Trees[key] :
         /\ Nodes[tree] # {} /\ Nodes[tree] \subseteq Nat
         /\ Kind[key] \in {"tensor", "variable"} => Axes[tree] = <<>>
ASSUME RootsAssumption == \A root \in Roots : root \in Seq(DOMAIN Kind) /\ root # <<>>

\* What a record says of a term that can be pinned is what was chosen for it.
Recorded(records) ==
  /\ Len(records) \in Nat /\ DOMAIN records = 1 .. Len(records)
  /\ \A p \in DOMAIN records :
       /\ records[p].key \in DOMAIN Kind
       /\ records[p].pinnable =>
            /\ Pinnable(records[p].key) /\ records[p].tree \in Trees[records[p].key]
            /\ records[p].nodes = Axes[records[p].tree]
ASSUME DocumentsAssumption == \A records \in Documents : Recorded(records)
ASSUME AddressAssumption == Address \subseteq Nat \ {0} /\ None \notin Address

VARIABLES
  results,   \* address -> the result that lives there
  axes,      \* term_batch_axes: the address of a result, or SumKey, -> annotations
  run,       \* what the caller asks for: how, of which terms
  waiting,   \* the terms it has yet to pass, when it passes them one by one
  addends,   \* the terms of the call in progress
  task,      \* summand -> the steps its optimization has to take
  slot,      \* summand -> the address of its result
  walk,      \* reorder(): the summands to visit, those visited, and their clones
  recorder,  \* the RecordSession
  pinner,    \* the PinSession
  doc,       \* the record of the root
  kept,      \* the results the caller holds, in the order returned
  runs,      \* the number of runs
  picked     \* history: what the calls of the run returned

optimizerVars == <<results, axes, run, waiting, addends, task, slot, walk, recorder,
                   pinner, doc, kept, runs, picked>>

-----------------------------------------------------------------------------
(* Results and their records.                                               *)

\* a result that was rebuilt or recorded has its annotations with it
Result(key, tree, nodes) == [key |-> key, tree |-> tree, nodes |-> nodes]
RecordOf(r) ==
  [key |-> r.key, pinnable |-> Pinnable(r.key),
   tree |-> IF Pinnable(r.key) THEN r.tree ELSE None,
   nodes |-> IF Pinnable(r.key) THEN r.nodes ELSE <<>>]

\* the map with x under a, whatever was there
Put(map, a, x) == [b \in DOMAIN map \cup {a} |-> IF b = a THEN x ELSE map[b]]

\* where the final sum is: no result's address
SumKey == 0

FreeAddresses == Address \ DOMAIN results
\* the allocator reuses the address that was freed first
Fresh == Min(FreeAddresses)
Discarded(addresses) == [a \in DOMAIN results \ addresses |-> results[a]]

Positions(records, key) == {p \in DOMAIN records : records[p].key = key}
HasDuplicates(keys) == \E p, q \in DOMAIN keys : p # q /\ keys[p] = keys[q]
KeysOf(records) == [p \in DOMAIN records |-> records[p].key]

-----------------------------------------------------------------------------
(* The sessions.                                                            *)

NewRecorder == [records |-> <<>>, index |-> <<>>]
NewPinner(records) ==
  [uses |-> [p \in DOMAIN records |-> 0], missing |-> {}, duplicates |-> {},
   keys |-> <<>>, finished |-> FALSE]

\* Mutant: the record of an address stays the one it had first.
AddedOldest(session, a, rec) ==
  [records |-> Append(session.records, rec),
   index |-> Put(session.index, a, IF a \in DOMAIN session.index THEN session.index[a]
                                   ELSE Len(session.records) + 1)]
\* RecordSession::add: the newest record of an address
Added(session, a, rec) ==
  [records |-> Append(session.records, rec),
   index |-> Put(session.index, a, Len(session.records) + 1)]

\* RecordSession::relocate: moves is from -> to
Relocate(session, moves) ==
  LET moved == DOMAIN moves \cap DOMAIN session.index
      stay == DOMAIN session.index \ moved
      targets == {moves[a] : a \in moved}
  IN [session EXCEPT !.index =
        [b \in targets \cup stay |->
           IF b \in targets THEN session.index[CHOOSE a \in moved : moves[a] = b]
           ELSE session.index[b]]]

\* RecordSession::finish: the record of these positions, None when it throws
Finished(session, positions) ==
  LET records == [p \in DOMAIN positions |-> session.records[positions[p]]]
  IN IF HasDuplicates(KeysOf(records)) THEN None ELSE records
FinishByAddress(session, order) ==
  IF Range(order) \subseteq DOMAIN session.index
  THEN Finished(session, [p \in DOMAIN order |-> session.index[order[p]]])
  ELSE None
FinishInCallOrder(session) ==
  Finished(session, [p \in DOMAIN session.records |-> p])

\* PinSession::finish: whether it returns
Matches(session, records) ==
  /\ session.missing = {} /\ session.duplicates = {}
  /\ ~HasDuplicates(KeysOf(records))
  /\ \A p \in DOMAIN records : session.uses[p] > 0

-----------------------------------------------------------------------------
(* The optimization of a term, on a thread of its own.                      *)

Optimizing == run.stage = "call"

\* Ready(i, step): the next step of summand i
Ready(i, step) == Optimizing /\ task[i] # <<>> /\ Head(task[i]) = step
Did(i) == [task EXCEPT ![i] = Tail(@)]

\* the optimized term is made and what is left to do with it known
Make(i, result, steps) ==
  /\ FreeAddresses # {}
  /\ results' = Put(results, Fresh, result)
  /\ slot' = [slot EXCEPT ![i] = Fresh]
  /\ task' = [task EXCEPT ![i] = steps]

\* Discarded a session: a Tensor or a Variable is cloned and not annotated.
Optimize(i) ==
  /\ Ready(i, "optimize") /\ run.how = "plain"
  /\ \E tree \in Trees[addends[i]] :
       Make(i, Result(addends[i], tree, Axes[tree]),
            IF Kind[addends[i]] \in {"product", "mixed"} THEN <<"store">> ELSE <<>>)
  /\ UNCHANGED <<axes, run, waiting, addends, walk, recorder, pinner, doc, kept, runs, picked>>

\* The placeholder product of a mixed one is optimized, and annotated, with
\* the recording put aside; a Variable is recorded and not annotated.
OptimizeRecorded(i) ==
  /\ Ready(i, "optimize") /\ run.how = "record"
  /\ \E tree \in Trees[addends[i]] :
       Make(i, Result(addends[i], tree, Axes[tree]),
            CASE Pinnable(addends[i]) -> <<"add", "store">>
              [] Kind[addends[i]] = "mixed" -> <<"store", "add">>
              [] Kind[addends[i]] = "variable" -> <<"add">>)
  /\ UNCHANGED <<axes, run, waiting, addends, walk, recorder, pinner, doc, kept, runs, picked>>

\* Mutant: a term of the record is taken as often as it is asked for.
TakeRepeatedly(session, records, key) ==
  IF Positions(records, key) = {} THEN [session EXCEPT !.missing = @ \cup {key}]
  ELSE [session EXCEPT !.uses[Min(Positions(records, key))] = 1]
\* PinSession::take
Taken(session, records, key) ==
  LET p == Min(Positions(records, key))
  IN IF Positions(records, key) = {} THEN [session EXCEPT !.missing = @ \cup {key}]
     ELSE [session EXCEPT !.uses[p] = @ + 1,
             !.duplicates = IF session.uses[p] > 0 THEN @ \cup {key} ELSE @]

\* The term is rebuilt from its record, a miss leaves it as it is.
TakePinned(i) ==
  /\ Ready(i, "optimize") /\ run.how = "pin"
  /\ LET key == addends[i]
         p == Min(Positions(doc, key))
     IN \/ /\ ~Pinnable(key) \/ pinner.finished
           /\ task' = [task EXCEPT ![i] = <<"threw">>]
           /\ UNCHANGED <<results, slot, pinner>>
        \/ /\ Pinnable(key) /\ ~pinner.finished
           /\ pinner' = Taken(pinner, doc, key)
           /\ \/ /\ Positions(doc, key) = {}
                 /\ Make(i, Result(key, None, <<>>), <<"bind">>)
              \/ /\ Positions(doc, key) # {} /\ doc[p].pinnable
                 /\ Make(i, Result(key, doc[p].tree, doc[p].nodes), <<"bind", "store">>)
              \/ /\ Positions(doc, key) # {} /\ ~doc[p].pinnable
                 /\ task' = [task EXCEPT ![i] = <<"threw">>]
                 /\ UNCHANGED <<results, slot>>
  /\ UNCHANGED <<axes, run, waiting, addends, walk, recorder, doc, kept, runs, picked>>

\* PinSession::bind
Bind(i) ==
  /\ Ready(i, "bind")
  /\ pinner' = [pinner EXCEPT !.keys = Put(@, slot[i], addends[i])]
  /\ task' = Did(i)
  /\ UNCHANGED <<results, axes, run, waiting, addends, slot, walk, recorder, doc, kept,
                 runs, picked>>

AddRecord(i) ==
  /\ Ready(i, "add")
  /\ recorder' = Added(recorder, slot[i], RecordOf(results[slot[i]]))
  /\ task' = Did(i)
  /\ UNCHANGED <<results, axes, run, waiting, addends, slot, walk, pinner, doc, kept,
                 runs, picked>>

\* store_term_axes, with its lock
StoreAxes(i) ==
  /\ Ready(i, "store")
  /\ axes' = Put(axes, slot[i], results[slot[i]].nodes)
  /\ task' = Did(i)
  /\ UNCHANGED <<results, run, waiting, addends, slot, walk, recorder, pinner, doc, kept,
                 runs, picked>>

-----------------------------------------------------------------------------
(* The end of a call.                                                       *)

Ended == Optimizing /\ \A i \in DOMAIN task : task[i] \in {<<>>, <<"threw">>}
Succeeded == Ended /\ \A i \in DOMAIN task : task[i] = <<>>

\* whatever a call that throws has made is freed
Throw ==
  /\ run' = [run EXCEPT !.stage = "threw"]
  /\ results' = Discarded(Range(slot))
  /\ UNCHANGED <<axes, waiting, addends, task, slot, walk, recorder, doc, kept, runs, picked>>

\* an exception of a summand
FailCall == Ended /\ ~Succeeded /\ Throw /\ UNCHANGED pinner

\* Mutant: the annotations are gathered in the order of the terms.
RekeyInTermOrder(order) ==
  [a \in (DOMAIN axes \ Range(order)) \cup {SumKey} |->
     IF a = SumKey
     THEN FlattenSeq([p \in DOMAIN slot |-> IF slot[p] \in DOMAIN axes
                                            THEN axes[slot[p]] ELSE <<>>])
     ELSE axes[a]]
\* rekey_onto: the annotations of the summands at these addresses, in this
\* order, become those of the sum
RekeyOnto(order) ==
  [a \in (DOMAIN axes \ Range(order)) \cup {SumKey} |->
     IF a = SumKey
     THEN FlattenSeq([p \in DOMAIN order |-> IF order[p] \in DOMAIN axes
                                             THEN axes[order[p]] ELSE <<>>])
     ELSE axes[a]]

\* the call returns the results at order, made at these addresses
Return(order, made) ==
  /\ kept' = kept \o order
  /\ picked' = picked \o [p \in DOMAIN made |-> results[made[p]]]
  /\ run' = [run EXCEPT !.stage = "returned"]
  /\ UNCHANGED <<waiting, addends, task, slot, doc, runs>>

\* a root that is no sum: its result is the term's
ReturnTerm ==
  /\ Succeeded /\ run.each
  /\ Return(slot, slot)
  /\ UNCHANGED <<results, axes, walk, recorder, pinner>>

\* the summands in the order of the terms
ReturnInOrder ==
  /\ Succeeded /\ ~run.each /\ ~run.reorder /\ run.how # "pin"
  /\ axes' = RekeyOnto(slot)
  /\ Return(slot, slot)
  /\ UNCHANGED <<results, walk, recorder, pinner>>

\* in_document_order
InDocumentOrder(session, records, addresses) ==
  [p \in DOMAIN records |->
     CHOOSE a \in Range(addresses) :
       Min(Positions(records, session.keys[a])) = p]

\* under a pin, strictness first
ReturnPinned ==
  /\ Succeeded /\ ~run.each /\ run.how = "pin"
  /\ pinner' = [pinner EXCEPT !.finished = TRUE]
  /\ \/ /\ Matches(pinner, doc)
        /\ LET order == InDocumentOrder(pinner, doc, slot)
           IN axes' = RekeyOnto(order) /\ Return(order, order)
        /\ UNCHANGED <<results, walk, recorder>>
     \/ ~Matches(pinner, doc) /\ Throw

-----------------------------------------------------------------------------
(* The order of the summands (clusters()): depth first from the first holder *)
(* of a node to those that share it, so that summands that share a node      *)
(* follow one another.  A visit is <<depth, hash, summand>>.                 *)

NoWalk == [stack |-> {}, order |-> <<>>, clones |-> <<>>]

TreeNodes(p) == Nodes[results[slot[p]].tree]
Holders(h) == {p \in DOMAIN slot : h \in TreeNodes(p)}
IsFirst(p, h) == \A q \in Holders(h) : p <= q
\* the first holder of some node
Heads == {p \in DOMAIN slot : \E h \in TreeNodes(p) : IsFirst(p, h)}
\* the summands tied to p, the first holder of their common nodes
Connections(p) ==
  UNION {{<<h, q>> : q \in Holders(h) \ {p}} : h \in {g \in TreeNodes(p) : IsFirst(p, g)}}

\* the top of the stack: what was pushed last, by ascending hash, then position
Before(v, w) ==
  \/ v[1] > w[1]
  \/ v[1] = w[1] /\ v[2] < w[2]
  \/ v[1] = w[1] /\ v[2] = w[2] /\ v[3] < w[3]
IsTop(v) == \A w \in walk.stack \ {v} : Before(v, w)

Reordering == Succeeded /\ ~run.each /\ run.reorder /\ run.how # "pin"
Unvisited == Heads \ Range(walk.order)

VisitHead ==
  /\ Reordering /\ walk.stack = {} /\ Unvisited # {}
  /\ walk' = [walk EXCEPT !.stack = {<<0, 0, Min(Unvisited)>>}]
  /\ UNCHANGED <<results, axes, run, waiting, addends, task, slot, recorder, pinner, doc,
                 kept, runs, picked>>

VisitNext ==
  /\ Reordering
  /\ \E v \in walk.stack :
       /\ IsTop(v)
       /\ walk' = [walk EXCEPT
            !.stack = (@ \ {v}) \cup {<<v[1] + 1, c[1], c[2]>> : c \in Connections(v[3])},
            !.order = IF v[3] \in Range(@) THEN @ ELSE Append(@, v[3])]
  /\ UNCHANGED <<results, axes, run, waiting, addends, task, slot, recorder, pinner, doc,
                 kept, runs, picked>>

\* reorder(): the sum is made of clones
Walked == Reordering /\ walk.stack = {} /\ Unvisited = {}
CloneNext ==
  /\ Walked /\ Len(walk.clones) < Len(walk.order) /\ FreeAddresses # {}
  /\ results' = Put(results, Fresh, results[slot[walk.order[Len(walk.clones) + 1]]])
  /\ walk' = [walk EXCEPT !.clones = Append(@, Fresh)]
  /\ UNCHANGED <<axes, run, waiting, addends, task, slot, recorder, pinner, doc, kept,
                 runs, picked>>

\* the records and annotations follow, then the originals go
ReturnReordered ==
  /\ Walked /\ Len(walk.clones) = Len(walk.order)
  /\ LET old == [p \in DOMAIN walk.order |-> slot[walk.order[p]]]
     IN /\ results' = Discarded(Range(old))
        /\ recorder' = IF run.how = "record"
                       THEN Relocate(recorder, [a \in Range(old) |->
                              walk.clones[CHOOSE p \in DOMAIN old : old[p] = a]])
                       ELSE recorder
        /\ axes' = RekeyOnto(old)
        /\ Return(walk.clones, old)
  /\ walk' = NoWalk
  /\ UNCHANGED pinner

-----------------------------------------------------------------------------
(* The caller.                                                              *)

NoRun == [stage |-> "idle", how |-> "plain", each |-> FALSE, reorder |-> FALSE]

OptimizerInit ==
  /\ results = <<>> /\ axes = <<>> /\ run = NoRun /\ waiting = <<>> /\ addends = <<>>
  /\ task = <<>> /\ slot = <<>> /\ walk = NoWalk /\ recorder = NewRecorder
  /\ doc \in {None} \cup Documents
  /\ pinner = NewPinner(<<>>)
  /\ kept = <<>> /\ runs = 0 /\ picked = <<>>

\* a root is optimized with a session of its own, or none, all of it in one
\* call or each term in one; once there is a record it is used
Begin ==
  /\ run.stage = "idle" /\ runs < MaxRuns
  /\ \E root \in Roots, how \in {"plain", "record", "pin"},
        each, reorder \in BOOLEAN :
       /\ (how = "pin") <=> (doc # None)
       /\ each => ~reorder
       /\ run' = [stage |-> "ready", how |-> how, each |-> each, reorder |-> reorder]
       /\ waiting' = root
       /\ recorder' = NewRecorder
       /\ pinner' = NewPinner(IF how = "pin" THEN doc ELSE <<>>)
  /\ runs' = runs + 1 /\ picked' = <<>>
  /\ UNCHANGED <<results, axes, addends, task, slot, walk, doc, kept>>

\* optimize(), with a map of its own for the annotations
CallOptimize ==
  /\ run.stage \in {"ready", "returned"} /\ waiting # <<>>
  /\ addends' = IF run.each THEN <<Head(waiting)>> ELSE waiting
  /\ waiting' = IF run.each THEN Tail(waiting) ELSE <<>>
  /\ task' = [i \in DOMAIN addends' |-> <<"optimize">>]
  /\ slot' = [i \in DOMAIN addends' |-> None]
  /\ axes' = <<>>
  /\ run' = [run EXCEPT !.stage = "call"]
  /\ UNCHANGED <<results, walk, recorder, pinner, doc, kept, runs, picked>>

Over == run.stage = "returned" /\ waiting = <<>>

\* a session is for one run of a sum: one that is used again throws
UseAgain ==
  /\ Over /\ run.how = "pin" /\ ~run.each /\ runs < MaxRuns
  /\ waiting' = addends /\ runs' = runs + 1
  /\ UNCHANGED <<results, axes, run, addends, task, slot, walk, recorder, pinner, doc,
                 kept, picked>>

\* a caller of single terms may be done with a result before the next call
DropLast ==
  /\ run.stage = "returned" /\ run.each /\ kept # <<>>
  /\ results' = Discarded({Last(kept)})
  /\ kept' = Front(kept)
  /\ UNCHANGED <<axes, run, waiting, addends, task, slot, walk, recorder, pinner, doc,
                 runs, picked>>

EndRun(stage) == run' = [run EXCEPT !.stage = stage]
Rest == <<results, axes, waiting, addends, task, slot, walk, recorder, kept, runs, picked>>

\* record_root, or the caller's own finish()
EndRecording ==
  /\ Over /\ run.how = "record"
  /\ \E by \in {"address", "call order"} :
       /\ by = "call order" => run.each
       /\ doc' = IF by = "address" THEN FinishByAddress(recorder, kept)
                 ELSE FinishInCallOrder(recorder)
       /\ EndRun(IF doc' = None THEN "threw"
                 ELSE IF by = "address" THEN "recorded kept" ELSE "recorded")
  /\ UNCHANGED pinner /\ UNCHANGED Rest

EndPinning ==
  /\ Over /\ run.how = "pin"
  /\ pinner' = [pinner EXCEPT !.finished = TRUE]
  /\ EndRun(IF Matches(pinner, doc) THEN "pinned" ELSE "threw")
  /\ UNCHANGED doc /\ UNCHANGED Rest

EndPlain ==
  Over /\ run.how = "plain" /\ EndRun("ended") /\ UNCHANGED <<pinner, doc>> /\ UNCHANGED Rest

\* the caller has looked at what it got
Leave ==
  /\ run.stage \in {"recorded", "recorded kept", "pinned", "ended", "threw"}
  /\ run' = NoRun
  /\ results' = <<>>
  /\ kept' = <<>> /\ axes' = <<>> /\ waiting' = <<>> /\ addends' = <<>>
  /\ task' = <<>> /\ slot' = <<>> /\ picked' = <<>>
  /\ recorder' = NewRecorder /\ pinner' = NewPinner(<<>>)
  /\ UNCHANGED <<walk, doc, runs>>

Work(i) ==
  \/ Optimize(i) \/ OptimizeRecorded(i) \/ TakePinned(i)
  \/ Bind(i) \/ AddRecord(i) \/ StoreAxes(i)
Reorder == VisitHead \/ VisitNext \/ CloneNext \/ ReturnReordered
End == FailCall \/ ReturnTerm \/ ReturnInOrder \/ ReturnPinned
Caller ==
  \/ Begin \/ CallOptimize \/ UseAgain \/ DropLast
  \/ EndRecording \/ EndPinning \/ EndPlain \/ Leave

OptimizerNext == (\E i \in DOMAIN task : Work(i)) \/ Reorder \/ End \/ Caller
OptimizerSpec == OptimizerInit /\ [][OptimizerNext]_optimizerVars

-----------------------------------------------------------------------------
(* Properties.                                                              *)

\* what a result and a record say of a term
SaidOf(r) == [key |-> r.key, tree |-> r.tree, nodes |-> r.nodes]
Said(s) == [p \in DOMAIN s |-> SaidOf(s[p])]
\* the records of terms that can be pinned
RecordedAs(r) == IF Kind[r.key] \in {"product", "tensor"} THEN SaidOf(r)
                 ELSE [key |-> r.key, tree |-> None, nodes |-> <<>>]

\* A record lists the results of the run, in the order of the final sum or of
\* the calls: whichever thread finished first, whatever was cloned, and
\* although the addresses of dropped results were used again.
RecordListsResults ==
  /\ run.stage = "recorded" =>
       Said(doc) = [p \in DOMAIN picked |-> RecordedAs(picked[p])]
  /\ run.stage = "recorded kept" =>
       Said(doc) = [p \in DOMAIN kept |-> RecordedAs(results[kept[p]])]

\* A pinned run that ends well has rebuilt every recorded tree, once, in the
\* order of the record when it is of a sum; one whose terms differ from the
\* recorded ones, or repeat, does not end well ("no partial pin"), and neither
\* does a second run with the session.
PinReplaysRecord ==
  /\ run.stage = "pinned" =>
       /\ ToSet(Said(picked)) = ToSet(Said(doc))
       /\ Len(picked) = Len(doc)
       /\ ~run.each => Said(picked) = Said(doc)
  /\ run.stage = "threw" /\ run.how = "pin" =>
       \/ HasDuplicates(KeysOf(doc)) \/ HasDuplicates(addends) \/ run.each
       \/ kept # <<>>
       \/ ToSet(addends) # ToSet(KeysOf(doc))
       \/ \E p \in DOMAIN doc : ~doc[p].pinnable

\* The annotations kept for a sum are those of its summands, in the order in
\* which it is binarized, and no summand's are left behind.
AxesFollowSummands ==
  run.stage = "returned" /\ ~run.each =>
    axes = [a \in {SumKey} |->
              FlattenSeq([p \in DOMAIN kept |-> Axes[results[kept[p]].tree]])]

\* What is kept beside a result, its record and its annotations, is that
\* result's.
KeptWithTheirResults == RecordListsResults /\ AxesFollowSummands
=============================================================================
