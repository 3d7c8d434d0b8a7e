----------------------------- MODULE ModuleOrder -----------------------------
(***************************************************************************)
(* Which modules are loaded and in which order:                            *)
(* app/platform/module/discovery.py.  A manifest is [enabled, depends_on]; *)
(* modules are numbered in the order of their manifest names.  A manifest  *)
(* that is not a ModuleSpec, or repeats a name, raises at the same place   *)
(* as a circle of dependencies and is left out.                            *)
(*                                                                         *)
(* The recursion of visit is a stack of calls in progress, one step per    *)
(* round of a loop.  Nothing of the process runs beside it.                *)
(***************************************************************************)
EXTENDS Integers, Sequences, SequencesExt

Manifest == [enabled : BOOLEAN, depends_on : Seq(Nat)]

VARIABLES manifests,
          place,      \* manifests the loop over specs has gone through
          stack,      \* calls of visit, innermost last: [name, at]; at counts
                      \* the rounds of the call's loop over depends_on
          visited,
          order       \* result, and module_specs after the sort

sort == <<place, stack, visited, order>>

SortInit == place = 0 /\ stack = <<>> /\ visited = {} /\ order = <<>>

\* by_name: the enabled specs
Loaded == {m \in DOMAIN manifests : manifests[m].enabled}

Path == {stack[i].name : i \in DOMAIN stack}

Call(name) == [name |-> name, at |-> 0]
Top == stack[Len(stack)]
Dependencies == manifests[Top.name].depends_on

\* for spec in specs
VisitSpec ==
    /\ stack = <<>> /\ place < Len(manifests)
    /\ place' = place + 1
    /\ stack' = IF place' \in Loaded /\ place' \notin visited THEN <<Call(place')>> ELSE <<>>
    /\ UNCHANGED <<manifests, visited, order>>

\* for dep in spec.depends_on
InLoop == stack # <<>> /\ Top.at < Len(Dependencies)
Dependency == Dependencies[Top.at + 1]

MutantMarksOnly ==
    /\ InLoop /\ Dependency \notin Path \ visited
    /\ stack' = [stack EXCEPT ![Len(stack)].at = @ + 1]
    /\ UNCHANGED <<manifests, place, visited, order>>

\* visit(dep, path) returns at once, marks an unknown name, or goes deeper
VisitDependency ==
    /\ InLoop /\ Dependency \notin Path \ visited
    /\ LET rest == [stack EXCEPT ![Len(stack)].at = @ + 1] IN
       stack' = IF Dependency \in Loaded \ visited THEN Append(rest, Call(Dependency)) ELSE rest
    /\ visited' = IF Dependency \in Loaded THEN visited ELSE visited \cup {Dependency}
    /\ UNCHANGED <<manifests, place, order>>

\* raise ValueError("Circular module dependency")
CircleFound == InLoop /\ Dependency \in Path \ visited

EndVisit ==
    /\ stack # <<>> /\ ~InLoop
    /\ stack' = SubSeq(stack, 1, Len(stack) - 1)
    /\ visited' = visited \cup {Top.name}
    /\ order' = Append(order, Top.name)
    /\ UNCHANGED <<manifests, place>>

\* every spec has been visited, so nothing "remains" to be sorted by its order
\* attribute
SortDone == stack = <<>> /\ place = Len(manifests)

\* Reference definitions, from the manifests alone.
Needs(m) == ToSet(manifests[m].depends_on) \cap Loaded
Cyclic == \E C \in SUBSET Loaded : C # {} /\ \A m \in C : Needs(m) \cap C # {}
=============================================================================
