---------------------------- MODULE Relationships ----------------------------
(***************************************************************************)
(* The relationships of a model and the rows a query reads because of them *)
(* (src/dax_engine/relationships.py).  A query has a root, the table whose *)
(* rows are aggregated, and needs other tables: those it groups by, and    *)
(* those that have filters.  Two graphs over the same relationships decide *)
(* what is joined: a table with a filter only if filters propagate from it *)
(* to the root, along the direction of active relationships; and then      *)
(* along the shortest way from the root, in any direction, over any        *)
(* relationship.                                                           *)
(*                                                                         *)
(* A registry is a sequence of relationships; between two tables there may *)
(* be several, of which a query uses one.  Ways between tables are sets    *)
(* that are closed under steps from one table to the next.                 *)
(***************************************************************************)
EXTENDS Naturals, Sequences, FiniteSets, SequencesExt, FiniteSetsExt

CONSTANT Tables

ASSUME TablesAssumption == IsFiniteSet(Tables)

Cardinalities == {"manyToOne", "oneToMany", "oneToOne", "manyToMany"}

IsRelationship(r) ==
  /\ DOMAIN r = {"id", "from", "to", "active", "both", "card"}
  /\ r.from \in Tables /\ r.to \in Tables
  /\ r.active \in BOOLEAN /\ r.both \in BOOLEAN /\ r.card \in Cardinalities

IsRegistry(reg) ==
  /\ Len(reg) \in Nat /\ DOMAIN reg = 1..Len(reg)
  /\ \A i \in DOMAIN reg : IsRelationship(reg[i])

Pair(r) == {r.from, r.to}
Other(r, t) == IF r.from = t THEN r.to ELSE r.from

\* The tables that steps lead to from a table.
Reached(steps, from) ==
  {t \in Tables : \A S \in SUBSET Tables :
                    from \in S /\ (\A s \in steps : s[1] \in S => s[2] \in S) => t \in S}

\* The relationship a query uses between two tables: one that is overridden,
\* else one that is active, else one at all; of several, the first.
Chosen(reg, overrides, pair) ==
  LET between    == {i \in DOMAIN reg : Pair(reg[i]) = pair}
      overridden == {i \in between : reg[i].id \in overrides}
      active     == {i \in between : reg[i].active}
  IN reg[Min(IF overridden # {} THEN overridden ELSE IF active # {} THEN active ELSE between)]

\* One relationship for each two tables that have any, where the two first come up
\* in the registry.
Firsts(reg) == {i \in DOMAIN reg : \A j \in DOMAIN reg : Pair(reg[j]) = Pair(reg[i]) => i <= j}
Used(reg, overrides) == [i \in Firsts(reg) |-> Chosen(reg, overrides, Pair(reg[i]))]

-----------------------------------------------------------------------------
(* Where filters go.                                                          *)

\* Mutant of Directions: from the end that has the foreign key.
DirectionsBackwards(r) ==
  IF r.both \/ r.card \in {"oneToOne", "manyToMany"} THEN {<<r.from, r.to>>, <<r.to, r.from>>}
  ELSE IF r.card = "oneToMany" THEN {<<r.to, r.from>>} ELSE {<<r.from, r.to>>}

Directions(r) ==
  IF r.both \/ r.card \in {"oneToOne", "manyToMany"} THEN {<<r.from, r.to>>, <<r.to, r.from>>}
  ELSE IF r.card = "oneToMany" THEN {<<r.from, r.to>>} ELSE {<<r.to, r.from>>}

Enabled(r, overrides) == r.active \/ r.id \in overrides

\* Tables from which filters reach the root.
Propagating(reg, overrides, root) ==
  LET enabled == {r \in Range(Used(reg, overrides)) : Enabled(r, overrides)}
  IN Reached({<<d[2], d[1]>> : d \in UNION {Directions(r) : r \in enabled}}, root)

-----------------------------------------------------------------------------
(* What is joined.  The search visits tables in a queue; a table hangs on the
   first table of the queue that it is related to.                            *)
Related(used, t, u) == t # u /\ \E i \in DOMAIN used : Pair(used[i]) = {t, u}

\* The relationships by which the n-th table of the queue finds a new one.
Finds(used, queue, n) ==
  {i \in DOMAIN used : queue[n] \in Pair(used[i]) /\ Other(used[i], queue[n]) \notin ToSet(queue)}

Visit(used, queue) ==
  LET finding == {n \in DOMAIN queue : Finds(used, queue, n) # {}}
      n       == Min(finding)
  IN IF finding = {} THEN queue
     ELSE Append(queue, Other(used[Min(Finds(used, queue, n))], queue[n]))

\* After as many steps as there are tables, all that can be found are.
Search(used, root) ==
  LET queue[n \in 0..Cardinality(Tables)] ==
        IF n = 0 THEN <<root>> ELSE Visit(used, queue[n - 1])
  IN queue
Queue(used, root) == Search(used, root)[Cardinality(Tables)]

Parent(used, queue, t) == queue[Min({n \in DOMAIN queue : Related(used, queue[n], t)})]
Edge(used, t, u) == CHOOSE r \in Range(used) : Pair(r) = {t, u}

\* The tables on the way from the root to a table of the queue.
Way(used, queue, t) ==
  Reached({<<u, Parent(used, queue, u)>> : u \in ToSet(queue) \ {queue[1]}}, t)

\* Mutant of Targets: tables with filters are joined like all others.
TargetsAny(needed, filtering, reaching) == needed

\* Of the tables that are needed, those the query asks to connect.
Targets(needed, filtering, reaching) == {t \in needed : t \in filtering => t \in reaching}

\* _build_rowset_plan_ctx: what is joined to the root, and for each joined table
\* the relationship by which it is and the table it hangs on.
Rowset(reg, overrides, root, needed, filtering) ==
  LET used   == Used(reg, overrides)
      queue  == Queue(used, root)
      goals  == Targets(needed, filtering, Propagating(reg, overrides, root)) \cap ToSet(queue)
      joined == {root} \cup UNION {Way(used, queue, t) : t \in goals}
  IN [root   |-> root,
      joined |-> joined,
      parent |-> [t \in joined \ {root} |-> Parent(used, queue, t)],
      edge   |-> [t \in joined \ {root} |-> Edge(used, t, Parent(used, queue, t))]]

\* Whether a row can find several in the table that is joined to it.
ManySide(r) == IF r.card = "oneToMany" THEN {r.to}
               ELSE IF r.card = "manyToOne" THEN {r.from}
               ELSE IF r.card = "manyToMany" THEN Pair(r) ELSE {}
Multiplies(rowset, t) == t \in ManySide(rowset.edge[t])

\* Tables joined by a many-to-many relationship.
SemiJoins(rowset) == {t \in DOMAIN rowset.edge : rowset.edge[t].card = "manyToMany"}
=============================================================================
