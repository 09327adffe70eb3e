---------------------------- MODULE MatrixTotals ----------------------------
(***************************************************************************)
(* How the cells of one matrix visual are filled                           *)
(* (src/dax_engine/planner/matrix_planner.py, execute_matrix_query).  A    *)
(* query returns one value per leaf row and leaf column.  The totals are   *)
(* then asked of the database one by one, and five passes fill what is     *)
(* still missing by adding cells that are there: collapsed columns, column *)
(* subtotals, collapsed rows, row subtotals and the headers of open rows.  *)
(* Each pass reads what the passes before it left, so their order and the  *)
(* keys each of them sums decide whether a fact is counted once.           *)
(*                                                                         *)
(* A value is what went into it: how often it counts each fact of the      *)
(* table, and by what it came to be: the measure evaluated over the facts  *)
(* with the parameters of the request, as in the leaves, or with their     *)
(* defaults, as in the totals, or cells that were added.  For SUM they     *)
(* agree, for an average they do not.  None (no value) is the value that   *)
(* counts nothing: no facts, or a measure that is BLANK over them.  It may *)
(* be BLANK at a total only; a leaf that is BLANK (or 0, which the code    *)
(* takes for None) adds nothing to any sum, as if its facts were not there.*)
(*                                                                         *)
(* A member of an axis is a natural number; Blank is the one without a     *)
(* name.  A key is a path of members and a kind, where the code joins the  *)
(* members with "__" and marks a total with a suffix.  Both axes have      *)
(* columns.  The formatting of values, bars and conditional formats, the   *)
(* debug inflation of rows and the final cut at max_cells are left out:    *)
(* none of them changes a value.                                           *)
(***************************************************************************)
EXTENDS Naturals, Sequences, FiniteSets, SequencesExt

CONSTANTS
  Facts,          \* the facts a table can hold, each [row, col]: its two paths
  RowDepth,       \* the levels of the row axis
  ColDepth,       \* the levels of the column axis
  RowExpansions,  \* the sets of row paths a client may ask to expand
  ColExpansions,  \* the sets of column paths a client may ask to expand
  Drills,         \* the members of the first row level one may drill into, or NoDrill
  MaxCols,        \* spec.max_cols: the members kept of each column level
  Blanks          \* the sets of contexts <<row path, column path>> in which a measure
                  \* is BLANK though there are facts

Blank == 0
NoDrill == 0

ASSUME FactsAssumption ==
  /\ RowDepth \in Nat \ {0} /\ ColDepth \in Nat \ {0}
  /\ \A f \in Facts : /\ f.row \in [1..RowDepth -> Nat]
                      /\ f.col \in [1..ColDepth -> Nat]

VARIABLES
  table,    \* the facts in the database
  spec,     \* what the request asks for (a path that is open opens those above it)
  pass,     \* the step of execute_matrix_query that comes next
  fetched,  \* the facts whose groups the leaf query returned
  failed,   \* the totals could not be evaluated
  blank,    \* the contexts in which the measure is BLANK
  cells     \* the value of each (row key, column key) that has a cell

vars == <<table, spec, pass, fetched, failed, blank, cells>>

Specs == [rowExp : RowExpansions, colExp : ColExpansions, drill : Drills,
          rowSubs : BOOLEAN, colSubs : BOOLEAN,
          rowGrand : BOOLEAN, colGrand : BOOLEAN]

Data(path) == [path |-> path, kind |-> "data"]
Subtotal(path) == [path |-> path, kind |-> "subtotal"]
GrandTotal == [path |-> <<>>, kind |-> "grand"]

----------------------------------------------------------------------------
(* The two axes *)

\* Drilling into a member filters on it and drops its level from the axis.
RowFrom == IF spec.drill = NoDrill THEN 0 ELSE 1
InDrill(f) == spec.drill = NoDrill \/ f.row[1] = spec.drill
RowPath(f) == SubSeq(f.row, RowFrom + 1, RowDepth)

Opened(paths, p) == \E q \in paths : IsPrefix(p, q)

\* _build_row_tree: a node per prefix of a fetched row.
RowNodes == UNION {{SubSeq(RowPath(f), 1, n) : n \in 1..(RowDepth - RowFrom)} : f \in fetched}
RowOpen(p) == RowDepth - RowFrom = 1 \/ Opened(spec.rowExp, p)
RowIsLeaf(p) == Len(p) = RowDepth - RowFrom
RowShown(p) == \A q \in RowNodes : IsStrictPrefix(q, p) => RowOpen(q)

Rows == {Data(p) : p \in {q \in RowNodes : RowShown(q)}}
          \union (IF spec.rowSubs
                  THEN {Subtotal(p) : p \in {q \in RowNodes : RowShown(q) /\ RowOpen(q) /\ ~RowIsLeaf(q)}}
                  ELSE {})
          \union (IF spec.rowGrand THEN {GrandTotal} ELSE {})

\* _collect_descendant_leaf_keys
LeavesBelow(p) == {Data(RowPath(f)) : f \in {g \in fetched : IsPrefix(p, RowPath(g))}}

\* The members of a column level: what the rows hold, without the blank, cut.
ColMembers(level) == {f.col[level] : f \in fetched} \ {Blank}
ColKept(level) == {m \in ColMembers(level) :
                     Cardinality({n \in ColMembers(level) : n < m}) < MaxCols}

\* _build_col_header_bands: every combination of members, below open paths only.
ColPaths == UNION {{p \in [1..n -> UNION {ColKept(l) : l \in 1..n}] :
                      \A l \in 1..n : p[l] \in ColKept(l)} : n \in 1..ColDepth}
ColOpen(p) == Opened(spec.colExp, p)
ColReached(p) == \A n \in 1..(Len(p) - 1) : ColOpen(SubSeq(p, 1, n))
ColIsLeaf(p) == Len(p) = ColDepth

Cols == {Data(p) : p \in {q \in ColPaths : ColReached(q) /\ (ColIsLeaf(q) \/ ~ColOpen(q))}}
          \union (IF spec.colSubs
                  THEN {Subtotal(p) : p \in {q \in ColPaths : ColReached(q) /\ ColOpen(q) /\ ~ColIsLeaf(q)}}
                  ELSE {})
          \union (IF spec.colGrand THEN {GrandTotal} ELSE {})

----------------------------------------------------------------------------
(* Values *)

Indicator(S) == [f \in Facts |-> IF f \in S THEN 1 ELSE 0]
Evaluated(S) == [counts |-> Indicator(S), by |-> "query"]
EvaluatedTotal(S) == [counts |-> Indicator(S), by |-> "defaults"]
NoValue == [counts |-> Indicator({}), by |-> "query"]
IsValue(v) == \E f \in Facts : v.counts[f] > 0

Cell(k) == IF k \in DOMAIN cells THEN cells[k] ELSE NoValue
Missing(k) == ~IsValue(Cell(k))

\* The sum of the counts of each fact is the size of their disjoint union.
Summed(keys, f) == Cardinality(UNION {{k} \X (1..Cell(k).counts[f]) : k \in keys})
Added(keys) == [counts |-> [f \in Facts |-> Summed(keys, f)], by |-> "sum"]

\* Every pass writes new cells over the old: new is a function of keys.
Put(new) == cells' = [k \in DOMAIN cells \union DOMAIN new |->
                        IF k \in DOMAIN new THEN new[k] ELSE cells[k]]
\* For a pass that adds the cells sources[k] where k has no value and the sum is one.
PutSums(sources) ==
  Put([k \in {j \in DOMAIN sources : Missing(j) /\ IsValue(Added(sources[j]))} |->
         Added(sources[k])])

\* The rows that have a cells dictionary.
CellRows == {k[1] : k \in DOMAIN cells}
CellCols == {k[2] : k \in DOMAIN cells}

\* The facts a row key and a column key filter on; the drill is no part of it.
Under(f, r, c) == IsPrefix(r.path, RowPath(f)) /\ IsPrefix(c.path, f.col)
FactsUnder(r, c) == {f \in table : Under(f, r, c)}
BlankAt(r, c) == <<r.path, c.path>> \in blank

----------------------------------------------------------------------------
(* The passes *)

Init == /\ table \in (SUBSET Facts) \ {{}}
        /\ spec \in Specs
        /\ pass = "query" /\ fetched = {} /\ failed = FALSE /\ blank = {} /\ cells = <<>>

\* The leaf query has the filter of the drill, and no LIMIT.
Query == /\ pass = "query"
         /\ fetched' = {f \in table : InDrill(f)}
         /\ pass' = "leaves"
         /\ UNCHANGED <<table, spec, failed, blank, cells>>

Leaves == /\ pass = "leaves"
          /\ Put([k \in {<<Data(RowPath(f)), Data(f.col)>> : f \in fetched} |->
                    Evaluated({f \in fetched : <<Data(RowPath(f)), Data(f.col)>> = k})])
          /\ pass' = "totals"
          /\ UNCHANGED <<table, spec, fetched, failed, blank>>

\* _compute_totals_rows: the keys whose measure is evaluated again.
TotalKeys ==
  LET totalRows == Rows \ {Data(p) : p \in RowNodes}
      dataRows == {Data(p) : p \in RowNodes}
  IN  {k \in totalRows \X Cols : k[2] # GrandTotal}
        \union (IF spec.colGrand THEN (totalRows \union dataRows) \X {GrandTotal} ELSE {})

\* _evaluate_measure_with_filters: the measure with the filters of the keys, without
\* the parameters and what-ifs of the request.  A BLANK is NULL and counts as None,
\* and so does an evaluation that fails, which is logged: all fail, or those in blank.
Totals == /\ pass = "totals"
          /\ failed' \in BOOLEAN
          /\ blank' \in IF failed' THEN {{}} ELSE Blanks
          /\ Put([k \in TotalKeys |-> IF failed' \/ BlankAt(k[1], k[2])' THEN NoValue
                                     ELSE EvaluatedTotal(FactsUnder(k[1], k[2]))])
          /\ pass' = "colParents"
          /\ UNCHANGED <<table, spec, fetched>>

\* _aggregate_parent_col_values: from all columns below, visible or not.
CollapsedCols == {c \in Cols : c.kind = "data" /\ ~ColIsLeaf(c.path)}
\* Mutant of ColsBelow: the visible columns only, as the subtotals do.
ColsBelowShown(c) == {d \in Cols : d.kind = "data" /\ IsPrefix(c.path, d.path)}
ColsBelow(c) == {d \in CellCols : d.kind = "data" /\ IsPrefix(c.path, d.path)}
ColParents == /\ pass = "colParents"
              /\ PutSums([k \in CellRows \X CollapsedCols |-> {k[1]} \X ColsBelow(k[2])])
              /\ pass' = "colSubtotals"
              /\ UNCHANGED <<table, spec, fetched, failed, blank>>

\* _aggregate_col_subtotal_values: from the visible columns below.
SubtotalCols == {c \in Cols : c.kind = "subtotal"}
\* Mutant of ShownColsBelow: hidden columns are added too.
ShownColsBelowAll(c) == {d \in CellCols : d.kind = "data" /\ IsStrictPrefix(c.path, d.path)}
ShownColsBelow(c) == {d \in Cols : d.kind = "data" /\ IsStrictPrefix(c.path, d.path)}
ColSubtotals == /\ pass = "colSubtotals"
                /\ PutSums([k \in CellRows \X SubtotalCols |-> {k[1]} \X ShownColsBelow(k[2])])
                /\ pass' = "rowParents"
                /\ UNCHANGED <<table, spec, fetched, failed, blank>>

\* _aggregate_parent_row_values: rows none of whose children are shown get the
\* cells they do not have, with or without a value.
ClosedRows == {r \in Rows : r.kind = "data" /\ ~\E q \in Rows : q.kind = "data" /\ IsStrictPrefix(r.path, q.path)}
RowParents == /\ pass = "rowParents"
              /\ Put([k \in (ClosedRows \X Cols) \ DOMAIN cells |->
                        Added(LeavesBelow(k[1].path) \X {k[2]})])
              /\ pass' = "rowSubtotals"
              /\ UNCHANGED <<table, spec, fetched, failed, blank>>

\* _aggregate_row_subtotal_values
SubtotalRows == {r \in Rows : r.kind = "subtotal"}
\* Mutant of RowSubtotals: a subtotal that has a value is summed over.
RowSubtotalsAnyway ==
  /\ pass = "rowSubtotals"
  /\ Put([k \in SubtotalRows \X Cols |-> Added(LeavesBelow(k[1].path) \X {k[2]})])
  /\ pass' = "copy"
  /\ UNCHANGED <<table, spec, fetched, failed, blank>>
RowSubtotals == /\ pass = "rowSubtotals"
                /\ PutSums([k \in SubtotalRows \X Cols |-> LeavesBelow(k[1].path) \X {k[2]}])
                /\ pass' = "copy"
                /\ UNCHANGED <<table, spec, fetched, failed, blank>>

\* _copy_subtotal_to_expanded_parents
CopySubtotals ==
  /\ pass = "copy"
  /\ LET keys == {Data(r.path) : r \in SubtotalRows} \X Cols
         from(k) == <<Subtotal(k[1].path), k[2]>>
     IN  Put([k \in {j \in keys : Missing(j) /\ ~Missing(from(j))} |-> Cell(from(k))])
  /\ pass' = "done"
  /\ UNCHANGED <<table, spec, fetched, failed, blank>>

Done == pass = "done" /\ UNCHANGED vars

Next == \/ Query \/ Leaves \/ Totals \/ ColParents \/ ColSubtotals
        \/ RowParents \/ RowSubtotals \/ CopySubtotals \/ Done

Spec == Init /\ [][Next]_vars

----------------------------------------------------------------------------
(* Properties *)

IsTotal(r, c) == r.kind # "data" \/ c.kind = "grand"

\* The header of a row whose subtotal is shown says what the subtotal says.
HasSubtotal(r) == r.kind = "data" /\ Subtotal(r.path) \in Rows

\* The facts a cell is about: the totals are evaluated without the filter of the
\* drill, and everything else has it.
Scope(r, c) == {f \in FactsUnder(r, c) :
                  InDrill(f) \/ (~failed /\ (IsTotal(r, c) \/ HasSubtotal(r)))}

\* No cell of a finished matrix counts a fact twice, and none counts a fact its
\* keys do not cover: the passes never add a collapsed parent and what is below
\* it.  This holds when columns were cut and when some column member is blank.
\* Only totals, and the headers that repeat them, count facts outside the drill.
CountsEachFactOnce ==
  pass = "done" =>
    \A r \in Rows, c \in Cols : \A f \in Facts :
      Cell(<<r, c>>).counts[f] <= IF f \in Scope(r, c) THEN 1 ELSE 0

\* Nothing was lost on the way: no column cut, no blank column.
Whole == \A l \in 1..ColDepth : ColKept(l) = {f.col[l] : f \in fetched}

\* The header of an open row has no value of its own without a subtotal row.
BareHeader(r, c) == /\ r.kind = "data" /\ ~RowIsLeaf(r.path) /\ RowOpen(r.path)
                    /\ ~spec.rowSubs /\ c # GrandTotal

\* When nothing was lost, every cell of a finished matrix counts exactly the
\* facts it is about, whatever is open and whatever totals are shown:
\* opening and closing rows and columns never changes what a total says.  When
\* the totals could not be evaluated the subtotals are still filled.  Left out are
\* the totals, and the headers that repeat them, at which the measure is BLANK: what
\* is shown there adds cells some of which may be BLANK themselves.
BlankTotal(r, c) == ~failed /\ BlankAt(r, c) /\ (IsTotal(r, c) \/ HasSubtotal(r))
CompleteWhenWhole ==
  pass = "done" /\ Whole =>
    \A r \in Rows, c \in Cols :
      \/ BareHeader(r, c)
      \/ failed /\ (r = GrandTotal \/ c = GrandTotal)
      \/ BlankTotal(r, c)
      \/ Cell(<<r, c>>).counts = Indicator(Scope(r, c))

\* Subtotal rows, the grand total row and the grand total column say what the
\* measure says, with the defaults of its parameters, over all the facts under their
\* keys, also where columns were cut or are blank, and no later pass replaces them by
\* a sum.  Where the measure is BLANK the cell is empty or, although the docstring
\* says that totals are never sums, adds the cells below it: in a subtotal row, in a
\* subtotal column and in the header that repeats a subtotal, and nowhere else.
TotalsAreEvaluated ==
  pass = "done" /\ ~failed =>
    \A r \in Rows, c \in Cols :
      IsTotal(r, c) /\ FactsUnder(r, c) # {} =>
        IF ~BlankAt(r, c) THEN Cell(<<r, c>>) = EvaluatedTotal(FactsUnder(r, c))
        ELSE IsValue(Cell(<<r, c>>)) =>
               /\ Cell(<<r, c>>).by = "sum"
               /\ r.kind = "subtotal" \/ c.kind = "subtotal" \/ HasSubtotal(r)

=============================================================================
