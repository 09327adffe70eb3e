------------------------------ MODULE Selections ------------------------------
(* The stored selections of calculation groups, field parameters and what-if
   parameters (save.py, reports/*_selections.yaml).  Selections are made for the
   report, for pages and for visuals; each of these three is a function from names
   to what is selected: an item of a group, items of a field parameter, a number of
   a what-if.  A client sends them so, or as a list of entries.                 *)
EXTENDS Integers, Sequences, SequencesExt, Lists

CONSTANTS
  Groups,      \* calculation groups, with the set of their items
  Parameters   \* field parameters, with the set of theirs

\* A leaf that is empty or of another type.
IllItem == ""
IllNumber == -1

NoSelections == [report |-> <<>>, page |-> <<>>, visual |-> <<>>]

\* What a client sends: selections by scope, or entries in a list.
ByScope(selections) == [listed |-> FALSE, entries |-> <<>>, selections |-> selections]
Listed(entries) == [listed |-> TRUE, entries |-> entries, selections |-> NoSelections]

-----------------------------------------------------------------------------
\* Leaves are canonicalised, ill ones dropped, and then what has none left.
Canonical(selections, Canon(_), ill) ==
  LET kept(f) == [n \in {m \in DOMAIN f : Canon(f[m]) # ill} |-> Canon(f[n])]
      all(fs) == [t \in {u \in DOMAIN fs : DOMAIN kept(fs[u]) # {}} |-> kept(fs[t])]
  IN [report |-> kept(selections.report), page |-> all(selections.page),
      visual |-> all(selections.visual)]

\* What f says, and what g says where f is silent.
Over(f, g) == [n \in DOMAIN f \cup DOMAIN g |-> IF n \in DOMAIN f THEN f[n] ELSE g[n]]

SelectedFor(fs, target) == IF target \in DOMAIN fs THEN fs[target] ELSE <<>>

\* Of two entries for one name the last counts; one for no page or visual is dropped.
WithEntry(selections, x) ==
  LET leaf == x.name :> x.leaf
      more(fs) == Over(x.target :> Over(leaf, SelectedFor(fs, x.target)), fs)
  IN CASE x.scope = "report" -> [selections EXCEPT !.report = Over(leaf, @)]
       [] x.scope = "page" /\ x.target # "" -> [selections EXCEPT !.page = more(@)]
       [] x.scope = "visual" /\ x.target # "" -> [selections EXCEPT !.visual = more(@)]
       [] OTHER -> selections
Sent(put) == IF put.listed THEN FoldLeft(WithEntry, NoSelections, put.entries) ELSE put.selections

\* A name and a leaf, of all scopes.
Pairs(f) == {<<n, f[n]>> : n \in DOMAIN f}
AllPairs(selections) ==
  LET within(fs) == UNION {Pairs(fs[t]) : t \in DOMAIN fs}
  IN Pairs(selections.report) \cup within(selections.page) \cup within(selections.visual)

\* The narrowest scope counts, name by name.
Narrowest(selections, page, visual) ==
  Over(SelectedFor(selections.visual, visual),
       Over(SelectedFor(selections.page, page), selections.report))

-----------------------------------------------------------------------------
(* Calculation groups: load_, save_, flatten_ and resolve_effective_..., and
   _validate_..._against_model.                                               *)
CalcLeaf(leaf) == leaf
CalcLoaded(stored) == Canonical(stored, CalcLeaf, IllItem)
CalcSaved(put) == Canonical(Sent(put), CalcLeaf, IllItem)
CalcFlat(selections) == {x \in AllPairs(selections) : x[2] # IllItem}
CalcEffective(selections, page, visual) == Narrowest(selections, page, visual)
CalcValid(pairs) == \A x \in pairs : x[1] \in DOMAIN Groups /\ x[2] \in Groups[x[1]]

-----------------------------------------------------------------------------
(* Field parameters: a leaf has items, under one of two keys, and is stored with
   each item once and under the first key.  Before it is stored it is flattened,
   which knows the first key only.  More than one item is refused by validation. *)
Leaf(key, items) == [key |-> key, items |-> items]
Items(leaf) == Among(leaf.items, ToSet(leaf.items) \ {IllItem})
ParamLeaf(leaf) == Leaf("selected", Once(Items(leaf)))
ParamLoaded(stored) == Canonical(stored, ParamLeaf, Leaf("selected", <<>>))
ParamSaved(put) == Canonical(Sent(put), ParamLeaf, Leaf("selected", <<>>))
ParamFlat(selections) ==
  {x \in {<<y[1], Items(y[2])>> : y \in {z \in AllPairs(selections) : z[2].key = "selected"}} :
     x[2] # <<>>}
ParamEffective(selections, page, visual) ==
  LET narrowest == Narrowest(selections, page, visual)
  IN [name \in DOMAIN narrowest |-> Items(narrowest[name])]
ParamValid(pairs) ==
  \A x \in pairs : /\ Len(x[2]) = 1
                   /\ x[1] \in DOMAIN Parameters /\ x[2][1] \in Parameters[x[1]]

-----------------------------------------------------------------------------
(* What-if parameters: numbers.  An ill one fails the save, which knows no list of
   entries.  What is saved under "page" and "visual" is looked for under "pages" and
   "visuals", so only what is selected for the report is validated and used.  *)
WhatIfLoaded(stored) == stored
WhatIfSaves(put) == \A x \in AllPairs(put.selections) : x[2] # IllNumber
WhatIfSaved(put) == put.selections
WhatIfFlat(selections) == {x \in Pairs(selections.report) : x[2] # IllNumber}
WhatIfEffective(selections) == selections.report
WhatIfValid(pairs, ranges) == \A x \in pairs : x[1] \in DOMAIN ranges /\ x[2] \in ranges[x[1]]
===============================================================================
