--------------------------- MODULE MCReportTransfer ---------------------------
(* Two reports and a workbook, as small as the cases allow.

   sales has two pages; the names of its slicers, one on each, begin alike; it
   drills into a hierarchy by year, month and day, and the user's has no day.
   stock has one page, a filter without a condition, a visual of an unknown type,
   a level that is no column, a slicer that shows the default item and is on no
   column, and a bookmark of a page that is gone.  book brings a page, a chart and a slicer.
   In the project there are a page of the user's own and one that was imported
   long ago and has been edited since.                                          *)
EXTENDS ReportTransfer, TLC

Shown(page, type) ==
  [page |-> page, type |-> type, column |-> TRUE, known |-> TRUE, filtered |-> FALSE,
   default |-> None, item |-> None, levels |-> {}]
Level(name, level) == [name |-> name, table |-> "Date", level |-> level]

Sales == [kind |-> "pbi", pages |-> 2, bare |-> FALSE, filtered |-> {2},
  visuals |->
    (<<"a", 1>> :> [Shown(1, "chart") EXCEPT !.item = "amount", !.filtered = TRUE,
                      !.levels = {Level("Calendar", l) : l \in {"Year", "Month", "Day"}}])
    @@ (<<"b", 1>> :> [Shown(1, "slicer") EXCEPT !.default = "amount"])
    @@ (<<"b", 2>> :> Shown(2, "slicer")),
  links |-> {<<<<"a", 1>>, <<"b", 2>>>>},
  bookmarks |-> {[page |-> 2, targets |-> {<<"a", 1>>}]}]

Stock == [kind |-> "pbi", pages |-> 1, bare |-> TRUE, filtered |-> {},
  visuals |->
    (<<"c", 1>> :> [Shown(1, "slicer") EXCEPT !.column = FALSE, !.item = "quantity",
                      !.levels = {Level("Weeks", "Year"), Level("Weeks", "Week")}])
    @@ (<<"d", 1>> :> [Shown(1, "unknown") EXCEPT !.known = FALSE]),
  links |-> {<<<<"c", 1>>, <<"d", 1>>>>},
  bookmarks |-> {[page |-> 1, targets |-> {<<"d", 1>>}], [page |-> 9, targets |-> {}]}]

Book == [kind |-> "doc", pages |-> 1, bare |-> FALSE, filtered |-> {1},
  visuals |->
    (<<"e", 1>> :> Shown(1, "chart")) @@ (<<"f", 1>> :> Shown(1, "slicer")),
  links |-> {<<<<"e", 1>>, <<"f", 1>>>>},
  bookmarks |-> {[page |-> 1, targets |-> {}]}]

MCSources == [sales |-> Sales, stock |-> Stock, book |-> Book]

MCColumns    == {<<"Date", c>> : c \in {"Year", "MonthNameShort", "Date"}}
MCCandidates == [Year |-> <<"Year">>, Month |-> <<"MonthNameLong", "MonthNameShort">>,
                 Day |-> <<"Date", "Day">>, Week |-> <<>>]

Symmetry == Permutations(Importers)

Home == PageId("user", 1)
MCFirstProject ==
  [pages |-> [p \in {Home, PageId("pbi", 1)} |-> User],
   visuals |-> One([kind |-> "own", n |-> <<1>>],
                 [page |-> Home, from |-> User, source |-> <<1>>, known |-> TRUE,
                  item |-> None, links |-> {}]),
   filters |-> [bare |-> FALSE, pages |-> {}, visuals |-> {}],
   slicers |-> {[id |-> [kind |-> "own", n |-> <<1>>], page |-> Home,
                 source |-> <<1>>, from |-> User, default |-> None]},
   choices |-> [report |-> None, visuals |-> {}],
   hierarchies |-> One("Calendar", [table |-> "Date", from |-> User,
                                    levels |-> {<<c, c>> : c \in {"Year", "MonthNameShort"}}]),
   bookmarks |-> {[from |-> User, page |-> Home, targets |-> {}]}]
=================================================================================
