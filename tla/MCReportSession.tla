---------------------------- MODULE MCReportSession ----------------------------
(* ReportSession for TLC: page ids are interchangeable, and the history
   of visuals is read only while the behaviour is quiet.  Once it is not it never
   is again, and no property and no guard reads kept, shown or emptied then:
   states that differ in nothing else are one.                                *)
EXTENDS ReportSession, TLC

Symmetry == Permutations(Pages)

View == IF quiet
          THEN vars
          ELSE <<files, store, fetch, save, edits, dropped, taken, partial, quiet>>
===============================================================================
