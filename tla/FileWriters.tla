------------------------------- MODULE FileWriters -------------------------------
(* Requests that read a file of the project, change what they read, and write it
   back, on the threads of the server and without a lock between them.

   pages.yaml and measures.yaml are written by _dump_yaml, through a temporary
   file whose name has the process id, which all threads share; relationships.yaml
   is emptied and written in place; a visual is a file of its own, with the first
   number that is free when the directory is listed.

   A file has one entry per page, measure, relationship or visual.  A text goes
   out in one piece when its file is closed: the files are smaller than the
   buffer of a stream.                                                        *)
EXTENDS Naturals, FiniteSets

CONSTANTS
  Threads,
  Files,       \* those that requests edit
  Names,       \* numbers of entries
  First,       \* the entries of each file at the start
  None,
  MaxRequests  \* bound: requests in a behaviour

Replaced == {"pages", "measures"}       \* written by _dump_yaml
InPlace  == {"relationships"}
Whole    == Replaced \cup InPlace       \* files with all entries in one text

ASSUME FilesAssumption == Files \subseteq Whole \cup {"visuals"}
ASSUME NamesAssumption == Names \subseteq Nat /\ First \in [Files -> SUBSET Names]
ASSUME DefaultPageAssumption == "pages" \in Files => 1 \in Names
ASSUME NoneAssumption == None \notin {"temp", "live"}

VARIABLES
  disk,      \* the content of each file; for the visuals, the directory
  temp,      \* the content of the temporary file next to it, if it is there
  thread,    \* what each thread is at
  wanted,    \* history: what the acknowledged requests have made of each file
  overlap,   \* history: two requests on the file were under way at once
  requests   \* number of requests

writersVars == <<disk, temp, thread, wanted, overlap, requests>>

\* What a text holds.  "mixed": two texts written over each other, which do not
\* parse.
Texts == [state : {"text", "empty", "mixed"}, entries : SUBSET Names]
Text(entries) == [state |-> "text", entries |-> entries]
EmptyText == [state |-> "empty", entries |-> {}]
Mixed     == [state |-> "mixed", entries |-> {}]

Idle == [at |-> "idle", file |-> None, op |-> None, name |-> None, text |-> {}, handle |-> None]
Ops == {"create", "change", "delete"}

Active(f) == {t \in Threads : thread[t].at # "idle" /\ thread[t].file = f}

Do(t, changed) == thread' = [thread EXCEPT ![t] = changed]
At(t, place)   == thread[t].at = place

-----------------------------------------------------------------------------
\* A handler starts.  A delete or a change names its entry; a new page or visual
\* gets its number later, a new measure or relationship names itself.
Begin(t, f, op, name) ==
  /\ At(t, "idle")
  /\ requests < MaxRequests /\ requests' = requests + 1
  /\ overlap' = [overlap EXCEPT ![f] = @ \/ Active(f) # {}]
  /\ Do(t, [Idle EXCEPT !.at = "read", !.file = f, !.op = op, !.name = name])
  /\ UNCHANGED <<disk, temp, wanted>>

\* A load, a check or a validation fails: nothing is written.
Refuse(t) ==
  /\ At(t, "read")
  /\ Do(t, Idle)
  /\ UNCHANGED <<disk, temp, wanted, overlap, requests>>

\* Mutant of EntriesRead: an answer of the load cache from before the requests.
EntriesReadOnce(f) == First[f]

\* The loaders read an empty file as a file without entries, the pages as the
\* one default page.
EntriesRead(f) ==
  IF disk[f].state = "empty" /\ f = "pages" THEN {1} ELSE disk[f].entries

\* The entry a request is about: the first free number for a new page or visual.
\* The last page stays.
Numbered(f) == f \in {"pages", "visuals"}
NamesFor(r, read) ==
  IF r.op = "delete" /\ r.file = "pages" /\ read = {r.name} THEN {}
  ELSE IF r.op # "create" THEN {r.name} \cap read
  ELSE IF Numbered(r.file) THEN {n \in Names \ read : \A m \in Names \ read : n <= m}
  ELSE {r.name} \ read

Changed(r, name, read) ==
  IF r.op = "delete" THEN read \ {name} ELSE read \cup {name}

\* load_project or the reader of the file, and what the handler makes of it.
Read(t) ==
  /\ At(t, "read")
  /\ LET r == thread[t] IN
     /\ disk[r.file].state # "mixed"
     /\ \E name \in NamesFor(r, EntriesRead(r.file)) :
          Do(t, [r EXCEPT !.at = "open", !.name = name,
                          !.text = Changed(r, name, EntriesRead(r.file))])
  /\ UNCHANGED <<disk, temp, wanted, overlap, requests>>

\* Mutant of OpenTemp: the file itself is opened for writing.
OpenTempNot(t) ==
  /\ At(t, "open") /\ thread[t].file \in Replaced
  /\ disk' = [disk EXCEPT ![thread[t].file] = EmptyText]
  /\ Do(t, [thread[t] EXCEPT !.at = "write", !.handle = "live"])
  /\ UNCHANGED <<temp, wanted, overlap, requests>>

\* tmp.write_text opens the temporary file, which empties it if it is there ...
OpenTemp(t) ==
  /\ At(t, "open") /\ thread[t].file \in Replaced
  /\ temp' = [temp EXCEPT ![thread[t].file] = EmptyText]
  /\ Do(t, [thread[t] EXCEPT !.at = "write", !.handle = "temp"])
  /\ UNCHANGED <<disk, wanted, overlap, requests>>

\* ... and path.write_text empties the file itself.
OpenLive(t) ==
  /\ At(t, "open") /\ thread[t].file \in InPlace
  /\ disk' = [disk EXCEPT ![thread[t].file] = EmptyText]
  /\ Do(t, [thread[t] EXCEPT !.at = "write", !.handle = "live"])
  /\ UNCHANGED <<temp, wanted, overlap, requests>>

\* What a text becomes when another is written from its start.
Over(old, new) == IF old.state = "empty" THEN {Text(new)} ELSE {Text(new), Mixed}

WriteTemp(t) ==
  /\ At(t, "write") /\ thread[t].handle = "temp"
  /\ \E text \in Over(temp[thread[t].file], thread[t].text) :
       temp' = [temp EXCEPT ![thread[t].file] = text]
  /\ Do(t, [thread[t] EXCEPT !.at = "replace", !.handle = None])
  /\ UNCHANGED <<disk, wanted, overlap, requests>>

\* The temporary file that was opened has become the file itself.
WriteLive(t) ==
  /\ At(t, "write") /\ thread[t].handle = "live"
  /\ \E text \in Over(disk[thread[t].file], thread[t].text) :
       disk' = [disk EXCEPT ![thread[t].file] = text]
  /\ Do(t, [thread[t] EXCEPT !.at = IF thread[t].file \in Replaced THEN "replace" ELSE "answer",
                             !.handle = None])
  /\ UNCHANGED <<temp, wanted, overlap, requests>>

\* tmp.replace: handles on the temporary file stay on what is now the file.
Replace(t) ==
  /\ At(t, "replace") /\ temp[thread[t].file] # None
  /\ LET f == thread[t].file IN
     /\ disk' = [disk EXCEPT ![f] = temp[f]]
     /\ temp' = [temp EXCEPT ![f] = None]
     /\ thread' = [u \in Threads |->
          IF u = t THEN [thread[t] EXCEPT !.at = "answer"]
          ELSE IF thread[u].file = f /\ thread[u].handle = "temp"
               THEN [thread[u] EXCEPT !.handle = "live"] ELSE thread[u]]
  /\ UNCHANGED <<wanted, overlap, requests>>

\* Another thread has replaced it: FileNotFoundError, and the answer is an error.
ReplaceFails(t) ==
  /\ At(t, "replace") /\ temp[thread[t].file] = None
  /\ Do(t, Idle)
  /\ UNCHANGED <<disk, temp, wanted, overlap, requests>>

\* A visual is written, or deleted, as a file of its own.
WriteVisual(t) ==
  /\ At(t, "open") /\ thread[t].file = "visuals"
  /\ disk' = [disk EXCEPT !["visuals"] =
       Text(Changed(thread[t], thread[t].name, @.entries))]
  /\ Do(t, [thread[t] EXCEPT !.at = "answer"])
  /\ UNCHANGED <<temp, wanted, overlap, requests>>

Answer(t) ==
  /\ At(t, "answer")
  /\ LET r == thread[t] IN
     wanted' = [wanted EXCEPT ![r.file] = Changed(r, r.name, @)]
  /\ Do(t, Idle)
  /\ UNCHANGED <<disk, temp, overlap, requests>>

-----------------------------------------------------------------------------
WritersInit ==
  /\ disk = [f \in Files |-> Text(First[f])]
  /\ temp = [f \in Files |-> None]
  /\ thread = [t \in Threads |-> Idle]
  /\ wanted = First
  /\ overlap = [f \in Files |-> FALSE]
  /\ requests = 0

Step(t) ==
  \/ Refuse(t) \/ Read(t) \/ OpenTemp(t) \/ OpenLive(t) \/ WriteTemp(t) \/ WriteLive(t)
  \/ Replace(t) \/ ReplaceFails(t) \/ WriteVisual(t) \/ Answer(t)

WritersNext ==
  \/ \E t \in Threads, f \in Files, op \in Ops, name \in Names \cup {None} :
       (name = None <=> op = "create" /\ Numbered(f)) /\ Begin(t, f, op, name)
  \/ \E t \in Threads : Step(t)

WritersSpec == WritersInit /\ [][WritersNext]_writersVars

-----------------------------------------------------------------------------
(* Properties.                                                                *)
Places == {"idle", "read", "open", "write", "replace", "answer"}
ThreadStates ==
  [at : Places, file : Files \cup {None}, op : Ops \cup {None}, name : Names \cup {None},
   text : SUBSET Names, handle : {"temp", "live", None}]

\* Every variable has its type; a thread that is not idle has a file.
WritersTypeOK ==
  /\ disk \in [Files -> Texts]
  /\ temp \in [Files -> Texts \cup {None}]
  /\ thread \in [Threads -> ThreadStates]
  /\ \A t \in Threads : ~ At(t, "idle") => thread[t].file \in Files /\ thread[t].op \in Ops
  /\ wanted \in [Files -> SUBSET Names]
  /\ overlap \in [Files -> BOOLEAN]
  /\ requests \in Nat

\* "Atomic write" (_dump_yaml): a reader finds a whole text in a file that is
\* replaced, at any moment of a write, as long as no two requests on that file
\* overlapped, in which case they share the temporary file.
ReplacedFilesWhole ==
  \A f \in Files \cap Replaced : disk[f].state = "text" \/ overlap[f]

\* When nobody is at work on a file, and no two requests on it ever overlapped,
\* it holds what the acknowledged requests made of it, one after the other; the
\* refused ones left no trace.
QuietUpdatesKept ==
  \A f \in Files : overlap[f] \/ Active(f) # {} \/ disk[f] = Text(wanted[f])
================================================================================
