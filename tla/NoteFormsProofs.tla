-------------------------- MODULE NoteFormsProofs --------------------------
(***************************************************************************)
(* Theorems about NoteForms, for any titles, contents, names and bounds:   *)
(* the handlers do to the database what NotesStore allows, so that what is *)
(* proved of it holds under them; what the checks foresee, what a reported *)
(* save has done, and that an undisturbed save is the edit and nothing     *)
(* else.                                                                   *)
(***************************************************************************)
EXTENDS NoteForms, TLAPS

\* The notes database with its theorems.
Proved == INSTANCE NotesStoreProofs

USE DEF Rows, Store!Rows

-----------------------------------------------------------------------------
(* The invariant.                                                            *)

\* A note as it is stored: everything it refers to exists.
Stored ==
    [title : Title, content : Content \cup {Empty}, section : Rows(sections),
     tags : SUBSET Rows(tags), refs : SUBSET Rows(notes), bookmark : BOOLEAN]

\* The invariant of NotesStore, and what it says of ids and rows.
TablesInv ==
    /\ Proved!NotesInv
    /\ Rows(notes) \subseteq Store!NoteId
    /\ Rows(tags) \subseteq Store!TagId
    /\ Rows(sections) \subseteq Store!SectionId
    /\ \A n \in Rows(notes) : notes[n] \in Stored

\* While a page is on its way there is none; a form that was sent is that of the page.
TabInv ==
    /\ page \in {Blank} \cup Page
    /\ request \in {Idle} \cup Request
    /\ request.op = "get" => page = Blank /\ request.step \in {"sections", "tags"}
    /\ request.op \in {"save", "tag"} => page # Blank
    /\ request.op = "save" =>
          /\ request.form.id = page.form.id
          /\ request.step # "sections"
          /\ request.step = "id" => request.form.id # NewNote

\* The note of the tab has a row unless somebody has deleted it.
NoteKept == ~lost /\ OpenId # NewNote => OpenId \in Rows(notes)

\* A form has what the note has.
Same(form, note) ==
    /\ form.title = note.title /\ form.content = note.content /\ form.section = note.section
    /\ form.tags = note.tags /\ form.refs = note.refs

\* What is being read, and what the page shows, is the note as it is, unless
\* others write, or the page came back from a rejected save.
PageIsNote ==
    /\ request.op = "get" /\ quiet =>
          /\ request.form.id # NewNote =>
                request.form.id \in Rows(notes) /\ Same(request.form, notes[request.form.id])
          /\ request.step = "tags" => request.sections = Rows(sections)
    /\ page # Blank /\ quiet /\ ~page.again /\ page.form.id # NewNote =>
          page.form.id \in Rows(notes) /\ Same(page.form, notes[page.form.id])

\* The faults that the checks of a form found are there, and it has none of those
\* they have looked for in vain, unless others write meanwhile.
FaultsAreTrue ==
    request.op = "save" /\ still =>
        LET form == request.form IN
        /\ "title" \in request.faults =>
              form.title = Unfit \/ ~Store!TitleFree(form.id, form.title)
        /\ "section" \in request.faults => form.section \notin Rows(sections)
        /\ "tags" \in request.faults => ~(form.tags \subseteq Rows(tags))
        /\ request.step \in {"section", "tags", "write"} /\ "title" \notin request.faults =>
              Store!TitleFree(form.id, form.title)
        /\ request.step \in {"tags", "write"} /\ "section" \notin request.faults =>
              form.section \in Rows(sections)
        /\ request.step = "write" => form.tags \subseteq Rows(tags)

\* Only a form without faults comes to its transaction, and an unfit title is a
\* fault, whatever others write; likewise for tags.
FaultsDecide ==
    /\ request.op = "save" =>
          /\ request.step \in {"id", "title", "write"} => request.faults = {}
          /\ request.step \in {"list tags", "list sections"} => request.faults # {}
          /\ request.step \in {"section", "tags", "write"} /\ "title" \notin request.faults =>
                request.form.title # Unfit
    /\ request.op = "tag" /\ request.step = "write" =>
          /\ request.name # Unfit
          /\ still => \A t \in Rows(tags) : tags[t] # request.name

\* The tags that the page offers, or is going to, are there and have one checkbox
\* each, unless others write.
OneCheckbox ==
    /\ page # Blank /\ quiet => page.tags \subseteq Rows(tags) /\ page.double = {}
    /\ request.op = "save" /\ quiet =>
          /\ "tags" \notin request.form.twice
          /\ request.step = "list sections" => request.tags \subseteq Rows(tags)

FormsInv ==
    /\ TablesInv
    /\ TabInv
    /\ NoteKept
    /\ PageIsNote
    /\ OneCheckbox
    /\ FaultsAreTrue
    /\ FaultsDecide

-----------------------------------------------------------------------------
(* The notes database, as the handlers use it and as it is proved about, is  *)
(* the same.                                                                 *)

LEMMA SameConstants ==
    /\ Store!NoteId = Proved!NoteId /\ Store!TagId = Proved!TagId
    /\ Store!SectionId = Proved!SectionId /\ Store!Column = Proved!Column
  BY DEF Store!NoteId, Proved!NoteId, Store!TagId, Proved!TagId, Store!SectionId,
         Proved!SectionId, Store!Column, Proved!Column

LEMMA SameNextId == ASSUME NEW table PROVE Store!NextId(table) = Proved!NextId(table)
  BY DEF Store!NextId, Proved!NextId, Store!Max, Proved!Max, Store!Rows, Proved!Rows

LEMMA SameView == Store!View = Proved!View /\ Store!View' = Proved!View'
  BY DEF Store!View, Proved!View, Store!NoteId, Proved!NoteId, Store!Rows, Proved!Rows,
         Store!Document, Proved!Document

LEMMA SameWords ==
    ASSUME NEW docs, NEW some, NEW col
    PROVE  Store!Words(docs, some, col) = Proved!Words(docs, some, col)
  BY DEF Store!Words, Proved!Words, Store!Cardinality, Proved!Cardinality

LEMMA SameReindex ==
    ASSUME NEW before, NEW after
    PROVE  Store!Reindex(before, after) <=> Proved!Reindex(before, after)
  <1>1. Store!Trusts(before) <=> Proved!Trusts(before)
    BY SameWords, SameView, SameConstants DEF Store!Trusts, Proved!Trusts
  <1> QED BY <1>1, SameWords, SameView, SameConstants DEF Store!Reindex, Proved!Reindex

LEMMA SameRows ==
    ASSUME NEW table, NEW id, NEW row
    PROVE  /\ Store!Inserted(table, id, row) = Proved!Inserted(table, id, row)
           /\ Store!Removed(table, id) = Proved!Removed(table, id)
           /\ Store!Free(table, id, row) <=> Proved!Free(table, id, row)
           /\ Store!Tagged(table, id) = Proved!Tagged(table, id)
           /\ Store!Row(row, id) = Proved!Row(row, id)
           /\ Store!Accepted(id, row) <=> Proved!Accepted(id, row)
  BY DEF Store!Inserted, Proved!Inserted, Store!Removed, Proved!Removed, Store!Free, Proved!Free,
         Store!Tagged, Proved!Tagged, Store!Row, Proved!Row, Store!Accepted, Proved!Accepted,
         Store!TitleFree, Proved!TitleFree, Store!Rows, Proved!Rows

LEMMA SameForm == Store!Form = Proved!Form
  BY DEF Store!Form, Proved!Form, Store!Rows, Proved!Rows, Store!NoteId, Proved!NoteId

LEMMA SameNotes ==
    /\ Store!CreateNote => Proved!CreateNote
    /\ \A n : Store!UpdateNote(n) => Proved!UpdateNote(n)
    /\ \A n : Store!DeleteNote(n) => Proved!DeleteNote(n)
    /\ \A n : Store!SetNoteBookmark(n) => Proved!SetNoteBookmark(n)
  <1>1. ASSUME Store!CreateNote PROVE Proved!CreateNote
    <2> DEFINE id == Proved!NextId(notes)
    <2>1. Store!NextId(notes) = id
      BY SameNextId
    <2>2. PICK form \in Proved!Form : /\ Store!Accepted(id, form)
                                      /\ notes' = Store!Inserted(notes, id, Store!Row(form, FALSE))
      BY <1>1, <2>1, SameForm DEF Store!CreateNote
    <2>3. Proved!Accepted(id, form)
      BY <2>2, SameRows
    <2>4. notes' = Proved!Inserted(notes, id, Proved!Row(form, FALSE))
      BY <2>2 DEF Store!Inserted, Proved!Inserted, Store!Row, Proved!Row, Proved!Rows
    <2>5. id <= MaxNote /\ UNCHANGED <<tags, sections>> /\ Proved!Reindex({}, {id})
      BY <1>1, <2>1, SameReindex DEF Store!CreateNote
    <2> QED BY <2>3, <2>4, <2>5 DEF Proved!CreateNote
  <1>2. ASSUME NEW n, Store!UpdateNote(n) PROVE Proved!UpdateNote(n)
    BY <1>2, SameForm, SameReindex, SameRows
       DEF Store!UpdateNote, Proved!UpdateNote, Store!Rows, Proved!Rows
  <1>3. ASSUME NEW n, Store!DeleteNote(n) PROVE Proved!DeleteNote(n)
    BY <1>3, SameReindex DEF Store!DeleteNote, Proved!DeleteNote, Store!Rows, Proved!Rows
  <1>4. ASSUME NEW n, Store!SetNoteBookmark(n) PROVE Proved!SetNoteBookmark(n)
    BY <1>4 DEF Store!SetNoteBookmark, Proved!SetNoteBookmark, Store!Rows, Proved!Rows
  <1> QED BY <1>1, <1>2, <1>3, <1>4

LEMMA SameTags ==
    /\ Store!CreateTag => Proved!CreateTag
    /\ \A t : Store!UpdateTag(t) => Proved!UpdateTag(t)
    /\ \A t : Store!DeleteTag(t) => Proved!DeleteTag(t)
  <1>1. Store!CreateTag => Proved!CreateTag
    BY SameRows, SameNextId DEF Store!CreateTag, Proved!CreateTag
  <1>2. ASSUME NEW t, Store!UpdateTag(t) PROVE Proved!UpdateTag(t)
    BY <1>2, SameReindex, SameRows
       DEF Store!UpdateTag, Proved!UpdateTag, Store!Rows, Proved!Rows
  <1>3. ASSUME NEW t, Store!DeleteTag(t) PROVE Proved!DeleteTag(t)
    BY <1>3, SameReindex, SameRows
       DEF Store!DeleteTag, Proved!DeleteTag, Store!Rows, Proved!Rows
  <1> QED BY <1>1, <1>2, <1>3

LEMMA SameSections ==
    /\ Store!CreateSection => Proved!CreateSection
    /\ \A s : Store!UpdateSection(s) => Proved!UpdateSection(s)
    /\ \A s : Store!DeleteSection(s) => Proved!DeleteSection(s)
  <1>1. Store!CreateSection => Proved!CreateSection
    BY SameRows, SameNextId DEF Store!CreateSection, Proved!CreateSection
  <1>2. ASSUME NEW s, Store!UpdateSection(s) PROVE Proved!UpdateSection(s)
    BY <1>2, SameRows DEF Store!UpdateSection, Proved!UpdateSection, Store!Rows, Proved!Rows
  <1>3. ASSUME NEW s, Store!DeleteSection(s) PROVE Proved!DeleteSection(s)
    BY <1>3, SameRows DEF Store!DeleteSection, Proved!DeleteSection, Store!Rows, Proved!Rows
  <1> QED BY <1>1, <1>2, <1>3

LEMMA SameStep == [Store!Next]_store => [Proved!Next]_Proved!vars
  BY SameNotes, SameTags, SameSections, SameConstants
     DEF Store!Next, Proved!Next, store, Proved!vars

LEMMA SameInit == Store!Init => Proved!Init
  BY SameConstants DEF Store!Init, Proved!Init

-----------------------------------------------------------------------------
(* Tables.                                                                   *)

\* What the proofs about NotesStore assume of the constants.
LEMMA ProvedAssumptions == Proved!BoundAssumption /\ Proved!InboxAssumption
  BY BoundAssumption, InboxAssumption DEF Proved!BoundAssumption, Proved!InboxAssumption

\* The id that a table gives next is positive and new.
LEMMA NextIdIsNew ==
    ASSUME NEW table, NEW k \in Nat, DOMAIN table \subseteq 1..k
    PROVE  Store!NextId(table) \in Nat \ {0} /\ Store!NextId(table) \notin DOMAIN table
  BY ProvedAssumptions, SameNextId, Proved!NextIdIsNew DEF Proved!Rows

\* What the invariant of NotesStore says of ids and rows.
LEMMA TablesOfNotes == Proved!NotesInv => TablesInv
  <1> SUFFICES ASSUME Proved!NotesInv PROVE TablesInv
    OBVIOUS
  <1>1. /\ Rows(notes) \subseteq Proved!NoteId /\ Rows(tags) \subseteq Proved!TagId
        /\ Rows(sections) \subseteq Proved!SectionId
    BY DEF Proved!NotesInv, Proved!TablesOK, Proved!Rows
  <1>2. ASSUME NEW n \in Rows(notes) PROVE notes[n] \in Stored
    <2>1. /\ notes[n] \in Proved!Note /\ notes[n].section \in Rows(sections)
          /\ notes[n].tags \subseteq Rows(tags) /\ notes[n].refs \subseteq Rows(notes)
      BY DEF Proved!NotesInv, Proved!TablesOK, Proved!ReferencesResolve, Proved!Rows
    <2> QED BY <2>1 DEF Stored, Proved!Note
  <1> QED BY <1>1, <1>2, SameConstants DEF TablesInv

LEMMA StoreKeepsTables == ASSUME TablesInv, [Store!Next]_store PROVE TablesInv'
  <1>1. Proved!NotesInv'
    BY ProvedAssumptions, SameStep, Proved!NextKeeps DEF TablesInv
  <1>2. (Proved!NotesInv => TablesInv)'
    BY TablesOfNotes, PTL
  <1> QED BY <1>1, <1>2

LEMMA OthersStep == OthersWrite => Store!Next
  BY DEF OthersWrite, OthersForm, NoteDelete, NoteBookmarkPutDelete, TagDelete, SectionPost,
         SectionPut, SectionDelete, Store!Next

-----------------------------------------------------------------------------
(* Forms, pages and requests.                                                *)

LEMMA FormFields ==
    ASSUME NEW form \in Form
    PROVE  /\ form.id \in {NewNote} \cup Store!NoteId /\ form.section \in {NoSection} \cup Store!SectionId
           /\ form.tags \subseteq Store!TagId /\ form.refs \subseteq Store!NoteId
           /\ form.title \in Title \cup {Unfit} /\ form.content \in Content \cup {Empty}
           /\ form.twice \subseteq {"tags", "refs"}
  BY DEF Form

LEMMA PageFields ==
    ASSUME NEW p \in Page
    PROVE  /\ p # Blank /\ p.kind = "note" /\ p.form \in Form /\ p.tags \subseteq Store!TagId
           /\ p.double \subseteq Store!TagId /\ p.sections \subseteq Store!SectionId
  BY DEF Page, Blank

Steps == {"id", "title", "section", "sections", "tags", "write", "list tags", "list sections"}
Faults == {"title", "section", "tags"}

LEMMA RequestFields ==
    ASSUME NEW r \in Request
    PROVE  /\ r # Idle /\ r.op \in {"get", "save", "tag"}
           /\ r.op \in {"get", "save"} =>
                 /\ r.form \in Form /\ r.step \in Steps /\ r.faults \subseteq Faults
                 /\ r.tags \subseteq Store!TagId /\ r.sections \subseteq Store!SectionId
           /\ r.op = "tag" => r.step \in {"check", "write"} /\ r.name \in TagName \cup {Unfit}
  <1>1. r # Idle
    BY DEF Request, Idle
  <1>2. CASE r \in [op : {"tag"}, step : {"check", "write"}, name : TagName \cup {Unfit}]
    BY <1>1, <1>2
  <1>3. CASE r \in [op : {"get", "save"}, form : Form, faults : SUBSET Faults, step : Steps,
                    tags : SUBSET Store!TagId, sections : SUBSET Store!SectionId]
    BY <1>1, <1>3
  <1> QED BY <1>2, <1>3 DEF Request, Steps, Faults

LEMMA IdleIsNoRequest == Idle.op = "none"
  BY DEF Idle

\* A request for a page or with a form, from its fields.
LEMMA MakeRequest ==
    ASSUME NEW op \in {"get", "save"}, NEW step \in Steps, NEW form \in Form,
           NEW faults \in SUBSET Faults, NEW t \in SUBSET Store!TagId,
           NEW s \in SUBSET Store!SectionId
    PROVE  [op |-> op, step |-> step, form |-> form, faults |-> faults, tags |-> t,
            sections |-> s] \in Request
  BY DEF Request, Steps, Faults

\* Requests for a page or with a form.
Served ==
    [op : {"get", "save"}, form : Form, faults : SUBSET Faults, step : Steps,
     tags : SUBSET Store!TagId, sections : SUBSET Store!SectionId]

LEMMA ServedIsRequest ==
    /\ \A r \in Request : r.op \in {"get", "save"} => r \in Served
    /\ \A r \in Served : r \in Request
  BY DEF Request, Served, Steps, Faults

\* What the template shows of a form.
ShownFirst(form, refs, t, s) == Shown(form, refs, t, s, FALSE)
ShownAgain(form, refs, t, s) == Shown(form, refs, t, s, TRUE)

\* A page that shows a form.
Shows(p, form, refs, t, s) ==
    /\ p \in Page /\ p.form.id = form.id
    /\ p.form.title = form.title /\ p.form.content = form.content
    /\ p.form.section = IF form.section \in s THEN form.section ELSE NoSection
    /\ p.form.tags = form.tags \cap t /\ p.form.refs = refs
    /\ p.tags = t /\ p.double = {}

LEMMA ShownIsPage ==
    ASSUME NEW form \in Form, NEW refs \in SUBSET Store!NoteId, NEW t \in SUBSET Store!TagId,
           NEW s \in SUBSET Store!SectionId
    PROVE  /\ Shows(ShownFirst(form, refs, t, s), form, refs, t, s)
           /\ Shows(ShownAgain(form, refs, t, s), form, refs, t, s)
           /\ ShownAgain(form, refs, t, s).again
  <1> DEFINE section == IF form.section \in s THEN form.section ELSE NoSection
             new == [form EXCEPT !.section = section, !.tags = form.tags \cap t, !.refs = refs,
                                 !.twice = {}]
  <1>1. section \in {NoSection} \cup Store!SectionId /\ form.tags \cap t \in SUBSET Store!TagId
    BY FormFields
  <1>2. /\ new \in Form /\ new.id = form.id /\ new.title = form.title
        /\ new.content = form.content /\ new.section = section /\ new.tags = form.tags \cap t
        /\ new.refs = refs
    <2> HIDE DEF section
    <2> QED BY <1>1 DEF Form
  <1>3. /\ ShownFirst(form, refs, t, s)
              = [kind |-> "note", form |-> new, tags |-> t, double |-> {}, sections |-> s,
                 again |-> FALSE]
        /\ ShownAgain(form, refs, t, s)
              = [kind |-> "note", form |-> new, tags |-> t, double |-> {}, sections |-> s,
                 again |-> TRUE]
    BY DEF Shown, ShownFirst, ShownAgain
  <1> HIDE DEF new
  <1>4. /\ ShownFirst(form, refs, t, s) \in Page /\ ShownFirst(form, refs, t, s).form = new
        /\ ShownFirst(form, refs, t, s).tags = t /\ ShownFirst(form, refs, t, s).double = {}
    BY <1>2, <1>3 DEF Page
  <1>5. /\ ShownAgain(form, refs, t, s) \in Page /\ ShownAgain(form, refs, t, s).form = new
        /\ ShownAgain(form, refs, t, s).tags = t /\ ShownAgain(form, refs, t, s).double = {}
    BY <1>2, <1>3 DEF Page
  <1>6. ShownAgain(form, refs, t, s).again
    BY <1>3
  <1> QED BY <1>2, <1>4, <1>5, <1>6 DEF Shows

LEMMA StoredIsForm ==
    ASSUME TablesInv, NEW n \in DOMAIN notes
    PROVE  /\ FindNoteByID(n) \in Form /\ FindNoteByID(n).id = n
           /\ Same(FindNoteByID(n), notes[n])
  <1>1. notes[n] \in Stored
    BY DEF TablesInv
  <1>2. /\ notes[n].title \in Title /\ notes[n].content \in Content \cup {Empty}
        /\ notes[n].section \in Store!SectionId /\ notes[n].tags \subseteq Store!TagId
        /\ notes[n].refs \subseteq Store!NoteId /\ n \in Store!NoteId
    BY <1>1 DEF Stored, TablesInv
  <1> QED BY <1>2 DEF Form, FindNoteByID, Same

-----------------------------------------------------------------------------
(* The steps of the tab.                                                     *)

LEMMA TablesUnchanged == ASSUME TablesInv, UNCHANGED store PROVE TablesInv'
  BY StoreKeepsTables

\* After an answer nothing is under way; without a page there is nothing to keep.
LEMMA AnswerBlankStep == ASSUME TablesInv', NEW status, Answer(status, Blank) PROVE FormsInv'
  <1>1. page' = Blank /\ request' = Idle /\ request'.op = "none"
    BY IdleIsNoRequest DEF Answer
  <1>2. TabInv'
    BY <1>1 DEF TabInv
  <1>3. NoteKept' /\ PageIsNote' /\ OneCheckbox' /\ FaultsAreTrue' /\ FaultsDecide'
    BY <1>1 DEF NoteKept, OpenId, PageIsNote, OneCheckbox, FaultsAreTrue, FaultsDecide
  <1> QED BY <1>2, <1>3 DEF FormsInv

LEMMA AnswerPageStep ==
    ASSUME TablesInv', NEW status, NEW p \in Page, Answer(status, p),
           ~lost /\ p.form.id # NewNote => p.form.id \in DOMAIN notes',
           quiet /\ ~p.again /\ p.form.id # NewNote =>
               p.form.id \in DOMAIN notes' /\ Same(p.form, notes'[p.form.id]),
           quiet => p.tags \subseteq DOMAIN tags' /\ p.double = {}
    PROVE  FormsInv'
  <1>1. page' = p /\ request' = Idle /\ request'.op = "none" /\ p # Blank
    BY IdleIsNoRequest, PageFields DEF Answer
  <1>2. (quiet' => quiet) /\ (lost => lost')
    BY <1>1 DEF Answer
  <1>3. TabInv'
    BY <1>1 DEF TabInv
  <1>4. NoteKept'
    BY <1>1, <1>2 DEF NoteKept, OpenId
  <1>5. PageIsNote'
    BY <1>1, <1>2 DEF PageIsNote, Same
  <1>6. OneCheckbox' /\ FaultsAreTrue' /\ FaultsDecide'
    BY <1>1, <1>2 DEF OneCheckbox, FaultsAreTrue, FaultsDecide
  <1> QED BY <1>3, <1>4, <1>5, <1>6 DEF FormsInv

\* A handler that has begun to read a page.
LEMMA BeginPageStep ==
    ASSUME TablesInv, UNCHANGED store, NEW form \in Form, Begin("get", "sections", form),
           page' = Blank,
           form.id # NewNote => form.id \in DOMAIN notes /\ Same(form, notes[form.id])
    PROVE  FormsInv'
  <1>1. /\ request' \in Request /\ request'.op = "get" /\ request'.step = "sections"
        /\ request'.form = form /\ request' # Idle
    BY MakeRequest, RequestFields DEF Begin, Steps
  <1>2. TablesInv'
    BY TablesUnchanged DEF store
  <1>3. TabInv'
    BY <1>1 DEF TabInv
  <1>4. NoteKept' /\ PageIsNote'
    BY <1>1 DEF NoteKept, OpenId, PageIsNote, Same, store
  <1>5. OneCheckbox' /\ FaultsAreTrue' /\ FaultsDecide'
    BY <1>1 DEF OneCheckbox, FaultsAreTrue, FaultsDecide
  <1> QED BY <1>2, <1>3, <1>4, <1>5 DEF FormsInv

LEMMA NoteNewGetStep == ASSUME FormsInv, NoteNewGet PROVE FormsInv'
  <1> DEFINE form == [id |-> NewNote, title |-> Unfit, content |-> Empty, section |-> 1,
                      tags |-> {}, refs |-> {}, twice |-> {}]
  <1>1. form \in Form /\ form.id = NewNote
    BY BoundAssumption DEF Form, Store!SectionId
  <1>2. Begin("get", "sections", form) /\ page' = Blank /\ UNCHANGED store
    BY DEF NoteNewGet
  <1> HIDE DEF form
  <1> QED BY <1>1, <1>2, BeginPageStep DEF FormsInv

LEMMA NoteEditGetStep == ASSUME FormsInv, NEW n, NoteEditGet(n) PROVE FormsInv'
  <1>1. CASE n \in DOMAIN notes
    BY <1>1, StoredIsForm, BeginPageStep DEF FormsInv, NoteEditGet
  <1>2. CASE n \notin DOMAIN notes
    BY <1>2, TablesUnchanged, AnswerBlankStep DEF FormsInv, NoteEditGet, store
  <1> QED BY <1>1, <1>2

LEMMA ListSectionsForPageStep == ASSUME FormsInv, ListSectionsForPage PROVE FormsInv'
  <1>1. /\ request \in Request /\ request.op = "get" /\ page = Blank
        /\ request' = [request EXCEPT !.step = "tags", !.sections = DOMAIN sections]
        /\ UNCHANGED <<store, page, answer, history>>
    BY IdleIsNoRequest DEF FormsInv, TabInv, ListSectionsForPage, At
  <1>2. DOMAIN sections \in SUBSET Store!SectionId
    BY DEF FormsInv, TablesInv
  <1>3. /\ request' \in Request /\ request'.op = "get" /\ request'.step = "tags"
        /\ request'.form = request.form /\ request'.sections = DOMAIN sections
    <2>1. request \in Served
      BY <1>1, ServedIsRequest
    <2>2. request' \in Served
      BY <1>1, <1>2, <2>1 DEF Served, Steps
    <2> QED BY <1>1, <2>1, <2>2, ServedIsRequest DEF Served
  <1>4. TablesInv' /\ TabInv'
    BY <1>1, <1>3, TablesUnchanged DEF FormsInv, TabInv, store
  <1>5. NoteKept'
    BY <1>1, <1>3, RequestFields DEF FormsInv, NoteKept, OpenId, store, history
  <1>6. PageIsNote'
    BY <1>1, <1>3 DEF FormsInv, PageIsNote, Same, store, history
  <1>7. OneCheckbox' /\ FaultsAreTrue' /\ FaultsDecide'
    BY <1>1, <1>3 DEF OneCheckbox, FaultsAreTrue, FaultsDecide
  <1> QED BY <1>4, <1>5, <1>6, <1>7 DEF FormsInv

LEMMA ListTagsAndRenderStep == ASSUME FormsInv, ListTagsAndRender PROVE FormsInv'
  <1> DEFINE form == request.form
  <1>0. PICK p : p = Shown(form, form.refs, DOMAIN tags, request.sections, FALSE)
    OBVIOUS
  <1>1. /\ request \in Request /\ request.op = "get" /\ request.step = "tags" /\ page = Blank
        /\ Answer("page", p) /\ UNCHANGED store
    BY <1>0, IdleIsNoRequest DEF FormsInv, TabInv, ListTagsAndRender, At
  <1>2. /\ form \in Form /\ form.refs \in SUBSET Store!NoteId
        /\ request.sections \in SUBSET Store!SectionId /\ DOMAIN tags \in SUBSET Store!TagId
        /\ request # Idle
    BY <1>1, RequestFields, FormFields DEF FormsInv, TablesInv
  <1>3. /\ p \in Page /\ p.form.id = form.id /\ p.form.title = form.title
        /\ p.form.content = form.content /\ p.form.refs = form.refs
        /\ p.form.section = IF form.section \in request.sections THEN form.section ELSE NoSection
        /\ p.form.tags = form.tags \cap DOMAIN tags
        /\ p.tags = DOMAIN tags /\ p.double = {}
    <2>1. p = ShownFirst(form, form.refs, DOMAIN tags, request.sections)
      BY <1>0 DEF ShownFirst
    <2>2. Shows(p, form, form.refs, DOMAIN tags, request.sections)
      BY <1>2, <2>1, ShownIsPage
    <2> QED BY <2>2 DEF Shows
  <1>4. TablesInv'
    BY <1>1, TablesUnchanged DEF FormsInv, store
  <1>5. ~lost /\ form.id # NewNote => form.id \in DOMAIN notes'
    BY <1>1, <1>2 DEF FormsInv, NoteKept, OpenId, store
  <1>6. ASSUME quiet, form.id # NewNote PROVE form.id \in DOMAIN notes /\ Same(p.form, notes[form.id])
    <2>1. /\ form.id \in DOMAIN notes /\ Same(form, notes[form.id])
          /\ request.sections = DOMAIN sections
      BY <1>1, <1>6 DEF FormsInv, PageIsNote
    <2>2. form.section \in DOMAIN sections /\ form.tags \subseteq DOMAIN tags
      BY <2>1 DEF FormsInv, TablesInv, Stored, Same
    <2> QED BY <1>3, <2>1, <2>2 DEF Same
  <1> HIDE DEF form
  <1>7. quiet /\ p.form.id # NewNote =>
            p.form.id \in DOMAIN notes' /\ Same(p.form, notes'[p.form.id])
    BY <1>1, <1>3, <1>6 DEF store
  <1>8. quiet => p.tags \subseteq DOMAIN tags' /\ p.double = {}
    BY <1>1, <1>3 DEF store
  <1> QED BY <1>1, <1>3, <1>4, <1>5, <1>7, <1>8, AnswerPageStep

LEMMA SubmitStep == ASSUME FormsInv, Submit PROVE FormsInv'
  <1>1. page \in Page /\ page # Blank /\ UNCHANGED <<store, page, quiet, lost>>
    BY PageFields DEF FormsInv, TabInv, Submit, Blank
  <1>2. PICK title \in Title \cup {Unfit}, content \in Content \cup {Empty},
             section \in page.sections \cup {NoSection}, some \in SUBSET page.tags,
             refs \in SUBSET (page.form.refs \cup Rows(notes)),
             twice \in SUBSET {"tags", "refs"} :
             /\ "tags" \in twice => some \cap page.double # {}
             /\ "refs" \in twice => refs \cap Rows(notes) # {}
             /\ Begin("save", IF page.form.id = NewNote THEN "title" ELSE "id",
                      [id |-> page.form.id, title |-> title, content |-> content,
                       section |-> section, tags |-> some, refs |-> refs, twice |-> twice])
    BY Zenon DEF Submit
  <1> DEFINE form == [id |-> page.form.id, title |-> title, content |-> content,
                      section |-> section, tags |-> some, refs |-> refs, twice |-> twice]
             step == IF page.form.id = NewNote THEN "title" ELSE "id"
  <1>3. /\ form \in Form /\ form.id = page.form.id
        /\ "tags" \in form.twice => page.double # {}
    <2>1. /\ page.form.id \in {NewNote} \cup Store!NoteId /\ page.form.refs \subseteq Store!NoteId
          /\ page.sections \subseteq Store!SectionId /\ page.tags \subseteq Store!TagId
          /\ DOMAIN notes \subseteq Store!NoteId
      BY <1>1, PageFields, FormFields DEF FormsInv, TablesInv
    <2>2. form \in Form
      BY <2>1 DEF Form
    <2> QED BY <1>2, <2>2
  <1>4. step \in Steps /\ step \in {"id", "title"} /\ (step = "id" => page.form.id # NewNote)
    BY DEF Steps
  <1>5. /\ request' = [op |-> "save", step |-> step, form |-> form, faults |-> {}, tags |-> {},
                       sections |-> {}]
    BY <1>2 DEF Begin
  <1> HIDE DEF form, step
  <1>6. /\ request' \in Request /\ request'.op = "save" /\ request'.step = step
        /\ request'.form = form /\ request'.faults = {}
    BY <1>3, <1>4, <1>5, MakeRequest
  <1>7. TablesInv'
    BY <1>1, TablesUnchanged DEF FormsInv, store
  <1>8. TabInv'
    BY <1>1, <1>3, <1>4, <1>6 DEF TabInv
  <1>9. NoteKept' /\ PageIsNote' /\ OneCheckbox'
    <2>1. NoteKept' /\ PageIsNote'
      BY <1>1, <1>6 DEF FormsInv, NoteKept, PageIsNote, OpenId, Same, store
    <2>2. OneCheckbox'
      BY <1>1, <1>3, <1>4, <1>6 DEF FormsInv, OneCheckbox, store
    <2> QED BY <2>1, <2>2
  <1>10. FaultsAreTrue' /\ FaultsDecide'
    BY <1>4, <1>6 DEF FaultsAreTrue, FaultsDecide
  <1> QED BY <1>7, <1>8, <1>9, <1>10 DEF FormsInv

\* What a step within a save has to show.
LEMMA SaveGoesOn ==
    ASSUME FormsInv, request \in Served, request.op = "save",
           request' \in Served, request'.op = "save", request'.form = request.form,
           request'.step \notin {"id", "sections"}, UNCHANGED <<store, page, answer, history>>,
           request'.step = "list sections" => request'.tags \subseteq DOMAIN tags,
           FaultsAreTrue', FaultsDecide'
    PROVE  FormsInv'
  <1>1. TablesInv'
    BY TablesUnchanged DEF FormsInv, store
  <1>2. page # Blank /\ request' \in Request
    BY ServedIsRequest DEF FormsInv, TabInv
  <1>3. TabInv'
    BY <1>2 DEF FormsInv, TabInv
  <1>4. NoteKept' /\ PageIsNote'
    BY <1>2 DEF FormsInv, NoteKept, PageIsNote, OpenId, Same, store, history
  <1>5. OneCheckbox'
    BY DEF FormsInv, OneCheckbox, store, history
  <1> QED BY <1>1, <1>3, <1>4, <1>5 DEF FormsInv

LEMMA SaveIsServed == ASSUME FormsInv, request.op = "save" PROVE request \in Served
  BY IdleIsNoRequest, ServedIsRequest DEF FormsInv, TabInv

LEMMA CheckIdStep == ASSUME FormsInv, CheckId PROVE FormsInv'
  <1>1. request \in Served /\ request.op = "save" /\ request.step = "id" /\ UNCHANGED store
    BY SaveIsServed DEF CheckId, At
  <1>2. CASE request.form.id \in DOMAIN notes
    <2>1. /\ request' = [request EXCEPT !.step = "title"]
          /\ UNCHANGED <<store, page, answer, history>>
      BY <1>2 DEF CheckId
    <2>2. request' \in Served
      BY <1>1, <2>1 DEF Served, Steps
    <2>3. /\ request'.op = "save" /\ request'.form = request.form /\ request'.step = "title"
          /\ request'.faults = request.faults
      BY <1>1, <2>1 DEF Served
    <2>4. FaultsDecide' /\ FaultsAreTrue'
      BY <1>1, <2>3 DEF FormsInv, FaultsDecide, FaultsAreTrue
    <2> QED BY <1>1, <2>1, <2>2, <2>3, <2>4, SaveGoesOn
  <1>3. CASE request.form.id \notin DOMAIN notes
    BY <1>1, <1>3, TablesUnchanged, AnswerBlankStep DEF FormsInv, CheckId, store
  <1> QED BY <1>2, <1>3

LEMMA CheckTitleStep == ASSUME FormsInv, CheckTitle PROVE FormsInv'
  <1> DEFINE form == request.form
             wrong == form.title = Unfit \/ NoteExists(form.title) \ {form.id} # {}
             faults == IF wrong THEN request.faults \cup {"title"} ELSE request.faults
  <1>1. /\ request \in Served /\ request.op = "save" /\ request.step = "title"
        /\ request' = [request EXCEPT !.step = "section", !.faults = faults]
        /\ UNCHANGED <<store, page, answer, history>>
    BY SaveIsServed DEF CheckTitle, At
  <1>2. faults \in SUBSET Faults
    BY <1>1 DEF Served, Faults
  <1>3. /\ request.faults = {} /\ ("title" \in faults <=> wrong)
        /\ faults \subseteq {"title"}
    BY <1>1 DEF FormsInv, FaultsDecide
  <1>4. NoteExists(form.title) \ {form.id} # {} <=> ~Store!TitleFree(form.id, form.title)
    BY DEF NoteExists, Store!TitleFree
  <1>5. wrong <=> form.title = Unfit \/ ~Store!TitleFree(form.id, form.title)
    BY <1>4
  <1> HIDE DEF faults, wrong
  <1>6. request' \in Served
    BY <1>1, <1>2 DEF Served, Steps
  <1>7. /\ request'.op = "save" /\ request'.form = request.form /\ request'.step = "section"
        /\ request'.faults = faults
    BY <1>1 DEF Served
  <1>8. Store!TitleFree(form.id, form.title)' <=> Store!TitleFree(form.id, form.title)
    BY <1>1, <1>7 DEF Store!TitleFree, store
  <1>9. FaultsAreTrue' /\ FaultsDecide'
    BY <1>1, <1>3, <1>5, <1>7, <1>8 DEF FaultsAreTrue, FaultsDecide
  <1> QED BY <1>1, <1>6, <1>7, <1>9, SaveGoesOn

LEMMA CheckSectionStep == ASSUME FormsInv, CheckSection PROVE FormsInv'
  <1> DEFINE form == request.form
             faults == request.faults \cup
                          (IF form.section \in DOMAIN sections THEN {} ELSE {"section"})
             step == IF form.tags # {} THEN "tags" ELSE AfterChecks(faults)
  <1>1. /\ request \in Served /\ request.op = "save" /\ request.step = "section"
        /\ request' = [request EXCEPT !.faults = faults, !.step = step]
        /\ UNCHANGED <<store, page, answer, history>>
    BY SaveIsServed DEF CheckSection, At
  <1>2. /\ faults \in SUBSET Faults /\ request.faults \subseteq faults
        /\ faults \subseteq request.faults \cup {"section"}
        /\ "section" \notin faults => form.section \in DOMAIN sections
        /\ "section" \in faults => "section" \in request.faults \/ form.section \notin DOMAIN sections
    BY <1>1 DEF Served, Faults
  <1>3. /\ step \in {"tags", "write", "list tags"} /\ step \in Steps
        /\ step = "write" => form.tags = {} /\ faults = {}
        /\ step = "list tags" => faults # {}
    BY DEF AfterChecks, Steps
  <1> HIDE DEF faults, step
  <1>4. request' \in Served
    BY <1>1, <1>2, <1>3 DEF Served
  <1>5. /\ request'.op = "save" /\ request'.form = request.form /\ request'.step = step
        /\ request'.faults = faults
    BY <1>1 DEF Served
  <1>6. Store!TitleFree(form.id, form.title)' <=> Store!TitleFree(form.id, form.title)
    BY <1>1, <1>5 DEF Store!TitleFree, store
  <1>7. FaultsAreTrue'
    <2> SUFFICES ASSUME still' PROVE FaultsAreTrue'
      BY DEF FaultsAreTrue
    <2>1. /\ "title" \in request.faults =>
                form.title = Unfit \/ ~Store!TitleFree(form.id, form.title)
          /\ "section" \in request.faults => form.section \notin DOMAIN sections
          /\ "tags" \in request.faults => ~(form.tags \subseteq DOMAIN tags)
          /\ "title" \notin request.faults => Store!TitleFree(form.id, form.title)
      BY <1>1 DEF FormsInv, FaultsAreTrue, history
    <2>2. /\ "title" \in faults =>
                form.title = Unfit \/ ~Store!TitleFree(form.id, form.title)
          /\ "section" \in faults => form.section \notin DOMAIN sections
          /\ "tags" \in faults => ~(form.tags \subseteq DOMAIN tags)
          /\ "title" \notin faults => Store!TitleFree(form.id, form.title)
          /\ "section" \notin faults => form.section \in DOMAIN sections
          /\ step = "write" => form.tags \subseteq DOMAIN tags
      BY <1>2, <1>3, <2>1
    <2>3. UNCHANGED <<notes, tags, sections>>
      BY <1>1 DEF store
    <2> QED BY <1>5, <1>6, <2>2, <2>3 DEF FaultsAreTrue
  <1>8. FaultsDecide'
    <2>1. "title" \notin faults => form.title # Unfit
      BY <1>1, <1>2 DEF FormsInv, FaultsDecide
    <2> QED BY <1>3, <1>5, <2>1 DEF FaultsDecide
  <1> QED BY <1>1, <1>3, <1>4, <1>5, <1>7, <1>8, SaveGoesOn

LEMMA CheckTagsStep == ASSUME FormsInv, CheckTags PROVE FormsInv'
  <1> DEFINE form == request.form
             faults == request.faults \cup
                          (IF QueryTags(form.tags) = form.tags THEN {} ELSE {"tags"})
  <1>1. /\ request \in Served /\ request.op = "save" /\ request.step = "tags"
        /\ request' = [request EXCEPT !.faults = faults, !.step = AfterChecks(faults)]
        /\ UNCHANGED <<store, page, answer, history>>
    BY SaveIsServed DEF CheckTags, At
  <1>2. QueryTags(form.tags) = form.tags <=> form.tags \subseteq DOMAIN tags
    BY DEF QueryTags
  <1>3. /\ faults \in SUBSET Faults /\ request.faults \subseteq faults
        /\ faults \subseteq request.faults \cup {"tags"}
        /\ "tags" \notin faults => form.tags \subseteq DOMAIN tags
        /\ "tags" \in faults => "tags" \in request.faults \/ ~(form.tags \subseteq DOMAIN tags)
    BY <1>1, <1>2 DEF Served, Faults
  <1>4. /\ AfterChecks(faults) \in {"write", "list tags"} /\ AfterChecks(faults) \in Steps
        /\ AfterChecks(faults) = "write" => faults = {}
        /\ AfterChecks(faults) = "list tags" => faults # {}
    BY DEF AfterChecks, Steps
  <1> HIDE DEF faults
  <1>5. request' \in Served
    BY <1>1, <1>3, <1>4 DEF Served
  <1>6. /\ request'.op = "save" /\ request'.form = request.form
        /\ request'.step = AfterChecks(faults) /\ request'.faults = faults
    BY <1>1 DEF Served
  <1>7. Store!TitleFree(form.id, form.title)' <=> Store!TitleFree(form.id, form.title)
    BY <1>1, <1>6 DEF Store!TitleFree, store
  <1>8. FaultsAreTrue'
    <2> SUFFICES ASSUME still' PROVE FaultsAreTrue'
      BY DEF FaultsAreTrue
    <2>1. /\ "title" \in request.faults =>
                form.title = Unfit \/ ~Store!TitleFree(form.id, form.title)
          /\ "section" \in request.faults => form.section \notin DOMAIN sections
          /\ "tags" \in request.faults => ~(form.tags \subseteq DOMAIN tags)
          /\ "title" \notin request.faults => Store!TitleFree(form.id, form.title)
          /\ "section" \notin request.faults => form.section \in DOMAIN sections
      BY <1>1 DEF FormsInv, FaultsAreTrue, history
    <2>2. /\ "title" \in faults =>
                form.title = Unfit \/ ~Store!TitleFree(form.id, form.title)
          /\ "section" \in faults => form.section \notin DOMAIN sections
          /\ "tags" \in faults => ~(form.tags \subseteq DOMAIN tags)
          /\ "title" \notin faults => Store!TitleFree(form.id, form.title)
          /\ "section" \notin faults => form.section \in DOMAIN sections
          /\ "tags" \notin faults => form.tags \subseteq DOMAIN tags
      BY <1>3, <2>1
    <2>3. UNCHANGED <<notes, tags, sections>>
      BY <1>1 DEF store
    <2> QED BY <1>4, <1>6, <1>7, <2>2, <2>3 DEF FaultsAreTrue
  <1>9. FaultsDecide'
    <2>1. "title" \notin faults => form.title # Unfit
      BY <1>1, <1>3 DEF FormsInv, FaultsDecide
    <2> QED BY <1>4, <1>6, <2>1 DEF FaultsDecide
  <1> QED BY <1>1, <1>4, <1>5, <1>6, <1>8, <1>9, SaveGoesOn

LEMMA ListTagsForFormStep == ASSUME FormsInv, ListTagsForForm PROVE FormsInv'
  <1>1. /\ request \in Served /\ request.op = "save" /\ request.step = "list tags"
        /\ request' = [request EXCEPT !.step = "list sections", !.tags = DOMAIN tags]
        /\ UNCHANGED <<store, page, answer, history>>
    BY SaveIsServed DEF ListTagsForForm, At
  <1>2. request' \in Served
    BY <1>1 DEF Served, Steps, FormsInv, TablesInv
  <1>3. /\ request'.op = "save" /\ request'.form = request.form
        /\ request'.step = "list sections" /\ request'.faults = request.faults
        /\ request'.tags = DOMAIN tags
    BY <1>1 DEF Served
  <1>4. Store!TitleFree(request.form.id, request.form.title)'
          <=> Store!TitleFree(request.form.id, request.form.title)
    BY <1>1, <1>3 DEF Store!TitleFree, store
  <1>5. FaultsAreTrue' /\ FaultsDecide'
    BY <1>1, <1>3, <1>4 DEF FormsInv, FaultsAreTrue, FaultsDecide, store, history
  <1> QED BY <1>1, <1>2, <1>3, <1>5, SaveGoesOn

LEMMA ListSectionsAndRenderStep == ASSUME FormsInv, ListSectionsAndRender PROVE FormsInv'
  <1> DEFINE form == request.form
             p == ShownAgain(form, {}, request.tags, DOMAIN sections)
  <1>1. /\ request \in Served /\ request.op = "save" /\ page # Blank /\ form.id = page.form.id
        /\ request.step = "list sections" /\ Answer("rejected", p) /\ UNCHANGED store
    BY SaveIsServed DEF FormsInv, TabInv, ListSectionsAndRender, At, ShownAgain
  <1>2. /\ form \in Form /\ {} \in SUBSET Store!NoteId /\ request.tags \in SUBSET Store!TagId
        /\ DOMAIN sections \in SUBSET Store!SectionId
    BY <1>1 DEF Served, FormsInv, TablesInv
  <1>3. Shows(p, form, {}, request.tags, DOMAIN sections) /\ p.again
    BY <1>2, ShownIsPage
  <1>4. TablesInv'
    BY <1>1, TablesUnchanged DEF FormsInv, store
  <1> HIDE DEF p
  <1>5. ~lost /\ p.form.id # NewNote => p.form.id \in DOMAIN notes'
    BY <1>1, <1>3 DEF Shows, FormsInv, NoteKept, OpenId, store
  <1>6. quiet => p.tags \subseteq DOMAIN tags' /\ p.double = {}
    BY <1>1, <1>3 DEF Shows, FormsInv, OneCheckbox, store
  <1> QED BY <1>1, <1>3, <1>4, <1>5, <1>6, AnswerPageStep DEF Shows

LEMMA NotePostStep == ASSUME FormsInv, NotePost PROVE FormsInv'
  <1>1. CASE CanCreate(request.form)
    BY <1>1, StoreKeepsTables, AnswerBlankStep DEF FormsInv, NotePost, Store!Next
  <1>2. CASE ~CanCreate(request.form)
    BY <1>2, TablesUnchanged, AnswerBlankStep DEF FormsInv, NotePost, store
  <1> QED BY <1>1, <1>2

LEMMA NotePutStep == ASSUME FormsInv, NotePut PROVE FormsInv'
  <1>1. [Store!Next]_store
    <2>1. request.form.id \in DOMAIN notes => request.form.id \in Store!NoteId
      BY DEF FormsInv, TablesInv
    <2> QED BY <2>1 DEF NotePut, Store!Next
  <1>2. \E status : Answer(status, Blank)
    BY DEF NotePut
  <1> QED BY <1>1, <1>2, StoreKeepsTables, AnswerBlankStep DEF FormsInv

\* While a tag is asked for the page stays what it is.
LEMMA TagIsRequest ==
    ASSUME FormsInv, request.op = "tag"
    PROVE  request \in Request /\ page \in Page /\ page # Blank /\ request # Idle
  BY IdleIsNoRequest, RequestFields DEF FormsInv, TabInv

LEMMA TagGoesOn ==
    ASSUME FormsInv, page \in Page, request' \in Request, request'.op = "tag",
           UNCHANGED <<store, page, quiet, lost>>, FaultsDecide'
    PROVE  FormsInv'
  <1>1. page # Blank
    BY PageFields
  <1>2. TablesInv' /\ TabInv'
    BY <1>1, TablesUnchanged DEF FormsInv, TabInv, store
  <1>3. NoteKept' /\ PageIsNote' /\ OneCheckbox'
    BY <1>1 DEF FormsInv, NoteKept, OpenId, PageIsNote, OneCheckbox, Same, store
  <1>4. FaultsAreTrue'
    BY DEF FaultsAreTrue
  <1> QED BY <1>2, <1>3, <1>4 DEF FormsInv

LEMMA SubmitTagStep == ASSUME FormsInv, SubmitTag PROVE FormsInv'
  <1>1. page \in Page /\ UNCHANGED <<store, page, quiet, lost>>
    BY DEF FormsInv, TabInv, SubmitTag, Blank
  <1>2. PICK name \in TagName \cup {Unfit} : request' = [op |-> "tag", step |-> "check", name |-> name]
    BY DEF SubmitTag
  <1>3. request' \in Request /\ request'.op = "tag" /\ request'.step = "check"
    BY <1>2 DEF Request
  <1>4. FaultsDecide'
    BY <1>3 DEF FaultsDecide
  <1> QED BY <1>1, <1>3, <1>4, TagGoesOn

\* The answer to a tag changes nothing about the note that the page shows.
LEMMA TagAnswered ==
    ASSUME FormsInv, request.op = "tag", TablesInv', UNCHANGED notes, NEW status,
           NEW p \in Page, p.form = page.form, p.again = page.again, Answer(status, p),
           quiet => p.tags \subseteq DOMAIN tags' /\ p.double = {}
    PROVE  FormsInv'
  <1>1. page # Blank
    BY TagIsRequest
  <1>2. ~lost /\ p.form.id # NewNote => p.form.id \in DOMAIN notes'
    BY <1>1 DEF FormsInv, NoteKept, OpenId
  <1>3. quiet /\ ~p.again /\ p.form.id # NewNote =>
            p.form.id \in DOMAIN notes' /\ Same(p.form, notes'[p.form.id])
    BY <1>1 DEF FormsInv, PageIsNote
  <1> QED BY <1>2, <1>3, AnswerPageStep

LEMMA CheckTagStep == ASSUME FormsInv, CheckTag PROVE FormsInv'
  <1>1. /\ request.op = "tag" /\ request.step = "check" /\ UNCHANGED store
        /\ request \in Request /\ page \in Page
    BY TagIsRequest DEF CheckTag, At
  <1>4. quiet => page.tags \subseteq DOMAIN tags' /\ page.double = {}
    BY <1>1, TagIsRequest DEF FormsInv, OneCheckbox, store
  <1>2. CASE request.name = Unfit \/ FindTagByName(request.name) # {}
    BY <1>1, <1>2, <1>4, TablesUnchanged, TagAnswered DEF FormsInv, CheckTag, store
  <1>3. CASE ~(request.name = Unfit \/ FindTagByName(request.name) # {})
    <2>1. request' = [request EXCEPT !.step = "write"] /\ UNCHANGED <<page, history>>
      BY <1>3 DEF CheckTag
    <2>2. request' \in Request /\ request'.op = "tag" /\ request'.name = request.name
      <3>1. request \in [op : {"tag"}, step : {"check", "write"}, name : TagName \cup {Unfit}]
        BY <1>1 DEF Request
      <3> QED BY <2>1, <3>1 DEF Request
    <2>3. \A t \in DOMAIN tags : tags[t] # request.name
      BY <1>3 DEF FindTagByName
    <2>4. FaultsDecide'
      BY <1>1, <1>3, <2>2, <2>3 DEF FaultsDecide, store
    <2> QED BY <1>1, <2>1, <2>2, <2>4, TagGoesOn DEF history
  <1> QED BY <1>2, <1>3

LEMMA TagPostStep == ASSUME FormsInv, TagPost PROVE FormsInv'
  <1> DEFINE id == Store!NextId(tags)
  <1>1. request.op = "tag" /\ page \in Page
    BY TagIsRequest DEF TagPost, At
  <1>2. CASE Store!Free(tags, id, request.name)
    <2> DEFINE p == [page EXCEPT !.tags = page.tags \cup {id},
                                 !.double = page.double \cup (page.tags \cap {id})]
    <2>1. Store!CreateTag /\ Answer("saved", p) /\ tags' = Store!Inserted(tags, id, request.name)
      BY <1>2 DEF TagPost
    <2>2. /\ id \in Store!TagId /\ UNCHANGED notes /\ id \notin DOMAIN tags
          /\ DOMAIN tags' = DOMAIN tags \cup {id}
      BY <2>1, NextIdIsNew, BoundAssumption
         DEF FormsInv, TablesInv, Store!TagId, Store!CreateTag, Store!Inserted
    <2> HIDE DEF id
    <2>3. /\ page.tags \cup {id} \in SUBSET Store!TagId
          /\ page.double \cup (page.tags \cap {id}) \in SUBSET Store!TagId
      BY <1>1, <2>2, PageFields
    <2>4. /\ p \in Page /\ p.form = page.form /\ p.again = page.again
          /\ p.tags = page.tags \cup {id} /\ p.double = page.double \cup (page.tags \cap {id})
      BY <1>1, <2>3 DEF Page
    <2>5. Answer("saved", p)
      BY <2>1
    <2>6. TablesInv'
      BY <2>1, StoreKeepsTables DEF FormsInv, Store!Next
    <2> HIDE DEF p
    <2>7. quiet => p.tags \subseteq DOMAIN tags' /\ p.double = {}
      BY <1>1, <2>2, <2>4, PageFields DEF FormsInv, OneCheckbox
    <2> QED BY <1>1, <2>2, <2>4, <2>5, <2>6, <2>7, TagAnswered
  <1>3. CASE ~Store!Free(tags, id, request.name)
    <2>1. quiet => page.tags \subseteq DOMAIN tags' /\ page.double = {}
      BY <1>1, <1>3, PageFields DEF FormsInv, OneCheckbox, TagPost, store
    <2> QED BY <1>1, <1>3, <2>1, TablesUnchanged, TagAnswered DEF FormsInv, TagPost, store
  <1> QED BY <1>2, <1>3

LEMMA LeaveStep == ASSUME FormsInv, Leave PROVE FormsInv'
  BY TablesUnchanged, AnswerBlankStep DEF FormsInv, Leave, store

\* Others end what is said of a quiet tab, and may take the note of the page away.
LEMMA OthersWriteStep == ASSUME FormsInv, OthersWrite PROVE FormsInv'
  <1>1. /\ UNCHANGED <<page, request>>
        /\ quiet' = (page = Blank /\ request = Idle) /\ still' = (request = Idle)
        /\ lost' = (lost \/ OpenId \in DOMAIN notes \ DOMAIN notes')
    BY DEF OthersWrite
  <1>2. TablesInv' /\ TabInv'
    BY <1>1, OthersStep, StoreKeepsTables DEF FormsInv, TabInv
  <1>3. NoteKept'
    BY <1>1 DEF FormsInv, NoteKept, OpenId
  <1>4. PageIsNote' /\ OneCheckbox' /\ FaultsAreTrue'
    BY <1>1, IdleIsNoRequest DEF PageIsNote, OneCheckbox, FaultsAreTrue
  <1>5. FaultsDecide'
    BY <1>1, IdleIsNoRequest DEF FormsInv, FaultsDecide
  <1> QED BY <1>2, <1>3, <1>4, <1>5 DEF FormsInv

LEMMA Unchanging == ASSUME FormsInv, UNCHANGED vars PROVE FormsInv'
  <1>1. /\ UNCHANGED store /\ page' = page /\ request' = request
        /\ quiet' = quiet /\ still' = still /\ lost' = lost
    BY DEF vars, history
  <1>2. TablesInv' /\ TabInv' /\ NoteKept' /\ PageIsNote'
    BY <1>1, TablesUnchanged DEF FormsInv, TabInv, NoteKept, OpenId, PageIsNote, Same, store
  <1>3. OneCheckbox' /\ FaultsAreTrue' /\ FaultsDecide'
    BY <1>1 DEF FormsInv, OneCheckbox, FaultsAreTrue, FaultsDecide, Store!TitleFree, store
  <1> QED BY <1>2, <1>3 DEF FormsInv

LEMMA InitIsGood == Init => FormsInv
  <1> SUFFICES ASSUME Init PROVE FormsInv
    OBVIOUS
  <1>1. TablesInv
    BY ProvedAssumptions, SameInit, Proved!InitInv, TablesOfNotes DEF Init
  <1>2. page = Blank /\ request = Idle /\ request.op = "none"
    BY IdleIsNoRequest DEF Init
  <1>3. TabInv /\ NoteKept /\ PageIsNote /\ OneCheckbox /\ FaultsAreTrue /\ FaultsDecide
    BY <1>2 DEF TabInv, NoteKept, OpenId, PageIsNote, OneCheckbox, FaultsAreTrue, FaultsDecide
  <1> QED BY <1>1, <1>3 DEF FormsInv

LEMMA FormsHold == Spec => []FormsInv
  <1>1. ASSUME FormsInv, [Next]_vars PROVE FormsInv'
    <2>1. CASE Next
      BY <1>1, <2>1, NoteNewGetStep, NoteEditGetStep, ListSectionsForPageStep,
         ListTagsAndRenderStep, SubmitStep, CheckIdStep, CheckTitleStep, CheckSectionStep,
         CheckTagsStep, ListTagsForFormStep, ListSectionsAndRenderStep, NotePostStep, NotePutStep,
         SubmitTagStep, CheckTagStep, TagPostStep, LeaveStep, OthersWriteStep DEF Next
    <2>2. CASE UNCHANGED vars
      BY <1>1, <2>2, Unchanging
    <2> QED BY <1>1, <2>1, <2>2
  <1> QED BY <1>1, InitIsGood, PTL DEF Spec

-----------------------------------------------------------------------------
(* The handlers and the notes database.                                      *)

\* Each step of a handler does one thing that NotesStore does, or nothing to the
\* database.
LEMMA StepIsStoreStep == ASSUME FormsInv, [Next]_vars PROVE [Store!Next]_store
  <1>1. CASE NotePut
    <2>1. request.form.id \in DOMAIN notes => request.form.id \in Store!NoteId
      BY DEF FormsInv, TablesInv
    <2> QED BY <1>1, <2>1 DEF NotePut, Store!Next
  <1>2. CASE NotePost \/ TagPost
    BY <1>2 DEF NotePost, TagPost, Store!Next
  <1>3. CASE OthersWrite
    BY <1>3, OthersStep
  <1>4. CASE \/ NoteNewGet \/ (\E n \in Store!NoteId : NoteEditGet(n)) \/ ListSectionsForPage
             \/ ListTagsAndRender \/ Submit \/ CheckId \/ CheckTitle \/ CheckSection
    BY <1>4 DEF NoteNewGet, NoteEditGet, ListSectionsForPage, ListTagsAndRender, Submit, CheckId,
                CheckTitle, CheckSection
  <1>5. CASE \/ CheckTags \/ ListTagsForForm \/ ListSectionsAndRender \/ SubmitTag \/ CheckTag
             \/ Leave \/ UNCHANGED vars
    BY <1>5 DEF CheckTags, ListTagsForForm, ListSectionsAndRender, SubmitTag, CheckTag, Leave, vars
  <1> QED BY <1>1, <1>2, <1>3, <1>4, <1>5 DEF Next

\* The handlers, with all that goes on between their reads and their writes,
\* implement NotesStore: nothing that they do to the tables or to the index is
\* not one of its transactions as a whole.
THEOREM HandlersImplementStore == Spec => Store!Spec
  <1>1. Init => Store!Init
    BY DEF Init
  <1>2. FormsInv /\ [Next]_vars => [Store!Next]_(Store!vars)
    BY StepIsStoreStep DEF store, Store!vars
  <1> QED BY <1>1, <1>2, FormsHold, PTL DEF Spec, Store!Spec

\* Under the handlers too no note refers to what is gone, the index holds no word
\* that a note does not have, and it counts no more than it stores.
THEOREM StoreStaysCorrect ==
    Spec => [](Store!ReferencesResolve /\ Store!WholeOrNothing /\ Store!CountsAtMostStored)
  <1>1. FormsInv => Store!ReferencesResolve /\ Store!WholeOrNothing /\ Store!CountsAtMostStored
    <2> SUFFICES ASSUME Proved!NotesInv
                 PROVE  /\ Store!ReferencesResolve /\ Store!WholeOrNothing
                        /\ Store!CountsAtMostStored
      BY DEF FormsInv, TablesInv
    <2>1. Store!ReferencesResolve
      BY DEF Proved!NotesInv, Proved!ReferencesResolve, Proved!Rows, Store!ReferencesResolve
    <2>2. Store!WholeOrNothing
      BY SameView, SameConstants DEF Proved!NotesInv, Proved!WholeOrNothing, Store!WholeOrNothing
    <2>3. Store!CountsAtMostStored
      BY SameConstants, SameWords
         DEF Proved!NotesInv, Proved!CountsAtMostStored, Store!CountsAtMostStored
    <2> QED BY <2>1, <2>2, <2>3
  <1> QED BY <1>1, FormsHold, PTL

-----------------------------------------------------------------------------
(* Types.                                                                    *)

\* The answers, the counts of the forms and writes, and the history.
HistoryOK ==
    /\ answer \in {"none", "page", "saved", "rejected", "error", "not found"}
    /\ sent \in 0..MaxSent /\ others \in 0..MaxOthers
    /\ quiet \in BOOLEAN /\ still \in BOOLEAN /\ lost \in BOOLEAN

LEMMA AnswerHistory ==
    ASSUME HistoryOK,
           NEW status \in {"none", "page", "saved", "rejected", "error", "not found"},
           NEW p, Answer(status, p)
    PROVE  HistoryOK'
  BY DEF HistoryOK, Answer

LEMMA HistoryHolds == Spec => []HistoryOK
  <1>1. Init => HistoryOK
    <2>1. Init => sent \in 0..MaxSent /\ others \in 0..MaxOthers
      BY SentAssumption DEF Init
    <2> QED BY <2>1 DEF Init, HistoryOK
  <1>2. ASSUME HistoryOK, [Next]_vars PROVE HistoryOK'
    <2>1. CASE NoteNewGet \/ (\E n \in Store!NoteId : NoteEditGet(n))
      BY <1>2, <2>1, AnswerHistory DEF NoteNewGet, NoteEditGet, Begin, HistoryOK
    <2>2. CASE Submit \/ SubmitTag
      <3>1. sent < MaxSent /\ sent' = sent + 1
        BY <2>2 DEF Submit, SubmitTag
      <3>2. sent' \in 0..MaxSent
        <4>1. sent \in 0..MaxSent
          BY <1>2 DEF HistoryOK
        <4> QED BY <3>1, <4>1, SentAssumption
      <3>3. answer' = "none" /\ still' = TRUE /\ UNCHANGED <<others, quiet, lost>>
        BY <2>2 DEF Submit, SubmitTag, Begin
      <3> QED BY <1>2, <3>2, <3>3 DEF HistoryOK
    <2>3. CASE OthersWrite
      <3>1. others' \in 0..MaxOthers /\ UNCHANGED <<answer, sent>>
        <4>1. others < MaxOthers /\ others' = others + 1 /\ UNCHANGED <<answer, sent>>
          BY <2>3 DEF OthersWrite
        <4>2. others \in 0..MaxOthers
          BY <1>2 DEF HistoryOK
        <4> QED BY <4>1, <4>2, SentAssumption
      <3>2. quiet' \in BOOLEAN /\ still' \in BOOLEAN /\ lost' \in BOOLEAN
        BY <1>2, <2>3 DEF OthersWrite, HistoryOK
      <3> QED BY <1>2, <3>1, <3>2 DEF HistoryOK
    <2>4. CASE ListSectionsForPage \/ CheckId \/ CheckTitle \/ CheckSection \/ CheckTags
      BY <1>2, <2>4, AnswerHistory DEF ListSectionsForPage, CheckId, CheckTitle, CheckSection,
         CheckTags, HistoryOK, history
    <2>5. CASE ListTagsForForm \/ CheckTag
      BY <1>2, <2>5, AnswerHistory DEF ListTagsForForm, CheckTag, HistoryOK, history
    <2>6. CASE ListTagsAndRender \/ ListSectionsAndRender \/ NotePost \/ NotePut \/ TagPost \/ Leave
      BY <1>2, <2>6, AnswerHistory
         DEF ListTagsAndRender, ListSectionsAndRender, NotePost, NotePut, TagPost, Leave
    <2>7. CASE UNCHANGED vars
      BY <1>2, <2>7 DEF vars, history, HistoryOK
    <2> QED BY <1>2, <2>1, <2>2, <2>3, <2>4, <2>5, <2>6, <2>7 DEF Next
  <1> QED BY <1>1, <1>2, PTL DEF Spec

LEMMA StoreTyped == Proved!NotesInv => Store!TypeOK
  <1>1. Store!Term = Proved!Term
    BY DEF Store!Term, Proved!Term
  <1>2. Store!Note = Proved!Note
    BY SameConstants DEF Store!Note, Proved!Note
  <1> QED BY <1>1, <1>2, SameConstants
          DEF Proved!NotesInv, Proved!TablesOK, Proved!Rows, Store!TypeOK, Store!TablesOK

\* Tables, pages and requests keep their types, and no transaction ever gets an
\* unfit title or name, though the check was made some steps before.
THEOREM TypesCorrect == Spec => []TypeOK
  <1>1. FormsInv /\ HistoryOK => TypeOK
    <2> SUFFICES ASSUME FormsInv, HistoryOK PROVE TypeOK
      OBVIOUS
    <2>1. Store!TypeOK
      BY StoreTyped DEF FormsInv, TablesInv
    <2>2. At("save", "write") => request.form.title # Unfit
      BY DEF At, FormsInv, FaultsDecide
    <2>3. At("tag", "write") => request.name # Unfit
      BY DEF At, FormsInv, FaultsDecide
    <2>4. page \in {Blank} \cup Page /\ request \in {Idle} \cup Request
      BY DEF FormsInv, TabInv
    <2> QED BY <2>1, <2>2, <2>3, <2>4 DEF TypeOK, HistoryOK
  <1> QED BY <1>1, FormsHold, HistoryHolds, PTL

-----------------------------------------------------------------------------
(* How a form ends.                                                          *)

LEMMA HowSavesEnd ==
    ASSUME FormsInv, [Next]_vars, request.op = "save", request' = Idle
    PROVE  \/ CheckId /\ request.form.id \notin DOMAIN notes
           \/ ListSectionsAndRender
           \/ NotePost
           \/ NotePut
           \/ Leave
  <1>1. request \in Served /\ request'.op = "none" /\ request # Idle
    BY SaveIsServed, IdleIsNoRequest
  <1>2. CASE NoteNewGet \/ (\E n \in Store!NoteId : NoteEditGet(n)) \/ Submit \/ SubmitTag
    BY <1>1, <1>2 DEF NoteNewGet, NoteEditGet, Submit, SubmitTag
  <1>3. CASE ListSectionsForPage \/ ListTagsAndRender \/ CheckTag \/ TagPost
    BY <1>3 DEF ListSectionsForPage, ListTagsAndRender, CheckTag, TagPost, At
  <1>4. CASE CheckTitle
    BY <1>1, <1>4 DEF CheckTitle, Served
  <1>5. CASE CheckSection
    BY <1>1, <1>5 DEF CheckSection, Served
  <1>6. CASE CheckTags
    BY <1>1, <1>6 DEF CheckTags, Served
  <1>7. CASE ListTagsForForm
    BY <1>1, <1>7 DEF ListTagsForForm, Served
  <1>8. CASE OthersWrite \/ UNCHANGED vars
    BY <1>1, <1>8 DEF OthersWrite, vars
  <1>9. CASE CheckId
    BY <1>1, <1>9 DEF CheckId, Served
  <1> QED BY <1>2, <1>3, <1>4, <1>5, <1>6, <1>7, <1>8, <1>9 DEF Next

LEMMA HowTagsEnd ==
    ASSUME FormsInv, [Next]_vars, request.op = "tag", request' = Idle
    PROVE  \/ CheckTag /\ (request.name = Unfit \/ FindTagByName(request.name) # {})
           \/ TagPost
           \/ Leave
  <1>1. request \in Request /\ request'.op = "none" /\ request # Idle
    BY TagIsRequest, IdleIsNoRequest
  <1>2. CASE NoteNewGet \/ (\E n \in Store!NoteId : NoteEditGet(n)) \/ Submit \/ SubmitTag
    BY <1>1, <1>2 DEF NoteNewGet, NoteEditGet, Submit, SubmitTag
  <1>3. CASE \/ ListSectionsForPage \/ ListTagsAndRender \/ CheckId \/ CheckTitle \/ CheckSection
             \/ CheckTags \/ ListTagsForForm \/ ListSectionsAndRender \/ NotePost \/ NotePut
    BY <1>3 DEF ListSectionsForPage, ListTagsAndRender, CheckId, CheckTitle, CheckSection,
       CheckTags, ListTagsForForm, ListSectionsAndRender, NotePost, NotePut, At
  <1>4. CASE CheckTag
    <2>1. request \in [op : {"tag"}, step : {"check", "write"}, name : TagName \cup {Unfit}]
      BY <1>1 DEF Request
    <2> QED BY <1>1, <1>4, <2>1 DEF CheckTag
  <1>5. CASE OthersWrite \/ UNCHANGED vars
    BY <1>1, <1>5 DEF OthersWrite, vars
  <1> QED BY <1>2, <1>3, <1>4, <1>5 DEF Next

\* A note whose form comes to its transaction has its row unless it was deleted.
LEMMA FormOfNote ==
    ASSUME FormsInv, request.op = "save", ~lost, request.form.id # NewNote
    PROVE  request.form.id \in DOMAIN notes
  BY DEF FormsInv, TabInv, NoteKept, OpenId

\* What a reported save has written.
LEMMA WhatIsSaved ==
    ASSUME FormsInv, [Next]_vars, Ends("save", "saved"), ~lost
    PROVE  LET form == request.form IN
           \/ /\ form.id = NewNote
              /\ notes' = Store!Inserted(notes, Store!NextId(notes), Store!Row(form, FALSE))
           \/ /\ form.id # NewNote /\ form.id \in DOMAIN notes
              /\ notes' = [notes EXCEPT ![form.id] = Store!Row(form, notes[form.id].bookmark)]
  <1>1. request.op = "save" /\ request' = Idle /\ answer' = "saved"
    BY DEF Ends
  <1>2. CASE CheckId /\ request.form.id \notin DOMAIN notes
    BY <1>1, <1>2 DEF CheckId, Answer
  <1>3. CASE ListSectionsAndRender \/ Leave
    BY <1>1, <1>3 DEF ListSectionsAndRender, Leave, Answer
  <1>4. CASE NotePost
    BY <1>1, <1>4 DEF NotePost, Answer
  <1>5. CASE NotePut
    BY <1>1, <1>5, FormOfNote DEF NotePut, Answer
  <1> QED BY <1>1, <1>2, <1>3, <1>4, <1>5, HowSavesEnd

\* A save that is reported has happened (SavedIsStored): the note of the form, or
\* the new one, has what the form says, unless the note was deleted meanwhile.
THEOREM SavedIsStoredCorrect == Spec => SavedIsStored
  <1> DEFINE id == IF request.form.id = NewNote THEN Store!NextId(notes) ELSE request.form.id
             Good == Ends("save", "saved") /\ ~lost =>
                        /\ id \in DOMAIN notes'
                        /\ \E bookmark \in BOOLEAN : notes'[id] = Store!Row(request.form, bookmark)
  <1>1. ASSUME FormsInv, [Next]_vars PROVE Good
    <2> SUFFICES ASSUME Ends("save", "saved"), ~lost
                 PROVE  /\ id \in DOMAIN notes'
                        /\ \E bookmark \in BOOLEAN : notes'[id] = Store!Row(request.form, bookmark)
      OBVIOUS
    <2>1. CASE request.form.id = NewNote
      BY <1>1, <2>1, WhatIsSaved DEF Store!Inserted
    <2>2. CASE request.form.id # NewNote
      <3>1. /\ request.form.id \in DOMAIN notes
            /\ notes' = [notes EXCEPT ![request.form.id]
                            = Store!Row(request.form, notes[request.form.id].bookmark)]
        BY <1>1, <2>2, WhatIsSaved
      <3>2. notes[request.form.id].bookmark \in BOOLEAN
        BY <1>1, <3>1 DEF FormsInv, TablesInv, Stored
      <3> QED BY <2>2, <3>1, <3>2
    <2> QED BY <2>1, <2>2
  <1>2. FormsInv /\ [Next]_vars => Good
    BY <1>1
  <1>3. Spec => [][Good]_vars
    <2> HIDE DEF Good
    <2> QED BY <1>2, FormsHold, PTL DEF Spec
  <1> QED BY <1>3 DEF SavedIsStored

\* Undisturbed, a save changes what the user changed and nothing else
\* (SaveIsTheEdit), unless the page came back from a rejected save.
THEOREM SaveIsTheEditCorrect == Spec => SaveIsTheEdit
  <1> DEFINE n == request.form.id
             Good == Ends("save", "saved") /\ quiet /\ request.form.id # NewNote /\ ~page.again =>
                /\ notes'[n].bookmark = notes[n].bookmark
                /\ \A f \in {"title", "content", "section", "tags", "refs"} :
                      request.form[f] = page.form[f] => notes'[n][f] = notes[n][f]
  <1>1. ASSUME FormsInv, [Next]_vars PROVE Good
    <2> SUFFICES ASSUME Ends("save", "saved"), quiet, n # NewNote, ~page.again
                 PROVE  /\ notes'[n].bookmark = notes[n].bookmark
                        /\ \A f \in {"title", "content", "section", "tags", "refs"} :
                              request.form[f] = page.form[f] => notes'[n][f] = notes[n][f]
      OBVIOUS
    <2>1. /\ request.op = "save" /\ page # Blank /\ page.form.id = n
          /\ n \in DOMAIN notes /\ Same(page.form, notes[n])
      BY <1>1 DEF Ends, FormsInv, TabInv, PageIsNote
    <2>2. CASE NotePut
      <3>1. notes' = [notes EXCEPT ![n] = Store!Row(request.form, notes[n].bookmark)]
        BY <2>1, <2>2 DEF NotePut, Ends, Answer
      <3>2. notes'[n] = Store!Row(request.form, notes[n].bookmark)
        BY <2>1, <3>1
      <3> QED BY <2>1, <3>2 DEF Store!Row, Same
    <2>3. CASE NotePost
      BY <2>3 DEF NotePost
    <2>4. CASE \/ CheckId /\ request.form.id \notin DOMAIN notes
               \/ ListSectionsAndRender \/ Leave
      BY <2>1, <2>4 DEF ListSectionsAndRender, Leave, Answer, Ends
    <2> QED BY <1>1, <2>1, <2>2, <2>3, <2>4, HowSavesEnd DEF Ends
  <1>2. FormsInv /\ [Next]_vars => Good
    BY <1>1
  <1>3. Spec => [][Good]_vars
    <2> HIDE DEF Good
    <2> QED BY <1>2, FormsHold, PTL DEF Spec
  <1> QED BY <1>3 DEF SaveIsTheEdit

\* Why a save fails: what others have done since the form was sent, what is never
\* checked, a note that is gone, or an index that is out of step.
LEMMA WhySavesFail ==
    ASSUME FormsInv, [Next]_vars, Ends("save", "error"), ~lost
    PROVE  \/ ~still /\ Conflicts(request.form)
           \/ "refs" \in request.form.twice \/ ~(request.form.refs \subseteq DOMAIN notes)
           \/ "tags" \in request.form.twice /\ ~quiet
           \/ request.form.id \in DOMAIN notes /\ ~Store!Trusts({request.form.id})
  <1> DEFINE form == request.form
  <1>1. /\ request.op = "save" /\ request' = Idle /\ answer' = "error"
        /\ form.id # NewNote => form.id \in DOMAIN notes
    BY FormOfNote DEF Ends
  <1>2. CASE CheckId /\ form.id \notin DOMAIN notes
    BY <1>1, <1>2 DEF CheckId, At, FormsInv, TabInv
  <1>3. ASSUME NotePost \/ NotePut PROVE still => ~Conflicts(form)
    BY <1>3 DEF NotePost, NotePut, At, FormsInv, FaultsDecide, FaultsAreTrue, Conflicts
  <1>4. /\ form.twice \subseteq {"tags", "refs"}
        /\ "tags" \in form.twice => ~quiet
    <2>1. request \in Served
      BY <1>1, SaveIsServed
    <2> QED BY <1>1, <2>1, FormFields DEF Served, FormsInv, OneCheckbox
  <1>5. form.twice # {} => "refs" \in form.twice \/ ("tags" \in form.twice /\ ~quiet)
    <2>1. form.twice # {} => "refs" \in form.twice \/ "tags" \in form.twice
      BY <1>4
    <2> QED BY <1>4, <2>1, Zenon
  <1>6. CASE NotePost
    <2>1. ~CanCreate(form) /\ form.id = NewNote
      BY <1>1, <1>6 DEF NotePost, Answer
    <2>2. Store!TitleFree(form.id, form.title) => Store!TitleFree(Store!NextId(notes), form.title)
      BY <2>1 DEF Store!TitleFree, FormsInv, TablesInv, Store!NoteId, NewNote
    <2>3. form.twice # {} \/ Conflicts(form) \/ ~(form.refs \subseteq DOMAIN notes)
      BY <2>1, <2>2 DEF CanCreate, Store!Accepted, Conflicts
    <2> QED BY <1>3, <1>5, <1>6, <2>3
  <1>7. CASE NotePut
    <2>1. ~CanUpdate(form) /\ form.id \in DOMAIN notes
      BY <1>1, <1>7 DEF NotePut, Answer
    <2>2. \/ form.twice # {} \/ Conflicts(form) \/ ~(form.refs \subseteq DOMAIN notes)
          \/ ~Store!Trusts({form.id})
      BY <2>1 DEF CanUpdate, Store!Accepted, Conflicts
    <2> QED BY <1>3, <1>5, <1>7, <2>1, <2>2
  <1>8. CASE ListSectionsAndRender \/ Leave
    BY <1>1, <1>8 DEF ListSectionsAndRender, Leave, Answer
  <1> QED BY <1>1, <1>2, <1>6, <1>7, <1>8, HowSavesEnd

\* The checks of a form foresee what the constraints say (ChecksForesee).
THEOREM ChecksForeseeCorrect == Spec => ChecksForesee
  <1> DEFINE form == request.form
             Excused == \/ ~still /\ Conflicts(form)
                        \/ "refs" \in form.twice \/ ~(form.refs \subseteq Rows(notes))
                        \/ "tags" \in form.twice /\ ~quiet
                        \/ lost
                        \/ form.id # NewNote /\ ~Store!Trusts({form.id})
             Good ==
                /\ Ends("save", "rejected") /\ still => form.title = Unfit \/ Conflicts(form)
                /\ Ends("save", "error") => Excused
                /\ Ends("tag", "rejected") => request.name = Unfit \/ NameTaken(request.name)
                /\ Ends("tag", "error") => ~still /\ NameTaken(request.name)
  <1>1. ASSUME FormsInv, [Next]_vars, still, Ends("save", "rejected")
        PROVE  form.title = Unfit \/ Conflicts(form)
    <2>1. CASE ListSectionsAndRender
      <3>1. request \in Served /\ request.op = "save" /\ request.step = "list sections"
        BY <1>1, <2>1, SaveIsServed DEF ListSectionsAndRender, At
      <3>2. request.faults # {} /\ request.faults \subseteq Faults
        BY <1>1, <3>1 DEF FormsInv, FaultsDecide, Served
      <3> QED BY <1>1, <3>1, <3>2 DEF FormsInv, FaultsAreTrue, Faults, Conflicts
    <2>2. CASE CheckId /\ request.form.id \notin DOMAIN notes
      BY <1>1, <2>2 DEF CheckId, Answer, Ends
    <2>3. CASE NotePost \/ NotePut \/ Leave
      BY <1>1, <2>3 DEF NotePost, NotePut, Leave, Answer, Ends
    <2> QED BY <1>1, <2>1, <2>2, <2>3, HowSavesEnd DEF Ends
  <1>2. ASSUME FormsInv, [Next]_vars, Ends("save", "error") PROVE Excused
    <2>1. form.id \in DOMAIN notes => form.id # NewNote
      BY <1>2 DEF FormsInv, TablesInv, Store!NoteId, NewNote
    <2> QED BY <1>2, <2>1, WhySavesFail
  <1>3. ASSUME FormsInv, [Next]_vars, Ends("tag", "rejected")
        PROVE  request.name = Unfit \/ NameTaken(request.name)
    BY <1>3, HowTagsEnd DEF Ends, TagPost, Leave, Answer, FindTagByName, NameTaken
  <1>4. ASSUME FormsInv, [Next]_vars, Ends("tag", "error")
        PROVE  ~still /\ NameTaken(request.name)
    <2>1. CASE TagPost
      <3>1. request.op = "tag" /\ request.step = "write"
        BY <2>1 DEF TagPost, At
      <3>2. ~Store!Free(tags, Store!NextId(tags), request.name)
        BY <1>4, <2>1 DEF TagPost, Answer, Ends
      <3>3. NameTaken(request.name)
        BY <3>2 DEF Store!Free, NameTaken
      <3> QED BY <1>4, <3>1, <3>3 DEF FormsInv, FaultsDecide, NameTaken
    <2> QED BY <1>4, <2>1, HowTagsEnd DEF Ends, CheckTag, Leave, Answer
  <1>5. FormsInv /\ [Next]_vars => Good
    BY <1>1, <1>2, <1>3, <1>4
  <1>6. Spec => [][Good]_vars
    <2> HIDE DEF Good
    <2> QED BY <1>5, FormsHold, PTL DEF Spec
  <1> QED BY <1>6, PTL DEF ChecksForesee

-----------------------------------------------------------------------------
(* While nobody deletes a tag that notes carry.                              *)

LEMMA SameSpec == Spec => Proved!Spec
  <1>1. [Store!Next]_(Store!vars) => [Proved!Next]_(Proved!vars)
    BY SameStep DEF Store!vars, store
  <1> QED BY <1>1, SameInit, HandlersImplementStore, PTL DEF Store!Spec, Proved!Spec

\* Under the handlers too every note is found by each of its words, and the index
\* refuses no write, up to the deletion of a tag that notes carry.
THEOREM SearchStaysCorrect ==
    Spec /\ [][~Proved!TagInUseDeleted]_vars
        => [](Store!SearchFindsNotes /\ \A some \in SUBSET Store!NoteId : Store!Trusts(some))
  <1> DEFINE Found == Proved!SearchFindsNotes /\ \A some \in SUBSET Proved!NoteId : Proved!Trusts(some)
             Good == Store!SearchFindsNotes /\ \A some \in SUBSET Store!NoteId : Store!Trusts(some)
  <1>1. [~Proved!TagInUseDeleted]_vars => [~Proved!TagInUseDeleted]_(Proved!vars)
    BY DEF vars, store, Proved!vars
  <1>2. Proved!Spec /\ [][~Proved!TagInUseDeleted]_(Proved!vars) => []Found
    BY ProvedAssumptions, Proved!SearchFindsNotesCorrect
  <1>3. Found => Good
    <2> SUFFICES ASSUME Found PROVE Good
      OBVIOUS
    <2>1. Store!SearchFindsNotes
      BY SameView DEF Store!SearchFindsNotes, Proved!SearchFindsNotes, Store!SearchNotes,
         Proved!SearchNotes, Proved!Rows
    <2>2. \A some \in SUBSET Store!NoteId : Store!Trusts(some)
      BY SameWords, SameView, SameConstants DEF Store!Trusts, Proved!Trusts
    <2> QED BY <2>1, <2>2
  <1> HIDE DEF Found, Good
  <1>4. Spec /\ [][~Proved!TagInUseDeleted]_vars => []Good
    BY <1>1, <1>2, <1>3, SameSpec, PTL
  <1> QED BY <1>4 DEF Good

\* What ChecksForesee excepts for the index is due to such a deletion: without one,
\* a form that passed its checks fails only for what others have done since it was
\* sent, for an id that its lists repeat (of a tag only if others have written since
\* the page was asked for), for a reference that is gone, or because its note is.
THEOREM PassedFormsAreStored ==
    Spec /\ [][~Proved!TagInUseDeleted]_vars =>
        [][ Ends("save", "error") =>
              \/ ~still /\ Conflicts(request.form)
              \/ "refs" \in request.form.twice \/ ~(request.form.refs \subseteq Rows(notes))
              \/ "tags" \in request.form.twice /\ ~quiet
              \/ lost ]_vars
  <1> DEFINE Trusted == Store!SearchFindsNotes /\ \A some \in SUBSET Store!NoteId : Store!Trusts(some)
             Good == Ends("save", "error") =>
                \/ ~still /\ Conflicts(request.form)
                \/ "refs" \in request.form.twice \/ ~(request.form.refs \subseteq Rows(notes))
                \/ "tags" \in request.form.twice /\ ~quiet
                \/ lost
  <1>1. ASSUME FormsInv, Trusted, [Next]_vars PROVE Good
    <2>1. request.form.id \in DOMAIN notes => Store!Trusts({request.form.id})
      BY <1>1 DEF FormsInv, TablesInv
    <2> QED BY <1>1, <2>1, WhySavesFail
  <1>2. FormsInv /\ Trusted /\ [Next]_vars => Good
    BY <1>1
  <1>3. Spec /\ [][~Proved!TagInUseDeleted]_vars => []Trusted
    BY SearchStaysCorrect
  <1>4. Spec /\ [][~Proved!TagInUseDeleted]_vars => [][Good]_vars
    <2> HIDE DEF Good, Trusted
    <2> QED BY <1>2, <1>3, FormsHold, PTL DEF Spec
  <1> QED BY <1>4 DEF Good
=============================================================================
