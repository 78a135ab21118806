----------------------------- MODULE NotesStore -----------------------------
(***************************************************************************)
(* The notes database of one user: data-store/sqlite.go over the schema of *)
(* the notes migrations.  Tables are functions from the ids in use to      *)
(* rows.  Every write is one transaction on the single writer connection,  *)
(* so it is one step here; a write that fails is rolled back and changes   *)
(* nothing.  The form validation of the handlers reads before the          *)
(* transaction begins and promises nothing when it runs, so the inputs are *)
(* all those that the constraints of the schema accept.                    *)
(*                                                                         *)
(* The full text index is an external content table of SQLite: it stores   *)
(* terms, not documents, and does not look at the tables by itself.  The   *)
(* code deletes from it the terms that a note has before a change and      *)
(* inserts those it has after, and SQLite believes it.                     *)
(***************************************************************************)
EXTENDS Integers, FiniteSets, FiniteSetsExt

CONSTANTS
    Title, Content, TagName, SectionName,
    Inbox,               \* the section that the first migration creates
    Empty,               \* the content of a note without content
    MaxNote, MaxTag, MaxSection    \* bounds on the ids

ASSUME BoundAssumption == MaxNote \in Nat /\ MaxTag \in Nat /\ MaxSection \in Nat \ {0}
ASSUME InboxAssumption == Inbox \in SectionName

VARIABLES
    notes, tags, sections,  \* the tables, notes_tags and reference_notes within notes
    index,                  \* notes_details_fts: the terms stored for a rowid
    totals                  \* what the index believes it stores, per column

vars == <<notes, tags, sections, index, totals>>

NoteId == 1..MaxNote
TagId == 1..MaxTag
SectionId == 1..MaxSection
Column == {"title", "content", "tags_txt"}

-----------------------------------------------------------------------------
(* Tables.                                                                   *)

Rows(table) == DOMAIN table

\* An INTEGER PRIMARY KEY without AUTOINCREMENT: the id of a deleted last row is
\* given again.
NextId(table) == IF Rows(table) = {} THEN 1 ELSE Max(Rows(table)) + 1

Inserted(table, id, row) == [i \in Rows(table) \cup {id} |-> IF i = id THEN row ELSE table[i]]
Removed(table, id) == [i \in Rows(table) \ {id} |-> table[i]]

\* A UNIQUE column: no other row has the value.
Free(table, id, value) == \A i \in Rows(table) : i # id => table[i] # value
TitleFree(id, title) == \A n \in Rows(notes) : n # id => notes[n].title # title

Tagged(table, t) == {n \in Rows(table) : t \in table[n].tags}

-----------------------------------------------------------------------------
(* The view notes_details and the index over it.                             *)

Document(note) ==
    {<<"title", note.title>>}
        \cup {<<"content", c>> : c \in {note.content} \ {Empty}}
        \cup {<<"tags_txt", tags[t]>> : t \in note.tags}

View == [n \in NoteId |-> IF n \in Rows(notes) THEN Document(notes[n]) ELSE {}]

\* How many terms of a column the documents of some notes have together.
Words(docs, some, col) ==
    Cardinality({p \in UNION {{n} \X docs[n] : n \in some} : p[2][1] = col})

\* SQLite counts the terms away that it is told to delete, whether it stores
\* them or not, and reports a corrupt database when a count falls below zero.
\* (A title is never empty, so the count of titles also stands for that of rows.)
Trusts(some) == \A col \in Column : totals[col] >= Words(View, some, col)

\* Three wrong ways: insert without deleting, delete the documents as they are
\* after the change, do not look at the counts.
InsertOnly(before, after) ==
    /\ index' = [n \in NoteId |-> index[n] \cup (IF n \in after THEN View'[n] ELSE {})]
    /\ totals' = [col \in Column |-> totals[col] + Words(View', after, col)]

DeleteLate(before, after) ==
    /\ Trusts(before)
    /\ index' = [n \in NoteId |->
                    (IF n \in before THEN index[n] \ View'[n] ELSE index[n])
                        \cup (IF n \in after THEN View'[n] ELSE {})]
    /\ totals' = [col \in Column |->
                    totals[col] - Words(View', before, col) + Words(View', after, col)]

DeleteUnchecked(before, after) ==
    /\ index' = [n \in NoteId |->
                    (IF n \in before THEN index[n] \ View[n] ELSE index[n])
                        \cup (IF n \in after THEN View'[n] ELSE {})]
    /\ totals' = [col \in Column |->
                    totals[col] - Words(View, before, col) + Words(View', after, col)]

\* Delete the documents of some notes as they are before a change, insert those
\* of others as they are after it.
Reindex(before, after) ==
    /\ Trusts(before)
    /\ index' = [n \in NoteId |->
                    (IF n \in before THEN index[n] \ View[n] ELSE index[n])
                        \cup (IF n \in after THEN View'[n] ELSE {})]
    /\ totals' = [col \in Column |->
                    totals[col] - Words(View, before, col) + Words(View', after, col)]

\* SearchNotes for a term of a column.
SearchNotes(term) == {n \in Rows(notes) : term \in index[n]}

-----------------------------------------------------------------------------
(* Notes.                                                                    *)

\* What the foreign keys and the UNIQUE title let into row id.
Accepted(id, note) ==
    /\ TitleFree(id, note.title)
    /\ note.section \in Rows(sections)
    /\ note.tags \subseteq Rows(tags)
    /\ note.refs \subseteq Rows(notes) \cup {id}

Form ==
    [title : Title, content : Content \cup {Empty}, section : Rows(sections),
     tags : SUBSET Rows(tags), refs : SUBSET NoteId]

\* INSERT or UPDATE of the columns that a form has; the bookmark is not among them.
Row(form, bookmark) ==
    [title |-> form.title, content |-> form.content, section |-> form.section,
     tags |-> form.tags, refs |-> form.refs, bookmark |-> bookmark]

CreateNote ==
    LET id == NextId(notes) IN
    /\ id <= MaxNote
    /\ \E form \in Form :
          /\ Accepted(id, form)
          /\ notes' = Inserted(notes, id, Row(form, FALSE))
    /\ UNCHANGED <<tags, sections>>
    /\ Reindex({}, {id})

\* Variant: the document is not inserted again.
UpdateNoteUnindexed(n) ==
    /\ n \in Rows(notes)
    /\ \E form \in Form :
          /\ Accepted(n, form)
          /\ notes' = [notes EXCEPT ![n] = Row(form, @.bookmark)]
    /\ UNCHANGED <<tags, sections>>
    /\ Reindex({n}, {})

UpdateNote(n) ==
    /\ n \in Rows(notes)
    /\ \E form \in Form :
          /\ Accepted(n, form)
          /\ notes' = [notes EXCEPT ![n] = Row(form, @.bookmark)]
    /\ UNCHANGED <<tags, sections>>
    /\ Reindex({n}, {n})

\* Variant: references to the note stay.
DeleteNoteOnly(n) ==
    /\ n \in Rows(notes)
    /\ notes' = Removed(notes, n)
    /\ UNCHANGED <<tags, sections>>
    /\ Reindex({n}, {})

\* References from and to the note go with it.
DeleteNote(n) ==
    /\ n \in Rows(notes)
    /\ notes' = [i \in Rows(notes) \ {n} |-> [notes[i] EXCEPT !.refs = @ \ {n}]]
    /\ UNCHANGED <<tags, sections>>
    /\ Reindex({n}, {})

SetNoteBookmark(n) ==
    /\ n \in Rows(notes)
    /\ \E b \in BOOLEAN : notes' = [notes EXCEPT ![n].bookmark = b]
    /\ UNCHANGED <<tags, sections, index, totals>>

-----------------------------------------------------------------------------
(* Tags.                                                                     *)

CreateTag ==
    LET id == NextId(tags) IN
    /\ id <= MaxTag
    /\ \E name \in TagName : Free(tags, id, name) /\ tags' = Inserted(tags, id, name)
    /\ UNCHANGED <<notes, sections, index, totals>>

\* Variant: the documents are not inserted again.
UpdateTagUnindexed(t) ==
    /\ t \in Rows(tags)
    /\ \E name \in TagName : Free(tags, t, name) /\ tags' = [tags EXCEPT ![t] = name]
    /\ UNCHANGED <<notes, sections>>
    /\ Reindex(Tagged(notes, t), {})

UpdateTag(t) ==
    /\ t \in Rows(tags)
    /\ \E name \in TagName : Free(tags, t, name) /\ tags' = [tags EXCEPT ![t] = name]
    /\ UNCHANGED <<notes, sections>>
    /\ Reindex(Tagged(notes, t), Tagged(notes, t))

\* The notes to insert again are looked for once the tag has gone from notes_tags.
DeleteTag(t) ==
    /\ t \in Rows(tags)
    /\ tags' = Removed(tags, t)
    /\ notes' = [n \in Rows(notes) |-> [notes[n] EXCEPT !.tags = @ \ {t}]]
    /\ UNCHANGED sections
    /\ Reindex(Tagged(notes, t), Tagged(notes', t))

-----------------------------------------------------------------------------
(* Sections.                                                                 *)

CreateSection ==
    LET id == NextId(sections) IN
    /\ id <= MaxSection
    /\ \E name \in SectionName :
          Free(sections, id, name) /\ sections' = Inserted(sections, id, name)
    /\ UNCHANGED <<notes, tags, index, totals>>

UpdateSection(s) ==
    /\ s \in Rows(sections)
    /\ \E name \in SectionName :
          Free(sections, s, name) /\ sections' = [sections EXCEPT ![s] = name]
    /\ UNCHANGED <<notes, tags, index, totals>>

\* ON DELETE RESTRICT.
DeleteSection(s) ==
    /\ s \in Rows(sections)
    /\ \A n \in Rows(notes) : notes[n].section # s
    /\ sections' = Removed(sections, s)
    /\ UNCHANGED <<notes, tags, index, totals>>

-----------------------------------------------------------------------------
\* The database after Bootstrap.
Init ==
    /\ notes = [n \in {} |-> {}]
    /\ tags = [t \in {} |-> {}]
    /\ sections = [s \in {1} |-> Inbox]
    /\ index = [n \in NoteId |-> {}]
    /\ totals = [col \in Column |-> 0]

Next ==
    \/ CreateNote
    \/ \E n \in NoteId : UpdateNote(n) \/ DeleteNote(n) \/ SetNoteBookmark(n)
    \/ CreateTag
    \/ \E t \in TagId : UpdateTag(t) \/ DeleteTag(t)
    \/ CreateSection
    \/ \E s \in SectionId : UpdateSection(s) \/ DeleteSection(s)

Spec == Init /\ [][Next]_vars

-----------------------------------------------------------------------------
Term == ({"title"} \X Title) \cup ({"content"} \X Content) \cup ({"tags_txt"} \X TagName)

Note ==
    [title : Title, content : Content \cup {Empty}, section : SectionId,
     tags : SUBSET TagId, refs : SUBSET NoteId, bookmark : BOOLEAN]

TablesOK ==
    /\ Rows(notes) \subseteq NoteId /\ \A n \in Rows(notes) : notes[n] \in Note
    /\ Rows(tags) \subseteq TagId /\ \A t \in Rows(tags) : tags[t] \in TagName
    /\ Rows(sections) \subseteq SectionId /\ \A s \in Rows(sections) : sections[s] \in SectionName

\* The tables and the index keep their types; no count falls below zero.
TypeOK ==
    /\ TablesOK
    /\ index \in [NoteId -> SUBSET Term]
    /\ totals \in [Column -> Nat]

\* Deleting a note, a tag or a section, in any order and with ids given again,
\* leaves no note that refers to something that is gone.
ReferencesResolve ==
    \A n \in Rows(notes) :
        /\ notes[n].section \in Rows(sections)
        /\ notes[n].tags \subseteq Rows(tags)
        /\ notes[n].refs \subseteq Rows(notes)

\* The index holds the present document of a note or nothing at all: no search
\* finds a note by words it no longer has, or a new note by those of a deleted
\* one whose id it was given.  That is so even after a tag in use was deleted.
WholeOrNothing == \A n \in NoteId : index[n] \in {{}, View[n]}

\* The counts of the index never exceed what it stores.
CountsAtMostStored == \A col \in Column : totals[col] <= Words(index, NoteId, col)

\* The index is the view and counts what it stores.
IndexIsView ==
    /\ index = View
    /\ \A col \in Column : totals[col] = Words(View, NoteId, col)

\* Only the deletion of a tag that notes carry takes the index out of step.
KeptInStep ==
    [][ IndexIsView =>
            IndexIsView' \/ \E t \in Rows(tags) \ Rows(tags') : Tagged(notes, t) # {} ]_vars

\* A note leaves the index only with its row or by the deletion of a tag.
LostOnlyByTagDeletion ==
    [][ \A n \in Rows(notes) \cap Rows(notes') :
            index[n] # {} /\ index'[n] = {} => Rows(tags') # Rows(tags) ]_vars

-----------------------------------------------------------------------------
(* What the tests say of search.                                             *)

\* Every note is found by every word of it.
SearchFindsNotes ==
    \A n \in Rows(notes) : \A term \in View[n] : n \in SearchNotes(term)
=============================================================================
