------------------------------ MODULE NoteForms ------------------------------
(***************************************************************************)
(* A note form between the browser and the tables: the handlers of         *)
(* web/handlers/note.go and tag.go that answer one tab of the browser,     *)
(* while other tabs write to the same notes database.                      *)
(*                                                                         *)
(* A handler reads with several statements, each on its own, renders, and  *)
(* forgets.  The form comes back at any later time; it is checked with     *)
(* several reads again, and then written in one transaction.  Between any  *)
(* two of these steps others may write, a handler or a form of theirs for  *)
(* each transaction of NotesStore.  The transactions are those of          *)
(* NotesStore, index included.                                             *)
(***************************************************************************)
EXTENDS Integers, FiniteSets

CONSTANTS
    Title, Content, TagName, SectionName, Inbox, Empty, MaxNote, MaxTag, MaxSection,
    Unfit,               \* a title or a name that is blank or too long
    MaxSent,             \* bound on the forms the tab sends
    MaxOthers            \* bound on the writes of other tabs

ASSUME BoundAssumption == MaxNote \in Nat /\ MaxTag \in Nat /\ MaxSection \in Nat \ {0}
ASSUME InboxAssumption == Inbox \in SectionName
ASSUME UnfitAssumption == Unfit \notin Title \cup TagName
ASSUME SentAssumption == MaxSent \in Nat /\ MaxOthers \in Nat

VARIABLES
    notes, tags, sections, index, totals,   \* see NotesStore
    page,                \* what the tab shows
    request,             \* the handler that serves the tab
    answer,              \* the last answer the tab got
    sent, others,        \* how many forms the tab has sent, others have written
    quiet, still, lost   \* history: see OthersWrite

Store == INSTANCE NotesStore

store == <<notes, tags, sections, index, totals>>
history == <<sent, others, quiet, still, lost>>
vars == <<store, page, request, answer, history>>

Rows(table) == DOMAIN table
NoSection == 0           \* the option without a section
NewNote == 0             \* the id of a note that is not stored yet

Blank == [kind |-> "none"]
Idle == [op |-> "none"]

-----------------------------------------------------------------------------
(* What single statements read.                                              *)

FindNoteByID(n) ==
    [id |-> n, title |-> notes[n].title, content |-> notes[n].content,
     section |-> notes[n].section, tags |-> notes[n].tags, refs |-> notes[n].refs,
     twice |-> {}]

NoteExists(title) == {n \in Rows(notes) : notes[n].title = title}
QueryTags(ids) == ids \cap Rows(tags)
FindTagByName(name) == {t \in Rows(tags) : tags[t] = name}

-----------------------------------------------------------------------------
(* Pages.                                                                    *)

\* What the template makes of a form: only a listed section is selected, only
\* listed tags are checked, and the references are those handed to the template.
\* double: the tags that have more than one checkbox on the page, see TagPost.
Shown(form, refs, tagList, sectionList, again) ==
    [kind |-> "note",
     form |-> [form EXCEPT !.section = IF @ \in sectionList THEN @ ELSE NoSection,
                           !.tags = @ \cap tagList,
                           !.refs = refs,
                           !.twice = {}],
     tags |-> tagList, double |-> {}, sections |-> sectionList,
     again |-> again]

\* An answer ends the request; Internal Server Error takes the place of the form.
Answer(status, shown) ==
    /\ answer' = status
    /\ page' = shown
    /\ request' = Idle
    /\ still' = TRUE
    /\ quiet' = (quiet \/ shown = Blank)
    /\ lost' = (lost /\ shown # Blank)
    /\ UNCHANGED <<sent, others>>

Begin(op, step, form) ==
    /\ request' = [op |-> op, step |-> step, form |-> form, faults |-> {}, tags |-> {}, sections |-> {}]
    /\ answer' = "none"

At(op, step) == request.op = op /\ request.step = step

-----------------------------------------------------------------------------
(* Asking for a page.                                                        *)

\* The title is blank; the first section is the default, whether it exists or not.
NoteNewGet ==
    /\ request = Idle
    /\ Begin("get", "sections",
             [id |-> NewNote, title |-> Unfit, content |-> Empty, section |-> 1,
              tags |-> {}, refs |-> {}, twice |-> {}])
    /\ page' = Blank
    /\ quiet' = TRUE /\ lost' = FALSE
    /\ UNCHANGED <<store, sent, others, still>>

\* FindNoteByID is the first read of the edit page.
NoteEditGet(n) ==
    /\ request = Idle
    /\ UNCHANGED store
    /\ IF n \in Rows(notes)
       THEN /\ Begin("get", "sections", FindNoteByID(n))
            /\ page' = Blank
            /\ quiet' = TRUE /\ lost' = FALSE
            /\ UNCHANGED <<sent, others, still>>
       ELSE Answer("not found", Blank)

ListSectionsForPage ==
    /\ At("get", "sections")
    /\ request' = [request EXCEPT !.step = "tags", !.sections = Rows(sections)]
    /\ UNCHANGED <<store, page, answer, history>>

\* Variant: the template gets no references.
RenderPageWithoutReferences ==
    /\ At("get", "tags")
    /\ Answer("page", Shown(request.form, {}, Rows(tags), request.sections, FALSE))
    /\ UNCHANGED store

ListTagsAndRender ==
    /\ At("get", "tags")
    /\ Answer("page",
              Shown(request.form, request.form.refs, Rows(tags), request.sections, FALSE))
    /\ UNCHANGED store

-----------------------------------------------------------------------------
(* Sending the form.  The user picks among what the page offers; references  *)
(* are added from the results of a search, which may be selected twice.  The *)
(* lists of the form may so repeat an id, and `twice' says which of them do: *)
(* of the tags when several checkboxes of one id are checked.                *)

Submit ==
    /\ request = Idle
    /\ page.kind = "note"
    /\ sent < MaxSent /\ sent' = sent + 1
    /\ \E title \in Title \cup {Unfit}, content \in Content \cup {Empty},
          section \in page.sections \cup {NoSection}, some \in SUBSET page.tags,
          refs \in SUBSET (page.form.refs \cup Rows(notes)), twice \in SUBSET {"tags", "refs"} :
          /\ "tags" \in twice => some \cap page.double # {}
          /\ "refs" \in twice => refs \cap Rows(notes) # {}
          /\ Begin("save", IF page.form.id = NewNote THEN "title" ELSE "id",
                   [id |-> page.form.id, title |-> title, content |-> content,
                    section |-> section, tags |-> some, refs |-> refs, twice |-> twice])
    /\ still' = TRUE
    /\ UNCHANGED <<store, page, others, quiet, lost>>

\* validateNoteForm, one read after the other.  A note that is gone is reported
\* as an error and not as a fault of the form.
CheckId ==
    /\ At("save", "id")
    /\ IF request.form.id \in Rows(notes)
       THEN /\ request' = [request EXCEPT !.step = "title"]
            /\ UNCHANGED <<page, answer, history>>
       ELSE Answer("error", Blank)
    /\ UNCHANGED store

\* Two wrong ways: the title is only looked for in the table, and a note is in
\* its own way.
CheckTitleTaken ==
    /\ At("save", "title")
    /\ request' = [request EXCEPT !.step = "section",
                      !.faults = IF NoteExists(request.form.title) \ {request.form.id} # {}
                                 THEN @ \cup {"title"} ELSE @]
    /\ UNCHANGED <<store, page, answer, history>>

CheckTitleOfAll ==
    /\ At("save", "title")
    /\ request' = [request EXCEPT !.step = "section",
                      !.faults = IF \/ request.form.title = Unfit
                                    \/ NoteExists(request.form.title) # {}
                                 THEN @ \cup {"title"} ELSE @]
    /\ UNCHANGED <<store, page, answer, history>>

CheckTitle ==
    /\ At("save", "title")
    /\ request' = [request EXCEPT !.step = "section",
                      !.faults = IF \/ request.form.title = Unfit
                                    \/ NoteExists(request.form.title) \ {request.form.id} # {}
                                 THEN @ \cup {"title"} ELSE @]
    /\ UNCHANGED <<store, page, answer, history>>

\* Where the checks lead: to the transaction, or back to the form.
AfterChecks(faults) == IF faults = {} THEN "write" ELSE "list tags"

CheckSection ==
    LET faults == request.faults \cup
                      (IF request.form.section \in Rows(sections) THEN {} ELSE {"section"}) IN
    /\ At("save", "section")
    /\ request' = [request EXCEPT !.faults = faults,
                      !.step = IF request.form.tags # {} THEN "tags" ELSE AfterChecks(faults)]
    /\ UNCHANGED <<store, page, answer, history>>

\* An id that is there twice is found, and no fault.
CheckTags ==
    LET faults == request.faults \cup
                      (IF QueryTags(request.form.tags) = request.form.tags THEN {} ELSE {"tags"}) IN
    /\ At("save", "tags")
    /\ request' = [request EXCEPT !.faults = faults, !.step = AfterChecks(faults)]
    /\ UNCHANGED <<store, page, answer, history>>

\* The form again, with what it is wrong about, and without its references.
ListTagsForForm ==
    /\ At("save", "list tags")
    /\ request' = [request EXCEPT !.step = "list sections", !.tags = Rows(tags)]
    /\ UNCHANGED <<store, page, answer, history>>

ListSectionsAndRender ==
    /\ At("save", "list sections")
    /\ Answer("rejected", Shown(request.form, {}, request.tags, Rows(sections), TRUE))
    /\ UNCHANGED store

-----------------------------------------------------------------------------
(* The transactions.                                                         *)

\* What the constraints let in; a tag or a reference that is there twice is a
\* primary key twice, and nothing has looked for that.
CanCreate(form) ==
    /\ form.twice = {}
    /\ Store!Accepted(Store!NextId(notes), form)

\* An UPDATE of a row that is gone changes none and succeeds, unless the tags or
\* the references that follow miss their note.
CanUpdate(form) ==
    IF form.id \in Rows(notes)
    THEN form.twice = {} /\ Store!Accepted(form.id, form) /\ Store!Trusts({form.id})
    ELSE form.tags = {} /\ form.refs = {}

NotePost ==
    LET form == request.form IN
    /\ At("save", "write")
    /\ form.id = NewNote
    /\ IF CanCreate(form)
       THEN /\ notes' = Store!Inserted(notes, Store!NextId(notes), Store!Row(form, FALSE))
            /\ Store!CreateNote
            /\ Answer("saved", Blank)
       ELSE Answer("error", Blank) /\ UNCHANGED store

\* Variant: the tags of the form are left out.
NotePutWithoutTags ==
    LET form == request.form IN
    /\ At("save", "write")
    /\ form.id # NewNote
    /\ IF CanUpdate(form)
       THEN /\ IF form.id \in Rows(notes)
               THEN /\ notes' = [notes EXCEPT ![form.id] =
                                    Store!Row([form EXCEPT !.tags = {}], @.bookmark)]
                    /\ Store!UpdateNote(form.id)
               ELSE UNCHANGED store
            /\ Answer("saved", Blank)
       ELSE Answer("error", Blank) /\ UNCHANGED store

NotePut ==
    LET form == request.form IN
    /\ At("save", "write")
    /\ form.id # NewNote
    /\ IF CanUpdate(form)
       THEN /\ IF form.id \in Rows(notes)
               THEN /\ notes' = [notes EXCEPT ![form.id] = Store!Row(form, @.bookmark)]
                    /\ Store!UpdateNote(form.id)
               ELSE UNCHANGED store
            /\ Answer("saved", Blank)
       ELSE Answer("error", Blank) /\ UNCHANGED store

-----------------------------------------------------------------------------
(* Creating a tag from the note page, which stays whatever the answer is.    *)

SubmitTag ==
    /\ request = Idle
    /\ page.kind = "note"
    /\ sent < MaxSent /\ sent' = sent + 1
    /\ \E name \in TagName \cup {Unfit} :
          request' = [op |-> "tag", step |-> "check", name |-> name]
    /\ answer' = "none"
    /\ still' = TRUE
    /\ UNCHANGED <<store, page, others, quiet, lost>>

CheckTag ==
    /\ At("tag", "check")
    /\ IF request.name = Unfit \/ FindTagByName(request.name) # {}
       THEN Answer("rejected", page)
       ELSE /\ request' = [request EXCEPT !.step = "write"]
            /\ UNCHANGED <<page, answer, history>>
    /\ UNCHANGED store

\* A checkbox for the new tag is appended to those of the page, already checked.
\* One that is there for the same id, of a tag deleted since, stays.
TagPost ==
    LET id == Store!NextId(tags) IN
    /\ At("tag", "write")
    /\ IF Store!Free(tags, id, request.name)
       THEN /\ tags' = Store!Inserted(tags, id, request.name)
            /\ Store!CreateTag
            /\ Answer("saved", [page EXCEPT !.tags = @ \cup {id},
                                            !.double = @ \cup (page.tags \cap {id})])
       ELSE Answer("error", page) /\ UNCHANGED store

-----------------------------------------------------------------------------
(* The rest of the world.                                                    *)

\* The user leaves the page, or the handler fails for a reason of its own; a
\* handler whose request is cancelled before its transaction writes nothing.
Leave ==
    /\ page # Blank \/ request # Idle
    /\ Answer("none", Blank)
    /\ UNCHANGED store

\* Handlers of other tabs that write without a form.
NoteDelete(n) == Store!DeleteNote(n)
NoteBookmarkPutDelete(n) == Store!SetNoteBookmark(n)
TagDelete(t) == Store!DeleteTag(t)
SectionPost == Store!CreateSection
SectionPut(s) == Store!UpdateSection(s)
SectionDelete(s) == Store!DeleteSection(s)

\* Forms of other tabs.
OthersForm ==
    \/ Store!CreateNote \/ Store!CreateTag
    \/ \E n \in Store!NoteId : Store!UpdateNote(n)
    \/ \E t \in Store!TagId : Store!UpdateTag(t)

\* The note that the tab is about: of the page that it shows or is going to show.
OpenId ==
    IF page # Blank THEN page.form.id
    ELSE IF request # Idle THEN request.form.id ELSE NewNote

\* quiet: nobody else has written since the tab asked for its page; still: since
\* it sent its form; lost: the note of the page has been deleted.
OthersWrite ==
    /\ others < MaxOthers
    /\ others' = others + 1
    /\ \/ OthersForm
       \/ \E n \in Store!NoteId : NoteDelete(n) \/ NoteBookmarkPutDelete(n)
       \/ \E t \in Store!TagId : TagDelete(t)
       \/ SectionPost
       \/ \E s \in Store!SectionId : SectionPut(s) \/ SectionDelete(s)
    /\ quiet' = (page = Blank /\ request = Idle)
    /\ still' = (request = Idle)
    /\ lost' = (lost \/ OpenId \in Rows(notes) \ Rows(notes'))
    /\ UNCHANGED <<page, request, answer, sent>>

-----------------------------------------------------------------------------
Init ==
    /\ Store!Init
    /\ page = Blank /\ request = Idle /\ answer = "none"
    /\ sent = 0 /\ others = 0 /\ quiet = TRUE /\ still = TRUE /\ lost = FALSE

Next ==
    \/ NoteNewGet \/ \E n \in Store!NoteId : NoteEditGet(n)
    \/ ListSectionsForPage \/ ListTagsAndRender
    \/ Submit
    \/ CheckId \/ CheckTitle \/ CheckSection \/ CheckTags
    \/ ListTagsForForm \/ ListSectionsAndRender
    \/ NotePost \/ NotePut
    \/ SubmitTag \/ CheckTag \/ TagPost
    \/ Leave \/ OthersWrite

Spec == Init /\ [][Next]_vars

-----------------------------------------------------------------------------
Form ==
    [id : {NewNote} \cup Store!NoteId, title : Title \cup {Unfit}, content : Content \cup {Empty},
     section : {NoSection} \cup Store!SectionId, tags : SUBSET Store!TagId,
     refs : SUBSET Store!NoteId, twice : SUBSET {"tags", "refs"}]

Page ==
    [kind : {"note"}, form : Form, tags : SUBSET Store!TagId, double : SUBSET Store!TagId,
     sections : SUBSET Store!SectionId, again : BOOLEAN]

Request ==
    [op : {"get", "save"}, form : Form, faults : SUBSET {"title", "section", "tags"},
     step : {"id", "title", "section", "sections", "tags", "write", "list tags", "list sections"},
     tags : SUBSET Store!TagId, sections : SUBSET Store!SectionId]
        \cup [op : {"tag"}, step : {"check", "write"}, name : TagName \cup {Unfit}]

\* Tables, pages and requests keep their types; what reaches a transaction has a
\* fit title or name.
TypeOK ==
    /\ Store!TypeOK
    /\ page \in {Blank} \cup Page
    /\ request \in {Idle} \cup Request
    /\ At("save", "write") => request.form.title # Unfit
    /\ At("tag", "write") => request.name # Unfit
    /\ answer \in {"none", "page", "saved", "rejected", "error", "not found"}
    /\ sent \in 0..MaxSent /\ others \in 0..MaxOthers
    /\ quiet \in BOOLEAN /\ still \in BOOLEAN /\ lost \in BOOLEAN

Ends(op, status) == request.op = op /\ request' = Idle /\ answer' = status

\* What the checks of a note form look for.
Conflicts(form) ==
    \/ ~Store!TitleFree(form.id, form.title)
    \/ form.section \notin Rows(sections)
    \/ ~(form.tags \subseteq Rows(tags))

NameTaken(name) == \E t \in Rows(tags) : tags[t] = name

\* validateNoteForm and validateTagForm, spread over many reads, foresee what the
\* constraints of the tables will say.  A note form that nobody has disturbed since
\* it was sent is rejected only when it cannot be stored, and a tag form in any
\* case.  A form that passed is stored unless somebody has written since, and so
\* that it cannot be stored any more.  The exceptions, for a note form: references
\* are never checked; nothing looks for an id that its lists repeat, which of a tag
\* they do only if somebody else has written since the page was asked for; its note
\* may have been deleted; and the index may be out of step with the note.
ChecksForesee ==
    [][ LET form == request.form IN
        /\ Ends("save", "rejected") /\ still => form.title = Unfit \/ Conflicts(form)
        /\ Ends("save", "error") =>
              \/ ~still /\ Conflicts(form)
              \/ "refs" \in form.twice \/ ~(form.refs \subseteq Rows(notes))
              \/ "tags" \in form.twice /\ ~quiet
              \/ lost
              \/ form.id # NewNote /\ ~Store!Trusts({form.id})
        /\ Ends("tag", "rejected") => request.name = Unfit \/ NameTaken(request.name)
        /\ Ends("tag", "error") => ~still /\ NameTaken(request.name) ]_vars

\* A save that is reported has happened: the note the page was opened for, or the
\* new one, has what the form says.  The exception is a note deleted while its
\* page was open: the save is then reported all the same when there is no row, and
\* goes to another note when the id was given again.
SavedIsStored ==
    [][ Ends("save", "saved") /\ ~lost =>
          LET form == request.form
              id == IF form.id = NewNote THEN Store!NextId(notes) ELSE form.id IN
          /\ id \in Rows(notes')
          /\ \E bookmark \in BOOLEAN : notes'[id] = Store!Row(form, bookmark) ]_vars

\* If nobody else writes between the request for the edit page and the save, the
\* save changes what the user changed on the page and nothing else.  A page that
\* came back after a rejected save is left out, because its references are gone.
SaveIsTheEdit ==
    [][ Ends("save", "saved") /\ quiet /\ request.form.id # NewNote /\ ~page.again =>
          LET n == request.form.id IN
          /\ notes'[n].bookmark = notes[n].bookmark
          /\ \A f \in {"title", "content", "section", "tags", "refs"} :
                request.form[f] = page.form[f] => notes'[n][f] = notes[n][f] ]_vars
=============================================================================
