-------------------------- MODULE NotesStoreProofs --------------------------
(***************************************************************************)
(* Proofs about NotesStore, for any titles, contents, names and bounds: no *)
(* reference dangles, the index never holds a wrong document, and what it  *)
(* counts is at most what it stores.                                       *)
(***************************************************************************)
EXTENDS NotesStore, WellFoundedInduction, FiniteSetTheorems, TLAPS

USE DEF Rows

\* The invariant: types, references, the index and its counts.
NotesInv ==
    /\ TablesOK
    /\ index \in [NoteId -> SUBSET Term]
    /\ totals \in [Column -> Nat]
    /\ ReferencesResolve
    /\ WholeOrNothing
    /\ CountsAtMostStored

-----------------------------------------------------------------------------
(* Tables.                                                                   *)

\* The id that a table gives next is a new one, and positive.
LEMMA NextIdIsNew ==
    ASSUME NEW table, NEW k \in Nat, Rows(table) \subseteq 1..k
    PROVE  NextId(table) \in Nat \ {0} /\ NextId(table) \notin Rows(table)
  <1>1. CASE Rows(table) = {}
    BY <1>1 DEF NextId
  <1>2. CASE Rows(table) # {}
    <2> DEFINE Below == {k - i : i \in Rows(table)}
    <2>1. Below \subseteq Nat /\ Below # {}
      BY <1>2
    <2>2. PICK b \in Below : \A c \in Below : ~(<<c, b>> \in OpToRel(<, Nat))
      BY <2>1, NatLessThanWellFounded, WFMin
    <2>3. \A c \in Below : ~(c < b)
      BY <2>1, <2>2 DEF OpToRel
    <2>4. \E x \in Rows(table) : \A y \in Rows(table) : x >= y
      BY <2>3
    <2>5. Max(Rows(table)) \in Rows(table) /\ \A y \in Rows(table) : Max(Rows(table)) >= y
      BY <2>4 DEF Max
    <2> QED BY <1>2, <2>5 DEF NextId
  <1> QED BY <1>1, <1>2

\* A note is shown alike when its columns and the names of its tags are the same.
LEMMA SameView ==
    ASSUME NEW n \in NoteId, n \in Rows(notes), n \in Rows(notes'),
           notes'[n].title = notes[n].title, notes'[n].content = notes[n].content,
           notes'[n].tags = notes[n].tags,
           \A t \in notes[n].tags : tags'[t] = tags[t]
    PROVE  View'[n] = View[n]
  BY DEF View, Document

\* A row that does not exist is not shown.
LEMMA NoRowNoView ==
    ASSUME NEW n \in NoteId
    PROVE  /\ n \notin Rows(notes) => View[n] = {}
           /\ n \notin Rows(notes') => View'[n] = {}
  BY DEF View

\* What the view shows has the type of the index.
LEMMA ViewTyped ==
    TablesOK /\ ReferencesResolve => \A n \in NoteId : View[n] \subseteq Term
  <1> SUFFICES ASSUME TablesOK, ReferencesResolve, NEW n \in NoteId
               PROVE  View[n] \subseteq Term
    OBVIOUS
  <1>1. CASE n \in Rows(notes)
    <2>1. notes[n] \in Note /\ notes[n].tags \subseteq Rows(tags)
      BY <1>1 DEF TablesOK, ReferencesResolve
    <2>2. /\ notes[n].title \in Title
          /\ notes[n].content \in Content \cup {Empty}
          /\ \A t \in notes[n].tags : tags[t] \in TagName
      BY <2>1 DEF TablesOK, Note
    <2>3. Document(notes[n]) \subseteq Term
      BY <2>2 DEF Document, Term
    <2> QED BY <1>1, <2>3 DEF View
  <1>2. CASE n \notin Rows(notes)
    BY <1>2 DEF View
  <1> QED BY <1>1, <1>2

-----------------------------------------------------------------------------
(* Counting.                                                                 *)

\* The terms that are counted, each with its note.
Entries(docs, some, col) == {p \in UNION {{n} \X docs[n] : n \in some} : p[2][1] = col}

\* A set of ids is finite.
LEMMA IdsFinite ==
    ASSUME NEW k \in Nat, NEW ids, ids \subseteq 1..k PROVE IsFiniteSet(ids)
  <1>1. IsFiniteSet(1..k)
    BY FS_Interval
  <1> QED BY <1>1, FS_Subset

LEMMA EntriesOf ==
    ASSUME NEW docs, NEW some, NEW col
    PROVE  /\ \A n \in some : \A w \in docs[n] : w[1] = col => <<n, w>> \in Entries(docs, some, col)
           /\ \A p \in Entries(docs, some, col) :
                 p[1] \in some /\ p[2] \in docs[p[1]] /\ p[2][1] = col /\ p = <<p[1], p[2]>>
  BY DEF Entries

\* Documents are finite.
Finite(docs) == \A n \in NoteId : IsFiniteSet(docs[n])

\* So are the entries of some of them.
LEMMA EntriesFinite ==
    ASSUME NEW docs, Finite(docs), NEW some, some \subseteq NoteId, NEW col
    PROVE  IsFiniteSet(Entries(docs, some, col))
  <1> DEFINE all == {{n} \X docs[n] : n \in some}
             f == [n \in some |-> {n} \X docs[n]]
  <1>1. IsFiniteSet(some)
    BY BoundAssumption, IdsFinite DEF NoteId
  <1>2. f \in Surjection(some, all)
    BY DEF Surjection
  <1>3. IsFiniteSet(all)
    <2> HIDE DEF f, all
    <2> QED BY <1>1, <1>2, FS_Surjection
  <1>4. \A s \in all : IsFiniteSet(s)
    <2> SUFFICES ASSUME NEW n \in some PROVE IsFiniteSet({n} \X docs[n])
      OBVIOUS
    <2>1. IsFiniteSet(docs[n]) /\ IsFiniteSet({n})
      BY FS_Singleton DEF Finite
    <2> QED BY <2>1, FS_Product
  <1>5. IsFiniteSet(UNION all)
    <2> HIDE DEF all
    <2> QED BY <1>3, <1>4, FS_UNION
  <1>6. Entries(docs, some, col) \in SUBSET UNION all
    BY DEF Entries
  <1> QED BY <1>5, <1>6, FS_Subset

LEMMA WordsType ==
    ASSUME NEW docs, Finite(docs), NEW some, some \subseteq NoteId, NEW col
    PROVE  Words(docs, some, col) \in Nat
  <1>1. Cardinality(Entries(docs, some, col)) \in Nat
    BY EntriesFinite, FS_CardinalityType
  <1> QED BY <1>1 DEF Words, Entries

\* The terms of some notes are at most those of others whose documents hold them.
LEMMA WordsWithin ==
    ASSUME NEW docs, Finite(docs), NEW some, some \subseteq NoteId,
           NEW more, Finite(more), NEW others, others \subseteq NoteId,
           \A n \in some : docs[n] # {} => n \in others /\ docs[n] \subseteq more[n],
           NEW col
    PROVE  Words(docs, some, col) <= Words(more, others, col)
  <1>1. Entries(docs, some, col) \in SUBSET Entries(more, others, col)
    <2> SUFFICES ASSUME NEW p \in Entries(docs, some, col)
                 PROVE  p \in Entries(more, others, col)
      OBVIOUS
    <2>1. p[1] \in some /\ p[2] \in docs[p[1]] /\ p[2][1] = col /\ p = <<p[1], p[2]>>
      BY EntriesOf
    <2>2. p[1] \in others /\ p[2] \in more[p[1]]
      BY <2>1
    <2> QED BY <2>1, <2>2, EntriesOf
  <1>2. IsFiniteSet(Entries(more, others, col))
    BY EntriesFinite
  <1> QED BY <1>1, <1>2, FS_Subset DEF Words, Entries

\* The terms of all notes are those of some and those of the others.
LEMMA WordsSplit ==
    ASSUME NEW docs, Finite(docs), NEW some, some \subseteq NoteId, NEW col
    PROVE  Words(docs, NoteId, col) = Words(docs, some, col) + Words(docs, NoteId \ some, col)
  <1> DEFINE S == Entries(docs, some, col)
             T == Entries(docs, NoteId \ some, col)
  <1>1. Entries(docs, NoteId, col) = S \cup T
    BY DEF Entries
  <1>2. S \cap T = {}
    BY EntriesOf
  <1>3. IsFiniteSet(S) /\ IsFiniteSet(T)
    BY EntriesFinite
  <1>4. Cardinality(S) \in Nat /\ Cardinality(T) \in Nat
    BY <1>3, FS_CardinalityType
  <1>5. Cardinality(S \cup T) = Cardinality(S) + Cardinality(T)
    <2> HIDE DEF S, T
    <2> QED BY <1>2, <1>3, <1>4, FS_Union, FS_EmptySet
  <1> QED BY <1>1, <1>5 DEF Words, Entries

-----------------------------------------------------------------------------
(* The index.                                                                *)

\* What a reindexing does to a note that the index holds rightly.
LEMMA ReindexedNote ==
    ASSUME NEW before, NEW after, WholeOrNothing, Reindex(before, after),
           \A n \in NoteId \ before : n \in after => View[n] = {},
           NEW n \in NoteId
    PROVE  index'[n] = IF n \in after THEN View'[n]
                       ELSE IF n \in before THEN {} ELSE index[n]
  <1>1. index[n] = {} \/ index[n] = View[n]
    BY DEF WholeOrNothing
  <1>2. index'[n] = (IF n \in before THEN index[n] \ View[n] ELSE index[n])
                        \cup (IF n \in after THEN View'[n] ELSE {})
    BY DEF Reindex
  <1>3. CASE n \in before
    <2>1. index[n] \ View[n] = {}
      BY <1>1
    <2> QED BY <1>2, <1>3, <2>1
  <1>4. CASE n \notin before
    BY <1>1, <1>2, <1>4
  <1> QED BY <1>3, <1>4

\* When the notes whose documents change are all deleted from the index, and
\* those inserted had no document or are among them, no wrong word stays: what
\* is deleted is just what is stored.
LEMMA ReindexWhole ==
    ASSUME NEW before, NEW after, WholeOrNothing, Reindex(before, after),
           \A n \in NoteId \ before : n \notin after => View'[n] = View[n],
           \A n \in NoteId \ before : n \in after => View[n] = {}
    PROVE  WholeOrNothing'
  <1> SUFFICES ASSUME NEW n \in NoteId PROVE index'[n] \in {{}, View'[n]}
    BY DEF WholeOrNothing
  <1>1. index[n] = {} \/ index[n] = View[n]
    BY DEF WholeOrNothing
  <1>2. index'[n] = IF n \in after THEN View'[n] ELSE IF n \in before THEN {} ELSE index[n]
    BY ReindexedNote
  <1> QED BY <1>1, <1>2

\* An index that is whole or nothing has its type, when it is a function.
LEMMA WholeTyped ==
    ASSUME WholeOrNothing', \A n \in NoteId : View'[n] \subseteq Term,
           index' = [n \in NoteId |-> index'[n]]
    PROVE  index' \in [NoteId -> SUBSET Term]
  BY DEF WholeOrNothing

LEMMA ViewTypedNext ==
    TablesOK' /\ ReferencesResolve' => \A n \in NoteId : View'[n] \subseteq Term
  <1>1. (TablesOK /\ ReferencesResolve => \A n \in NoteId : View[n] \subseteq Term)'
    BY ViewTyped, PTL
  <1> QED BY <1>1 DEF NoteId, Term

\* A note has finitely many terms.
LEMMA ViewFinite ==
    ASSUME TablesOK, ReferencesResolve PROVE Finite(View)
  <1> SUFFICES ASSUME NEW n \in NoteId PROVE IsFiniteSet(View[n])
    BY DEF Finite
  <1>1. CASE n \notin Rows(notes)
    BY <1>1, FS_EmptySet DEF View
  <1>2. CASE n \in Rows(notes)
    <2> DEFINE note == notes[n]
               names == {<<"tags_txt", tags[t]>> : t \in note.tags}
               f == [t \in note.tags |-> <<"tags_txt", tags[t]>>]
    <2>1. note.tags \subseteq 1..MaxTag
      BY <1>2 DEF TablesOK, ReferencesResolve, TagId
    <2>2. IsFiniteSet(note.tags)
      BY <2>1, BoundAssumption, IdsFinite
    <2>3. f \in Surjection(note.tags, names)
      BY DEF Surjection
    <2>4. IsFiniteSet(names)
      <3> HIDE DEF f, names, note
      <3> QED BY <2>2, <2>3, FS_Surjection
    <2>5. /\ IsFiniteSet({<<"title", note.title>>})
          /\ IsFiniteSet({<<"content", note.content>>})
      BY FS_Singleton
    <2>6. {<<"content", c>> : c \in {note.content} \ {Empty}}
              \in SUBSET {<<"content", note.content>>}
      OBVIOUS
    <2>7. IsFiniteSet({<<"content", c>> : c \in {note.content} \ {Empty}})
      BY <2>5, <2>6, FS_Subset
    <2>8. IsFiniteSet(Document(note))
      BY <2>4, <2>5, <2>7, FS_Union DEF Document
    <2> QED BY <1>2, <2>8 DEF View
  <1> QED BY <1>1, <1>2
LEMMA ViewFiniteNext ==
    ASSUME TablesOK', ReferencesResolve' PROVE Finite(View')
  <1>1. (TablesOK /\ ReferencesResolve => Finite(View))'
    BY ViewFinite, PTL
  <1> QED BY <1>1 DEF Finite, NoteId

\* What the index stores of a note is part of its document.
LEMMA IndexFinite ==
    ASSUME WholeOrNothing, Finite(View) PROVE Finite(index)
  <1>1. \A n \in NoteId : index[n] = {} \/ index[n] = View[n]
    BY DEF WholeOrNothing
  <1> QED BY <1>1, FS_EmptySet DEF Finite

LEMMA IndexFiniteNext ==
    ASSUME WholeOrNothing', Finite(View') PROVE Finite(index')
  <1>1. \A n \in NoteId : index'[n] = {} \/ index'[n] = View'[n]
    BY DEF WholeOrNothing, NoteId
  <1> QED BY <1>1, FS_EmptySet DEF Finite

\* The counts fall by what is told to be deleted, which is at least what was
\* stored, and rise by what is inserted.
LEMMA ReindexCounts ==
    ASSUME NEW before, before \subseteq NoteId, NEW after, after \subseteq NoteId,
           NotesInv, TablesOK', ReferencesResolve', WholeOrNothing', Reindex(before, after),
           \A n \in NoteId \ before : n \notin after => View'[n] = View[n],
           \A n \in NoteId \ before : n \in after => View[n] = {}
    PROVE  totals' \in [Column -> Nat] /\ CountsAtMostStored'
  <1>1. /\ Finite(View) /\ Finite(View') /\ Finite(index) /\ Finite(index')
    BY ViewFinite, ViewFiniteNext, IndexFinite, IndexFiniteNext DEF NotesInv
  <1>2. ASSUME NEW col \in Column
        PROVE  totals'[col] \in Nat /\ totals'[col] <= Words(index', NoteId, col)
    <2>1. /\ totals'[col] = totals[col] - Words(View, before, col) + Words(View', after, col)
          /\ totals[col] >= Words(View, before, col)
      BY DEF Reindex, Trusts
    <2>2. totals[col] <= Words(index, NoteId, col) /\ totals[col] \in Nat
      BY DEF NotesInv, CountsAtMostStored
    <2>3. Words(index, NoteId, col) = Words(index, before, col) + Words(index, NoteId \ before, col)
      BY <1>1, WordsSplit
    <2>4. Words(index', NoteId, col) =
             Words(index', after, col) + Words(index', NoteId \ after, col)
      BY <1>1, WordsSplit
    <2>5. Words(index, before, col) <= Words(View, before, col)
      <3>1. \A n \in before : index[n] # {} => n \in before /\ index[n] \subseteq View[n]
        BY DEF NotesInv, WholeOrNothing
      <3> QED BY <1>1, <3>1, WordsWithin
    <2>6. Words(View', after, col) <= Words(index', after, col)
      <3>1. \A n \in after : View'[n] # {} => n \in after /\ View'[n] \subseteq index'[n]
        BY ReindexedNote DEF NotesInv
      <3> QED BY <1>1, <3>1, WordsWithin
    <2>7. Words(index, NoteId \ before, col) <= Words(index', NoteId \ after, col)
      <3>1. ASSUME NEW n \in NoteId \ before, index[n] # {}
            PROVE  n \in NoteId \ after /\ index[n] \subseteq index'[n]
        <4>1. n \notin after
          BY <3>1 DEF NotesInv, WholeOrNothing
        <4> QED BY <4>1, ReindexedNote DEF NotesInv
      <3> QED BY <1>1, <3>1, WordsWithin
    <2>8. /\ Words(View, before, col) \in Nat /\ Words(View', after, col) \in Nat
          /\ Words(index, before, col) \in Nat /\ Words(index', after, col) \in Nat
          /\ Words(index, NoteId \ before, col) \in Nat
          /\ Words(index', NoteId \ after, col) \in Nat
      BY <1>1, WordsType
    <2> QED BY <2>1, <2>2, <2>3, <2>4, <2>5, <2>6, <2>7, <2>8
  <1>3. totals' = [col \in Column |-> totals'[col]]
    BY DEF Reindex
  <1> QED BY <1>2, <1>3 DEF CountsAtMostStored, Column, NoteId

\* Nothing that a reindexing is told to delete stays, and nothing of what it is
\* told to insert was there, so an index in step with the tables stays so.
LEMMA ReindexInStep ==
    ASSUME NEW before, before \subseteq NoteId, NEW after, after \subseteq NoteId,
           NotesInv, TablesOK', ReferencesResolve', Reindex(before, after),
           \A n \in NoteId \ before : n \notin after => View'[n] = View[n],
           \A n \in NoteId \ before : n \in after => View[n] = {},
           \A n \in before \ after : View'[n] = {},
           IndexIsView
    PROVE  IndexIsView'
  <1>1. Finite(View) /\ Finite(View')
    BY ViewFinite, ViewFiniteNext DEF NotesInv
  <1>2. index' = View'
    <2>1. \A n \in NoteId : index'[n] = View'[n]
      <3> SUFFICES ASSUME NEW n \in NoteId PROVE index'[n] = View'[n]
        OBVIOUS
      <3>1. index'[n] = IF n \in after THEN View'[n]
                        ELSE IF n \in before THEN {} ELSE index[n]
        BY ReindexedNote DEF NotesInv
      <3> QED BY <3>1 DEF IndexIsView
    <2>2. index' = [n \in NoteId |-> index'[n]] /\ View' = [n \in NoteId |-> View'[n]]
      BY DEF Reindex, View, NoteId
    <2> QED BY <2>1, <2>2
  <1>3. ASSUME NEW col \in Column PROVE totals'[col] = Words(View', NoteId, col)
    <2>1. totals'[col] = totals[col] - Words(View, before, col) + Words(View', after, col)
      BY DEF Reindex
    <2>2. totals[col] = Words(View, NoteId, col)
      BY DEF IndexIsView
    <2>3. Words(View, NoteId, col) = Words(View, before, col) + Words(View, NoteId \ before, col)
      BY <1>1, WordsSplit
    <2>4. Words(View', NoteId, col) = Words(View', after, col) + Words(View', NoteId \ after, col)
      BY <1>1, WordsSplit
    <2>5. Words(View, NoteId \ before, col) <= Words(View', NoteId \ after, col)
      <3>1. \A n \in NoteId \ before : View[n] # {} =>
               n \in NoteId \ after /\ View[n] \subseteq View'[n]
        OBVIOUS
      <3> QED BY <1>1, <3>1, WordsWithin
    <2>6. Words(View', NoteId \ after, col) <= Words(View, NoteId \ before, col)
      <3>1. \A n \in NoteId \ after : View'[n] # {} =>
               n \in NoteId \ before /\ View'[n] \subseteq View[n]
        OBVIOUS
      <3> QED BY <1>1, <3>1, WordsWithin
    <2>7. /\ Words(View, before, col) \in Nat /\ Words(View', after, col) \in Nat
          /\ Words(View, NoteId \ before, col) \in Nat
          /\ Words(View', NoteId \ after, col) \in Nat
      BY <1>1, WordsType
    <2> QED BY <2>1, <2>2, <2>3, <2>4, <2>5, <2>6, <2>7
  <1> QED BY <1>2, <1>3 DEF IndexIsView, Column, NoteId

-----------------------------------------------------------------------------
(* The steps.                                                                *)

\* What every step is shown to do, but for the deletion of a tag in use.
Kept == NotesInv' /\ (IndexIsView => IndexIsView')

\* A step that reindexes all the notes whose documents it changes keeps the
\* invariant, when it keeps the tables.
LEMMA ReindexingStep ==
    ASSUME NotesInv, TablesOK', ReferencesResolve',
           NEW before, before \subseteq NoteId, NEW after, after \subseteq NoteId,
           Reindex(before, after),
           \A n \in NoteId \ before : n \notin after => View'[n] = View[n],
           \A n \in NoteId \ before : n \in after => View[n] = {}
    PROVE  NotesInv'
  <1>1. WholeOrNothing'
    BY ReindexWhole DEF NotesInv
  <1>2. index' = [n \in NoteId |-> index'[n]]
    BY DEF Reindex
  <1>3. index' \in [NoteId -> SUBSET Term]
    BY <1>1, <1>2, ViewTypedNext, WholeTyped
  <1>4. totals' \in [Column -> Nat] /\ CountsAtMostStored'
    BY <1>1, ReindexCounts
  <1> QED BY <1>1, <1>3, <1>4 DEF NotesInv, Term, NoteId, Column

\* If besides it inserts all that it deleted and that still has a document, it
\* keeps the index in step.
LEMMA ReindexingKeeps ==
    ASSUME NotesInv, TablesOK', ReferencesResolve',
           NEW before, before \subseteq NoteId, NEW after, after \subseteq NoteId,
           Reindex(before, after),
           \A n \in NoteId \ before : n \notin after => View'[n] = View[n],
           \A n \in NoteId \ before : n \in after => View[n] = {},
           \A n \in before \ after : View'[n] = {}
    PROVE  Kept
  <1>1. NotesInv'
    BY ReindexingStep
  <1>2. ASSUME IndexIsView PROVE IndexIsView'
    BY <1>2, ReindexInStep
  <1> QED BY <1>1, <1>2 DEF Kept

\* A step that leaves the index and every document alone, likewise.
LEMMA SilentStep ==
    ASSUME NotesInv, TablesOK', ReferencesResolve', index' = index, totals' = totals,
           \A n \in NoteId : View'[n] = View[n]
    PROVE  Kept
  <1>1. NotesInv'
    BY DEF NotesInv, WholeOrNothing, CountsAtMostStored, Term, NoteId, Column, Words
  <1>2. View' = View
    BY DEF View, NoteId
  <1>3. IndexIsView => IndexIsView'
    BY <1>2 DEF IndexIsView, Column, NoteId, Words
  <1> QED BY <1>1, <1>3 DEF Kept

\* A row made of a form has its type.
LEMMA RowTyped ==
    ASSUME TablesOK, NEW form \in Form, NEW b \in BOOLEAN
    PROVE  /\ Row(form, b) \in Note
           /\ Row(form, b).title = form.title /\ Row(form, b).content = form.content
           /\ Row(form, b).section = form.section
           /\ Row(form, b).tags = form.tags /\ Row(form, b).refs = form.refs
  BY DEF Row, Form, Note, TablesOK

LEMMA CreateNoteStep == ASSUME NotesInv, CreateNote PROVE Kept
  <1> DEFINE id == NextId(notes)
  <1>1. PICK form \in Form : /\ Accepted(id, form)
                             /\ notes' = Inserted(notes, id, Row(form, FALSE))
    BY DEF CreateNote
  <1>2. id \in NoteId /\ id \notin Rows(notes)
    BY NextIdIsNew, BoundAssumption DEF CreateNote, NotesInv, TablesOK, NoteId
  <1>3. tags' = tags /\ sections' = sections /\ Reindex({}, {id})
    BY DEF CreateNote
  <1> HIDE DEF id
  <1>4. /\ Rows(notes') = Rows(notes) \cup {id} /\ notes'[id] = Row(form, FALSE)
        /\ \A n \in Rows(notes) : notes'[n] = notes[n]
    BY <1>1, <1>2 DEF Inserted
  <1>5. TablesOK'
    <2>1. Row(form, FALSE) \in Note
      BY RowTyped DEF NotesInv
    <2> QED BY <1>2, <1>3, <1>4, <2>1 DEF NotesInv, TablesOK, Note, NoteId, TagId, SectionId
  <1>6. ReferencesResolve'
    <2>1. /\ Row(form, FALSE).section = form.section
          /\ Row(form, FALSE).tags = form.tags /\ Row(form, FALSE).refs = form.refs
      BY RowTyped DEF NotesInv
    <2> QED BY <1>1, <1>3, <1>4, <2>1 DEF NotesInv, ReferencesResolve, Accepted
  <1>7. ASSUME NEW n \in NoteId, n # id PROVE View'[n] = View[n]
    <2>1. CASE n \in Rows(notes)
      BY <1>3, <1>4, <1>7, <2>1, SameView
    <2>2. CASE n \notin Rows(notes)
      BY <1>3, <1>4, <1>7, <2>2, NoRowNoView
    <2> QED BY <2>1, <2>2
  <1>8. View[id] = {}
    BY <1>2, NoRowNoView
  <1>9. /\ {} \subseteq NoteId /\ {id} \subseteq NoteId
        /\ \A n \in NoteId \ {} : n \notin {id} => View'[n] = View[n]
        /\ \A n \in NoteId \ {} : n \in {id} => View[n] = {}
        /\ \A n \in {} \ {id} : View'[n] = {}
    BY <1>2, <1>7, <1>8
  <1> QED BY <1>3, <1>5, <1>6, <1>9, ReindexingKeeps

LEMMA UpdateNoteStep ==
    ASSUME NotesInv, NEW n \in NoteId, UpdateNote(n) PROVE Kept
  <1>1. PICK form \in Form : /\ Accepted(n, form)
                             /\ notes' = [notes EXCEPT ![n] = Row(form, @.bookmark)]
    BY DEF UpdateNote
  <1>2. /\ n \in Rows(notes) /\ tags' = tags /\ sections' = sections
        /\ Reindex({n}, {n})
    BY DEF UpdateNote
  <1>3. /\ Rows(notes') = Rows(notes) /\ notes'[n] = Row(form, notes[n].bookmark)
        /\ \A m \in Rows(notes) \ {n} : notes'[m] = notes[m]
    BY <1>1, <1>2
  <1>4. TablesOK /\ notes[n].bookmark \in BOOLEAN
    BY <1>2 DEF NotesInv, TablesOK, Note
  <1>5. TablesOK'
    <2>1. Row(form, notes[n].bookmark) \in Note
      BY <1>4, RowTyped
    <2> QED BY <1>2, <1>3, <1>4, <2>1 DEF TablesOK, Note, NoteId, TagId, SectionId
  <1>6. ReferencesResolve'
    <2>1. \A bookmark \in BOOLEAN :
             /\ Row(form, bookmark).section = form.section
             /\ Row(form, bookmark).tags = form.tags /\ Row(form, bookmark).refs = form.refs
      BY <1>4, RowTyped
    <2> QED BY <1>1, <1>2, <1>3, <1>4, <2>1 DEF NotesInv, ReferencesResolve, Accepted
  <1>7. ASSUME NEW m \in NoteId \ {n} PROVE View'[m] = View[m]
    <2>1. CASE m \in Rows(notes)
      BY <1>2, <1>3, <2>1, SameView
    <2>2. CASE m \notin Rows(notes)
      BY <1>3, <2>2, NoRowNoView
    <2> QED BY <2>1, <2>2
  <1> QED BY <1>2, <1>5, <1>6, <1>7, ReindexingKeeps

LEMMA DeleteNoteStep ==
    ASSUME NotesInv, NEW n \in NoteId, DeleteNote(n) PROVE Kept
  <1>1. /\ n \in Rows(notes) /\ tags' = tags /\ sections' = sections
        /\ Reindex({n}, {})
    BY DEF DeleteNote
  <1>2. notes' = [i \in Rows(notes) \ {n} |-> [notes[i] EXCEPT !.refs = @ \ {n}]]
    BY DEF DeleteNote
  <1>3. ASSUME NEW m \in Rows(notes) \ {n}
        PROVE  /\ notes'[m] \in Note
               /\ notes'[m].title = notes[m].title /\ notes'[m].content = notes[m].content
               /\ notes'[m].section = notes[m].section /\ notes'[m].tags = notes[m].tags
               /\ notes'[m].refs = notes[m].refs \ {n}
    <2>1. notes[m] \in Note
      BY DEF NotesInv, TablesOK
    <2>2. notes'[m] = [notes[m] EXCEPT !.refs = @ \ {n}]
      BY <1>2
    <2> QED BY <2>1, <2>2 DEF Note
  <1>4. Rows(notes') = Rows(notes) \ {n}
    BY <1>2
  <1>5. TablesOK'
    BY <1>1, <1>3, <1>4 DEF NotesInv, TablesOK, Note, NoteId, TagId, SectionId
  <1>6. ReferencesResolve'
    BY <1>1, <1>3, <1>4 DEF NotesInv, ReferencesResolve
  <1>7. ASSUME NEW m \in NoteId \ {n} PROVE View'[m] = View[m]
    <2>1. CASE m \in Rows(notes)
      BY <1>1, <1>3, <1>4, <2>1, SameView
    <2>2. CASE m \notin Rows(notes)
      BY <1>4, <2>2, NoRowNoView
    <2> QED BY <2>1, <2>2
  <1>8. {n} \subseteq NoteId /\ {} \subseteq NoteId /\ View'[n] = {}
    BY <1>4, NoRowNoView
  <1> QED BY <1>1, <1>5, <1>6, <1>7, <1>8, ReindexingKeeps

LEMMA SetNoteBookmarkStep ==
    ASSUME NotesInv, NEW n \in NoteId, SetNoteBookmark(n) PROVE Kept
  <1>1. PICK b \in BOOLEAN : notes' = [notes EXCEPT ![n].bookmark = b]
    BY DEF SetNoteBookmark
  <1>2. tags' = tags /\ sections' = sections /\ index' = index /\ totals' = totals
    BY DEF SetNoteBookmark
  <1>3. Rows(notes') = Rows(notes)
    BY <1>1
  <1>4. ASSUME NEW m \in Rows(notes)
        PROVE  /\ notes'[m] \in Note
               /\ notes'[m].title = notes[m].title /\ notes'[m].content = notes[m].content
               /\ notes'[m].section = notes[m].section /\ notes'[m].tags = notes[m].tags
               /\ notes'[m].refs = notes[m].refs
    <2>1. notes[m] \in Note
      BY DEF NotesInv, TablesOK
    <2>2. notes'[m] = IF m = n THEN [notes[m] EXCEPT !.bookmark = b] ELSE notes[m]
      BY <1>1
    <2> QED BY <2>1, <2>2 DEF Note
  <1>5. TablesOK'
    BY <1>2, <1>3, <1>4 DEF NotesInv, TablesOK, Note, NoteId, TagId, SectionId
  <1>6. ReferencesResolve'
    BY <1>2, <1>3, <1>4 DEF NotesInv, ReferencesResolve
  <1>7. ASSUME NEW m \in NoteId PROVE View'[m] = View[m]
    <2>1. CASE m \in Rows(notes)
      BY <1>2, <1>3, <1>4, <2>1, SameView
    <2>2. CASE m \notin Rows(notes)
      BY <1>3, <2>2, NoRowNoView
    <2> QED BY <2>1, <2>2
  <1> QED BY <1>2, <1>5, <1>6, <1>7, SilentStep

LEMMA CreateTagStep == ASSUME NotesInv, CreateTag PROVE Kept
  <1> DEFINE id == NextId(tags)
  <1>1. PICK name \in TagName : tags' = Inserted(tags, id, name)
    BY DEF CreateTag
  <1>2. id \in TagId /\ id \notin Rows(tags)
    BY NextIdIsNew, BoundAssumption DEF CreateTag, NotesInv, TablesOK, TagId
  <1>3. notes' = notes /\ sections' = sections /\ index' = index /\ totals' = totals
    BY DEF CreateTag
  <1> HIDE DEF id
  <1>4. /\ Rows(tags') = Rows(tags) \cup {id} /\ tags'[id] = name
        /\ \A t \in Rows(tags) : tags'[t] = tags[t]
    BY <1>1, <1>2 DEF Inserted
  <1>5. TablesOK'
    BY <1>2, <1>3, <1>4 DEF NotesInv, TablesOK, Note, NoteId, TagId, SectionId
  <1>6. ReferencesResolve'
    BY <1>3, <1>4 DEF NotesInv, ReferencesResolve
  <1>7. ASSUME NEW n \in NoteId PROVE View'[n] = View[n]
    <2>1. CASE n \in Rows(notes)
      <3>1. \A t \in notes[n].tags : tags'[t] = tags[t]
        BY <1>4, <2>1 DEF NotesInv, ReferencesResolve
      <3> QED BY <1>3, <2>1, <3>1, SameView
    <2>2. CASE n \notin Rows(notes)
      BY <1>3, <2>2, NoRowNoView
    <2> QED BY <2>1, <2>2
  <1> QED BY <1>3, <1>5, <1>6, <1>7, SilentStep

LEMMA UpdateTagStep ==
    ASSUME NotesInv, NEW t \in TagId, UpdateTag(t) PROVE Kept
  <1>1. PICK name \in TagName : tags' = [tags EXCEPT ![t] = name]
    BY DEF UpdateTag
  <1>2. /\ notes' = notes /\ sections' = sections
        /\ Reindex(Tagged(notes, t), Tagged(notes, t))
    BY DEF UpdateTag
  <1>3. /\ Rows(tags') = Rows(tags) /\ \A u \in Rows(tags) : tags'[u] \in TagName
        /\ \A u \in Rows(tags) \ {t} : tags'[u] = tags[u]
    BY <1>1 DEF NotesInv, TablesOK
  <1>4. TablesOK'
    BY <1>2, <1>3 DEF NotesInv, TablesOK, Note, NoteId, TagId, SectionId
  <1>5. ReferencesResolve'
    BY <1>2, <1>3 DEF NotesInv, ReferencesResolve
  <1>6. ASSUME NEW n \in NoteId, n \notin Tagged(notes, t) PROVE View'[n] = View[n]
    <2>1. CASE n \in Rows(notes)
      <3>1. \A u \in notes[n].tags : tags'[u] = tags[u]
        BY <1>3, <1>6, <2>1 DEF NotesInv, ReferencesResolve, Tagged
      <3> QED BY <1>2, <2>1, <3>1, SameView
    <2>2. CASE n \notin Rows(notes)
      BY <1>2, <2>2, NoRowNoView
    <2> QED BY <2>1, <2>2
  <1>7. Tagged(notes, t) \subseteq NoteId
    BY DEF Tagged, NotesInv, TablesOK
  <1> QED BY <1>2, <1>4, <1>5, <1>6, <1>7, ReindexingKeeps

LEMMA DeleteTagStep ==
    ASSUME NotesInv, NEW t \in TagId, DeleteTag(t)
    PROVE  NotesInv' /\ (Tagged(notes, t) = {} /\ IndexIsView => IndexIsView')
  <1>1. /\ tags' = Removed(tags, t) /\ sections' = sections
        /\ notes' = [n \in Rows(notes) |-> [notes[n] EXCEPT !.tags = @ \ {t}]]
        /\ Reindex(Tagged(notes, t), Tagged(notes', t))
    BY DEF DeleteTag
  <1>2. /\ Rows(tags') = Rows(tags) \ {t}
        /\ \A u \in Rows(tags) \ {t} : tags'[u] = tags[u]
    BY <1>1 DEF Removed
  <1>3. Rows(notes') = Rows(notes)
    BY <1>1
  <1>4. ASSUME NEW n \in Rows(notes)
        PROVE  /\ notes'[n] \in Note
               /\ notes'[n].title = notes[n].title /\ notes'[n].content = notes[n].content
               /\ notes'[n].section = notes[n].section /\ notes'[n].refs = notes[n].refs
               /\ notes'[n].tags = notes[n].tags \ {t}
    <2>1. notes[n] \in Note
      BY DEF NotesInv, TablesOK
    <2>2. notes'[n] = [notes[n] EXCEPT !.tags = @ \ {t}]
      BY <1>1
    <2> QED BY <2>1, <2>2 DEF Note
  <1>5. TablesOK'
    BY <1>1, <1>2, <1>3, <1>4 DEF NotesInv, TablesOK, Note, NoteId, TagId, SectionId
  <1>6. ReferencesResolve'
    <2> SUFFICES ASSUME NEW n \in Rows(notes)
                 PROVE  /\ notes'[n].section \in Rows(sections')
                        /\ notes'[n].tags \subseteq Rows(tags')
                        /\ notes'[n].refs \subseteq Rows(notes')
      BY <1>3 DEF ReferencesResolve
    <2>1. /\ notes[n].section \in Rows(sections) /\ notes[n].tags \subseteq Rows(tags)
          /\ notes[n].refs \subseteq Rows(notes)
      BY DEF NotesInv, ReferencesResolve
    <2> QED BY <1>1, <1>2, <1>3, <1>4, <2>1
  <1>7. Tagged(notes', t) = {}
    BY <1>3, <1>4 DEF Tagged
  <1>8. ASSUME NEW n \in NoteId, n \notin Tagged(notes, t) PROVE View'[n] = View[n]
    <2>1. CASE n \in Rows(notes)
      <3>1. t \notin notes[n].tags
        BY <1>8, <2>1 DEF Tagged
      <3>2. \A u \in notes[n].tags : tags'[u] = tags[u]
        BY <1>2, <2>1, <3>1 DEF NotesInv, ReferencesResolve
      <3> QED BY <1>3, <1>4, <2>1, <3>1, <3>2, SameView
    <2>2. CASE n \notin Rows(notes)
      BY <1>3, <2>2, NoRowNoView
    <2> QED BY <2>1, <2>2
  <1>9. Tagged(notes, t) \subseteq NoteId /\ Tagged(notes', t) \subseteq NoteId
    BY <1>7 DEF Tagged, NotesInv, TablesOK
  <1>10. NotesInv'
    BY <1>1, <1>5, <1>6, <1>7, <1>8, <1>9, ReindexingStep
  <1>11. ASSUME Tagged(notes, t) = {}, IndexIsView PROVE IndexIsView'
    <2>1. \A n \in Tagged(notes, t) \ Tagged(notes', t) : View'[n] = {}
      BY <1>11
    <2> QED BY <1>1, <1>5, <1>6, <1>7, <1>8, <1>9, <1>11, <2>1, ReindexInStep
  <1> QED BY <1>10, <1>11

\* Sections are not part of any document.
LEMMA SectionsStep ==
    ASSUME NotesInv, notes' = notes, tags' = tags, index' = index, totals' = totals,
           TablesOK', ReferencesResolve'
    PROVE  Kept
  <1>1. ASSUME NEW n \in NoteId PROVE View'[n] = View[n]
    <2>1. CASE n \in Rows(notes)
      BY <2>1, SameView
    <2>2. CASE n \notin Rows(notes)
      BY <2>2, NoRowNoView
    <2> QED BY <2>1, <2>2
  <1> QED BY <1>1, SilentStep

LEMMA CreateSectionStep == ASSUME NotesInv, CreateSection PROVE Kept
  <1> DEFINE id == NextId(sections)
  <1>1. PICK name \in SectionName : sections' = Inserted(sections, id, name)
    BY DEF CreateSection
  <1>2. id \in SectionId
    BY NextIdIsNew, BoundAssumption DEF CreateSection, NotesInv, TablesOK, SectionId
  <1>3. notes' = notes /\ tags' = tags /\ index' = index /\ totals' = totals
    BY DEF CreateSection
  <1> HIDE DEF id
  <1>4. TablesOK'
    BY <1>1, <1>2, <1>3
       DEF Inserted, NotesInv, TablesOK, Note, NoteId, TagId, SectionId
  <1>5. ReferencesResolve'
    BY <1>1, <1>3 DEF Inserted, NotesInv, ReferencesResolve
  <1> QED BY <1>3, <1>4, <1>5, SectionsStep

LEMMA UpdateSectionStep ==
    ASSUME NotesInv, NEW s \in SectionId, UpdateSection(s) PROVE Kept
  <1>1. PICK name \in SectionName : sections' = [sections EXCEPT ![s] = name]
    BY DEF UpdateSection
  <1>2. notes' = notes /\ tags' = tags /\ index' = index /\ totals' = totals
    BY DEF UpdateSection
  <1>3. TablesOK'
    BY <1>1, <1>2 DEF NotesInv, TablesOK, Note, NoteId, TagId, SectionId
  <1>4. ReferencesResolve'
    BY <1>1, <1>2 DEF NotesInv, ReferencesResolve
  <1> QED BY <1>2, <1>3, <1>4, SectionsStep

LEMMA DeleteSectionStep ==
    ASSUME NotesInv, NEW s \in SectionId, DeleteSection(s) PROVE Kept
  <1>1. /\ sections' = Removed(sections, s) /\ notes' = notes /\ tags' = tags
        /\ index' = index /\ totals' = totals
    BY DEF DeleteSection
  <1>2. \A n \in Rows(notes) : notes[n].section # s
    BY DEF DeleteSection
  <1>3. TablesOK'
    BY <1>1 DEF Removed, NotesInv, TablesOK, Note, NoteId, TagId, SectionId
  <1>4. ReferencesResolve'
    BY <1>1, <1>2 DEF Removed, NotesInv, ReferencesResolve
  <1> QED BY <1>1, <1>3, <1>4, SectionsStep

-----------------------------------------------------------------------------
(* The theorems.                                                             *)

LEMMA InitInv == Init => NotesInv
  <1> SUFFICES ASSUME Init PROVE NotesInv
    OBVIOUS
  <1>1. TablesOK
    BY BoundAssumption, InboxAssumption DEF Init, TablesOK, NoteId, TagId, SectionId
  <1>2. ReferencesResolve /\ WholeOrNothing
    BY DEF Init, ReferencesResolve, WholeOrNothing
  <1>3. index \in [NoteId -> SUBSET Term] /\ totals \in [Column -> Nat]
    BY DEF Init
  <1>4. CountsAtMostStored
    <2>1. Finite(index)
      BY FS_EmptySet DEF Init, Finite
    <2>2. \A col \in Column : totals[col] = 0 /\ Words(index, NoteId, col) \in Nat
      BY <2>1, WordsType DEF Init
    <2> QED BY <2>2 DEF CountsAtMostStored
  <1> QED BY <1>1, <1>2, <1>3, <1>4 DEF NotesInv

\* Each step keeps the invariant, and all but the deletion of a tag that notes
\* carry keep the index in step.
TagInUseDeleted == \E t \in Rows(tags) \ Rows(tags') : Tagged(notes, t) # {}

LEMMA NextKeeps ==
    NotesInv /\ [Next]_vars => NotesInv' /\ (IndexIsView => IndexIsView' \/ TagInUseDeleted)
  <1> SUFFICES ASSUME NotesInv, [Next]_vars
               PROVE  NotesInv' /\ (IndexIsView => IndexIsView' \/ TagInUseDeleted)
    OBVIOUS
  <1>1. CASE CreateNote
    BY <1>1, CreateNoteStep DEF Kept
  <1>2. CASE \E n \in NoteId : UpdateNote(n) \/ DeleteNote(n) \/ SetNoteBookmark(n)
    BY <1>2, UpdateNoteStep, DeleteNoteStep, SetNoteBookmarkStep DEF Kept
  <1>3. CASE CreateTag
    BY <1>3, CreateTagStep DEF Kept
  <1>4. ASSUME NEW t \in TagId, UpdateTag(t) PROVE Kept
    BY <1>4, UpdateTagStep
  <1>5. ASSUME NEW t \in TagId, DeleteTag(t)
        PROVE  NotesInv' /\ (IndexIsView => IndexIsView' \/ TagInUseDeleted)
    <2>1. t \in Rows(tags) \ Rows(tags')
      BY <1>5 DEF DeleteTag, Removed
    <2> QED BY <1>5, <2>1, DeleteTagStep DEF TagInUseDeleted
  <1>6. CASE CreateSection
    BY <1>6, CreateSectionStep DEF Kept
  <1>7. CASE \E s \in SectionId : UpdateSection(s) \/ DeleteSection(s)
    BY <1>7, UpdateSectionStep, DeleteSectionStep DEF Kept
  <1>8. CASE UNCHANGED vars
    <2>1. View' = View
      BY <1>8 DEF vars, View, Document, NoteId
    <2>2. NotesInv'
      BY <1>8, <2>1 DEF vars, NotesInv, TablesOK, ReferencesResolve, WholeOrNothing,
                        CountsAtMostStored, Words, Note, NoteId, TagId, SectionId, Term, Column
    <2>3. IndexIsView => IndexIsView'
      BY <1>8, <2>1 DEF vars, IndexIsView, Words, NoteId, Column
    <2> QED BY <2>2, <2>3
  <1> QED BY <1>1, <1>2, <1>3, <1>4, <1>5, <1>6, <1>7, <1>8 DEF Next, Kept

\* The tables, the index and its counts keep the invariant, whatever is written
\* in whatever order.
THEOREM NotesCorrect == Spec => []NotesInv
  <1>1. NotesInv /\ [Next]_vars => NotesInv'
    BY NextKeeps
  <1> QED BY <1>1, InitInv, PTL DEF Spec

\* The tables and the index have their types, and no count falls below zero,
\* which SQLite would take for a corrupt database.
THEOREM TypesCorrect == Spec => []TypeOK
  <1>1. NotesInv => TypeOK
    BY DEF NotesInv, TypeOK
  <1> QED BY <1>1, NotesCorrect, PTL

\* The index never holds a word that the note of the row does not have, also
\* after tags in use were deleted and ids were given again.
THEOREM WholeOrNothingCorrect == Spec => []WholeOrNothing
  <1>1. NotesInv => WholeOrNothing
    BY DEF NotesInv
  <1> QED BY <1>1, NotesCorrect, PTL

\* No count of the index exceeds what it stores: a tag deletion makes the counts
\* too low, and no sequence of writes makes them too high.
THEOREM CountsCorrect == Spec => []CountsAtMostStored
  <1>1. NotesInv => CountsAtMostStored
    BY DEF NotesInv
  <1> QED BY <1>1, NotesCorrect, PTL

\* No note refers to a section, a tag or a note that is gone.
THEOREM ReferencesCorrect == Spec => []ReferencesResolve
  <1>1. NotesInv => ReferencesResolve
    BY DEF NotesInv
  <1> QED BY <1>1, NotesCorrect, PTL

\* An index that is the view, counts included, stays so until a tag that notes
\* carry is deleted (KeptInStep): the index needs rebuilding for no other reason.
THEOREM KeptInStepCorrect == Spec => KeptInStep
  <1> DEFINE InStep == IndexIsView =>
                           IndexIsView' \/ \E t \in Rows(tags) \ Rows(tags') : Tagged(notes, t) # {}
  <1>1. NotesInv /\ [Next]_vars => InStep
    BY NextKeeps DEF TagInUseDeleted
  <1>2. Spec => [][InStep]_vars
    <2> HIDE DEF InStep
    <2> QED BY <1>1, NotesCorrect, PTL DEF Spec
  <1> QED BY <1>2, PTL DEF KeptInStep

\* What a reindexing leaves of a note that keeps its row.
LEMMA ReindexKeeps ==
    ASSUME NEW before, NEW after, Reindex(before, after), before \subseteq after,
           NEW n \in NoteId, n \in Rows(notes'), index[n] # {}
    PROVE  index'[n] # {}
  <1>1. View'[n] # {}
    BY DEF View, Document
  <1>2. index'[n] = (IF n \in before THEN index[n] \ View[n] ELSE index[n])
                       \cup (IF n \in after THEN View'[n] ELSE {})
    BY DEF Reindex
  <1> QED BY <1>1, <1>2

\* A note leaves the index only with its row or by the deletion of a tag
\* (LostOnlyByTagDeletion), so no other write has to repair the index.
THEOREM LostOnlyByTagDeletionCorrect == Spec => LostOnlyByTagDeletion
  <1> DEFINE Stays == \A n \in Rows(notes) \cap Rows(notes') :
                        index[n] # {} /\ index'[n] = {} => Rows(tags') # Rows(tags)
  <1>1. ASSUME NotesInv, [Next]_vars PROVE Stays
    <2> SUFFICES ASSUME NEW n \in Rows(notes) \cap Rows(notes'), index[n] # {},
                        Rows(tags') = Rows(tags)
                 PROVE  index'[n] # {}
      OBVIOUS
    <2>1. n \in NoteId
      BY <1>1 DEF NotesInv, TablesOK
    <2>2. CASE CreateNote
      BY <2>1, <2>2, ReindexKeeps DEF CreateNote
    <2>3. ASSUME NEW m \in NoteId, UpdateNote(m) PROVE index'[n] # {}
      BY <2>1, <2>3, ReindexKeeps DEF UpdateNote
    <2>4. ASSUME NEW m \in NoteId, DeleteNote(m) PROVE index'[n] # {}
      <3>1. n # m
        BY <2>4 DEF DeleteNote
      <3> QED BY <2>1, <2>4, <3>1 DEF DeleteNote, Reindex
    <2>5. ASSUME NEW t \in TagId, UpdateTag(t) PROVE index'[n] # {}
      <3>1. Reindex(Tagged(notes, t), Tagged(notes, t))
        BY <2>5 DEF UpdateTag
      <3> QED BY <2>1, <3>1, ReindexKeeps
    <2>6. ASSUME NEW t \in TagId, DeleteTag(t) PROVE FALSE
      BY <2>6 DEF DeleteTag, Removed
    <2>7. CASE UNCHANGED index
      BY <2>7
    <2>8. (\E m \in NoteId : SetNoteBookmark(m)) \/ CreateTag \/ CreateSection
              \/ (\E s \in SectionId : UpdateSection(s) \/ DeleteSection(s)) => UNCHANGED index
      BY DEF SetNoteBookmark, CreateTag, CreateSection, UpdateSection, DeleteSection
    <2>9. CASE UNCHANGED vars
      BY <2>7, <2>9 DEF vars
    <2> QED BY <1>1, <2>2, <2>3, <2>4, <2>5, <2>6, <2>7, <2>8, <2>9 DEF Next
  <1>2. NotesInv /\ [Next]_vars => Stays
    BY <1>1
  <1>3. Spec => [][Stays]_vars
    <2> HIDE DEF Stays
    <2> QED BY <1>2, NotesCorrect, PTL DEF Spec
  <1> QED BY <1>3, PTL DEF LostOnlyByTagDeletion
-----------------------------------------------------------------------------
(* What the tests say of search, and when it is so.                          *)

\* An index in step believes that it stores what it is told to delete.
LEMMA InStepTrusts ==
    ASSUME NotesInv, IndexIsView, NEW some, some \subseteq NoteId
    PROVE  Trusts(some)
  <1>1. Finite(View)
    BY ViewFinite DEF NotesInv
  <1> SUFFICES ASSUME NEW col \in Column PROVE totals[col] >= Words(View, some, col)
    BY DEF Trusts
  <1>2. Words(View, some, col) <= Words(View, NoteId, col)
    BY <1>1, WordsWithin
  <1>3. Words(View, some, col) \in Nat /\ Words(View, NoteId, col) \in Nat
    BY <1>1, WordsType
  <1> QED BY <1>2, <1>3 DEF IndexIsView

\* As long as no tag that notes carry is deleted, the index is the view, each
\* note is found by each of its words (SearchFindsNotes), and the index refuses
\* no write as corrupt: what the tests say of search holds up to such a deletion.
THEOREM SearchFindsNotesCorrect ==
    Spec /\ [][~TagInUseDeleted]_vars
        => [](SearchFindsNotes /\ \A some \in SUBSET NoteId : Trusts(some))
  <1> DEFINE InStep == NotesInv /\ IndexIsView
             Good == SearchFindsNotes /\ \A some \in SUBSET NoteId : Trusts(some)
  <1>1. Init => InStep
    <2> SUFFICES ASSUME Init PROVE InStep
      OBVIOUS
    <2>1. index = View
      BY DEF Init, View
    <2>2. \A col \in Column : Words(View, NoteId, col) = 0
      <3>1. \A col \in Column : Entries(View, NoteId, col) = {}
        BY DEF Init, View, Entries
      <3> QED BY <3>1, FS_EmptySet DEF Words, Entries
    <2>3. IndexIsView
      BY <2>1, <2>2 DEF Init, IndexIsView
    <2> QED BY <2>3, InitInv
  <1>2. InStep /\ [Next]_vars /\ [~TagInUseDeleted]_vars => InStep'
    <2> SUFFICES ASSUME InStep, [Next]_vars, [~TagInUseDeleted]_vars PROVE InStep'
      OBVIOUS
    <2>1. NotesInv' /\ (IndexIsView' \/ TagInUseDeleted)
      BY NextKeeps
    <2>2. CASE ~TagInUseDeleted
      BY <2>1, <2>2
    <2>3. CASE UNCHANGED vars
      <3>1. ~TagInUseDeleted
        BY <2>3 DEF vars, TagInUseDeleted
      <3> QED BY <2>1, <3>1
    <2> QED BY <2>2, <2>3
  <1>3. InStep => Good
    <2> SUFFICES ASSUME InStep PROVE Good
      OBVIOUS
    <2>1. SearchFindsNotes
      <3>1. \A n \in Rows(notes) : n \in NoteId
        BY DEF NotesInv, TablesOK
      <3> QED BY <3>1 DEF SearchFindsNotes, SearchNotes, IndexIsView
    <2>2. \A some \in SUBSET NoteId : Trusts(some)
      <3> SUFFICES ASSUME NEW some, some \subseteq NoteId PROVE Trusts(some)
        OBVIOUS
      <3> QED BY InStepTrusts
    <2> QED BY <2>1, <2>2
  <1> HIDE DEF InStep, Good
  <1>4. Spec /\ [][~TagInUseDeleted]_vars => []Good
    BY <1>1, <1>2, <1>3, PTL DEF Spec
  <1> QED BY <1>4 DEF Good

\* Search never finds a note by a word that it does not have, whatever was
\* deleted: what the tests say of search can fail in the other direction only.
THEOREM SearchSoundCorrect ==
    Spec => [](\A term : SearchNotes(term) \subseteq {n \in Rows(notes) : term \in View[n]})
  <1>1. NotesInv => \A term : SearchNotes(term) \subseteq {n \in Rows(notes) : term \in View[n]}
    BY DEF NotesInv, TablesOK, WholeOrNothing, SearchNotes
  <1> QED BY <1>1, NotesCorrect, PTL
=============================================================================
