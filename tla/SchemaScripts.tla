--------------------------- MODULE SchemaScripts ---------------------------
(***************************************************************************)
(* The scripts under dbx/migrations/sql as Migrations reads them: objects  *)
(* that must exist, objects that must not, objects (re)defined and the     *)
(* migration whose definition they get, objects dropped, whether a         *)
(* statement fails to parse, and whether rows of a table stand in the way. *)
(***************************************************************************)
EXTENDS TLC

Script(needs, fresh, puts, drops) ==
    [needs |-> needs, fresh |-> fresh, puts |-> puts, drops |-> drops,
     broken |-> FALSE, guarded |-> FALSE]

\* DROP ... IF NOT EXISTS is a syntax error.
Broken == [Script({}, {}, <<>>, {}) EXCEPT !.broken = TRUE]

-----------------------------------------------------------------------------
(* The notes database.  "base" stands for the four tables of the first       *)
(* migration, whose INSERT of '01 Inbox' fails when it is run again;         *)
(* "bookmark" is a column of notes.                                          *)

NotesLoaded == <<1, 2, 3, 4, 5, 6>>
NotesObject == {"base", "bookmark", "view", "fts", "refs", "ref_index"}

NotesUp ==
    << Script({}, {"base"}, "base" :> 1, {}),
       Script({}, {"view"}, "view" :> 2, {}),
       Script({"view"}, {}, "fts" :> 3, {}),
       Script({}, {}, "refs" :> 4 @@ "view" :> 4, {}),
       Script({"base"}, {"bookmark"}, "bookmark" :> 5 @@ "view" :> 5, {}),
       Script({"refs"}, {}, "ref_index" :> 6 @@ "view" :> 6, {}) >>

\* sections is dropped before notes, whose rows refer to it.
NotesDown1 == [Script({}, {}, <<>>, {"base", "bookmark"}) EXCEPT !.guarded = TRUE]

NotesDown ==
    << NotesDown1,
       Script({}, {}, <<>>, {"view"}),
       Script({}, {}, <<>>, {"fts"}),
       Script({}, {}, "view" :> 2, {"refs", "ref_index"}),
       Script({"bookmark"}, {}, "view" :> 4, {"bookmark"}),
       Broken >>

-----------------------------------------------------------------------------
(* The index database.  "theme" is a column of users.                        *)

IndexLoaded == <<1, 2>>
IndexObject == {"users", "user_databases", "sessions", "theme"}

IndexUp ==
    << Script({}, {"user_databases", "sessions"},
              "users" :> 1 @@ "user_databases" :> 1 @@ "sessions" :> 1, {}),
       Script({"users"}, {"theme"}, "theme" :> 2, {}) >>

IndexDown == << Broken, Script({"theme"}, {}, <<>>, {"theme"}) >>
=============================================================================
