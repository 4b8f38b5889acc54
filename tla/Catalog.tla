------------------------------- MODULE Catalog -------------------------------
(***************************************************************************)
(* Question lists, their questions and the themes of questions, edited by  *)
(* concurrent requests.  A request is a series of SQL statements, each a   *)
(* step (READ COMMITTED); the deletion of a question is a transaction of   *)
(* two.  What a transaction has done shows when it commits, and until then *)
(* the row it has deleted is locked.  Names, texts and options are left    *)
(* out, and with them the requests that only change those.                 *)
(*                                                                         *)
(* Question IDs are numbered in the order of their insertion, which is the *)
(* order of created_at.                                                    *)
(***************************************************************************)
EXTENDS Integers, FiniteSets

CONSTANTS
    Users,
    Admins,
    Lists,
    Themes,
    OwnersOf,       \* bound: the owners each list may be created with
    MaxQuestions,   \* bound: questions ever added
    Capacity,       \* bound: questions in each list
    Requests,       \* requests served at the same time
    NoRow           \* no such row

States == {"unused", "gone"}
Marks  == States \cup {"public", "global", "none"}

Row == [list : Lists, index : 0 .. MaxQuestions - 1, theme : Themes \cup {"none"}]

ASSUME NamesAssumption == (Users \cup Admins \cup Lists \cup Themes) \cap Marks = {}
ASSUME OwnersOfAssumption == OwnersOf \in [Lists -> SUBSET (Users \cup {"public"})]
ASSUME NoRowAssumption == NoRow \notin Row
ASSUME BoundsAssumption == MaxQuestions \in Nat /\ Capacity \in [Lists -> Nat]

VARIABLES
    lists,      \* list -> "public", the owner of a private list, or no row
    themes,     \* theme -> the list it belongs to, "global", or no row
    questions,  \* question -> its row
    made,       \* number of questions inserted so far
    pc,         \* request -> its next statement
    req,        \* request -> what it has read and been asked
    stale,      \* history: requests that rely on what they read of a list
                \* that another request has written since
    overlapped  \* history: lists that a stale request has written and that
                \* were not numbered as a whole since

tables  == <<lists, themes, questions, made>>
history == <<stale, overlapped>>
vars    == <<tables, pc, req, history>>

Actors      == Users \cup Admins
QuestionIDs == 1 .. MaxQuestions
Orders      == UNION {[1 .. n -> QuestionIDs] : n \in 0 .. MaxQuestions}

\* Where a request is, as far as its statements tell: what was asked shows when
\* it is done.
Steps == {"idle", "loaded", "count", "insert", "found", "update", "renumber",
          "commit", "reorder", "dropTheme"}

\* What a request has read and been asked.
Data == [by       : Actors \cup {"none"},
         scope    : Lists \cup {"global", "none"},
         theme    : Themes \cup {"none"},
         question : QuestionIDs \cup {0},
         index    : 0 .. MaxQuestions,
         order    : Orders]

TypeOK ==
    /\ lists \in [Lists -> Users \cup States \cup {"public"}]
    /\ themes \in [Themes -> Lists \cup States \cup {"global"}]
    /\ questions \in [QuestionIDs -> Row \cup {NoRow}]
    /\ made \in 0 .. MaxQuestions
    /\ pc \in [Requests -> Steps]
    /\ req \in [Requests -> Data]
    /\ stale \in SUBSET Requests
    /\ overlapped \in SUBSET Lists

NoRequest == [by |-> "none", scope |-> "none", theme |-> "none", question |-> 0,
              index |-> 0, order |-> <<>>]

Init ==
    /\ lists = [l \in Lists |-> "unused"]
    /\ themes = [t \in Themes |-> "unused"]
    /\ questions = [q \in QuestionIDs |-> NoRow]
    /\ made = 0
    /\ pc = [r \in Requests |-> "idle"]
    /\ req = [r \in Requests |-> NoRequest]
    /\ stale = {}
    /\ overlapped = {}

---------------------------------------------------------------------------
(* What requests read                                                      *)

Live(l) == lists[l] \notin States

canEditList(a, l) == IF lists[l] = "public" THEN a \in Admins ELSE lists[l] = a

ListQuestions(l) == {q \in QuestionIDs : questions[q] # NoRow /\ questions[q].list = l}

\* What the foreign key of a question's theme accepts.
Referable(t) == t \in {"none"} \cup {x \in Themes : themes[x] \notin States}

\* Mutant: any theme that exists will do.
MutantCheckTheme(t, l) == Referable(t)

checkTheme(t, l) == t \in {"none"} \cup {x \in Themes : themes[x] \in {"global", l}}

\* Mutant: a question is found by its ID alone.
MutantFound(q, l) == questions[q] # NoRow

Found(q, l) == questions[q] # NoRow /\ questions[q].list = l

\* Mutant: no check that the order names every question.
MutantIsPermutation(ids, qs) ==
    /\ {ids[i] : i \in DOMAIN ids} \subseteq qs
    /\ \A i, j \in DOMAIN ids : ids[i] = ids[j] => i = j

isPermutation(ids, qs) ==
    /\ Cardinality(DOMAIN ids) = Cardinality(qs)
    /\ {ids[i] : i \in DOMAIN ids} = qs

\* Question q is deleted by a transaction of another request that has not ended;
\* statements that write it wait for that.
LockedFor(r, q) ==
    \E s \in Requests \ {r} : pc[s] \in {"renumber", "commit"} /\ req[s].question = q

---------------------------------------------------------------------------
(* Steps of a request                                                      *)

Goto(r, step) == pc' = [pc EXCEPT ![r] = step]

Answered(r) == Goto(r, "idle") /\ req' = [req EXCEPT ![r] = NoRequest]

\* Requests that have counted, checked or numbered the questions of l and go by that.
Relying(l) ==
    {s \in Requests : pc[s] \in {"insert", "reorder", "commit"} /\ req[s].scope = l}

\* The history after r has written the questions of l: who relies on them is
\* overtaken, and l is mended if r gave all its questions their positions.
Written(r, l, mended) ==
    /\ stale' = (stale \cup Relying(l)) \ {r}
    /\ overlapped' = IF mended THEN overlapped \ {l}
                     ELSE overlapped \cup (IF r \in stale THEN {l} ELSE {})

\* Create: public lists by admins, private lists by users.
CreateList(l) ==
    /\ lists[l] = "unused"
    /\ \E owner \in OwnersOf[l] : lists' = [lists EXCEPT ![l] = owner]
    /\ UNCHANGED <<themes, questions, made, pc, req, history>>

\* loadEditableList and loadList; a request that is refused changes nothing.
LoadEditableList(r) ==
    /\ pc[r] = "idle"
    /\ \E a \in Actors, l \in Lists :
         /\ Live(l) /\ canEditList(a, l)
         /\ req' = [req EXCEPT ![r] = [NoRequest EXCEPT !.by = a, !.scope = l]]
    /\ Goto(r, "loaded")
    /\ UNCHANGED <<tables, history>>

RequireAdmin(r) ==
    /\ pc[r] = "idle"
    /\ \E a \in Admins :
         req' = [req EXCEPT ![r] = [NoRequest EXCEPT !.by = a, !.scope = "global"]]
    /\ Goto(r, "loaded")
    /\ UNCHANGED <<tables, history>>

\* The theme of a question that is added or updated.
CheckTheme(r) ==
    /\ \/ pc[r] = "loaded" /\ req[r].scope # "global" /\ Goto(r, "count")
       \/ pc[r] = "found" /\ Goto(r, "update")
    /\ \E t \in Themes \cup {"none"} :
         /\ checkTheme(t, req[r].scope)
         /\ req' = [req EXCEPT ![r] = [req[r] EXCEPT !.theme = t]]
    /\ UNCHANGED <<tables, history>>

\* Mutant: positions start at 1.
MutantCountQuestions(r) ==
    /\ pc[r] = "count"
    /\ req' = [req EXCEPT ![r] = [req[r] EXCEPT !.index = Cardinality(ListQuestions(req[r].scope)) + 1]]
    /\ Goto(r, "insert")
    /\ UNCHANGED <<tables, history>>

\* AddQuestion determines the next order_index.
CountQuestions(r) ==
    /\ pc[r] = "count"
    /\ req' = [req EXCEPT ![r] = [req[r] EXCEPT !.index = Cardinality(ListQuestions(req[r].scope))]]
    /\ Goto(r, "insert")
    /\ UNCHANGED <<tables, history>>

\* The insert fails if the list or the theme is gone (foreign keys).
CreateQuestion(r) ==
    LET l == req[r].scope  t == req[r].theme IN
    /\ pc[r] = "insert"
    /\ made < MaxQuestions
    /\ Live(l)
    /\ Cardinality(ListQuestions(l)) < Capacity[l]
    /\ Referable(t)
    /\ made' = made + 1
    /\ questions' = [questions EXCEPT ![made + 1] =
                        [list |-> l, index |-> req[r].index, theme |-> t]]
    /\ Answered(r)
    /\ Written(r, l, FALSE)
    /\ UNCHANGED <<lists, themes>>

\* GetQuestion, and the check that the question is of the list that was loaded.
GetQuestion(r) ==
    /\ pc[r] = "loaded"
    /\ \E q \in QuestionIDs :
         /\ Found(q, req[r].scope)
         /\ req' = [req EXCEPT ![r] = [req[r] EXCEPT !.question = q]]
    /\ Goto(r, "found")
    /\ UNCHANGED <<tables, history>>

\* UpdateQuestion: the position is kept.
UpdateQuestion(r) ==
    LET q == req[r].question  t == req[r].theme IN
    /\ pc[r] = "update"
    /\ ~LockedFor(r, q)
    /\ questions[q] # NoRow
    /\ Referable(t)
    /\ questions' = [questions EXCEPT ![q] = [questions[q] EXCEPT !.theme = t]]
    /\ Answered(r)
    /\ UNCHANGED <<lists, themes, made, history>>

\* The first statement of DeleteQuestion's transaction: it locks the row.
DeleteRow(r) ==
    /\ pc[r] = "found"
    /\ ~LockedFor(r, req[r].question)
    /\ questions[req[r].question] # NoRow
    /\ Goto(r, "renumber")
    /\ UNCHANGED <<tables, req, history>>

\* Mutant: row_number() without order_index.
MutantBefore(p, q) == p < q

\* ORDER BY order_index, created_at
Before(p, q) ==
    \/ questions[p].index < questions[q].index
    \/ questions[p].index = questions[q].index /\ p < q

Named(ids) == {ids[i] : i \in DOMAIN ids}

\* The second statement reads the questions that are left, in their order.  The
\* positions it assigns are those it reads here: when it has to wait for a row, it
\* does not number the questions again.
NumberRows(r) ==
    LET q == req[r].question  left == ListQuestions(questions[q].list) \ {q} IN
    /\ pc[r] = "renumber"
    /\ \E ids \in Orders :
         /\ Named(ids) = left
         /\ \A i, j \in DOMAIN ids : i < j => Before(ids[i], ids[j])
         /\ req' = [req EXCEPT ![r] = [req[r] EXCEPT !.order = ids]]
    /\ Goto(r, "commit")
    /\ UNCHANGED <<tables, history>>

\* The questions of qs that ids names, where ids has them.
Renumbered(ids, qs) ==
    [q \in QuestionIDs |->
        IF q \in qs \cap Named(ids)
        THEN [questions[q] EXCEPT !.index = (CHOOSE i \in DOMAIN ids : ids[i] = q) - 1]
        ELSE questions[q]]

\* The rest of the second statement and COMMIT, which makes the deletion and the new
\* positions visible.  Other writes of the rows it has numbered wait for the commit;
\* a question added since it read the list is not among them.
CommitDelete(r) ==
    LET q == req[r].question
        l == questions[q].list
        ids == req[r].order
        left == ListQuestions(l) \ {q}
    IN  /\ pc[r] = "commit"
        /\ \A p \in left \cap Named(ids) : ~LockedFor(r, p)
        /\ questions' = [Renumbered(ids, left) EXCEPT ![q] = NoRow]
        /\ Answered(r)
        /\ Written(r, req[r].scope, Named(ids) = left)
        /\ UNCHANGED <<lists, themes, made>>

CheckOrder(r) ==
    /\ pc[r] = "loaded" /\ req[r].scope # "global"
    /\ \E ids \in Orders :
         /\ isPermutation(ids, ListQuestions(req[r].scope))
         /\ req' = [req EXCEPT ![r] = [req[r] EXCEPT !.order = ids]]
    /\ Goto(r, "reorder")
    /\ UNCHANGED <<tables, history>>

\* The questions that the order names and the list still has get its positions.
ReorderQuestions(r) ==
    LET l == req[r].scope  ids == req[r].order IN
    /\ pc[r] = "reorder"
    /\ \A q \in ListQuestions(l) \cap Named(ids) : ~LockedFor(r, q)
    /\ questions' = Renumbered(ids, ListQuestions(l))
    /\ Answered(r)
    /\ Written(r, l, Named(ids) = ListQuestions(l))
    /\ UNCHANGED <<lists, themes, made>>

\* The questions and the themes of the list go with it, themes are unassigned.
DeleteList(r) ==
    LET l == req[r].scope IN
    /\ pc[r] = "loaded" /\ l # "global"
    /\ Live(l)
    /\ \A q \in ListQuestions(l) : ~LockedFor(r, q)
    /\ lists' = [lists EXCEPT ![l] = "gone"]
    /\ themes' = [t \in Themes |-> IF themes[t] = l THEN "gone" ELSE themes[t]]
    /\ questions' = [q \in QuestionIDs |-> IF q \in ListQuestions(l) THEN NoRow ELSE questions[q]]
    /\ Answered(r)
    /\ Written(r, l, TRUE)
    /\ UNCHANGED made

\* A theme of the scope that was loaded or of all lists.
CreateTheme(r) ==
    /\ pc[r] = "loaded"
    /\ req[r].scope \in {"global"} \cup {l \in Lists : Live(l)}
    /\ \E t \in Themes :
         /\ themes[t] = "unused"
         /\ themes' = [themes EXCEPT ![t] = req[r].scope]
    /\ Answered(r)
    /\ UNCHANGED <<lists, questions, made, history>>

\* loadTheme hides themes of another scope.
LoadTheme(r) ==
    /\ pc[r] = "loaded"
    /\ \E t \in Themes :
         /\ themes[t] = req[r].scope
         /\ req' = [req EXCEPT ![r] = [req[r] EXCEPT !.theme = t]]
    /\ Goto(r, "dropTheme")
    /\ UNCHANGED <<tables, history>>

\* ON DELETE SET NULL
DeleteTheme(r) ==
    LET t == req[r].theme
        uses == {q \in QuestionIDs : questions[q] # NoRow /\ questions[q].theme = t}
    IN  /\ pc[r] = "dropTheme"
        /\ themes[t] \notin States
        /\ \A q \in uses : ~LockedFor(r, q)
        /\ themes' = [themes EXCEPT ![t] = "gone"]
        /\ questions' = [q \in QuestionIDs |->
              IF q \in uses THEN [questions[q] EXCEPT !.theme = "none"] ELSE questions[q]]
        /\ Answered(r)
        /\ UNCHANGED <<lists, made, history>>

\* A refused body, a row that is not there (any more), a failed statement, a
\* deadlock that Postgres breaks: the request ends and its transaction with it.
Fail(r) ==
    /\ pc[r] # "idle"
    /\ Answered(r)
    /\ stale' = stale \ {r}
    /\ UNCHANGED <<tables, overlapped>>

---------------------------------------------------------------------------

Next ==
    \/ \E l \in Lists : CreateList(l)
    \/ \E r \in Requests :
         \/ LoadEditableList(r) \/ RequireAdmin(r) \/ CheckTheme(r) \/ CountQuestions(r)
         \/ CreateQuestion(r) \/ GetQuestion(r) \/ UpdateQuestion(r) \/ DeleteRow(r)
         \/ NumberRows(r) \/ CommitDelete(r) \/ CheckOrder(r) \/ ReorderQuestions(r)
         \/ DeleteList(r) \/ CreateTheme(r) \/ LoadTheme(r) \/ DeleteTheme(r) \/ Fail(r)

Spec == Init /\ [][Next]_vars

---------------------------------------------------------------------------
(* Properties *)

\* The theme of a question exists and is global or one of the question's list,
\* although it was checked in a statement before the one that stored it, and
\* themes and lists are deleted at any time.
ThemeInScope ==
    \A q \in QuestionIDs :
        questions[q] # NoRow /\ questions[q].theme # "none" =>
            themes[questions[q].theme] \in {"global", questions[q].list}

Contiguous(qs, rows) == {rows[q].index : q \in qs} = 0 .. Cardinality(qs) - 1

\* The positions in a list are 0..n-1, each once, in whatever order requests count,
\* add, delete and reorder.  Only a request whose reading of the list was overtaken by
\* another's write can break that (two additions get the same position, an addition
\* behind a deletion, or between its two statements, leaves a gap), and the next
\* request that numbers all the questions of the list mends it.
ContiguousUnlessOverlapped ==
    \A l \in Lists \ overlapped : Contiguous(ListQuestions(l), questions)

Deletes(r) == pc[r] = "commit" /\ pc'[r] = "idle" /\ questions' # questions

Remaining(r) == ListQuestions(questions[req[r].question].list) \ {req[r].question}

\* Whatever state the positions were in, a deletion gives no two questions that it has
\* numbered the same position; and unless its transaction was overtaken, all that are
\* left have 0..n-1 and keep their order.
DeleteKeepsOrder ==
    [][\A r \in Requests : Deletes(r) =>
          /\ \A p, q \in Remaining(r) \cap Named(req[r].order) :
                p # q => questions'[p].index # questions'[q].index
          /\ r \notin stale =>
                /\ Contiguous(Remaining(r), questions')
                /\ \A p, q \in Remaining(r) : questions[p].index < questions[q].index =>
                                                 questions'[p].index < questions'[q].index]_vars

\* A request changes or deletes only questions of lists that its actor may edit:
\* access is checked on the list of the path, and the question of the path must
\* be one of that list.  (An admin that deletes a global theme unassigns it.)
EditorsOnly ==
    [][\A r \in Requests, q \in QuestionIDs :
          pc'[r] # pc[r] /\ questions[q] # NoRow /\ questions'[q] # questions[q] =>
              \/ canEditList(req[r].by, questions[q].list)
              \/ /\ req[r].scope = "global" /\ req[r].by \in Admins
                 /\ questions'[q] = [questions[q] EXCEPT !.theme = "none"]]_vars

---------------------------------------------------------------------------
(* What an inductive proof of TypeOK and ThemeInScope needs besides them.   *)

\* IDs are given in order, and a count that is about to become a position was
\* taken of questions that had been made.
CountInv ==
    /\ \A q \in QuestionIDs : questions[q] # NoRow => q <= made
    /\ \A r \in Requests : pc[r] = "insert" => req[r].index <= made

\* What a request at step c with data d relies on in the tables: a list was loaded; a theme
\* that was checked is in scope or gone; the question is one of the list or gone.
ReliesOn(c, d, ths, qs, n) ==
    /\ c = "loaded" => d.scope \in Lists \cup {"global"}
    /\ c \in {"count", "insert", "found", "update", "renumber", "commit",
            "reorder"} => d.scope \in Lists
    /\ c \in {"count", "insert", "update"} /\ d.theme # "none" =>
           ths[d.theme] \in {"global", d.scope, "gone"}
    /\ c \in {"found", "update", "renumber", "commit"} =>
           /\ d.question \in QuestionIDs
           /\ d.question <= n
           /\ qs[d.question] # NoRow => qs[d.question].list = d.scope
    /\ c = "dropTheme" => d.theme \in Themes

RequestInv == \A r \in Requests : ReliesOn(pc[r], req[r], themes, questions, made)
=============================================================================
