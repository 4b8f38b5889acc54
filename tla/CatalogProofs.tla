---------------------------- MODULE CatalogProofs ----------------------------
(***************************************************************************)
(* Proofs about Catalog, for any number of actors, lists, themes,          *)
(* questions and requests: its types, the scope of themes, who edits what, *)
(* and the positions of the questions in a list.                           *)
(***************************************************************************)
EXTENDS Catalog, FiniteSetTheorems, TLAPS

IInv == TypeOK /\ CountInv /\ RequestInv /\ ThemeInScope

\* What any step may do to the tables: themes are created and deleted and never
\* change their scope, questions that were made stay in their list or go.
TablesMove ==
    /\ made <= made'
    /\ \A t \in Themes : themes'[t] = themes[t] \/ themes'[t] = "gone" \/ themes[t] = "unused"
    /\ \A q \in QuestionIDs : q <= made /\ questions'[q] # NoRow =>
           questions[q] # NoRow /\ questions'[q].list = questions[q].list

\* The number of questions of a list is at most that of the questions made.
LEMMA CountBound ==
    ASSUME TypeOK, CountInv, NEW l
    PROVE  Cardinality(ListQuestions(l)) \in 0 .. made
<1> DEFINE S == ListQuestions(l)
<1>1. S \subseteq 1 .. made
  BY BoundsAssumption DEF TypeOK, CountInv, ListQuestions, QuestionIDs
<1>2. IsFiniteSet(1 .. made) /\ Cardinality(1 .. made) = made
  BY FS_Interval, BoundsAssumption DEF TypeOK
<1>3. IsFiniteSet(S) /\ Cardinality(S) <= Cardinality(1 .. made)
  BY <1>1, <1>2, FS_Subset
<1>4. Cardinality(S) \in Nat
  BY <1>3, FS_CardinalityType
<1> QED
  BY <1>2, <1>3, <1>4, BoundsAssumption DEF TypeOK

\* What a request relies on survives whatever happens to the tables.
LEMMA Frame ==
    ASSUME TypeOK, TypeOK', TablesMove, NEW c, NEW d \in Data,
           ReliesOn(c, d, themes, questions, made)
    PROVE  ReliesOn(c, d, themes', questions', made')
<1>1. c \in {"count", "insert", "update"} /\ d.theme # "none" =>
          themes'[d.theme] \in {"global", d.scope, "gone"}
  <2> SUFFICES ASSUME c \in {"count", "insert", "update"}, d.theme # "none"
               PROVE  themes'[d.theme] \in {"global", d.scope, "gone"}
    OBVIOUS
  <2>1. d.theme \in Themes /\ d.scope \in Lists /\ themes[d.theme] \in {"global", d.scope, "gone"}
    BY DEF ReliesOn, Data
  <2>2. themes[d.theme] # "unused"
    BY <2>1, NamesAssumption DEF Marks, States
  <2> QED
    BY <2>1, <2>2 DEF TablesMove
<1>2. c \in {"found", "update", "renumber", "commit"} =>
          /\ d.question <= made'
          /\ questions'[d.question] # NoRow => questions'[d.question].list = d.scope
  BY BoundsAssumption DEF ReliesOn, TablesMove, TypeOK, QuestionIDs
<1> QED
  BY <1>1, <1>2 DEF ReliesOn

\* A step of request r preserves RequestInv if it leaves r with what it relies on.
LEMMA RequestStep ==
    ASSUME TypeOK, TypeOK', RequestInv, TablesMove, NEW r \in Requests,
           \A s \in Requests \ {r} : pc'[s] = pc[s] /\ req'[s] = req[s],
           ReliesOn(pc'[r], req'[r], themes', questions', made')
    PROVE  RequestInv'
<1>1. ASSUME NEW s \in Requests \ {r}
      PROVE  ReliesOn(pc'[s], req'[s], themes', questions', made')
  <2>1. req[s] \in Data /\ ReliesOn(pc[s], req[s], themes, questions, made)
    BY DEF RequestInv, TypeOK
  <2>2. ReliesOn(pc[s], req[s], themes', questions', made')
    BY <2>1, Frame
  <2> QED
    BY <2>2
<1> QED
  BY <1>1 DEF RequestInv

---------------------------------------------------------------------------

\* The data of a request that is over.
LEMMA NoRequestType == NoRequest \in Data
<1>1. <<>> \in [1 .. 0 -> QuestionIDs]
  OBVIOUS
<1>2. 0 \in 0 .. MaxQuestions
  BY BoundsAssumption
<1>3. <<>> \in Orders
  BY <1>1, <1>2 DEF Orders
<1> QED
  BY <1>2, <1>3 DEF NoRequest, Data

\* A step that only reads preserves the invariant if what it notes is right.
LEMMA ReadStep ==
    ASSUME IInv, NEW r \in Requests, NEW c \in Steps, NEW d \in Data,
           Goto(r, c), req' = [req EXCEPT ![r] = d], UNCHANGED <<tables, overlapped>>,
           stale' \in SUBSET Requests,
           ReliesOn(c, d, themes, questions, made),
           c = "insert" => d.index <= made
    PROVE  IInv'
<1> USE DEF IInv, tables
<1>1. TypeOK'
  BY DEF TypeOK, Goto
<1>2. /\ \A s \in Requests \ {r} : pc'[s] = pc[s] /\ req'[s] = req[s]
      /\ pc'[r] = c /\ req'[r] = d
  BY DEF TypeOK, Goto
<1>3. CountInv'
  BY <1>2 DEF CountInv
<1>4. TablesMove
  BY BoundsAssumption DEF TablesMove, TypeOK
<1>5. RequestInv'
  BY <1>1, <1>2, <1>4, RequestStep
<1>6. ThemeInScope'
  BY DEF ThemeInScope
<1> QED
  BY <1>1, <1>3, <1>5, <1>6

\* The last step of a request preserves the invariant if the tables stay right.
LEMMA WriteStep ==
    ASSUME IInv, NEW r \in Requests, Answered(r), TablesMove,
           lists' \in [Lists -> Users \cup States \cup {"public"}],
           themes' \in [Themes -> Lists \cup States \cup {"global"}],
           questions' \in [QuestionIDs -> Row \cup {NoRow}],
           made' \in 0 .. MaxQuestions,
           overlapped' \in SUBSET Lists, stale' \in SUBSET Requests,
           \A q \in QuestionIDs : questions'[q] # NoRow => q <= made',
           ThemeInScope'
    PROVE  IInv'
<1> USE DEF IInv
<1>1. NoRequest \in Data
  BY NoRequestType
<1>2. TypeOK'
  BY <1>1 DEF TypeOK, Answered, Goto, Steps
<1>3. /\ \A s \in Requests \ {r} : pc'[s] = pc[s] /\ req'[s] = req[s]
      /\ pc'[r] = "idle"
  BY DEF TypeOK, Answered, Goto
<1>4. CountInv'
  <2> SUFFICES ASSUME NEW s \in Requests, pc'[s] = "insert"
               PROVE  req'[s].index <= made'
    BY DEF CountInv
  <2>1. s # r
    BY <1>3
  <2>2. pc[s] = "insert" /\ req'[s] = req[s]
    BY <1>3, <2>1
  <2>3. req[s].index <= made /\ req[s].index \in Int
    BY <2>2, BoundsAssumption DEF CountInv, TypeOK, Data
  <2> QED
    BY <2>2, <2>3, BoundsAssumption DEF TablesMove, TypeOK
<1>5. ReliesOn(pc'[r], req'[r], themes', questions', made')
  BY <1>3 DEF ReliesOn
<1>6. RequestInv'
  BY <1>2, <1>3, <1>5, RequestStep
<1> QED
  BY <1>2, <1>4, <1>6

\* The history is of lists and requests.
LEMMA WrittenType ==
    ASSUME TypeOK, NEW r \in Requests, NEW l \in Lists, NEW m \in BOOLEAN, Written(r, l, m)
    PROVE  overlapped' \in SUBSET Lists /\ stale' \in SUBSET Requests
<1>1. Relying(l) \subseteq Requests
  BY DEF Relying
<1> QED
  BY <1>1 DEF TypeOK, Written

---------------------------------------------------------------------------

\* The reads of requests preserve the invariant.
LEMMA Reads ==
    ASSUME IInv, NEW r \in Requests,
           \/ LoadEditableList(r) \/ RequireAdmin(r) \/ CheckTheme(r) \/ CountQuestions(r)
           \/ GetQuestion(r) \/ DeleteRow(r) \/ NumberRows(r) \/ CheckOrder(r) \/ LoadTheme(r)
    PROVE  IInv'
<1> USE DEF IInv
<1>0. /\ req[r] \in Data /\ req = [req EXCEPT ![r] = req[r]]
      /\ ReliesOn(pc[r], req[r], themes, questions, made)
      /\ NoRequest \in Data
      /\ UNCHANGED <<tables, history>>
      /\ UNCHANGED <<tables, overlapped>> /\ stale' \in SUBSET Requests
  <2>1. UNCHANGED <<tables, history>>
    BY DEF LoadEditableList, RequireAdmin, CheckTheme, CountQuestions, GetQuestion, DeleteRow,
           NumberRows, CheckOrder, LoadTheme
  <2> QED
    BY <2>1, NoRequestType DEF TypeOK, RequestInv, history
<1>1. CASE LoadEditableList(r)
  <2>1. PICK a \in Actors, l \in Lists :
           req' = [req EXCEPT ![r] = [NoRequest EXCEPT !.by = a, !.scope = l]]
    BY <1>1 DEF LoadEditableList
  <2> DEFINE d == [NoRequest EXCEPT !.by = a, !.scope = l]
  <2>2. d \in Data /\ d.scope \in Lists
    BY <1>0 DEF Data
  <2>3. ReliesOn("loaded", d, themes, questions, made)
    BY <2>2 DEF ReliesOn
  <2> QED
    BY <1>0, <1>1, <2>1, <2>2, <2>3, ReadStep DEF LoadEditableList, Steps
<1>2. CASE RequireAdmin(r)
  <2>1. PICK a \in Admins :
           req' = [req EXCEPT ![r] = [NoRequest EXCEPT !.by = a, !.scope = "global"]]
    BY <1>2 DEF RequireAdmin
  <2> DEFINE d == [NoRequest EXCEPT !.by = a, !.scope = "global"]
  <2>2. d \in Data /\ d.scope = "global"
    BY <1>0 DEF Data, Actors
  <2>3. ReliesOn("loaded", d, themes, questions, made)
    BY <2>2 DEF ReliesOn
  <2> QED
    BY <1>0, <1>2, <2>1, <2>2, <2>3, ReadStep DEF RequireAdmin, Steps
<1>3. CASE CheckTheme(r)
  <2>1. PICK t \in Themes \cup {"none"} :
           checkTheme(t, req[r].scope) /\ req' = [req EXCEPT ![r] = [req[r] EXCEPT !.theme = t]]
    BY <1>3 DEF CheckTheme
  <2>2. PICK c \in {"count", "update"} :
           /\ Goto(r, c)
           /\ c = "count" => pc[r] = "loaded" /\ req[r].scope # "global"
           /\ c = "update" => pc[r] = "found"
    BY <1>3 DEF CheckTheme
  <2> DEFINE d == [req[r] EXCEPT !.theme = t]
  <2>3. d \in Data /\ d.theme = t /\ d.scope = req[r].scope /\ d.question = req[r].question
    BY <1>0 DEF Data
  <2>4. d.scope \in Lists
    BY <1>0, <2>2, <2>3 DEF ReliesOn
  <2>5. t # "none" => themes[t] \in {"global", d.scope, "gone"}
    BY <2>1, <2>3 DEF checkTheme
  <2>6. ReliesOn(c, d, themes, questions, made)
    BY <1>0, <2>2, <2>3, <2>4, <2>5 DEF ReliesOn
  <2> HIDE DEF d
  <2> QED
    BY <1>0, <1>3, <2>1, <2>2, <2>3, <2>6, ReadStep DEF CheckTheme, Steps, d
<1>4. CASE CountQuestions(r)
  <2> DEFINE n == Cardinality(ListQuestions(req[r].scope))
             d == [req[r] EXCEPT !.index = n]
  <2>1. n \in 0 .. made
    BY CountBound
  <2>2. n \in 0 .. MaxQuestions
    BY <2>1, BoundsAssumption DEF TypeOK
  <2> HIDE DEF n
  <2>3. d \in Data /\ d.index = n /\ d.scope = req[r].scope /\ d.theme = req[r].theme
    BY <1>0, <2>2 DEF Data
  <2>4. d.index <= made
    BY <2>1, <2>3
  <2>5. ReliesOn("insert", d, themes, questions, made)
    BY <1>0, <1>4, <2>3 DEF ReliesOn, CountQuestions
  <2>6. Goto(r, "insert") /\ req' = [req EXCEPT ![r] = d]
    BY <1>4 DEF CountQuestions, n
  <2> QED
    BY <1>0, <2>3, <2>4, <2>5, <2>6, ReadStep DEF Steps
<1>5. CASE GetQuestion(r)
  <2>1. PICK q \in QuestionIDs :
           Found(q, req[r].scope) /\ req' = [req EXCEPT ![r] = [req[r] EXCEPT !.question = q]]
    BY <1>5 DEF GetQuestion
  <2> DEFINE d == [req[r] EXCEPT !.question = q]
  <2>2. d \in Data /\ d.question = q /\ d.scope = req[r].scope
    BY <1>0 DEF Data
  <2>3. questions[q] \in Row /\ questions[q].list = d.scope /\ q <= made
    BY <2>1, <2>2 DEF Found, TypeOK, CountInv
  <2>4. d.scope \in Lists
    BY <2>3 DEF Row
  <2>5. ReliesOn("found", d, themes, questions, made)
    BY <2>2, <2>3, <2>4 DEF ReliesOn
  <2> QED
    BY <1>0, <1>5, <2>1, <2>2, <2>5, ReadStep DEF GetQuestion, Steps
<1>6. CASE DeleteRow(r)
  <2>1. ReliesOn("renumber", req[r], themes, questions, made)
    BY <1>0, <1>6 DEF ReliesOn, DeleteRow
  <2> QED
    BY <1>0, <1>6, <2>1, ReadStep DEF DeleteRow, Steps
<1>7. CASE CheckOrder(r)
  <2>1. PICK ids \in Orders : req' = [req EXCEPT ![r] = [req[r] EXCEPT !.order = ids]]
    BY <1>7 DEF CheckOrder
  <2> DEFINE d == [req[r] EXCEPT !.order = ids]
  <2>2. d \in Data /\ d.scope = req[r].scope
    BY <1>0 DEF Data
  <2>3. ReliesOn("reorder", d, themes, questions, made)
    BY <1>0, <1>7, <2>2 DEF ReliesOn, CheckOrder
  <2> QED
    BY <1>0, <1>7, <2>1, <2>2, <2>3, ReadStep DEF CheckOrder, Steps
<1>8. CASE LoadTheme(r)
  <2>1. PICK t \in Themes : req' = [req EXCEPT ![r] = [req[r] EXCEPT !.theme = t]]
    BY <1>8 DEF LoadTheme
  <2> DEFINE d == [req[r] EXCEPT !.theme = t]
  <2>2. d \in Data /\ d.theme = t
    BY <1>0 DEF Data
  <2>3. ReliesOn("dropTheme", d, themes, questions, made)
    BY <2>2 DEF ReliesOn
  <2> QED
    BY <1>0, <1>8, <2>1, <2>2, <2>3, ReadStep DEF LoadTheme, Steps
<1>9. CASE NumberRows(r)
  <2>1. PICK ids \in Orders : req' = [req EXCEPT ![r] = [req[r] EXCEPT !.order = ids]]
    BY <1>9 DEF NumberRows
  <2> DEFINE d == [req[r] EXCEPT !.order = ids]
  <2>2. d \in Data /\ d.scope = req[r].scope /\ d.question = req[r].question
    BY <1>0 DEF Data
  <2>3. ReliesOn("commit", d, themes, questions, made)
    BY <1>0, <1>9, <2>2 DEF ReliesOn, NumberRows
  <2> QED
    BY <1>0, <1>9, <2>1, <2>2, <2>3, ReadStep DEF NumberRows, Steps
<1> QED
  BY <1>1, <1>2, <1>3, <1>4, <1>5, <1>6, <1>7, <1>8, <1>9

---------------------------------------------------------------------------

\* Writing a list or a theme preserves the invariant.
LEMMA ListAndThemeWrites ==
    ASSUME IInv, NEW r \in Requests, DeleteList(r) \/ CreateTheme(r) \/ DeleteTheme(r)
    PROVE  IInv'
<1> USE DEF IInv
<1>0. ReliesOn(pc[r], req[r], themes, questions, made)
  BY DEF RequestInv
<1>1. CASE DeleteList(r)
  <2> DEFINE l == req[r].scope
  <2>1. l \in Lists
    BY <1>0, <1>1 DEF ReliesOn, DeleteList
  <2>2. /\ lists' \in [Lists -> Users \cup States \cup {"public"}]
        /\ themes' \in [Themes -> Lists \cup States \cup {"global"}]
        /\ questions' \in [QuestionIDs -> Row \cup {NoRow}]
        /\ made' \in 0 .. MaxQuestions
    BY <1>1 DEF DeleteList, TypeOK, States
  <2>7. overlapped' \in SUBSET Lists /\ stale' \in SUBSET Requests
    BY <1>1, <2>1, WrittenType DEF DeleteList
  <2>3. \A q \in QuestionIDs : questions'[q] = questions[q] \/ questions'[q] = NoRow
    BY <1>1 DEF DeleteList
  <2>4. \A q \in QuestionIDs : questions'[q] # NoRow => q <= made'
    BY <1>1, <2>3 DEF DeleteList, CountInv
  <2>5. TablesMove
    BY <1>1, <2>3, BoundsAssumption DEF TablesMove, DeleteList, TypeOK
  <2>6. ThemeInScope'
    <3> SUFFICES ASSUME NEW q \in QuestionIDs, questions'[q] # NoRow,
                        questions'[q].theme # "none"
                 PROVE  themes'[questions'[q].theme] \in {"global", questions'[q].list}
      BY DEF ThemeInScope
    <3>1. questions'[q] = questions[q] /\ questions[q].list # l
      BY <1>1 DEF DeleteList, ListQuestions
    <3>2. /\ questions[q].theme \in Themes
          /\ themes[questions[q].theme] \in {"global", questions[q].list}
      BY <3>1 DEF ThemeInScope, TypeOK, Row
    <3>3. l # "global"
      BY <1>1 DEF DeleteList
    <3> QED
      BY <1>1, <3>1, <3>2, <3>3 DEF DeleteList
  <2> QED
    BY <1>1, <2>2, <2>4, <2>5, <2>6, <2>7, WriteStep DEF DeleteList
<1>2. CASE CreateTheme(r)
  <2>1. PICK t \in Themes : themes[t] = "unused" /\ themes' = [themes EXCEPT ![t] = req[r].scope]
    BY <1>2 DEF CreateTheme
  <2>2. req[r].scope \in Lists \cup {"global"}
    BY <1>0, <1>2 DEF ReliesOn, CreateTheme
  <2>3. /\ lists' \in [Lists -> Users \cup States \cup {"public"}]
        /\ themes' \in [Themes -> Lists \cup States \cup {"global"}]
        /\ questions' \in [QuestionIDs -> Row \cup {NoRow}]
        /\ made' \in 0 .. MaxQuestions /\ overlapped' \in SUBSET Lists /\ stale' \in SUBSET Requests
    BY <1>2, <2>1, <2>2 DEF CreateTheme, TypeOK, history
  <2>4. \A q \in QuestionIDs : questions'[q] # NoRow => q <= made'
    BY <1>2 DEF CreateTheme, CountInv
  <2>5. TablesMove
    BY <1>2, <2>1, BoundsAssumption DEF TablesMove, CreateTheme, TypeOK
  <2>6. ThemeInScope'
    <3> SUFFICES ASSUME NEW q \in QuestionIDs, questions[q] # NoRow,
                        questions[q].theme # "none"
                 PROVE  themes'[questions[q].theme] \in {"global", questions[q].list}
      BY <1>2 DEF ThemeInScope, CreateTheme
    <3>1. /\ questions[q].theme \in Themes /\ questions[q].list \in Lists
          /\ themes[questions[q].theme] \in {"global", questions[q].list}
      BY DEF ThemeInScope, TypeOK, Row
    <3>2. themes[questions[q].theme] # "unused"
      BY <3>1, NamesAssumption DEF Marks, States
    <3> QED
      BY <2>1, <3>1, <3>2 DEF TypeOK
  <2> QED
    BY <1>2, <2>3, <2>4, <2>5, <2>6, WriteStep DEF CreateTheme
<1>3. CASE DeleteTheme(r)
  <2> DEFINE t == req[r].theme
  <2>1. t \in Themes
    BY <1>0, <1>3 DEF ReliesOn, DeleteTheme
  <2>2. \A q \in QuestionIDs : questions[q] # NoRow => questions[q] \in Row
    BY DEF TypeOK
  <2>3. \A q \in QuestionIDs :
          \/ questions'[q] = questions[q] /\ (questions[q] # NoRow => questions[q].theme # t)
          \/ /\ questions[q] # NoRow /\ questions'[q] \in Row
             /\ questions'[q].list = questions[q].list /\ questions'[q].theme = "none"
    BY <1>3, <2>2 DEF DeleteTheme, Row
  <2>4. /\ lists' \in [Lists -> Users \cup States \cup {"public"}]
        /\ themes' \in [Themes -> Lists \cup States \cup {"global"}]
        /\ made' \in 0 .. MaxQuestions /\ overlapped' \in SUBSET Lists /\ stale' \in SUBSET Requests
    BY <1>3, <2>1 DEF DeleteTheme, TypeOK, States, history
  <2>5. questions' \in [QuestionIDs -> Row \cup {NoRow}]
    <3>1. \A q \in QuestionIDs : questions'[q] \in Row \cup {NoRow}
      BY <2>3 DEF TypeOK
    <3> QED
      BY <1>3, <3>1 DEF DeleteTheme
  <2>6. \A q \in QuestionIDs : questions'[q] # NoRow => q <= made'
    BY <1>3, <2>3 DEF DeleteTheme, CountInv
  <2>7. TablesMove
    BY <1>3, <2>1, <2>3, BoundsAssumption DEF TablesMove, DeleteTheme, TypeOK
  <2>8. ThemeInScope'
    <3> SUFFICES ASSUME NEW q \in QuestionIDs, questions'[q] # NoRow,
                        questions'[q].theme # "none"
                 PROVE  themes'[questions'[q].theme] \in {"global", questions'[q].list}
      BY DEF ThemeInScope
    <3>1. questions'[q] = questions[q] /\ questions[q].theme # t
      BY <2>3
    <3>2. /\ questions[q].theme \in Themes
          /\ themes[questions[q].theme] \in {"global", questions[q].list}
      BY <2>2, <3>1 DEF ThemeInScope, Row
    <3> QED
      BY <1>3, <3>1, <3>2 DEF DeleteTheme, TypeOK
  <2> QED
    BY <1>3, <2>4, <2>5, <2>6, <2>7, <2>8, WriteStep DEF DeleteTheme
<1> QED
  BY <1>1, <1>2, <1>3

---------------------------------------------------------------------------

\* Adding and updating a question preserve the invariant: what was checked of
\* the theme still holds, or the theme is gone and the foreign key refuses it.
LEMMA QuestionWrites ==
    ASSUME IInv, NEW r \in Requests, CreateQuestion(r) \/ UpdateQuestion(r)
    PROVE  IInv'
<1> USE DEF IInv
<1> DEFINE t == req[r].theme  l == req[r].scope
<1>0. req[r] \in Data /\ ReliesOn(pc[r], req[r], themes, questions, made)
  BY DEF RequestInv, TypeOK
<1>1. /\ pc[r] \in {"insert", "update"}
      /\ Referable(t) /\ UNCHANGED <<lists, themes>>
  BY DEF CreateQuestion, UpdateQuestion
<1>2. l \in Lists /\ t \in Themes \cup {"none"}
  BY <1>0, <1>1 DEF ReliesOn, Data
<1>3. t # "none" => themes[t] \in {"global", l}
  BY <1>0, <1>1 DEF ReliesOn, Referable, States
<1>4. /\ lists' \in [Lists -> Users \cup States \cup {"public"}]
      /\ themes' \in [Themes -> Lists \cup States \cup {"global"}]
  BY <1>1 DEF TypeOK
<1>5. CASE CreateQuestion(r)
  <2> DEFINE q == made + 1
             row == [list |-> l, index |-> req[r].index, theme |-> t]
  <2>1. q \in QuestionIDs /\ made' = q /\ made' \in 0 .. MaxQuestions
    BY <1>5, BoundsAssumption DEF CreateQuestion, TypeOK, QuestionIDs
  <2>2. req[r].index \in 0 .. MaxQuestions - 1
    BY <1>0, <1>5, BoundsAssumption DEF CreateQuestion, CountInv, TypeOK, Data
  <2>3. row \in Row
    BY <1>2, <2>2 DEF Row
  <2>4. questions' = [questions EXCEPT ![q] = row]
    BY <1>5 DEF CreateQuestion
  <2>5. questions' \in [QuestionIDs -> Row \cup {NoRow}]
    BY <2>3, <2>4 DEF TypeOK
  <2>6. overlapped' \in SUBSET Lists /\ stale' \in SUBSET Requests
    BY <1>2, <1>5, WrittenType DEF CreateQuestion
  <2>7. \A p \in QuestionIDs : p # q => questions'[p] = questions[p]
    BY <2>4 DEF TypeOK
  <2>8. \A p \in QuestionIDs : questions'[p] # NoRow => p <= made'
    BY <2>1, <2>7, BoundsAssumption DEF CountInv, TypeOK, QuestionIDs
  <2>9. TablesMove
    <3>1. \A p \in QuestionIDs : p <= made => p # q
      BY BoundsAssumption DEF TypeOK, QuestionIDs
    <3>2. made <= made'
      BY <2>1, BoundsAssumption DEF TypeOK
    <3> QED
      BY <1>1, <2>7, <3>1, <3>2 DEF TablesMove
  <2>10. ThemeInScope'
    <3> SUFFICES ASSUME NEW p \in QuestionIDs, questions'[p] # NoRow,
                        questions'[p].theme # "none"
                 PROVE  themes[questions'[p].theme] \in {"global", questions'[p].list}
      BY <1>1 DEF ThemeInScope
    <3>1. CASE p = q
      <4>1. questions'[p].theme = t /\ questions'[p].list = l
        BY <2>1, <2>4, <3>1 DEF TypeOK
      <4> QED
        BY <1>3, <4>1
    <3>2. CASE p # q
      BY <2>7, <3>2 DEF ThemeInScope
    <3> QED
      BY <3>1, <3>2
  <2> QED
    BY <1>4, <1>5, <2>1, <2>5, <2>6, <2>8, <2>9, <2>10, WriteStep DEF CreateQuestion
<1>6. CASE UpdateQuestion(r)
  <2> DEFINE q == req[r].question
             row == [questions[q] EXCEPT !.theme = t]
  <2>1. q \in QuestionIDs /\ questions[q] \in Row /\ questions[q].list = l
    BY <1>0, <1>6 DEF UpdateQuestion, ReliesOn, TypeOK
  <2>2. row \in Row /\ row.list = l /\ row.theme = t
    BY <1>2, <2>1 DEF Row
  <2>3. questions' = [questions EXCEPT ![q] = row]
    BY <1>6 DEF UpdateQuestion
  <2> HIDE DEF row
  <2>4. questions' \in [QuestionIDs -> Row \cup {NoRow}]
    BY <2>2, <2>3 DEF TypeOK
  <2>5. /\ \A p \in QuestionIDs : p # q => questions'[p] = questions[p]
        /\ questions'[q] = row
    BY <2>1, <2>3 DEF TypeOK
  <2>6. questions[q] # NoRow /\ made' = made /\ overlapped' = overlapped /\ stale' = stale
    BY <1>6 DEF UpdateQuestion, history
  <2>7. \A p \in QuestionIDs : questions'[p] # NoRow => p <= made'
    BY <2>5, <2>6 DEF CountInv
  <2>8. TablesMove
    <3>1. made <= made'
      BY <2>6, BoundsAssumption DEF TypeOK
    <3> QED
      BY <1>1, <2>1, <2>2, <2>5, <2>6, <3>1 DEF TablesMove
  <2>9. ThemeInScope'
    BY <1>1, <1>3, <2>2, <2>5 DEF ThemeInScope
  <2>10. made' \in 0 .. MaxQuestions /\ overlapped' \in SUBSET Lists /\ stale' \in SUBSET Requests
    BY <2>6 DEF TypeOK
  <2> QED
    BY <1>4, <1>6, <2>4, <2>7, <2>8, <2>9, <2>10, WriteStep DEF UpdateQuestion
<1> QED
  BY <1>5, <1>6

\* A step that gives questions new positions, and may delete some, preserves the
\* invariant.
LEMMA MoveStep ==
    ASSUME IInv, NEW r \in Requests, Answered(r), UNCHANGED <<lists, themes, made>>,
           overlapped' \in SUBSET Lists, stale' \in SUBSET Requests,
           questions' = [q \in QuestionIDs |-> questions'[q]],
           \A q \in QuestionIDs :
              \/ questions'[q] = NoRow
              \/ questions'[q] = questions[q]
              \/ /\ questions[q] # NoRow
                 /\ \E i \in 0 .. MaxQuestions - 1 :
                       questions'[q] = [questions[q] EXCEPT !.index = i]
    PROVE  IInv'
<1> USE DEF IInv
<1>1. \A q \in QuestionIDs : questions[q] # NoRow => questions[q] \in Row
  BY DEF TypeOK
<1>2. \A q \in QuestionIDs : questions'[q] # NoRow =>
         /\ questions[q] # NoRow /\ questions'[q] \in Row
         /\ questions'[q].list = questions[q].list
         /\ questions'[q].theme = questions[q].theme
  BY <1>1 DEF Row
<1>3. questions' \in [QuestionIDs -> Row \cup {NoRow}]
  <2>1. \A q \in QuestionIDs : questions'[q] \in Row \cup {NoRow}
    BY <1>2
  <2> QED
    BY <2>1
<1>4. \A q \in QuestionIDs : questions'[q] # NoRow => q <= made'
  BY <1>2 DEF CountInv
<1>5. TablesMove
  <2>1. made <= made'
    BY BoundsAssumption DEF TypeOK
  <2> QED
    BY <1>2, <2>1 DEF TablesMove
<1>6. ThemeInScope'
  BY <1>2 DEF ThemeInScope
<1>7. /\ lists' \in [Lists -> Users \cup States \cup {"public"}]
      /\ themes' \in [Themes -> Lists \cup States \cup {"global"}]
      /\ made' \in 0 .. MaxQuestions
  BY DEF TypeOK
<1> QED
  BY <1>3, <1>4, <1>5, <1>6, <1>7, WriteStep

\* Question p of list l with the row that the order ids gives it.
Placed(p, row, ids, l) ==
    /\ p \in QuestionIDs /\ questions[p] # NoRow /\ questions[p].list = l
    /\ row.index \in 0 .. MaxQuestions - 1
    /\ row = [questions[p] EXCEPT !.index = row.index]
    /\ row \in Row /\ row.list = l
    /\ row.index + 1 \in DOMAIN ids /\ ids[row.index + 1] = p

\* What numbering does to the rows: those of qs that the order names go where it has
\* them, the others stay.
LEMMA RenumberedRows ==
    ASSUME TypeOK, NEW ids \in Orders, NEW l, NEW qs \in SUBSET ListQuestions(l),
           NEW rows, rows = Renumbered(ids, qs)
    PROVE  /\ rows = [q \in QuestionIDs |-> rows[q]]
           /\ \A q \in QuestionIDs : q \notin qs \cap Named(ids) => rows[q] = questions[q]
           /\ \A q \in qs \cap Named(ids) : Placed(q, rows[q], ids, l)
<1> DEFINE at(q) == (CHOOSE i \in DOMAIN ids : ids[i] = q) - 1
<1>1. rows = [q \in QuestionIDs |-> IF q \in qs \cap Named(ids)
                                    THEN [questions[q] EXCEPT !.index = at(q)]
                                    ELSE questions[q]]
  BY DEF Renumbered
<1>2. PICK n \in 0 .. MaxQuestions : ids \in [1 .. n -> QuestionIDs]
  BY DEF Orders
<1>3. ASSUME NEW q \in qs \cap Named(ids)
      PROVE  /\ at(q) \in 0 .. MaxQuestions - 1
             /\ at(q) + 1 \in DOMAIN ids /\ ids[at(q) + 1] = q
  <2>1. PICK k : k = (CHOOSE i \in DOMAIN ids : ids[i] = q)
    OBVIOUS
  <2>2. \E i \in DOMAIN ids : ids[i] = q
    BY DEF Named
  <2>3. k \in DOMAIN ids /\ ids[k] = q
    BY <2>1, <2>2
  <2>4. k \in 1 .. n /\ at(q) = k - 1
    BY <1>2, <2>1, <2>3
  <2> HIDE DEF at
  <2>5. at(q) \in 0 .. MaxQuestions - 1 /\ at(q) + 1 = k
    BY <1>2, <2>4, BoundsAssumption
  <2> QED
    BY <2>3, <2>5
<1> HIDE DEF at
<1>4. ASSUME NEW q \in qs \cap Named(ids)
      PROVE  Placed(q, rows[q], ids, l)
  <2>1. q \in QuestionIDs /\ questions[q] # NoRow /\ questions[q].list = l /\ questions[q] \in Row
    BY DEF ListQuestions, TypeOK
  <2>2. rows[q] = [questions[q] EXCEPT !.index = at(q)]
    BY <1>1, <2>1
  <2>3. rows[q].index = at(q) /\ rows[q] \in Row /\ rows[q].list = l
    BY <1>3, <2>1, <2>2 DEF Row
  <2> QED
    BY <1>3, <2>1, <2>2, <2>3 DEF Placed
<1>5. /\ rows = [q \in QuestionIDs |-> rows[q]]
      /\ \A q \in QuestionIDs : q \notin qs \cap Named(ids) => rows[q] = questions[q]
  BY <1>1
<1> QED
  BY <1>4, <1>5

\* What the end of a deletion does to the rows.
LEMMA CommitRows ==
    ASSUME TypeOK, NEW r \in Requests, CommitDelete(r),
           NEW ids \in Orders, ids = req[r].order, NEW q \in QuestionIDs, q = req[r].question,
           NEW l, l = questions[q].list, NEW left, left = ListQuestions(l) \ {q}
    PROVE  /\ left \in SUBSET ListQuestions(l) /\ q \notin left
           /\ questions' = [p \in QuestionIDs |-> questions'[p]]
           /\ questions'[q] = NoRow
           /\ \A p \in QuestionIDs : p # q /\ p \notin left \cap Named(ids) =>
                                       questions'[p] = questions[p]
           /\ \A p \in left \cap Named(ids) : Placed(p, questions'[p], ids, l)
<1>1. PICK rows : rows = Renumbered(ids, left)
  OBVIOUS
<1>2. questions' = [rows EXCEPT ![q] = NoRow]
  BY <1>1 DEF CommitDelete
<1>3. left \in SUBSET ListQuestions(l) /\ q \notin left
  OBVIOUS
<1>4. /\ rows = [p \in QuestionIDs |-> rows[p]]
      /\ \A p \in QuestionIDs : p \notin left \cap Named(ids) => rows[p] = questions[p]
      /\ \A p \in left \cap Named(ids) : Placed(p, rows[p], ids, l)
  <2>1. ASSUME NEW S \in SUBSET ListQuestions(l), NEW rs, rs = Renumbered(ids, S)
        PROVE  /\ rs = [p \in QuestionIDs |-> rs[p]]
               /\ \A p \in QuestionIDs : p \notin S \cap Named(ids) => rs[p] = questions[p]
               /\ \A p \in S \cap Named(ids) : Placed(p, rs[p], ids, l)
    BY <2>1, RenumberedRows
  <2> QED
    BY <1>1, <1>3, <2>1
<1>5. /\ questions' = [p \in QuestionIDs |-> questions'[p]] /\ questions'[q] = NoRow
      /\ \A p \in QuestionIDs : p # q => questions'[p] = rows[p]
  BY <1>2, <1>4
<1>6. left \subseteq QuestionIDs
  BY DEF ListQuestions
<1> QED
  BY <1>3, <1>4, <1>5, <1>6

\* What a reordering does to the rows.
LEMMA ReorderRows ==
    ASSUME TypeOK, NEW r \in Requests, ReorderQuestions(r),
           NEW ids \in Orders, ids = req[r].order,
           NEW l, l = req[r].scope, NEW qs, qs = ListQuestions(l)
    PROVE  /\ questions' = [p \in QuestionIDs |-> questions'[p]]
           /\ \A p \in QuestionIDs : p \notin qs \cap Named(ids) => questions'[p] = questions[p]
           /\ \A p \in qs \cap Named(ids) : Placed(p, questions'[p], ids, l)
<1>1. PICK rows : rows = Renumbered(ids, qs)
  OBVIOUS
<1>2. questions' = rows
  BY <1>1 DEF ReorderQuestions
<1>3. qs \in SUBSET ListQuestions(l)
  OBVIOUS
<1>4. /\ rows = [p \in QuestionIDs |-> rows[p]]
      /\ \A p \in QuestionIDs : p \notin qs \cap Named(ids) => rows[p] = questions[p]
      /\ \A p \in qs \cap Named(ids) : Placed(p, rows[p], ids, l)
  BY <1>1, <1>3, RenumberedRows
<1> QED
  BY <1>2, <1>4

\* Deleting a question and reordering a list preserve the invariant.
LEMMA Moves ==
    ASSUME IInv, NEW r \in Requests, CommitDelete(r) \/ ReorderQuestions(r)
    PROVE  IInv'
<1> USE DEF IInv
<1>0. /\ TypeOK /\ req[r] \in Data /\ req[r].order \in Orders
      /\ ReliesOn(pc[r], req[r], themes, questions, made)
  BY DEF RequestInv, TypeOK, Data
<1>1. Answered(r) /\ UNCHANGED <<lists, themes, made>>
  BY DEF CommitDelete, ReorderQuestions
<1>2. overlapped' \in SUBSET Lists /\ stale' \in SUBSET Requests
  <2>1. req[r].scope \in Lists
    BY <1>0 DEF CommitDelete, ReorderQuestions, ReliesOn
  <2>2. \E m \in BOOLEAN : Written(r, req[r].scope, m)
    BY DEF CommitDelete, ReorderQuestions
  <2> QED
    BY <2>1, <2>2, WrittenType
<1>3. /\ questions' = [q \in QuestionIDs |-> questions'[q]]
      /\ \A q \in QuestionIDs :
           \/ questions'[q] = NoRow
           \/ questions'[q] = questions[q]
           \/ \E ids, l : Placed(q, questions'[q], ids, l)
  <2>1. PICK ids \in Orders : ids = req[r].order
    BY <1>0
  <2>2. CASE CommitDelete(r)
    <3>1. req[r].question \in QuestionIDs
      BY <1>0, <2>2 DEF CommitDelete, ReliesOn
    <3>2. PICK q \in QuestionIDs : q = req[r].question
      BY <3>1
    <3>3. PICK l, left : l = questions[q].list /\ left = ListQuestions(l) \ {q}
      OBVIOUS
    <3>a. TypeOK
      BY <1>0
    <3>4. /\ left \in SUBSET ListQuestions(l) /\ q \notin left
          /\ questions' = [p \in QuestionIDs |-> questions'[p]]
          /\ questions'[q] = NoRow
          /\ \A p \in QuestionIDs : p # q /\ p \notin left \cap Named(ids) =>
                                      questions'[p] = questions[p]
          /\ \A p \in left \cap Named(ids) : Placed(p, questions'[p], ids, l)
      <4> HIDE DEF IInv
      <4> QED
        BY <2>1, <2>2, <3>2, <3>3, <3>a, CommitRows
    <3> QED
      BY <3>4
  <2>3. CASE ReorderQuestions(r)
    <3>1. PICK l, qs : l = req[r].scope /\ qs = ListQuestions(l)
      OBVIOUS
    <3>2. /\ questions' = [p \in QuestionIDs |-> questions'[p]]
          /\ \A p \in QuestionIDs : p \notin qs \cap Named(ids) => questions'[p] = questions[p]
          /\ \A p \in qs \cap Named(ids) : Placed(p, questions'[p], ids, l)
      BY <2>1, <2>3, <3>1, ReorderRows
    <3> QED
      BY <3>2
  <2> QED
    BY <2>2, <2>3
<1>4. \A q \in QuestionIDs :
         \/ questions'[q] = NoRow
         \/ questions'[q] = questions[q]
         \/ /\ questions[q] # NoRow
            /\ \E i \in 0 .. MaxQuestions - 1 :
                  questions'[q] = [questions[q] EXCEPT !.index = i]
  <2> TAKE q \in QuestionIDs
  <2>1. CASE \E ids, l : Placed(q, questions'[q], ids, l)
    <3>1. PICK i \in 0 .. MaxQuestions - 1 :
             questions[q] # NoRow /\ questions'[q] = [questions[q] EXCEPT !.index = i]
      BY <2>1 DEF Placed
    <3> QED
      BY <3>1
  <2> QED
    BY <1>3, <2>1
<1> QED
  BY <1>1, <1>2, <1>3, <1>4, MoveStep

---------------------------------------------------------------------------

\* An empty catalog satisfies the invariant.
LEMMA InitIInv == Init => IInv
<1> SUFFICES ASSUME Init PROVE IInv
  OBVIOUS
<1>1. TypeOK
  BY NoRequestType, BoundsAssumption DEF Init, TypeOK, States, Steps
<1>2. CountInv /\ RequestInv /\ ThemeInScope
  BY DEF Init, CountInv, RequestInv, ReliesOn, ThemeInScope
<1> QED
  BY <1>1, <1>2 DEF IInv

\* Every step preserves the invariant.
LEMMA NextIInv == IInv /\ [Next]_vars => IInv'
<1> SUFFICES ASSUME IInv, [Next]_vars PROVE IInv'
  OBVIOUS
<1>1. ASSUME NEW l \in Lists, CreateList(l)
      PROVE  IInv'
  <2>1. lists' \in [Lists -> Users \cup States \cup {"public"}]
    BY <1>1, OwnersOfAssumption DEF CreateList, IInv, TypeOK
  <2>2. TypeOK'
    BY <1>1, <2>1 DEF CreateList, IInv, TypeOK, history
  <2>3. CountInv' /\ RequestInv' /\ ThemeInScope'
    BY <1>1 DEF CreateList, IInv, CountInv, RequestInv, ThemeInScope
  <2> QED
    BY <2>2, <2>3 DEF IInv
<1>2. ASSUME NEW r \in Requests, Fail(r)
      PROVE  IInv'
  <2>1. ReliesOn("idle", NoRequest, themes, questions, made)
    BY DEF ReliesOn
  <2>2. stale' \in SUBSET Requests
    BY <1>2 DEF Fail, IInv, TypeOK
  <2> QED
    BY <1>2, <2>1, <2>2, NoRequestType, ReadStep DEF Fail, Answered, Steps
<1>3. CASE UNCHANGED vars
  BY <1>3 DEF vars, tables, history, IInv, TypeOK, CountInv, RequestInv, ThemeInScope
<1> QED
  BY <1>1, <1>2, <1>3, Reads, ListAndThemeWrites, QuestionWrites, Moves DEF Next

\* Every reachable state of the catalog is well typed; in particular no position
\* exceeds the number of questions, however the edits interleave.
THEOREM CatalogTypeOK == Spec => []TypeOK
<1>1. IInv => TypeOK
  BY DEF IInv
<1> QED
  BY <1>1, InitIInv, NextIInv, PTL DEF Spec

\* The theme of a question is global or of the question's list in every reachable
\* state, although checkTheme runs in a statement of its own.
THEOREM CatalogThemeInScope == Spec => []ThemeInScope
<1>1. IInv => ThemeInScope
  BY DEF IInv
<1> QED
  BY <1>1, InitIInv, NextIInv, PTL DEF Spec

---------------------------------------------------------------------------
(* The questions of a list, orders, and steps                              *)

\* The questions of a list are finitely many and have positions.
LEMMA ListFacts ==
    ASSUME TypeOK, NEW l, NEW S \in SUBSET ListQuestions(l)
    PROVE  /\ IsFiniteSet(S) /\ Cardinality(S) \in Nat
           /\ \A p \in S : p \in Int /\ p \in QuestionIDs /\ questions[p] \in Row
                           /\ questions[p].index \in Int
<1>1. S \subseteq QuestionIDs /\ \A p \in S : questions[p] \in Row
  BY DEF TypeOK, ListQuestions
<1>2. IsFiniteSet(QuestionIDs)
  BY FS_Interval, BoundsAssumption DEF QuestionIDs
<1>3. IsFiniteSet(S)
  BY <1>1, <1>2, FS_Subset
<1>4. Cardinality(S) \in Nat
  BY <1>3, FS_CardinalityType
<1>5. \A p \in S : p \in Int /\ questions[p].index \in Int
  BY <1>1 DEF QuestionIDs, Row
<1> QED
  BY <1>1, <1>3, <1>4, <1>5

\* An order without repetition gives its n questions the positions 0..n-1.
LEMMA OrderContiguous ==
    ASSUME NEW n \in Nat, NEW S, NEW ids \in [1 .. n -> S],
           \A i, j \in 1 .. n : ids[i] = ids[j] => i = j,
           NEW f \in [S -> 1 .. n], \A q \in S : ids[f[q]] = q
    PROVE  /\ Cardinality(S) = n
           /\ \A q \in S : f[q] - 1 \in 0 .. n - 1
           /\ \A k \in 0 .. n - 1 : ids[k + 1] \in S /\ f[ids[k + 1]] - 1 = k
<1>1. ids \in Bijection(1 .. n, S)
  BY DEF Bijection, Injection, Surjection, IsInjective
<1>2. Cardinality(S) = n
  BY <1>1, FS_CountingElements DEF ExistsBijection
<1>3. \A i \in 1 .. n : ids[i] \in S /\ f[ids[i]] = i
  OBVIOUS
<1>4. \A q \in S : f[q] - 1 \in 0 .. n - 1
  OBVIOUS
<1>5. ASSUME NEW k \in 0 .. n - 1 PROVE ids[k + 1] \in S /\ f[ids[k + 1]] - 1 = k
  <2>1. k + 1 \in 1 .. n
    OBVIOUS
  <2> QED
    BY <1>3, <2>1
<1> QED
  BY <1>2, <1>4, <1>5

\* Only request r moves.
OnlyMoves(r) == \A s \in Requests \ {r} : pc'[s] = pc[s] /\ req'[s] = req[s]

\* A step of one request.
RequestStepOf(r) ==
    \/ LoadEditableList(r) \/ RequireAdmin(r) \/ CheckTheme(r) \/ CountQuestions(r)
    \/ CreateQuestion(r) \/ GetQuestion(r) \/ UpdateQuestion(r) \/ DeleteRow(r)
    \/ NumberRows(r) \/ CommitDelete(r) \/ CheckOrder(r) \/ ReorderQuestions(r)
    \/ DeleteList(r) \/ CreateTheme(r) \/ LoadTheme(r) \/ DeleteTheme(r) \/ Fail(r)

\* One request moves at a time.
LEMMA OneRequest ==
    ASSUME TypeOK, NEW r \in Requests, RequestStepOf(r)
    PROVE  OnlyMoves(r)
<1> USE DEF OnlyMoves, Goto, Answered, TypeOK
<1>1. CASE LoadEditableList(r) \/ RequireAdmin(r) \/ CheckTheme(r) \/ CountQuestions(r)
           \/ GetQuestion(r) \/ DeleteRow(r) \/ NumberRows(r) \/ CheckOrder(r) \/ LoadTheme(r)
  BY <1>1 DEF LoadEditableList, RequireAdmin, CheckTheme, CountQuestions, GetQuestion, DeleteRow,
              NumberRows, CheckOrder, LoadTheme
<1>2. CASE CreateQuestion(r) \/ UpdateQuestion(r) \/ CommitDelete(r) \/ ReorderQuestions(r)
           \/ DeleteList(r) \/ CreateTheme(r) \/ DeleteTheme(r) \/ Fail(r)
  <2>1. Answered(r)
    BY <1>2 DEF CreateQuestion, UpdateQuestion, CommitDelete, ReorderQuestions, DeleteList, CreateTheme,
                DeleteTheme, Fail
  <2> QED
    BY <2>1
<1> QED
  BY <1>1, <1>2 DEF RequestStepOf

\* Every step is that of one request, or creates a list.
LEMMA CatalogCases ==
    ASSUME [Next]_vars
    PROVE  \/ UNCHANGED vars \/ (\E l \in Lists : CreateList(l))
           \/ \E r \in Requests : RequestStepOf(r)
BY DEF Next, RequestStepOf

---------------------------------------------------------------------------
(* Who edits what                                                          *)

\* A request goes on only for an actor who was allowed to edit the list it loaded, and a
\* list keeps its owner until it is gone.
EditFor(r) ==
    pc[r] # "idle" =>
        \/ req[r].scope = "global" /\ req[r].by \in Admins
        \/ /\ req[r].scope \in Lists /\ req[r].by \in Actors
           /\ lists[req[r].scope] = "gone" \/ canEditList(req[r].by, req[r].scope)

\* A theme that was loaded to be deleted is of the scope that was loaded, or gone.
DropFor(r) == pc[r] = "dropTheme" => themes[req[r].theme] \in {req[r].scope, "gone"}

\* The row a deletion has locked stays, and nobody else has locked it.
HeldFor(r) ==
    pc[r] \in {"renumber", "commit"} => /\ questions[req[r].question] # NoRow
                                        /\ ~LockedFor(r, req[r].question)

\* Questions are of lists that exist.
RowsInv == \A q \in QuestionIDs : questions[q] # NoRow => Live(questions[q].list)

EditInv == /\ IInv /\ RowsInv
           /\ \A r \in Requests : EditFor(r) /\ DropFor(r) /\ HeldFor(r)

\* What the steps of the others may do to what a request relies on.
EditFrame ==
    /\ \A l \in Lists : lists'[l] = lists[l] \/ lists'[l] = "gone" \/ lists[l] = "unused"
    /\ \A t \in Themes : themes'[t] = themes[t] \/ themes'[t] = "gone" \/ themes[t] = "unused"

\* Each step changes the lists and the themes only so.
LEMMA EditFrames ==
    ASSUME IInv, [Next]_vars
    PROVE  EditFrame
<1>0. TypeOK
  BY DEF IInv
<1>1. ASSUME NEW l \in Lists, CreateList(l) PROVE EditFrame
  BY <1>0, <1>1 DEF CreateList, EditFrame, TypeOK
<1>2. ASSUME NEW r \in Requests, RequestStepOf(r), ~CreateTheme(r), ~DeleteTheme(r), ~DeleteList(r)
      PROVE  EditFrame
  BY <1>2 DEF RequestStepOf, LoadEditableList, RequireAdmin, CheckTheme, CountQuestions,
       CreateQuestion, GetQuestion, UpdateQuestion, DeleteRow, NumberRows, CommitDelete, CheckOrder,
       ReorderQuestions, LoadTheme, Fail, tables, EditFrame
<1>3. ASSUME NEW r \in Requests, CreateTheme(r) \/ DeleteTheme(r) \/ DeleteList(r) PROVE EditFrame
  BY <1>0, <1>3 DEF CreateTheme, DeleteTheme, DeleteList, TypeOK, EditFrame
<1>4. CASE UNCHANGED vars
  BY <1>4 DEF vars, tables, EditFrame
<1> QED
  BY <1>1, <1>2, <1>3, <1>4, CatalogCases

\* What a request relies on survives the steps of the others.
LEMMA EditStays ==
    ASSUME EditInv, EditFrame, NEW s \in Requests, pc'[s] = pc[s], req'[s] = req[s]
    PROVE  EditFor(s)' /\ DropFor(s)'
<1>0. EditFor(s) /\ DropFor(s) /\ TypeOK /\ RequestInv
  BY DEF EditInv, IInv
<1>1. \A a \in Actors : a \notin {"unused", "gone", "public"}
  BY NamesAssumption DEF Actors, Marks, States
<1>2. EditFor(s)'
  <2> SUFFICES ASSUME pc[s] # "idle", req[s].scope \in Lists, req[s].by \in Actors,
                      lists[req[s].scope] = "gone" \/ canEditList(req[s].by, req[s].scope)
               PROVE  lists'[req[s].scope] = "gone" \/ canEditList(req[s].by, req[s].scope)'
    BY <1>0 DEF EditFor
  <2>1. lists[req[s].scope] # "unused"
    BY <1>1 DEF canEditList
  <2>2. lists'[req[s].scope] = lists[req[s].scope] \/ lists'[req[s].scope] = "gone"
    BY <2>1 DEF EditFrame
  <2> QED
    BY <2>2 DEF canEditList
<1>3. DropFor(s)'
  <2> SUFFICES ASSUME pc[s] = "dropTheme" PROVE themes'[req[s].theme] \in {req[s].scope, "gone"}
    BY DEF DropFor
  <2>1. req[s].theme \in Themes /\ req[s].scope \in Lists \cup {"global"}
    BY <1>0 DEF RequestInv, ReliesOn, EditFor
  <2>2. themes[req[s].theme] \in {req[s].scope, "gone"}
    BY <1>0 DEF DropFor
  <2>3. themes[req[s].theme] # "unused"
    BY <2>1, <2>2, NamesAssumption DEF Marks, States
  <2> QED
    BY <2>1, <2>2, <2>3 DEF EditFrame
<1> QED
  BY <1>2, <1>3

\* Every step that a request takes leaves it within what its actor may edit.
LEMMA EditMoves ==
    ASSUME EditInv, NEW r \in Requests, RequestStepOf(r)
    PROVE  EditFor(r)' /\ DropFor(r)'
<1>0. EditFor(r) /\ DropFor(r) /\ TypeOK /\ req[r] \in Data
  BY DEF EditInv, IInv, TypeOK
<1>1. CASE pc'[r] = "idle"
  BY <1>1 DEF EditFor, DropFor
<1>2. CASE LoadEditableList(r)
  <2>1. PICK a \in Actors, l \in Lists :
           /\ Live(l) /\ canEditList(a, l)
           /\ req' = [req EXCEPT ![r] = [NoRequest EXCEPT !.by = a, !.scope = l]]
    BY <1>2 DEF LoadEditableList
  <2>2. req'[r].by = a /\ req'[r].scope = l /\ pc'[r] = "loaded" /\ lists' = lists
    BY <1>0, <1>2, <2>1 DEF LoadEditableList, Goto, TypeOK, NoRequest, tables
  <2> QED
    BY <2>1, <2>2 DEF EditFor, DropFor, canEditList
<1>3. CASE RequireAdmin(r)
  <2>1. PICK a \in Admins :
           req' = [req EXCEPT ![r] = [NoRequest EXCEPT !.by = a, !.scope = "global"]]
    BY <1>3 DEF RequireAdmin
  <2>2. req'[r].by = a /\ req'[r].scope = "global" /\ pc'[r] = "loaded"
    BY <1>0, <1>3, <2>1 DEF RequireAdmin, Goto, TypeOK, NoRequest
  <2> QED
    BY <2>1, <2>2 DEF EditFor, DropFor
<1>4. CASE \/ CheckTheme(r) \/ CountQuestions(r) \/ GetQuestion(r) \/ DeleteRow(r)
           \/ NumberRows(r) \/ CheckOrder(r) \/ LoadTheme(r)
  <2>1. /\ pc[r] # "idle" /\ lists' = lists /\ themes' = themes
    BY <1>4 DEF CheckTheme, CountQuestions, GetQuestion, DeleteRow, NumberRows, CheckOrder,
                LoadTheme, tables
  <2>2. req'[r].by = req[r].by /\ req'[r].scope = req[r].scope
    <3>1. CASE CheckTheme(r)
      BY <1>0, <3>1 DEF CheckTheme, TypeOK, Data
    <3>2. CASE CountQuestions(r)
      BY <1>0, <3>2 DEF CountQuestions, TypeOK, Data
    <3>3. CASE GetQuestion(r)
      BY <1>0, <3>3 DEF GetQuestion, TypeOK, Data
    <3>4. CASE DeleteRow(r)
      BY <3>4 DEF DeleteRow
    <3>5. CASE CheckOrder(r)
      BY <1>0, <3>5 DEF CheckOrder, TypeOK, Data
    <3>6. CASE LoadTheme(r)
      BY <1>0, <3>6 DEF LoadTheme, TypeOK, Data
    <3>7. CASE NumberRows(r)
      BY <1>0, <3>7 DEF NumberRows, TypeOK, Data
    <3> QED
      BY <1>4, <3>1, <3>2, <3>3, <3>4, <3>5, <3>6, <3>7
  <2>3. EditFor(r)'
    BY <1>0, <2>1, <2>2 DEF EditFor, canEditList
  <2>4. DropFor(r)'
    <3>1. CASE LoadTheme(r)
      <4>1. PICK t \in Themes : /\ themes[t] = req[r].scope
                                /\ req' = [req EXCEPT ![r] = [req[r] EXCEPT !.theme = t]]
        BY <3>1 DEF LoadTheme
      <4>2. req'[r].theme = t
        BY <1>0, <4>1 DEF TypeOK, Data
      <4> QED
        BY <2>1, <2>2, <4>1, <4>2 DEF DropFor
    <3>2. CASE ~LoadTheme(r)
      <4>1. pc'[r] # "dropTheme"
        BY <1>0, <1>4, <3>2 DEF CheckTheme, CountQuestions, GetQuestion, DeleteRow,
                                NumberRows, CheckOrder, Goto, TypeOK
      <4> QED
        BY <4>1 DEF DropFor
    <3> QED
      BY <3>1, <3>2
  <2> QED
    BY <2>3, <2>4
<1>5. ASSUME \/ CreateQuestion(r) \/ UpdateQuestion(r) \/ CommitDelete(r) \/ ReorderQuestions(r)
             \/ DeleteList(r) \/ CreateTheme(r) \/ DeleteTheme(r) \/ Fail(r)
      PROVE  pc'[r] = "idle"
  <2>1. Answered(r)
    BY <1>5 DEF CreateQuestion, UpdateQuestion, CommitDelete, ReorderQuestions, DeleteList, CreateTheme,
                DeleteTheme, Fail
  <2> QED
    BY <1>0, <2>1 DEF Answered, Goto, TypeOK
<1> QED
  BY <1>1, <1>2, <1>3, <1>4, <1>5 DEF RequestStepOf

\* What a step of request r does to the rows: it adds one to a list that exists, changes
\* some that stay in their list, or removes the one it has locked or those of its list.
RowsEffect(r) ==
    /\ \A q \in QuestionIDs : questions'[q] # NoRow =>
          \/ questions[q] # NoRow /\ questions'[q].list = questions[q].list
          \/ questions[q] = NoRow /\ questions'[q].list = req[r].scope /\ Live(req[r].scope)
    /\ \A q \in QuestionIDs : questions[q] # NoRow /\ questions'[q] = NoRow =>
          \/ CommitDelete(r) /\ q = req[r].question
          \/ DeleteList(r) /\ questions[q].list = req[r].scope

\* Every write has that effect, on rows that its actor may edit.
LEMMA RowsWritten ==
    ASSUME EditInv, NEW r \in Requests, RequestStepOf(r)
    PROVE  /\ RowsEffect(r)
           /\ \A q \in QuestionIDs : questions[q] # NoRow /\ questions'[q] # questions[q] =>
                 \/ questions[q].list = req[r].scope
                 \/ /\ req[r].scope = "global" /\ req[r].by \in Admins
                    /\ questions'[q] = [questions[q] EXCEPT !.theme = "none"]
<1>0. /\ TypeOK /\ CountInv /\ ThemeInScope /\ RequestInv /\ req[r] \in Data
      /\ EditFor(r) /\ DropFor(r) /\ HeldFor(r)
      /\ ReliesOn(pc[r], req[r], themes, questions, made)
  BY DEF EditInv, IInv, TypeOK, RequestInv
<1>1. \A q \in QuestionIDs : questions[q] # NoRow => questions[q] \in Row
  BY <1>0 DEF TypeOK
<1>2. CASE questions' = questions
  BY <1>2 DEF RowsEffect
<1>3. CASE CreateQuestion(r)
  <2> DEFINE q == made + 1
             row == [list |-> req[r].scope, index |-> req[r].index, theme |-> req[r].theme]
  <2>1. q \in QuestionIDs /\ questions[q] = NoRow
    BY <1>0, <1>3, BoundsAssumption DEF CreateQuestion, CountInv, TypeOK, QuestionIDs
  <2>2. questions' = [questions EXCEPT ![q] = row] /\ Live(req[r].scope)
    BY <1>3 DEF CreateQuestion
  <2>3. /\ questions'[q].list = req[r].scope
        /\ \A p \in QuestionIDs : p # q => questions'[p] = questions[p]
        /\ questions'[q] = row
    BY <1>0, <2>1, <2>2 DEF TypeOK
  <2>4. row \in Row
    <3>1. req[r].scope \in Lists /\ req[r].theme \in Themes \cup {"none"}
      BY <1>0, <1>3 DEF CreateQuestion, ReliesOn, Data
    <3>2. req[r].index \in 0 .. MaxQuestions - 1
      BY <1>0, <1>3, BoundsAssumption DEF CreateQuestion, CountInv, TypeOK, Data
    <3> QED
      BY <3>1, <3>2 DEF Row
  <2> HIDE DEF q, row
  <2>5. questions'[q] # NoRow
    BY <2>3, <2>4, NoRowAssumption
  <2> QED
    BY <2>1, <2>2, <2>3, <2>5 DEF RowsEffect
<1>4. CASE UpdateQuestion(r)
  <2> DEFINE q == req[r].question
             row == [questions[q] EXCEPT !.theme = req[r].theme]
  <2>1. q \in QuestionIDs /\ questions[q] \in Row /\ questions[q].list = req[r].scope
    BY <1>0, <1>1, <1>4 DEF UpdateQuestion, ReliesOn
  <2>2. questions' = [questions EXCEPT ![q] = row]
    BY <1>4 DEF UpdateQuestion
  <2>3. row.list = questions[q].list /\ row \in Row
    BY <1>0, <2>1 DEF Row, Data
  <2> HIDE DEF row
  <2>4. /\ \A p \in QuestionIDs : p # q => questions'[p] = questions[p]
        /\ questions'[q] = row
    BY <1>0, <2>1, <2>2 DEF TypeOK
  <2>5. questions'[q] # NoRow /\ questions[q] # NoRow
    BY <2>1, <2>3, <2>4, NoRowAssumption
  <2> HIDE DEF q
  <2> QED
    BY <2>1, <2>3, <2>4, <2>5 DEF RowsEffect
<1>5. CASE CommitDelete(r)
  <2>1. /\ req[r].question \in QuestionIDs /\ questions[req[r].question] # NoRow
        /\ questions[req[r].question].list = req[r].scope
    BY <1>0, <1>5 DEF CommitDelete, ReliesOn, HeldFor
  <2>2. PICK q \in QuestionIDs, ids \in Orders : q = req[r].question /\ ids = req[r].order
    BY <1>0, <2>1 DEF Data
  <2>3. PICK l, left : l = questions[q].list /\ left = ListQuestions(l) \ {q}
    OBVIOUS
  <2>4. /\ left \in SUBSET ListQuestions(l) /\ q \notin left
        /\ questions' = [p \in QuestionIDs |-> questions'[p]]
        /\ questions'[q] = NoRow
        /\ \A p \in QuestionIDs : p # q /\ p \notin left \cap Named(ids) =>
                                    questions'[p] = questions[p]
        /\ \A p \in left \cap Named(ids) : Placed(p, questions'[p], ids, l)
    BY <1>0, <1>5, <2>2, <2>3, CommitRows
  <2>5. \A p \in QuestionIDs : p # q =>
          \/ questions'[p] = questions[p]
          \/ /\ questions[p] # NoRow /\ questions[p].list = l
             /\ questions'[p] # NoRow /\ questions'[p].list = l
    BY <2>4, NoRowAssumption DEF Placed
  <2>6. l = req[r].scope
    BY <2>1, <2>2, <2>3
  <2> QED
    BY <1>5, <2>2, <2>3, <2>4, <2>5, <2>6 DEF RowsEffect
<1>6. CASE ReorderQuestions(r)
  <2>1. PICK ids \in Orders : ids = req[r].order
    BY <1>0 DEF Data
  <2>2. PICK l, qs : l = req[r].scope /\ qs = ListQuestions(l)
    OBVIOUS
  <2>3. /\ \A p \in QuestionIDs : p \notin qs \cap Named(ids) => questions'[p] = questions[p]
        /\ \A p \in qs \cap Named(ids) : Placed(p, questions'[p], ids, l)
    BY <1>0, <1>6, <2>1, <2>2, ReorderRows
  <2>4. \A p \in QuestionIDs :
          \/ questions'[p] = questions[p]
          \/ /\ questions[p] # NoRow /\ questions[p].list = l
             /\ questions'[p] # NoRow /\ questions'[p].list = l
    BY <2>3, NoRowAssumption DEF Placed
  <2> QED
    BY <2>2, <2>4 DEF RowsEffect
<1>7. CASE DeleteList(r)
  <2>1. questions' = [q \in QuestionIDs |->
            IF q \in ListQuestions(req[r].scope) THEN NoRow ELSE questions[q]]
    BY <1>7 DEF DeleteList
  <2>2. \A q \in QuestionIDs : questions'[q] = questions[q] \/
            (questions'[q] = NoRow /\ questions[q].list = req[r].scope)
    BY <2>1 DEF ListQuestions
  <2> QED
    BY <1>7, <2>2 DEF RowsEffect
<1>8. CASE DeleteTheme(r)
  <2> DEFINE t == req[r].theme
             uses == {q \in QuestionIDs : questions[q] # NoRow /\ questions[q].theme = t}
  <2>1. /\ questions' = [q \in QuestionIDs |->
              IF q \in uses THEN [questions[q] EXCEPT !.theme = "none"] ELSE questions[q]]
        /\ themes[t] \notin States /\ pc[r] = "dropTheme"
    BY <1>8 DEF DeleteTheme
  <2>2. t \in Themes /\ themes[t] = req[r].scope
    BY <1>0, <2>1 DEF ReliesOn, DropFor, States
  <2>3. ASSUME NEW q \in uses
        PROVE  /\ questions[q] # NoRow /\ questions'[q].list = questions[q].list
               /\ questions'[q] # NoRow
               /\ questions'[q] = [questions[q] EXCEPT !.theme = "none"]
    <3>1. questions[q] \in Row /\ questions'[q] = [questions[q] EXCEPT !.theme = "none"]
      BY <1>1, <2>1
    <3>2. questions'[q] \in Row /\ questions'[q].list = questions[q].list
      BY <3>1 DEF Row
    <3> QED
      BY <3>1, <3>2, NoRowAssumption
  <2>4. ASSUME NEW q \in uses
        PROVE  \/ questions[q].list = req[r].scope
               \/ req[r].scope = "global" /\ req[r].by \in Admins
    <3>1. t # "none"
      BY <2>2, NamesAssumption DEF Marks
    <3>2. themes[t] \in {"global", questions[q].list}
      BY <1>0, <3>1 DEF ThemeInScope
    <3>3. "global" \notin Lists
      BY NamesAssumption DEF Marks
    <3> QED
      BY <1>0, <2>1, <2>2, <3>2, <3>3 DEF EditFor
  <2>5. \A q \in QuestionIDs : q \notin uses => questions'[q] = questions[q]
    BY <2>1
  <2> HIDE DEF uses
  <2> QED
    BY <2>3, <2>4, <2>5 DEF RowsEffect
<1>9. ASSUME \/ LoadEditableList(r) \/ RequireAdmin(r) \/ CheckTheme(r) \/ CountQuestions(r)
             \/ GetQuestion(r) \/ DeleteRow(r) \/ NumberRows(r) \/ CheckOrder(r)
             \/ LoadTheme(r) \/ CreateTheme(r) \/ Fail(r)
      PROVE  questions' = questions
  BY <1>9 DEF LoadEditableList, RequireAdmin, CheckTheme, CountQuestions, GetQuestion, DeleteRow,
         NumberRows, CheckOrder, LoadTheme, CreateTheme, Fail, tables
<1> QED
  BY <1>2, <1>3, <1>4, <1>5, <1>6, <1>7, <1>8, <1>9 DEF RequestStepOf

\* Every step keeps questions in lists that exist, and deletions their rows.
LEMMA EditStep ==
    ASSUME EditInv, [Next]_vars
    PROVE  EditInv'
<1>0. IInv /\ TypeOK /\ IInv' /\ TypeOK' /\ EditFrame /\ RequestInv
  BY NextIInv, EditFrames DEF EditInv, IInv
<1>1. CASE UNCHANGED vars
  <2>1. RowsInv' /\ \A r \in Requests : EditFor(r)' /\ DropFor(r)'
    BY <1>0, <1>1, EditStays DEF vars, tables, EditInv, RowsInv, Live
  <2>2. \A r \in Requests : HeldFor(r)'
    BY <1>1 DEF vars, tables, EditInv, HeldFor, LockedFor
  <2> QED
    BY <1>0, <2>1, <2>2 DEF EditInv
<1>2. ASSUME NEW l \in Lists, CreateList(l) PROVE EditInv'
  <2>1. UNCHANGED <<themes, questions, made, pc, req>>
    BY <1>2 DEF CreateList
  <2>2. \A k \in Lists : Live(k) => Live(k)'
    BY <1>0, <1>2 DEF CreateList, Live, TypeOK, States
  <2>3. RowsInv'
    BY <1>0, <2>1, <2>2 DEF EditInv, RowsInv, TypeOK, Row
  <2>4. \A r \in Requests : EditFor(r)' /\ DropFor(r)'
    BY <1>0, <2>1, EditStays
  <2>5. \A r \in Requests : HeldFor(r)'
    BY <2>1 DEF EditInv, HeldFor, LockedFor
  <2> QED
    BY <1>0, <2>3, <2>4, <2>5 DEF EditInv
<1>3. ASSUME NEW r \in Requests, RequestStepOf(r) PROVE EditInv'
  <2>1. OnlyMoves(r)
    BY <1>0, <1>3, OneRequest
  <2>2. \A s \in Requests : EditFor(s)' /\ DropFor(s)'
    BY <1>0, <1>3, <2>1, EditMoves, EditStays DEF OnlyMoves
  <2>3. RowsEffect(r)
    BY <1>3, RowsWritten
  <2>4. \A k \in Lists : Live(k) => Live(k)' \/ (DeleteList(r) /\ k = req[r].scope)
    <3>1. ~DeleteList(r) => lists' = lists
      BY <1>3 DEF RequestStepOf, LoadEditableList, RequireAdmin, CheckTheme, CountQuestions,
           CreateQuestion, GetQuestion, UpdateQuestion, DeleteRow, NumberRows, CommitDelete,
           CheckOrder, ReorderQuestions, CreateTheme, LoadTheme, DeleteTheme, Fail, tables
    <3>2. DeleteList(r) => lists' = [lists EXCEPT ![req[r].scope] = "gone"]
      BY DEF DeleteList
    <3> QED
      BY <1>0, <3>1, <3>2 DEF Live, TypeOK
  <2>5. RowsInv'
    <3> SUFFICES ASSUME NEW q \in QuestionIDs, questions'[q] # NoRow,
                        NEW k, k = questions'[q].list
                 PROVE  Live(k)'
      BY DEF RowsInv, Live
    <3>1. k \in Lists
      BY <1>0 DEF TypeOK, Row
    <3>2. Live(k)
      BY <2>3 DEF RowsEffect, EditInv, RowsInv
    <3>3. ~(DeleteList(r) /\ k = req[r].scope)
      BY <2>3 DEF DeleteList, ListQuestions, RowsEffect
    <3> QED
      BY <2>4, <3>1, <3>2, <3>3
  <2>8. PICK Locks : Locks = {"renumber", "commit"}
    OBVIOUS
  <2>9. ASSUME pc'[r] \in Locks
        PROVE  \/ DeleteRow(r) /\ req'[r].question = req[r].question
               \/ /\ NumberRows(r) /\ pc[r] \in Locks
                  /\ req'[r].question = req[r].question
    <3>1. ASSUME Answered(r) PROVE FALSE
      BY <1>0, <2>8, <2>9, <3>1 DEF Answered, Goto, TypeOK
    <3>2. ~(\/ LoadEditableList(r) \/ RequireAdmin(r) \/ CheckTheme(r) \/ CountQuestions(r)
            \/ GetQuestion(r) \/ CheckOrder(r) \/ LoadTheme(r))
      BY <1>0, <2>8, <2>9 DEF LoadEditableList, RequireAdmin, CheckTheme, CountQuestions,
           GetQuestion, CheckOrder, LoadTheme, Goto, TypeOK
    <3>3. DeleteRow(r) \/ NumberRows(r)
      BY <1>3, <3>1, <3>2 DEF RequestStepOf, CreateQuestion, UpdateQuestion, CommitDelete,
           ReorderQuestions, DeleteList, CreateTheme, DeleteTheme, Fail
    <3>4. CASE DeleteRow(r)
      BY <3>4 DEF DeleteRow
    <3>5. CASE NumberRows(r)
      <4>1. PICK ids \in Orders : req' = [req EXCEPT ![r] = [req[r] EXCEPT !.order = ids]]
        BY <3>5 DEF NumberRows
      <4>2. req'[r].question = req[r].question
        BY <1>0, <4>1 DEF TypeOK, Data
      <4> QED
        BY <2>8, <3>5, <4>2 DEF NumberRows
    <3> QED
      BY <3>3, <3>4, <3>5
  <2>6. ASSUME NEW s \in Requests, pc'[s] \in Locks
        PROVE  /\ questions'[req'[s].question] # NoRow
               /\ \A u \in Requests \ {s} :
                    ~(pc'[u] \in Locks /\ req'[u].question = req'[s].question)
    <3>1. CASE s = r
      <4>1. /\ questions[req[r].question] # NoRow /\ ~LockedFor(r, req[r].question)
            /\ questions' = questions /\ req'[r].question = req[r].question
        <5>1. CASE DeleteRow(r)
          BY <2>6, <2>9, <3>1, <5>1 DEF DeleteRow, tables
        <5>2. CASE NumberRows(r) /\ pc[r] \in Locks /\ req'[r].question = req[r].question
          BY <2>8, <5>2 DEF NumberRows, tables, EditInv, HeldFor
        <5> QED
          BY <2>6, <2>9, <3>1, <5>1, <5>2
      <4> QED
        BY <2>1, <2>8, <3>1, <4>1 DEF LockedFor, OnlyMoves
    <3>2. CASE s # r
      <4>1. pc[s] \in Locks /\ req'[s] = req[s] /\ HeldFor(s)
        BY <2>1, <2>6, <3>2 DEF OnlyMoves, EditInv
      <4>2. req[s].question \in QuestionIDs
        BY <1>0, <2>8, <4>1 DEF RequestInv, ReliesOn
      <4> DEFINE q == req[s].question
      <4>3. LockedFor(r, q) /\ questions[q] # NoRow /\ ~LockedFor(s, q)
        BY <2>8, <3>2, <4>1 DEF LockedFor, HeldFor
      <4>a. ~(pc[r] \in Locks /\ req[r].question = q)
        BY <2>8, <3>2, <4>3 DEF LockedFor
      <4>4. ~(CommitDelete(r) /\ q = req[r].question)
        BY <2>8, <4>a DEF CommitDelete
      <4>5. ~(DeleteList(r) /\ questions[q].list = req[r].scope)
        BY <4>2, <4>3 DEF DeleteList, ListQuestions
      <4>6. questions'[q] # NoRow
        BY <2>3, <4>2, <4>3, <4>4, <4>5 DEF RowsEffect
      <4>7. ~(pc'[r] \in Locks /\ req'[r].question = q)
        BY <2>9, <4>3, <4>a DEF DeleteRow
      <4>8. ASSUME NEW u \in Requests \ {s}, pc'[u] \in Locks, req'[u].question = q
            PROVE  FALSE
        <5>1. u # r
          BY <4>7, <4>8
        <5>2. pc[u] \in Locks /\ req[u].question = q
          BY <2>1, <4>8, <5>1 DEF OnlyMoves
        <5> QED
          BY <2>8, <4>3, <5>2 DEF LockedFor
      <4> QED
        BY <4>1, <4>6, <4>8
    <3> QED
      BY <3>1, <3>2
  <2>7. \A s \in Requests : HeldFor(s)'
    BY <2>6, <2>8 DEF HeldFor, LockedFor
  <2> QED
    BY <1>0, <2>2, <2>5, <2>7 DEF EditInv
<1> QED
  BY <1>1, <1>2, <1>3, CatalogCases

\* An empty catalog has nobody editing.
LEMMA EditInit == Init => EditInv
BY InitIInv DEF Init, EditInv, RowsInv, EditFor, DropFor, HeldFor

\* A request changes or deletes only questions that its actor may edit, although access
\* is checked in a statement long before the one that writes, and lists, themes and
\* questions are deleted in between.
THEOREM CatalogEditorsOnly == Spec => EditorsOnly
<1> DEFINE Allowed(r, q) ==
              \/ canEditList(req[r].by, questions[q].list)
              \/ /\ req[r].scope = "global" /\ req[r].by \in Admins
                 /\ questions'[q] = [questions[q] EXCEPT !.theme = "none"]
<1>1. ASSUME EditInv, [Next]_vars, NEW r \in Requests, NEW q \in QuestionIDs,
             pc'[r] # pc[r], questions[q] # NoRow, questions'[q] # questions[q]
      PROVE  Allowed(r, q)
  <2>1. PICK s \in Requests : RequestStepOf(s)
    BY <1>1, CatalogCases DEF vars, tables, CreateList
  <2>2. s = r
    BY <1>1, <2>1, OneRequest DEF OnlyMoves, EditInv, IInv
  <2>3. CASE questions[q].list = req[r].scope
    <3>1. Live(req[r].scope) /\ req[r].scope \in Lists
      BY <1>1, <2>3 DEF EditInv, RowsInv, IInv, TypeOK, Row
    <3>2. pc[r] # "idle"
      BY <1>1, <2>1, <2>2 DEF RequestStepOf, LoadEditableList, RequireAdmin, CheckTheme,
           CountQuestions, CreateQuestion, GetQuestion, UpdateQuestion, DeleteRow, NumberRows,
           CommitDelete, CheckOrder, ReorderQuestions, DeleteList, CreateTheme, LoadTheme,
           DeleteTheme, Fail, tables
    <3>3. "global" \notin Lists /\ lists[req[r].scope] # "gone"
      BY <3>1, NamesAssumption DEF Marks, Live, States
    <3>4. canEditList(req[r].by, req[r].scope)
      BY <1>1, <3>1, <3>2, <3>3 DEF EditInv, EditFor
    <3> QED
      BY <2>3, <3>4
  <2>4. CASE questions[q].list # req[r].scope
    BY <1>1, <2>1, <2>2, <2>4, RowsWritten
  <2> QED
    BY <2>3, <2>4
<1>2. EditInv /\ [Next]_vars =>
        [\A r \in Requests, q \in QuestionIDs :
            pc'[r] # pc[r] /\ questions[q] # NoRow /\ questions'[q] # questions[q]
              => Allowed(r, q)]_vars
  BY <1>1
<1>3. EditInv /\ [Next]_vars => EditInv'
  BY EditStep
<1> QED
  BY <1>2, <1>3, EditInit, PTL DEF Spec, EditorsOnly

---------------------------------------------------------------------------
(* Positions                                                               *)

Relies == {"insert", "reorder", "commit"}

\* An order names each of its questions once.
Once(ids) == \A i, j \in DOMAIN ids : ids[i] = ids[j] => i = j

\* An order has its questions by their positions.
Ordered(ids, rows) ==
    \A i, j \in DOMAIN ids : i < j =>
        \/ rows[ids[i]].index < rows[ids[j]].index
        \/ rows[ids[i]].index = rows[ids[j]].index /\ ids[i] < ids[j]

\* What a request at step c with data d has read of a list is so of the list's questions qs.
UpToDate(c, d, qs, rows) ==
    /\ c = "insert" => d.index = Cardinality(qs)
    /\ c = "reorder" => Named(d.order) = qs
    /\ c = "commit" => Named(d.order) = qs \ {d.question} /\ Ordered(d.order, rows)

\* What a request has read of its list is still so, unless it was overtaken.
PlanFor(r) ==
    /\ pc[r] \in {"reorder", "commit"} => Once(req[r].order)
    /\ pc[r] \in Relies /\ r \notin stale =>
          UpToDate(pc[r], req[r], ListQuestions(req[r].scope), questions)

PlanInv == \A r \in Requests : PlanFor(r)

ContiguousInv == EditInv /\ PlanInv /\ ContiguousUnlessOverlapped

\* A step leaves the questions of list k, and their positions, as they are.
SameList(k) ==
    /\ ListQuestions(k)' = ListQuestions(k)
    /\ \A q \in ListQuestions(k) : questions'[q].index = questions[q].index

\* Such a list stays contiguous.
LEMMA SameContiguous ==
    ASSUME NEW k, SameList(k), Contiguous(ListQuestions(k), questions)
    PROVE  Contiguous(ListQuestions(k), questions)'
BY DEF SameList, Contiguous

\* What was read of such a list stays so.
LEMMA SameUpToDate ==
    ASSUME NEW k, SameList(k), NEW c, NEW d, UpToDate(c, d, ListQuestions(k), questions)
    PROVE  UpToDate(c, d, ListQuestions(k)', questions')
<1>1. PICK qs : qs = ListQuestions(k)
  OBVIOUS
<1>2. ListQuestions(k)' = qs /\ \A q \in qs : questions'[q].index = questions[q].index
  BY <1>1 DEF SameList
<1>3. ASSUME c = "commit" PROVE Ordered(d.order, questions')
  <2>1. PICK ids : ids = d.order
    OBVIOUS
  <2>2. Named(ids) = qs \ {d.question} /\ Ordered(ids, questions)
    BY <1>1, <1>3, <2>1 DEF UpToDate
  <2>3. \A i \in DOMAIN ids : questions'[ids[i]].index = questions[ids[i]].index
    BY <1>2, <2>2 DEF Named
  <2>4. Ordered(ids, questions')
    BY <2>2, <2>3 DEF Ordered
  <2> QED
    BY <2>1, <2>4
<1> QED
  BY <1>1, <1>2, <1>3 DEF UpToDate

\* What a request relies on survives a step that leaves its list alone, or that is noted
\* as overtaking it.
LEMMA PlanStays ==
    ASSUME NEW s \in Requests, PlanFor(s), pc'[s] = pc[s], req'[s] = req[s],
           pc[s] \in Relies => s \in stale' \/ (s \notin stale /\ SameList(req[s].scope))
    PROVE  PlanFor(s)'
<1>1. PICK k, c, d : k = req[s].scope /\ c = pc[s] /\ d = req[s]
  OBVIOUS
<1>2. ListQuestions(req[s].scope)' = ListQuestions(k)'
  BY <1>1 DEF ListQuestions
<1>3. c \in {"reorder", "commit"} => Once(d.order)
  BY <1>1 DEF PlanFor
<1>4. ASSUME c \in Relies, s \notin stale' PROVE UpToDate(c, d, ListQuestions(k)', questions')
  <2>1. SameList(k) /\ UpToDate(c, d, ListQuestions(k), questions)
    BY <1>1, <1>4 DEF PlanFor
  <2> QED
    BY <2>1, SameUpToDate
<1>5. pc'[s] = c /\ req'[s] = d
  BY <1>1
<1>6. pc'[s] \in {"reorder", "commit"} => Once(req'[s].order)
  BY <1>3, <1>5
<1>7. pc'[s] \in Relies /\ s \notin stale' =>
        UpToDate(pc'[s], req'[s], ListQuestions(req[s].scope)', questions')
  BY <1>2, <1>4, <1>5
<1>8. (pc[s] \in Relies)' <=> pc'[s] \in Relies
  BY DEF Relies
<1> QED
  BY <1>6, <1>7, <1>8 DEF PlanFor, Once, UpToDate, Named, Ordered

\* A write to list l alone keeps every list contiguous that is not overlapped, if it
\* does so for l.
LEMMA ListWrite ==
    ASSUME ContiguousInv, NEW r \in Requests, OnlyMoves(r), pc'[r] = "idle",
           NEW l, NEW m \in BOOLEAN, Written(r, l, m),
           \A k \in Lists \ {l} : SameList(k),
           l \in Lists \ overlapped' => Contiguous(ListQuestions(l), questions)'
    PROVE  PlanInv' /\ ContiguousUnlessOverlapped'
<1>0. TypeOK /\ RequestInv /\ PlanInv
  BY DEF ContiguousInv, EditInv, IInv
<1>1. /\ \A k \in Lists \ {l} : k \in overlapped' <=> k \in overlapped
      /\ \A s \in Requests \ {r} : s \in stale \/ s \in Relying(l) => s \in stale'
  BY DEF Written
<1>2. ASSUME NEW k \in Lists \ overlapped' PROVE Contiguous(ListQuestions(k), questions)'
  <2>1. CASE k # l
    BY <1>1, <2>1, SameContiguous DEF ContiguousInv, ContiguousUnlessOverlapped
  <2> QED
    BY <2>1
<1>3. ASSUME NEW s \in Requests PROVE PlanFor(s)'
  <2>1. CASE s = r
    BY <2>1 DEF PlanFor, Relies
  <2>2. CASE s # r
    <3>1. pc'[s] = pc[s] /\ req'[s] = req[s] /\ PlanFor(s)
      BY <1>0, <2>2 DEF OnlyMoves, PlanInv
    <3>2. ASSUME pc[s] \in Relies
          PROVE  s \in stale' \/ (s \notin stale /\ SameList(req[s].scope))
      <4>1. req[s].scope \in Lists
        BY <1>0, <3>2 DEF RequestInv, ReliesOn, Relies
      <4>2. req[s].scope = l => s \in Relying(l)
        BY <3>2 DEF Relying, Relies
      <4> QED
        BY <1>1, <2>2, <4>1, <4>2
    <3> QED
      BY <3>1, <3>2, PlanStays
  <2> QED
    BY <2>1, <2>2
<1> QED
  BY <1>2, <1>3 DEF PlanInv, ContiguousUnlessOverlapped

\* A step that leaves every list alone keeps those contiguous that are not overlapped.
LEMMA ListKept ==
    ASSUME ContiguousInv, overlapped' = overlapped, \A k \in Lists : SameList(k),
           NEW P \in SUBSET Requests,
           \A s \in P : pc'[s] = pc[s] /\ req'[s] = req[s] /\ (s \in stale => s \in stale'),
           \A s \in Requests \ P : PlanFor(s)'
    PROVE  PlanInv' /\ ContiguousUnlessOverlapped'
<1>0. TypeOK /\ RequestInv /\ PlanInv
  BY DEF ContiguousInv, EditInv, IInv
<1>1. ASSUME NEW k \in Lists \ overlapped' PROVE Contiguous(ListQuestions(k), questions)'
  BY SameContiguous DEF ContiguousInv, ContiguousUnlessOverlapped
<1>2. ASSUME NEW s \in P PROVE PlanFor(s)'
  <2>1. s \in Requests /\ PlanFor(s)
    BY <1>0 DEF PlanInv
  <2>2. pc[s] \in Relies => req[s].scope \in Lists
    BY <1>0, <2>1 DEF RequestInv, ReliesOn, Relies
  <2> QED
    BY <2>1, <2>2, PlanStays
<1> QED
  BY <1>1, <1>2 DEF PlanInv, ContiguousUnlessOverlapped

\* Reading notes what the list is now.
LEMMA ReadsPlan ==
    ASSUME ContiguousInv, NEW r \in Requests,
           \/ LoadEditableList(r) \/ RequireAdmin(r) \/ CheckTheme(r) \/ CountQuestions(r)
           \/ GetQuestion(r) \/ DeleteRow(r) \/ NumberRows(r) \/ CheckOrder(r) \/ LoadTheme(r)
    PROVE  PlanFor(r)' /\ UNCHANGED <<questions, stale, overlapped>>
<1>0. /\ TypeOK /\ req[r] \in Data /\ HeldFor(r)
      /\ ReliesOn(pc[r], req[r], themes, questions, made)
  BY DEF ContiguousInv, EditInv, IInv, TypeOK, RequestInv
<1>1. UNCHANGED <<questions, stale, overlapped>>
  BY DEF LoadEditableList, RequireAdmin, CheckTheme, CountQuestions, GetQuestion, DeleteRow,
         NumberRows, CheckOrder, LoadTheme, tables, history
<1>2. ASSUME NEW c, NEW d, NEW l, l = d.scope, pc'[r] = c, req'[r] = d,
             c \in {"reorder", "commit"} => Once(d.order),
             c \in Relies => UpToDate(c, d, ListQuestions(l), questions)
      PROVE  PlanFor(r)'
  <2>1. ListQuestions(req[r].scope)' = ListQuestions(l)
    BY <1>1, <1>2 DEF ListQuestions
  <2>2. pc'[r] \in {"reorder", "commit"} => Once(req'[r].order)
    BY <1>2
  <2>3. pc'[r] \in Relies => UpToDate(pc'[r], req'[r], ListQuestions(req[r].scope)', questions')
    BY <1>1, <1>2, <2>1
  <2>4. (pc[r] \in Relies)' <=> pc'[r] \in Relies
    BY DEF Relies
  <2> QED
    BY <2>2, <2>3, <2>4 DEF PlanFor, Once, UpToDate, Named, Ordered
<1>3. CASE \/ LoadEditableList(r) \/ RequireAdmin(r) \/ CheckTheme(r) \/ GetQuestion(r)
           \/ DeleteRow(r) \/ LoadTheme(r)
  <2>1. pc'[r] \notin Relies
    BY <1>0, <1>3 DEF LoadEditableList, RequireAdmin, CheckTheme, GetQuestion, DeleteRow, LoadTheme,
                      Goto, TypeOK, Relies
  <2> QED
    BY <1>1, <2>1 DEF PlanFor, Relies
<1>4. CASE CountQuestions(r)
  <2>1. PICK d, l : d = req'[r] /\ l = req[r].scope
    OBVIOUS
  <2>2. pc'[r] = "insert" /\ d.scope = l /\ d.index = Cardinality(ListQuestions(l))
    BY <1>0, <1>4, <2>1 DEF CountQuestions, Goto, TypeOK, Data
  <2>3. UpToDate("insert", d, ListQuestions(l), questions)
    BY <2>2 DEF UpToDate
  <2> QED
    BY <1>1, <1>2, <2>1, <2>2, <2>3
<1>5. CASE CheckOrder(r)
  <2>0. PICK l, qs : l = req[r].scope /\ qs = ListQuestions(l)
    OBVIOUS
  <2>1. PICK ids \in Orders : /\ isPermutation(ids, qs)
                              /\ req' = [req EXCEPT ![r] = [req[r] EXCEPT !.order = ids]]
    BY <1>5, <2>0 DEF CheckOrder
  <2>a. PICK d : d = req'[r]
    OBVIOUS
  <2>2. pc'[r] = "reorder" /\ d.scope = l /\ d.order = ids
    BY <1>0, <1>5, <2>0, <2>1, <2>a DEF CheckOrder, Goto, TypeOK, Data
  <2>3. PICK n \in 0 .. MaxQuestions : ids \in [1 .. n -> QuestionIDs]
    BY <2>1 DEF Orders
  <2>4. DOMAIN ids = 1 .. n /\ IsFiniteSet(1 .. n) /\ n \in Nat
    BY <2>3, FS_Interval, BoundsAssumption
  <2>5. Cardinality(1 .. n) = Cardinality(qs) /\ qs = {ids[i] : i \in 1 .. n}
    BY <2>1, <2>4 DEF isPermutation
  <2>6. ids \in Surjection(1 .. n, qs)
    BY <2>3, <2>5 DEF Surjection
  <2>7. ids \in Injection(1 .. n, qs)
    BY <2>4, <2>5, <2>6, FS_SurjSameCardinalityImpliesInj
  <2>8. Once(ids)
    BY <2>4, <2>7 DEF Injection, IsInjective, Once
  <2>9. Named(ids) = qs
    BY <2>4, <2>5 DEF Named
  <2>10. UpToDate("reorder", d, ListQuestions(l), questions)
    BY <2>0, <2>2, <2>9 DEF UpToDate
  <2> QED
    BY <1>1, <1>2, <2>2, <2>8, <2>10, <2>a
<1>6. CASE NumberRows(r)
  <2>0. PICK l, q, left : /\ l = req[r].scope /\ q = req[r].question
                          /\ left = ListQuestions(questions[q].list) \ {q}
    OBVIOUS
  <2>1. PICK ids \in Orders :
           /\ Named(ids) = left
           /\ \A i, j \in DOMAIN ids : i < j => Before(ids[i], ids[j])
           /\ req' = [req EXCEPT ![r] = [req[r] EXCEPT !.order = ids]]
    BY <1>6, <2>0 DEF NumberRows
  <2>2. PICK d : d = req'[r]
    OBVIOUS
  <2>3. pc'[r] = "commit" /\ d.scope = l /\ d.order = ids /\ d.question = q
    BY <1>0, <1>6, <2>0, <2>1, <2>2 DEF NumberRows, Goto, TypeOK, Data
  <2>4. questions[q].list = l
    BY <1>0, <1>6, <2>0 DEF NumberRows, ReliesOn, HeldFor
  <2>5. Ordered(ids, questions)
    BY <2>1 DEF Ordered, Before
  <2>6. UpToDate("commit", d, ListQuestions(l), questions)
    BY <2>0, <2>1, <2>3, <2>4, <2>5 DEF UpToDate
  <2>7. Once(ids)
    <3>1. \A p \in Named(ids) : p \in Int /\ questions[p].index \in Int
      <4>1. left \in SUBSET ListQuestions(l)
        BY <2>0, <2>4
      <4> QED
        BY <1>0, <2>1, <4>1, ListFacts
    <3>2. PICK n \in 0 .. MaxQuestions : ids \in [1 .. n -> QuestionIDs]
      BY <2>1 DEF Orders
    <3>3. \A i \in DOMAIN ids : i \in Int /\ ids[i] \in Named(ids)
      BY <3>2 DEF Named
    <3>4. \A i, j \in DOMAIN ids : i < j => ids[i] # ids[j]
      BY <2>5, <3>1, <3>3 DEF Ordered
    <3> QED
      BY <3>3, <3>4 DEF Once
  <2> QED
    BY <1>1, <1>2, <2>2, <2>3, <2>6, <2>7
<1> QED
  BY <1>1, <1>3, <1>4, <1>5, <1>6

\* An added question comes last, if the list has not changed since it was counted.
LEMMA CreateContiguous ==
    ASSUME ContiguousInv, NEW r \in Requests, CreateQuestion(r), OnlyMoves(r)
    PROVE  PlanInv' /\ ContiguousUnlessOverlapped'
<1>0. TypeOK /\ CountInv /\ req[r] \in Data /\ pc[r] = "insert" /\ RequestInv /\ PlanFor(r)
  BY DEF ContiguousInv, EditInv, IInv, TypeOK, CreateQuestion, PlanInv
<1>10. PICK l : l = req[r].scope
  OBVIOUS
<1>11. PICK q, row : /\ q = made + 1
                    /\ row = [list |-> l, index |-> req[r].index, theme |-> req[r].theme]
  OBVIOUS
<1>1. /\ questions' = [questions EXCEPT ![q] = row]
      /\ Written(r, l, FALSE) /\ Answered(r)
  BY <1>10, <1>11 DEF CreateQuestion
<1>2. q \in QuestionIDs /\ questions[q] = NoRow /\ q \notin ListQuestions(l)
  BY <1>0, <1>11, BoundsAssumption DEF CreateQuestion, CountInv, TypeOK, QuestionIDs, ListQuestions
<1>3. row # NoRow /\ row.list = l /\ row.index = req[r].index
  <2>1. l \in Lists /\ req[r].theme \in Themes \cup {"none"}
    BY <1>0, <1>10 DEF ReliesOn, Data, RequestInv
  <2>2. req[r].index \in 0 .. MaxQuestions - 1
    BY <1>0, BoundsAssumption DEF CreateQuestion, CountInv, TypeOK, Data
  <2>3. row \in Row
    BY <1>11, <2>1, <2>2 DEF Row
  <2> QED
    BY <1>11, <2>3, NoRowAssumption
<1>4. /\ questions'[q] = row
      /\ \A p \in QuestionIDs : p # q => questions'[p] = questions[p]
  BY <1>0, <1>1, <1>2 DEF TypeOK
<1>5. \A k \in Lists \ {l} : SameList(k)
  <2> TAKE k \in Lists \ {l}
  <2>1. \A p \in QuestionIDs : p \in ListQuestions(k)' <=> p \in ListQuestions(k)
    BY <1>2, <1>3, <1>4 DEF ListQuestions
  <2>2. ListQuestions(k)' = ListQuestions(k)
    BY <2>1 DEF ListQuestions
  <2>3. q \notin ListQuestions(k)
    BY <1>2 DEF ListQuestions
  <2> QED
    BY <1>4, <2>2, <2>3 DEF SameList, ListQuestions
<1>6. ASSUME l \in Lists \ overlapped' PROVE Contiguous(ListQuestions(l), questions)'
  <2>0. l \notin overlapped /\ r \notin stale
    BY <1>1, <1>6 DEF Written
  <2>a. PICK S, n : S = ListQuestions(l) /\ n = Cardinality(S)
    OBVIOUS
  <2>1. req[r].index = n
    BY <1>0, <1>10, <2>0, <2>a DEF PlanFor, UpToDate, Relies
  <2>2. {questions[p].index : p \in S} = 0 .. n - 1
    BY <1>6, <2>0, <2>a DEF ContiguousInv, ContiguousUnlessOverlapped, Contiguous
  <2>3. IsFiniteSet(S) /\ n \in Nat
    BY <1>0, <2>a, ListFacts
  <2>4. \A p \in QuestionIDs : p \in ListQuestions(l)' <=> p \in S \/ p = q
    BY <1>2, <1>3, <1>4, <2>a DEF ListQuestions
  <2>5. ListQuestions(l)' = S \cup {q}
    BY <1>2, <2>4, <2>a DEF ListQuestions
  <2>6. Cardinality(S \cup {q}) = n + 1
    BY <1>2, <2>3, <2>a, FS_AddElement
  <2>7. \A p \in S : questions'[p].index = questions[p].index
    BY <1>2, <1>4, <2>a DEF ListQuestions
  <2>8. {questions'[p].index : p \in S \cup {q}} = (0 .. n - 1) \cup {n}
    BY <1>3, <1>4, <2>1, <2>2, <2>7
  <2>9. (0 .. n - 1) \cup {n} = 0 .. (n + 1) - 1
    BY <2>3
  <2>10. Contiguous(S \cup {q}, questions')
    BY <2>6, <2>8, <2>9 DEF Contiguous
  <2> QED
    BY <2>5, <2>10
<1>7. pc'[r] = "idle"
  BY <1>0, <1>1 DEF Answered, Goto, TypeOK
<1> QED
  BY <1>1, <1>5, <1>6, <1>7, ListWrite

\* The questions that an order places have the positions 0..n-1.
LEMMA PlacedContiguous ==
    ASSUME NEW ids \in Orders, Once(ids), NEW S, \A i \in DOMAIN ids : ids[i] \in S,
           NEW rows, NEW l, \A p \in S : Placed(p, rows[p], ids, l)
    PROVE  Contiguous(S, rows)
<1>1. PICK n \in 0 .. MaxQuestions : ids \in [1 .. n -> QuestionIDs]
  BY DEF Orders
<1>2. n \in Nat /\ DOMAIN ids = 1 .. n
  BY <1>1, BoundsAssumption
<1>3. PICK f : f = [p \in S |-> rows[p].index + 1]
  OBVIOUS
<1>4. ASSUME NEW p \in S
      PROVE  /\ rows[p].index \in Int /\ rows[p].index + 1 \in 1 .. n
             /\ ids[rows[p].index + 1] = p
  <2>1. /\ rows[p].index \in 0 .. MaxQuestions - 1
        /\ rows[p].index + 1 \in DOMAIN ids /\ ids[rows[p].index + 1] = p
    BY DEF Placed
  <2> QED
    BY <1>2, <2>1, BoundsAssumption
<1>5. \A p \in S : f[p] \in 1 .. n /\ ids[f[p]] = p /\ f[p] - 1 = rows[p].index
  BY <1>3, <1>4
<1>6. /\ ids \in [1 .. n -> S] /\ f \in [S -> 1 .. n]
      /\ \A p \in S : ids[f[p]] = p
      /\ \A i, j \in 1 .. n : ids[i] = ids[j] => i = j
  BY <1>1, <1>2, <1>3, <1>5 DEF Once
<1>7. /\ Cardinality(S) = n
      /\ \A p \in S : f[p] - 1 \in 0 .. n - 1
      /\ \A k \in 0 .. n - 1 : ids[k + 1] \in S /\ f[ids[k + 1]] - 1 = k
  BY <1>2, <1>6, OrderContiguous
<1>8. /\ \A p \in S : rows[p].index \in 0 .. n - 1
      /\ \A k \in 0 .. n - 1 : \E p \in S : rows[p].index = k
  BY <1>5, <1>7
<1> QED
  BY <1>7, <1>8 DEF Contiguous

\* A deletion numbers what is left, unless it was overtaken.
LEMMA CommitContiguous ==
    ASSUME ContiguousInv, NEW r \in Requests, CommitDelete(r), OnlyMoves(r)
    PROVE  PlanInv' /\ ContiguousUnlessOverlapped'
<1>0. /\ TypeOK /\ pc[r] = "commit" /\ HeldFor(r) /\ PlanFor(r) /\ req[r] \in Data
      /\ ReliesOn(pc[r], req[r], themes, questions, made)
  BY DEF ContiguousInv, EditInv, IInv, CommitDelete, RequestInv, PlanInv, TypeOK
<1>1. /\ req[r].question \in QuestionIDs /\ questions[req[r].question] # NoRow
      /\ questions[req[r].question].list = req[r].scope
  BY <1>0 DEF ReliesOn, HeldFor
<1>2. PICK q \in QuestionIDs, ids \in Orders : q = req[r].question /\ ids = req[r].order
  BY <1>0, <1>1 DEF Data
<1>3. PICK l, left : l = questions[q].list /\ left = ListQuestions(l) \ {q}
  OBVIOUS
<1>4. /\ left \in SUBSET ListQuestions(l) /\ q \notin left
      /\ questions' = [p \in QuestionIDs |-> questions'[p]]
      /\ questions'[q] = NoRow
      /\ \A p \in QuestionIDs : p # q /\ p \notin left \cap Named(ids) =>
                                  questions'[p] = questions[p]
      /\ \A p \in left \cap Named(ids) : Placed(p, questions'[p], ids, l)
  <2>1. TypeOK
    BY <1>0
  <2> QED
    BY <1>2, <1>3, <2>1, CommitRows
<1>5. l = req[r].scope /\ questions[q] # NoRow
  BY <1>1, <1>2, <1>3
<1>6. PICK m \in BOOLEAN : m = (Named(ids) = left)
  OBVIOUS
<1>7. Written(r, l, m) /\ pc'[r] = "idle"
  BY <1>0, <1>2, <1>3, <1>5, <1>6 DEF CommitDelete, Answered, Goto, TypeOK
<1>8. /\ \A p \in left : questions[p] # NoRow /\ questions[p].list = l /\ p \in QuestionIDs
      /\ \A p \in QuestionIDs : questions[p] # NoRow /\ questions[p].list = l => p \in left \/ p = q
  BY <1>3 DEF ListQuestions
<1>9. \A p \in QuestionIDs : p # q =>
        \/ questions'[p] = questions[p]
        \/ p \in left /\ questions'[p] # NoRow /\ questions'[p].list = l
  BY <1>4, NoRowAssumption DEF Placed
<1>10. \A k \in Lists \ {l} : SameList(k)
  <2> TAKE k \in Lists \ {l}
  <2>1. \A p \in QuestionIDs : p \in ListQuestions(k)' <=> p \in ListQuestions(k)
    BY <1>3, <1>4, <1>5, <1>8, <1>9 DEF ListQuestions
  <2>2. ListQuestions(k)' = ListQuestions(k)
    BY <2>1 DEF ListQuestions
  <2>3. \A p \in ListQuestions(k) : questions'[p] = questions[p]
    BY <1>3, <1>8, <1>9 DEF ListQuestions
  <2> QED
    BY <2>2, <2>3 DEF SameList
<1>11. ListQuestions(l)' = left
  <2>1. \A p \in QuestionIDs : questions'[p] # NoRow /\ questions'[p].list = l <=> p \in left
    BY <1>4, <1>8, <1>9
  <2> QED
    BY <1>8, <2>1 DEF ListQuestions
<1>12. ASSUME l \in Lists \ overlapped' PROVE Contiguous(ListQuestions(l), questions)'
  <2>1. Named(ids) = left
    <3>1. CASE r \in stale
      BY <1>6, <1>7, <1>12, <3>1 DEF Written
    <3>2. CASE r \notin stale
      BY <1>0, <1>2, <1>3, <1>5, <3>2 DEF PlanFor, UpToDate, Relies
    <3> QED
      BY <3>1, <3>2
  <2>2. PICK rows : rows = questions'
    OBVIOUS
  <2>3. Once(ids) /\ \A p \in left : Placed(p, rows[p], ids, l)
    BY <1>0, <1>2, <1>4, <2>1, <2>2 DEF PlanFor
  <2>4. Contiguous(left, rows)
    <3>1. \A i \in DOMAIN ids : ids[i] \in left
      BY <2>1 DEF Named
    <3> QED
      BY <2>3, <3>1, PlacedContiguous
  <2> QED
    BY <1>11, <2>2, <2>4
<1> QED
  BY <1>7, <1>10, <1>12, ListWrite

\* A reordering numbers the list, unless it was overtaken.
LEMMA ReorderContiguous ==
    ASSUME ContiguousInv, NEW r \in Requests, ReorderQuestions(r), OnlyMoves(r)
    PROVE  PlanInv' /\ ContiguousUnlessOverlapped'
<1>0. TypeOK /\ pc[r] = "reorder" /\ PlanFor(r) /\ req[r] \in Data
  BY DEF ContiguousInv, EditInv, IInv, ReorderQuestions, PlanInv, TypeOK
<1>1. PICK ids \in Orders : ids = req[r].order
  BY <1>0 DEF Data
<1>2. PICK l, qs : l = req[r].scope /\ qs = ListQuestions(l)
  OBVIOUS
<1>3. /\ questions' = [p \in QuestionIDs |-> questions'[p]]
      /\ \A p \in QuestionIDs : p \notin qs \cap Named(ids) => questions'[p] = questions[p]
      /\ \A p \in qs \cap Named(ids) : Placed(p, questions'[p], ids, l)
  BY <1>0, <1>1, <1>2, ReorderRows
<1>4. PICK m \in BOOLEAN : m = (Named(ids) = qs)
  OBVIOUS
<1>5. Written(r, l, m) /\ pc'[r] = "idle"
  BY <1>0, <1>1, <1>2, <1>4 DEF ReorderQuestions, Answered, Goto, TypeOK
<1>6. \A p \in QuestionIDs :
        \/ questions'[p] = questions[p]
        \/ /\ questions[p] # NoRow /\ questions[p].list = l
           /\ questions'[p] # NoRow /\ questions'[p].list = l
  BY <1>3, NoRowAssumption DEF Placed
<1>7. \A k : ListQuestions(k)' = ListQuestions(k)
  <2> TAKE k
  <2>1. \A p \in QuestionIDs : p \in ListQuestions(k)' <=> p \in ListQuestions(k)
    BY <1>6 DEF ListQuestions
  <2> QED
    BY <2>1 DEF ListQuestions
<1>8. \A k \in Lists \ {l} : SameList(k)
  <2> TAKE k \in Lists \ {l}
  <2>1. \A p \in ListQuestions(k) : questions'[p] = questions[p]
    BY <1>6 DEF ListQuestions
  <2> QED
    BY <1>7, <2>1 DEF SameList
<1>9. ASSUME l \in Lists \ overlapped' PROVE Contiguous(ListQuestions(l), questions)'
  <2>1. Named(ids) = qs
    <3>1. CASE r \in stale
      BY <1>4, <1>5, <1>9, <3>1 DEF Written
    <3>2. CASE r \notin stale
      BY <1>0, <1>1, <1>2, <3>2 DEF PlanFor, UpToDate, Relies
    <3> QED
      BY <3>1, <3>2
  <2>2. PICK rows : rows = questions'
    OBVIOUS
  <2>3. Once(ids) /\ \A p \in qs : Placed(p, rows[p], ids, l)
    BY <1>0, <1>1, <1>3, <2>1, <2>2 DEF PlanFor
  <2>4. Contiguous(qs, rows)
    <3>1. \A i \in DOMAIN ids : ids[i] \in qs
      BY <2>1 DEF Named
    <3> QED
      BY <2>3, <3>1, PlacedContiguous
  <2>5. ListQuestions(l)' = qs
    BY <1>2, <1>7
  <2> QED
    BY <2>2, <2>4, <2>5
<1> QED
  BY <1>5, <1>8, <1>9, ListWrite

\* A list that is deleted has no positions, and the others stay.
LEMMA DropContiguous ==
    ASSUME ContiguousInv, NEW r \in Requests, DeleteList(r), OnlyMoves(r)
    PROVE  PlanInv' /\ ContiguousUnlessOverlapped'
<1>0. TypeOK
  BY DEF ContiguousInv, EditInv, IInv
<1>1. PICK l : l = req[r].scope
  OBVIOUS
<1>2. /\ Answered(r) /\ Written(r, l, TRUE)
      /\ questions' = [q \in QuestionIDs |-> IF q \in ListQuestions(l) THEN NoRow ELSE questions[q]]
  BY <1>1 DEF DeleteList
<1>3. pc'[r] = "idle"
  BY <1>0, <1>2 DEF Answered, Goto, TypeOK
<1>4. ListQuestions(l)' = {}
  BY <1>2 DEF ListQuestions
<1>5. Contiguous(ListQuestions(l), questions)'
  <2>1. Cardinality({}) = 0
    BY FS_EmptySet
  <2>2. Contiguous({}, questions')
    BY <2>1 DEF Contiguous
  <2> QED
    BY <1>4, <2>2
<1>6. \A k \in Lists \ {l} : SameList(k)
  <2> TAKE k \in Lists \ {l}
  <2>1. \A q \in QuestionIDs : q \in ListQuestions(k) => questions'[q] = questions[q]
    BY <1>2 DEF ListQuestions
  <2>2. \A q \in QuestionIDs : q \in ListQuestions(k)' <=> q \in ListQuestions(k)
    BY <1>2 DEF ListQuestions
  <2>3. ListQuestions(k)' = ListQuestions(k)
    BY <2>2 DEF ListQuestions
  <2> QED
    BY <2>1, <2>3 DEF SameList, ListQuestions
<1> QED
  BY <1>2, <1>3, <1>5, <1>6, ListWrite

\* A step that keeps the rows, but for their themes, keeps every list as it is.
LEMMA RowsKept ==
    ASSUME \A q \in QuestionIDs :
              /\ questions'[q] = NoRow <=> questions[q] = NoRow
              /\ questions[q] # NoRow => /\ questions'[q].list = questions[q].list
                                         /\ questions'[q].index = questions[q].index,
           NEW k
    PROVE  SameList(k)
<1>1. \A q \in QuestionIDs : q \in ListQuestions(k)' <=> q \in ListQuestions(k)
  BY DEF ListQuestions
<1>2. ListQuestions(k)' = ListQuestions(k)
  BY <1>1 DEF ListQuestions
<1> QED
  BY <1>2 DEF SameList, ListQuestions

\* Every step keeps the lists contiguous that are not overlapped.
LEMMA ContiguousStep ==
    ASSUME ContiguousInv, [Next]_vars
    PROVE  PlanInv' /\ ContiguousUnlessOverlapped'
<1>0. TypeOK
  BY DEF ContiguousInv, EditInv, IInv
<1>1. ASSUME UNCHANGED <<questions, pc, req, stale, overlapped>>
      PROVE  PlanInv' /\ ContiguousUnlessOverlapped'
  <2>1. \A k \in Lists : SameList(k)
    BY <1>1, RowsKept
  <2> QED
    BY <1>1, <2>1, ListKept
<1>2. ASSUME NEW l \in Lists, CreateList(l) PROVE PlanInv' /\ ContiguousUnlessOverlapped'
  BY <1>1, <1>2 DEF CreateList, history
<1>3. ASSUME NEW r \in Requests, RequestStepOf(r) PROVE PlanInv' /\ ContiguousUnlessOverlapped'
  <2>0. OnlyMoves(r)
    BY <1>0, <1>3, OneRequest
  <2>1. ASSUME PlanFor(r)', overlapped' = overlapped, stale' = stale \/ stale' = stale \ {r},
               \A k \in Lists : SameList(k)
        PROVE  PlanInv' /\ ContiguousUnlessOverlapped'
    <3>1. PICK P : P = Requests \ {r}
      OBVIOUS
    <3>2. \A s \in P : pc'[s] = pc[s] /\ req'[s] = req[s] /\ (s \in stale => s \in stale')
      BY <2>0, <2>1, <3>1 DEF OnlyMoves
    <3>3. P \in SUBSET Requests /\ \A s \in Requests \ P : PlanFor(s)'
      BY <2>1, <3>1
    <3> QED
      BY <2>1, <3>2, <3>3, ListKept
  <2>2. ASSUME Answered(r) PROVE PlanFor(r)'
    <3>1. pc'[r] = "idle"
      BY <1>0, <2>2 DEF Answered, Goto, TypeOK
    <3> QED
      BY <3>1 DEF PlanFor, Relies
  <2>3. CASE \/ LoadEditableList(r) \/ RequireAdmin(r) \/ CheckTheme(r) \/ CountQuestions(r)
             \/ GetQuestion(r) \/ DeleteRow(r) \/ NumberRows(r) \/ CheckOrder(r) \/ LoadTheme(r)
    <3>1. PlanFor(r)' /\ UNCHANGED <<questions, stale, overlapped>>
      BY <2>3, ReadsPlan
    <3>2. \A k \in Lists : SameList(k)
      BY <3>1, RowsKept
    <3> QED
      BY <2>1, <3>1, <3>2
  <2>4. CASE UpdateQuestion(r) \/ CreateTheme(r) \/ DeleteTheme(r) \/ Fail(r)
    <3>1. Answered(r) /\ overlapped' = overlapped /\ (stale' = stale \/ stale' = stale \ {r})
      BY <2>4 DEF UpdateQuestion, CreateTheme, DeleteTheme, Fail, history
    <3>2. ASSUME NEW q \in QuestionIDs
          PROVE  /\ questions'[q] = NoRow <=> questions[q] = NoRow
                 /\ questions[q] # NoRow => /\ questions'[q].list = questions[q].list
                                            /\ questions'[q].index = questions[q].index
      <4>1. CASE questions'[q] = questions[q]
        BY <4>1
      <4>2. CASE questions'[q] # questions[q]
        <5>1. questions[q] # NoRow /\ \E t \in Themes \cup {"none"} :
                 questions'[q] = [questions[q] EXCEPT !.theme = t]
          <6>1. CASE UpdateQuestion(r)
            <7>1. req[r].theme \in Themes \cup {"none"}
              BY <1>0 DEF TypeOK, Data
            <7> QED
              BY <1>0, <4>2, <6>1, <7>1 DEF UpdateQuestion, TypeOK
          <6>2. CASE DeleteTheme(r)
            BY <4>2, <6>2 DEF DeleteTheme
          <6>3. ~(CreateTheme(r) \/ Fail(r))
            BY <4>2 DEF CreateTheme, Fail, tables
          <6> QED
            BY <2>4, <6>1, <6>2, <6>3
        <5>2. questions[q] \in Row
          BY <1>0, <5>1 DEF TypeOK
        <5>3. questions'[q] \in Row /\ questions'[q].list = questions[q].list
              /\ questions'[q].index = questions[q].index
          BY <5>1, <5>2 DEF Row
        <5> QED
          BY <5>1, <5>3, NoRowAssumption
      <4> QED
        BY <4>1, <4>2
    <3>3. \A k \in Lists : SameList(k)
      BY <3>2, RowsKept
    <3> QED
      BY <2>1, <2>2, <3>1, <3>3
  <2> QED
    BY <1>3, <2>0, <2>3, <2>4, CreateContiguous, CommitContiguous, ReorderContiguous,
       DropContiguous DEF RequestStepOf
<1> QED
  BY <1>1, <1>2, <1>3, CatalogCases DEF vars, tables, history

\* An empty catalog has no positions.
LEMMA ContiguousInit == Init => ContiguousInv
<1> SUFFICES ASSUME Init PROVE ContiguousInv
  OBVIOUS
<1>1. EditInv
  BY EditInit
<1>2. PlanInv
  BY DEF Init, PlanInv, PlanFor, Relies
<1>3. ASSUME NEW l \in Lists PROVE Contiguous(ListQuestions(l), questions)
  <2>1. ListQuestions(l) = {}
    BY DEF Init, ListQuestions
  <2>2. Cardinality({}) = 0
    BY FS_EmptySet
  <2> QED
    BY <2>1, <2>2 DEF Contiguous
<1> QED
  BY <1>1, <1>2, <1>3 DEF ContiguousInv, ContiguousUnlessOverlapped

\* The positions in a list are 0..n-1 unless a request has written it by what it had read
\* before another's write, and nobody has numbered all of it since: no other order of the
\* statements loses that.
THEOREM CatalogContiguous == Spec => []ContiguousUnlessOverlapped
<1>1. ContiguousInv /\ [Next]_vars => ContiguousInv'
  BY EditStep, ContiguousStep DEF ContiguousInv
<1>2. ContiguousInv => ContiguousUnlessOverlapped
  BY DEF ContiguousInv
<1> QED
  BY <1>1, <1>2, ContiguousInit, PTL DEF Spec

\* A deletion never gives two of the questions it has numbered the same position; unless
\* another request has written the list since it numbered them, they are all that are left,
\* have 0..n-1 and keep their order.
THEOREM CatalogDeleteKeepsOrder == Spec => DeleteKeepsOrder
<1> DEFINE Kept(r) ==
              /\ \A p, q \in Remaining(r) \cap Named(req[r].order) :
                    p # q => questions'[p].index # questions'[q].index
              /\ r \notin stale =>
                    /\ Contiguous(Remaining(r), questions')
                    /\ \A p, q \in Remaining(r) : questions[p].index < questions[q].index =>
                                                     questions'[p].index < questions'[q].index
<1>1. ASSUME ContiguousInv, [Next]_vars, NEW r \in Requests, Deletes(r)
      PROVE  Kept(r)
  <2>0. /\ TypeOK /\ HeldFor(r) /\ PlanFor(r) /\ req[r] \in Data /\ pc[r] = "commit"
        /\ ReliesOn(pc[r], req[r], themes, questions, made)
    BY <1>1 DEF ContiguousInv, EditInv, IInv, RequestInv, PlanInv, TypeOK, Deletes
  <2>1. CommitDelete(r)
    <3>1. pc[r] = "commit" /\ pc'[r] = "idle" /\ questions' # questions
      BY <1>1 DEF Deletes
    <3>2. PICK s \in Requests : RequestStepOf(s)
      BY <1>1, <3>1, CatalogCases DEF vars, tables, CreateList
    <3>3. s = r
      BY <2>0, <3>1, <3>2, OneRequest DEF OnlyMoves
    <3> QED
      BY <3>1, <3>2, <3>3 DEF RequestStepOf, LoadEditableList, RequireAdmin, CheckTheme,
           CountQuestions, CreateQuestion, GetQuestion, UpdateQuestion, DeleteRow, NumberRows,
           CheckOrder, ReorderQuestions, DeleteList, CreateTheme, LoadTheme, DeleteTheme, Fail, tables
  <2>2. /\ req[r].question \in QuestionIDs /\ questions[req[r].question] # NoRow
        /\ questions[req[r].question].list = req[r].scope
    BY <2>0 DEF ReliesOn, HeldFor
  <2>3. PICK d \in QuestionIDs, ids \in Orders : d = req[r].question /\ ids = req[r].order
    BY <2>0, <2>2 DEF Data
  <2>4. PICK l, left : l = questions[d].list /\ left = ListQuestions(l) \ {d}
    OBVIOUS
  <2>5. /\ left \in SUBSET ListQuestions(l) /\ d \notin left
        /\ questions' = [p \in QuestionIDs |-> questions'[p]]
        /\ questions'[d] = NoRow
        /\ \A p \in QuestionIDs : p # d /\ p \notin left \cap Named(ids) =>
                                    questions'[p] = questions[p]
        /\ \A p \in left \cap Named(ids) : Placed(p, questions'[p], ids, l)
    <3> HIDE DEF Kept
    <3>1. TypeOK
      BY <2>0
    <3>2. ids = req[r].order /\ d = req[r].question /\ l = questions[d].list
      BY <2>3, <2>4
    <3>3. left = ListQuestions(l) \ {d}
      BY <2>4
    <3> QED
      BY <2>1, <3>1, <3>2, <3>3, CommitRows
  <2>6. Remaining(r) = left /\ req[r].order = ids
    BY <2>3, <2>4 DEF Remaining
  <2>7. PICK rows : rows = questions'
    OBVIOUS
  <2>8. \A p \in left \cap Named(ids) :
          /\ rows[p].index \in 0 .. MaxQuestions - 1
          /\ rows[p].index + 1 \in DOMAIN ids /\ ids[rows[p].index + 1] = p
    BY <2>5, <2>7 DEF Placed
  <2>9. \A p, q \in left \cap Named(ids) : p # q => rows[p].index # rows[q].index
    BY <2>8
  <2>10. ASSUME r \notin stale
         PROVE  /\ Contiguous(left, rows)
                /\ \A p, q \in left : questions[p].index < questions[q].index =>
                                         rows[p].index < rows[q].index
    <3>1. Once(ids) /\ Named(ids) = left /\ Ordered(ids, questions)
      <4>1. l = req[r].scope
        BY <2>2, <2>3, <2>4
      <4>2. UpToDate("commit", req[r], ListQuestions(l), questions)
        BY <2>0, <2>10, <4>1 DEF PlanFor, Relies
      <4> QED
        BY <2>0, <2>3, <2>4, <4>2 DEF PlanFor, UpToDate
    <3>2. Contiguous(left, rows)
      <4>1. \A i \in DOMAIN ids : ids[i] \in left
        BY <3>1 DEF Named
      <4>2. \A p \in left : Placed(p, rows[p], ids, l)
        BY <2>5, <2>7, <3>1
      <4> QED
        BY <3>1, <4>1, <4>2, PlacedContiguous
    <3>3. ASSUME NEW p \in left, NEW q \in left, questions[p].index < questions[q].index
          PROVE  rows[p].index < rows[q].index
      <4>1. questions[p].index \in Int /\ questions[q].index \in Int
        BY <2>0, <2>5, ListFacts
      <4>2. PICK i, j : i = rows[p].index + 1 /\ j = rows[q].index + 1
        OBVIOUS
      <4>3. i \in DOMAIN ids /\ j \in DOMAIN ids /\ ids[i] = p /\ ids[j] = q
        BY <2>8, <3>1, <4>2
      <4>4. ~(j < i)
        BY <3>1, <3>3, <4>1, <4>3 DEF Ordered
      <4>5. i # j
        BY <3>3, <4>1, <4>3
      <4>6. rows[p].index \in Int /\ rows[q].index \in Int
        BY <2>8, <3>1, BoundsAssumption
      <4> QED
        BY <4>2, <4>4, <4>5, <4>6
    <3> QED
      BY <3>2, <3>3
  <2> QED
    BY <2>6, <2>7, <2>9, <2>10
<1>2. ContiguousInv /\ [Next]_vars => [\A r \in Requests : Deletes(r) => Kept(r)]_vars
  BY <1>1
<1>3. ContiguousInv /\ [Next]_vars => ContiguousInv'
  BY EditStep, ContiguousStep DEF ContiguousInv
<1> QED
  BY <1>2, <1>3, ContiguousInit, PTL DEF Spec, DeleteKeepsOrder
=============================================================================
